--------------------------- MODULE MCMintKeysets ---------------------------
(***************************************************************************)
(* Two keysets of one unit and one of another.                             *)
(***************************************************************************)
EXTENDS MintKeysets

CONSTANTS k1, k2, k3

MCUnitOf == [k \in {k1, k2, k3} |-> IF k = k3 THEN "usd" ELSE "sat"]
=============================================================================
