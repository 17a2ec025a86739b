------------------------------ MODULE MCStores ------------------------------
(***************************************************************************)
(* Two mints, two keysets of the first; two proofs, one of them locked.    *)
(***************************************************************************)
EXTENDS Stores

MCMintOf == [id \in {"k1", "k2"} |-> "mint1"]
=============================================================================
