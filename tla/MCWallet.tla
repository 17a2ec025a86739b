------------------------------ MODULE MCWallet ------------------------------
(***************************************************************************)
(* A wallet, a mint that rotates its keyset once, one quote and one set of *)
(* notes to mint, one invoice to melt, and a token of two entries that     *)
(* another wallet sends.                                                   *)
(***************************************************************************)
EXTENDS Wallet

MCChain == <<"k1", "k2">>
MCAmountOf == [q \in {"q1", "n1", "m1"} |-> CASE q = "q1" -> 3 [] q = "n1" -> 2 [] q = "m1" -> 1]
MCExpiryOf == [q \in {"q1"} |-> Late]

Coin(secret) ==
    [secret |-> secret, amount |-> 1, keyset_id |-> "k1", c |-> "k1", dleq |-> "k1"]
MCForeign == {<<{Coin(<<"ours", 0>>)}, {Coin(<<"peer", 0>>)}>>}
=============================================================================
