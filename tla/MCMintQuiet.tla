---------------------------- MODULE MCMintQuiet -----------------------------
(***************************************************************************)
(* A payment out through the node and one settled inside the mint, next to *)
(* a swap and two attempts to mint the quote the inside payment funds.     *)
(***************************************************************************)
EXTENDS MintProps

ASSUME QuietAssumption ==
    /\ Calm /\ FreshChange /\ Signable /\ FullValue /\ Halving
    /\ CarefulClients /\ FeesReserved /\ Doubling(KeyAmounts) /\ SignedBefore

CONSTANTS a, b, c, d, e, f, g, h, k1, q1, m1, m2

Out(coin, amount) == [coin |-> coin, amount |-> amount, keyset |-> k1]

MCCirculating == {Out(a, 4), Out(b, 2)}
MCMintAmount == [q \in {q1} |-> 2]
MCMeltAmount == [m \in {m1, m2} |-> IF m = m1 THEN 3 ELSE 2]
MCFeeReserve == [m \in {m1, m2} |-> 0]
MCMeltInvoice == [m \in {m1, m2} |-> IF m = m1 THEN External ELSE q1]

MCRequests ==
    { [kind |-> "swap", quote |-> NoQuote,
       inputs |-> <<Out(b, 2)>>, outputs |-> <<Out(c, 1), Out(d, 1)>>],
      [kind |-> "melt", quote |-> m1,
       inputs |-> <<Out(a, 4)>>, outputs |-> <<Out(e, 0)>>],
      [kind |-> "melt", quote |-> m2,
       inputs |-> <<Out(c, 1), Out(d, 1)>>, outputs |-> <<Out(f, 0)>>],
      [kind |-> "melt", quote |-> m2,
       inputs |-> <<Out(b, 2)>>, outputs |-> <<>>],
      [kind |-> "mint", quote |-> q1,
       inputs |-> <<>>, outputs |-> <<Out(g, 2)>>],
      [kind |-> "mint", quote |-> q1,
       inputs |-> <<>>, outputs |-> <<Out(h, 2)>>] }
=============================================================================
