----------------------------- MODULE MCMintFree -----------------------------
(***************************************************************************)
(* Requests that collide: two swaps and a melt of the same coin, two mint  *)
(* requests for one quote, outputs used twice, a locked coin, and a keyset *)
(* rotation.                                                               *)
(***************************************************************************)
EXTENDS MintProps

CONSTANTS a, b, c, d, e, k1, k2, q1, m1

Out(coin, amount) == [coin |-> coin, amount |-> amount, keyset |-> k1]

\* e is locked to a key its holder does not have.
MCCirculating == {Out(a, 2), Out(e, 1)}
MCMintAmount == [q \in {q1} |-> 1]
MCMeltAmount == [m \in {m1} |-> 1]
MCFeeReserve == [m \in {m1} |-> 0]
MCMeltInvoice == [m \in {m1} |-> External]

MCRequests ==
    { [kind |-> "swap", quote |-> NoQuote,
       inputs |-> <<Out(a, 2)>>, outputs |-> <<Out(b, 1), Out(c, 1)>>],
      [kind |-> "swap", quote |-> NoQuote,
       inputs |-> <<Out(a, 2)>>, outputs |-> <<[Out(d, 2) EXCEPT !.keyset = k2]>>],
      [kind |-> "swap", quote |-> NoQuote,
       inputs |-> <<Out(e, 1)>>, outputs |-> <<Out(b, 1)>>],
      [kind |-> "mint", quote |-> q1,
       inputs |-> <<>>, outputs |-> <<Out(b, 1)>>],
      [kind |-> "mint", quote |-> q1,
       inputs |-> <<>>, outputs |-> <<Out(d, 1)>>],
      [kind |-> "melt", quote |-> m1,
       inputs |-> <<Out(a, 2)>>, outputs |-> <<Out(d, 0)>>] }
=============================================================================
