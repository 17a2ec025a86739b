---------------------------- MODULE MCMintLedger ----------------------------
(***************************************************************************)
(* Two wallets' worth of honest requests: a swap and the melt of the coin  *)
(* it makes, a swap of the same input as another one, and a mint.          *)
(***************************************************************************)
EXTENDS MintProps

ASSUME LedgerAssumption ==
    /\ CarefulClients /\ RepeatsAlike /\ FeesReserved
    /\ Doubling(KeyAmounts) /\ SignedBefore

CONSTANTS a, b, c, d, e, f, k1, q1, m1

Out(coin, amount) == [coin |-> coin, amount |-> amount, keyset |-> k1]

MCCirculating == {Out(a, 2)}
MCMintAmount == [q \in {q1} |-> 3]
MCMeltAmount == [m \in {m1} |-> 1]
MCFeeReserve == [m \in {m1} |-> 0]
MCMeltInvoice == [m \in {m1} |-> External]

\* Change outputs carry amount 0.
MCRequests ==
    { [kind |-> "swap", quote |-> NoQuote,
       inputs |-> <<Out(a, 2)>>, outputs |-> <<Out(b, 1), Out(c, 1)>>],
      [kind |-> "mint", quote |-> q1,
       inputs |-> <<>>, outputs |-> <<Out(d, 1), Out(e, 2)>>],
      [kind |-> "melt", quote |-> m1,
       inputs |-> <<Out(a, 2)>>, outputs |-> <<Out(f, 0)>>],
      [kind |-> "melt", quote |-> m1,
       inputs |-> <<Out(b, 1), Out(d, 1)>>, outputs |-> <<Out(f, 0)>>] }
=============================================================================
