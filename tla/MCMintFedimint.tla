--------------------------- MODULE MCMintFedimint ---------------------------
(***************************************************************************)
(* One bundle of notes handed in twice, another in exchange for outputs    *)
(* that a swap asks for too, and the coin of that swap taken out in notes. *)
(***************************************************************************)
EXTENDS MintFedimint

ASSUME NotesAssumption == WithinNotes

CONSTANTS a, b, c, d, k1, k2, n1, n2

Out(coin, amount) == [coin |-> coin, amount |-> amount, keyset |-> k1]

MCCirculating == {Out(a, 2)}
MCNotesValue == [n \in {n1, n2} |-> IF n = n1 THEN 2 ELSE 1]
NoAmounts == [q \in {} |-> 0]

MCRequests ==
    { [kind |-> "swap", quote |-> NoQuote,
       inputs |-> <<Out(a, 2)>>, outputs |-> <<Out(b, 1), Out(c, 1)>>] }

FedMint(n, outs) == [kind |-> "fed_mint", notes |-> n, inputs |-> <<>>, outputs |-> outs]
FedMelt(ins) == [kind |-> "fed_melt", notes |-> NoNotes, inputs |-> ins, outputs |-> <<>>]

MCFedRequests ==
    { FedMint(n1, <<Out(b, 1), Out(d, 1)>>),
      FedMint(n1, <<Out(d, 2)>>),
      FedMint(n2, <<[Out(c, 1) EXCEPT !.keyset = k2]>>),
      FedMint(n2, <<Out(c, 1)>>),
      FedMelt(<<Out(a, 2)>>),
      FedMelt(<<Out(b, 1)>>) }
=============================================================================
