------------------------------- MODULE Ledger -------------------------------
(***************************************************************************)
(* What an ecash mint promises, with no handler, store or Lightning node   *)
(* in sight.  A coin is signed at most once and spent at most once, a coin *)
(* is signed only with value that was paid in or that a spent coin freed,  *)
(* and value leaves only when freed value covers it.                       *)
(*                                                                         *)
(* The escrow is the value that is in nobody's hands: a payment received   *)
(* and not yet turned into coins, or a coin spent and not yet replaced.    *)
(***************************************************************************)
EXTENDS Integers

CONSTANTS
    Output      \* The signed outputs: records with at least coin and amount.

VARIABLES
    live,       \* The coins in circulation: signed and not spent.
    dead,       \* The coins spent.
    escrow      \* The value held between a credit and its debit.

vars == <<live, dead, escrow>>

CoinsOf(outs) == {o.coin : o \in outs}

\* The mint may open with coins already in circulation.
Init ==
    /\ live \subseteq Output
    /\ dead = {}
    /\ escrow = 0

\* A Lightning payment to the mint arrives.
Receive ==
    /\ escrow' >= escrow
    /\ UNCHANGED <<live, dead>>

\* A holder gives a coin back; its value is free to be used once.
Spend(o) ==
    /\ o \in live
    /\ live' = live \ {o}
    /\ dead' = dead \cup {o}
    /\ escrow' = escrow + o.amount

\* A coin nobody ever held enters circulation, backed by value in escrow.
Issue(o) ==
    /\ o.coin \notin CoinsOf(live \cup dead)
    /\ escrow >= o.amount
    /\ live' = live \cup {o}
    /\ escrow' = escrow - o.amount
    /\ UNCHANGED dead

\* Value freed by spent coins leaves over Lightning.
Withdraw ==
    /\ escrow' \in 0..escrow
    /\ UNCHANGED <<live, dead>>

Next ==
    \/ Receive \/ Withdraw
    \/ \E o \in Output : Spend(o) \/ Issue(o)

Spec == Init /\ [][Next]_vars
=============================================================================
