----------------------------- MODULE MCPayment ------------------------------
(***************************************************************************)
(* A receiver with one or two keys, a sender with one refund key, and      *)
(* tokens of two payments under every mix of the listed conditions.  Every *)
(* payment has an amount and a split target of its own, so that a token    *)
(* and its sum cover many splits.                                          *)
(***************************************************************************)
EXTENDS Payment

NoLock == <<None, None>>

Conditioned(locks, pubkeys, counts, flag) ==
    {NewConditions(lock[1], listed, lock[2], num_sigs, flag) :
        lock \in locks, listed \in pubkeys, num_sigs \in counts}

Refundable(locktime) == <<locktime, <<"s">>>>

\* No more signatures than keys are wanted.
MCWants ==
    {P2pk("r1", c) :
        c \in Conditioned({NoLock, <<2, <<>>>>, Refundable(1)}, {None}, {None}, None)
                \cup Conditioned({NoLock, Refundable(1)}, {<<"r2">>}, {2}, None)}

MCConditions ==
    {P2pk("r1", c) :
        c \in Conditioned({NoLock, Refundable(1), Refundable(2)}, {None}, {None}, None)
                \cup Conditioned({NoLock, Refundable(1), Refundable(2)}, {<<"r2">>}, {2}, None)
                \cup Conditioned({NoLock}, {None}, {2}, None)
                \cup Conditioned({NoLock}, {<<"r2">>}, {None}, None)
                \cup Conditioned({NoLock, Refundable(1)}, {None}, {None}, "SIG_ALL")}
    \cup {P2pk("r2", c) : c \in Conditioned({NoLock}, {None}, {None}, None)
                                    \cup Conditioned({NoLock}, {None}, {None}, "SIG_ALL")}
    \cup {None}

\* Different conditions, different amounts and targets.
Priced(conditions) ==
    LET targets == <<NoTarget, 2, 3, 5, 6, 7, 8>>
        Digit(condition, weight) == IF condition THEN weight ELSE 0
        Price(c) ==
            IF c = None THEN 1
            ELSE 2 + Digit(c.conditions.pubkeys # None, 1) + Digit(c.conditions.num_sigs # None, 4)
                    + Digit(c.conditions.sig_flag = "SIG_ALL", 5) + Digit(c.data = "r2", 8)
                    + (IF c.conditions.locktime = None THEN 0 ELSE 6 * c.conditions.locktime)
    IN  {[condition |-> c, amount |-> Price(c), target |-> targets[(Price(c) % 7) + 1]] :
            c \in conditions}

MCPayments == Priced(MCConditions)

MCHtlcs == Priced({Htlc("p", c) : c \in Conditioned({NoLock, Refundable(1), <<1, None>>},
                                                    {None, <<"r1">>}, {None}, None)})

MCSenderKeys == <<"s">>
MCKeyrings == {{"r1"}, {"r1", "r2"}}

ASSUME DistinctKeys /\ CountsFit /\ TokensFit
=============================================================================
