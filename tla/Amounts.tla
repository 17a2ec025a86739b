------------------------------ MODULE Amounts -------------------------------
(***************************************************************************)
(* How an amount is cut into coins: the powers of two a keyset has keys    *)
(* for, the parts a wallet asks for when it aims at a target, and the      *)
(* blanks it sends along with a melt.                                      *)
(***************************************************************************)
EXTENDS Integers, Sequences, FiniteSets, SequencesExt

CONSTANTS
    NoTarget,   \* SplitTarget::None.
    Bits        \* Amounts are below 2^Bits (64 in the code).

ASSUME AmountsAssumption == Bits \in Nat

SumOf(parts) ==
    LET sums[i \in 0..Len(parts)] == IF i = 0 THEN 0 ELSE sums[i - 1] + parts[i]
    IN  sums[Len(parts)]

\* sort: each part goes behind those that are not larger.
Inserted(sorted, part) ==
    InsertAt(sorted, Cardinality({i \in DOMAIN sorted : sorted[i] <= part}) + 1, part)
Ascending(parts) ==
    LET sorted[i \in 0..Len(parts)] ==
            IF i = 0 THEN <<>> ELSE Inserted(sorted[i - 1], parts[i])
    IN  sorted[Len(parts)]

\* 1 << bit.
Part(bit) ==
    LET shifted[b \in 0..bit] == IF b = 0 THEN 1 ELSE 2 * shifted[b - 1] IN shifted[bit]

\* The bits of n, highest first.
Split(n) ==
    LET parts[i \in 0..Bits] ==
            IF i = 0 THEN <<>>
            ELSE IF (n \div Part(Bits - i)) % 2 = 1 THEN Append(parts[i - 1], Part(Bits - i))
            ELSE parts[i - 1]
    IN  parts[Bits]

\* Mutant: a part too many is cut off, the remainder is not split.
CutPartWhole(n, parts, part) ==
    IF SumOf(parts) = n THEN parts
    ELSE IF part + SumOf(parts) <= n THEN Append(parts, part)
    ELSE Append(parts, n - SumOf(parts))

\* The body of the inner loop: a part that fits is taken, and when one does
\* not the split of what is left ends the search.
CutPart(n, parts, part) ==
    IF SumOf(parts) = n THEN parts
    ELSE IF part + SumOf(parts) <= n THEN Append(parts, part)
    ELSE parts \o Split(n - SumOf(parts))

\* The inner loop, through the split of the target.
CutRound(n, target, parts) ==
    LET cut[i \in 0..Len(Split(target))] ==
            IF i = 0 THEN parts ELSE CutPart(n, cut[i - 1], Split(target)[i])
    IN  cut[Len(Split(target))]

\* The outer loop runs until the total is n; every round but the last adds the
\* target.  With the target zero the code never leaves the loop.
CutTowards(n, target) ==
    LET rounds[i \in 0..(n \div target + 1)] ==
            IF i = 0 THEN <<>> ELSE CutRound(n, target, rounds[i - 1])
    IN  rounds[n \div target + 1]

\* A target of zero is left out (see above).
SplitTargets == {NoTarget} \cup (Nat \ {0})

\* At or below the target the split is returned as it is, highest part first.
SplitTargeted(n, target) ==
    IF target = NoTarget THEN Ascending(Split(n))
    ELSE IF n <= target THEN Split(n)
    ELSE Ascending(CutTowards(n, target))

\* As many blanks as ceil(log2(fee)), and one for a fee of one.
BlankCount(fee) ==
    IF fee <= 0 THEN 0
    ELSE IF fee = 1 THEN 1
    ELSE CHOOSE c \in 1..fee : Part(c) >= fee /\ Part(c - 1) < fee
=============================================================================
