------------------------------- MODULE Lemmas -------------------------------
(***************************************************************************)
(* What several proofs share: induction along the naturals, functions that *)
(* go on step by step, sums over lists and over finite sets, and that an   *)
(* amount is cut into coins that add up to it.  Induction over a finite    *)
(* set is the choice of a smallest counterexample: that every set of       *)
(* subsets of a finite set has a minimal element is a theorem of the       *)
(* library.                                                                *)
(***************************************************************************)
EXTENDS Amounts, FiniteSetsExt, FiniteSetTheorems, SequenceTheorems, TLAPS

-----------------------------------------------------------------------------
(* Induction *)

\* A set of naturals that goes on from every member goes all the way: else
\* its members below a gap would be as many as those of them that follow one.
LEMMA Induction ==
    ASSUME NEW n \in Nat, NEW P, 0 \in P, \A i \in 1..n : i - 1 \in P => i \in P
    PROVE  \A i \in 0..n : i \in P
<1> SUFFICES ASSUME NEW m \in 0..n, m \notin P PROVE FALSE
  OBVIOUS
<1> DEFINE G == {i \in 0..m : i \in P}
           T == G \ {0}
           f == [i \in G |-> i + 1]
<1>1. IsFiniteSet(G)
  <2>1. IsFiniteSet(0..m) /\ G \subseteq 0..m
    BY FS_Interval
  <2> HIDE DEF G
  <2> QED BY <2>1, FS_Subset
<1>2. 0 \in G
  OBVIOUS
<1>3. f \in [G -> T]
  <2>1. ASSUME NEW i \in G PROVE i + 1 \in T
    <3>1. i \in Nat /\ i < m /\ i + 1 \in 1..n
      OBVIOUS
    <3>2. (i + 1) - 1 \in P
      BY <3>1
    <3>3. i + 1 \in P
      BY <3>1, <3>2
    <3> QED BY <3>1, <3>3
  <2> QED BY <2>1
<1>4. \A x, y \in G : f[x] = f[y] => x = y
  OBVIOUS
<1> HIDE DEF f, G
<1>5. IsFiniteSet(T) /\ Cardinality(T) = Cardinality(G) - 1 /\ Cardinality(G) \in Nat
  BY <1>1, <1>2, FS_RemoveElement, FS_CardinalityType
<1> HIDE DEF T
<1>6. \E x, y \in G : x # y /\ f[x] = f[y]
  BY <1>1, <1>3, <1>5, FS_PigeonHole
<1> QED BY <1>4, <1>6

\* A function on 0..n that goes on step by step.
Recursive(f, n, V, start, step) ==
    f \in [0..n -> V] /\ f[0] = start /\ \A i \in 1..n : f[i] = step[i][f[i - 1]]

\* There is one.
LEMMA Recursion ==
    ASSUME NEW n \in Nat, NEW V, NEW start \in V, NEW step \in [1..n -> [V -> V]]
    PROVE  \E f : Recursive(f, n, V, start, step)
<1> DEFINE Upto(f, k) == f[0] = start /\ \A i \in 1..k : f[i] = step[i][f[i - 1]]
           P == {k \in 0..n : \E f \in [0..k -> V] : Upto(f, k)}
<1>1. 0 \in P
  <2> DEFINE f == [i \in 0..0 |-> start]
  <2>1. f \in [0..0 -> V]
    OBVIOUS
  <2>2. Upto(f, 0)
    OBVIOUS
  <2> HIDE DEF Upto, f
  <2> QED BY <2>1, <2>2
<1>2. ASSUME NEW k \in 1..n, k - 1 \in P PROVE k \in P
  <2>1. PICK f \in [0..(k - 1) -> V] : Upto(f, k - 1)
    BY <1>2
  <2> DEFINE g == [i \in 0..k |-> IF i = k THEN step[k][f[k - 1]] ELSE f[i]]
  <2>2. f[k - 1] \in V /\ step[k][f[k - 1]] \in V
    BY <2>1
  <2>3. g \in [0..k -> V]
    BY <2>1, <2>2
  <2>4. g[0] = start /\ g[k] = step[k][g[k - 1]]
    <3>1. k - 1 \in 0..k /\ k - 1 # k /\ 0 \in 0..k /\ 0 # k
      OBVIOUS
    <3>2. g[0] = f[0] /\ g[k - 1] = f[k - 1] /\ g[k] = step[k][f[k - 1]]
      BY <3>1
    <3> HIDE DEF g
    <3> QED BY <2>1, <3>2
  <2>5. \A i \in 1..(k - 1) : g[i] = step[i][g[i - 1]]
    <3> SUFFICES ASSUME NEW i \in 1..(k - 1) PROVE g[i] = step[i][g[i - 1]]
      OBVIOUS
    <3>1. g[i] = f[i] /\ g[i - 1] = f[i - 1]
      OBVIOUS
    <3> QED BY <2>1, <3>1
  <2>6. Upto(g, k)
    <3> HIDE DEF g
    <3>1. ASSUME NEW i \in 1..k PROVE g[i] = step[i][g[i - 1]]
      <4>1. CASE i = k
        BY <4>1, <2>4
      <4>2. CASE i # k
        BY <4>2, <2>5
      <4> QED BY <4>1, <4>2
    <3> QED BY <2>4, <3>1
  <2> HIDE DEF Upto, g
  <2> QED BY <2>3, <2>6
<1>3. n \in P
  <2> HIDE DEF P
  <2>1. \A i \in 0..n : i \in P
    BY <1>1, <1>2, Induction
  <2> QED BY <2>1
<1> QED BY <1>3 DEF Recursive

-----------------------------------------------------------------------------
(* Sums over lists *)

\* The running sums of parts.
SumsTo(f, parts) ==
    /\ f \in [0..Len(parts) -> Nat]
    /\ f[0] = 0
    /\ \A i \in 1..Len(parts) : f[i] = f[i - 1] + parts[i]

\* SumOf is the last of them.
LEMMA SumIs ==
    ASSUME NEW parts \in Seq(Nat)
    PROVE  \E f : SumsTo(f, parts) /\ SumOf(parts) = f[Len(parts)]
<1> DEFINE n == Len(parts)
           step == [i \in 1..n |-> [v \in Nat |-> v + parts[i]]]
           Sums(f) == f = [i \in 0..n |-> IF i = 0 THEN 0 ELSE f[i - 1] + parts[i]]
<1>1. n \in Nat /\ \A i \in 1..n : parts[i] \in Nat
  OBVIOUS
<1>2. step \in [1..n -> [Nat -> Nat]]
  BY <1>1
<1>3. PICK f : Recursive(f, n, Nat, 0, step)
  <2> HIDE DEF n, step
  <2>1. 0 \in Nat
    OBVIOUS
  <2> QED BY <1>1, <1>2, <2>1, Recursion
<1> HIDE DEF n
<1>4. \E g : Sums(g)
  <2>1. f = [i \in 0..n |-> f[i]]
    BY <1>3 DEF Recursive
  <2>2. ASSUME NEW i \in 0..n PROVE f[i] = IF i = 0 THEN 0 ELSE f[i - 1] + parts[i]
    <3>1. CASE i = 0
      BY <3>1, <1>3 DEF Recursive
    <3>2. CASE i # 0
      <4>1. i \in 1..n /\ i - 1 \in 0..n
        BY <3>2, <1>1
      <4>2. f[i] = step[i][f[i - 1]] /\ f[i - 1] \in Nat
        BY <4>1, <1>3 DEF Recursive
      <4> QED BY <4>1, <4>2, <3>2
    <3> QED BY <3>1, <3>2
  <2>3. Sums(f)
    BY <2>1, <2>2
  <2> QED BY <2>3
<1> DEFINE g == CHOOSE h : Sums(h)
<1>5. Sums(g)
  BY <1>4
<1>6. SumOf(parts) = g[n]
  BY DEF SumOf, n
<1> HIDE DEF g
<1>7. g[0] = 0 /\ \A i \in 1..n : g[i] = g[i - 1] + parts[i]
  <2>1. 0 \in 0..n /\ \A i \in 1..n : i \in 0..n /\ i # 0
    BY <1>1
  <2> QED BY <1>5, <2>1
<1> DEFINE P == {i \in 0..n : g[i] \in Nat}
<1>8. g \in [0..n -> Nat]
  <2>1. 0 \in P
    BY <1>1, <1>7
  <2>2. ASSUME NEW i \in 1..n, i - 1 \in P PROVE i \in P
    <3>1. g[i - 1] \in Nat /\ parts[i] \in Nat /\ i \in 0..n
      BY <2>2, <1>1
    <3>2. g[i] = g[i - 1] + parts[i]
      BY <1>7
    <3> QED BY <3>1, <3>2
  <2>3. \A i \in 0..n : i \in P
    <3> HIDE DEF P
    <3> QED BY <1>1, <2>1, <2>2, Induction
  <2>4. g = [i \in 0..n |-> g[i]]
    BY <1>5
  <2> HIDE DEF Sums
  <2> QED BY <2>3, <2>4
<1>9. SumsTo(g, parts)
  BY <1>7, <1>8 DEF SumsTo, n
<1> QED BY <1>6, <1>9 DEF n

\* The running sums of equal parts are equal.
LEMMA SumsAgree ==
    ASSUME NEW a \in Seq(Nat), NEW b \in Seq(Nat), NEW f, NEW g, SumsTo(f, a), SumsTo(g, b),
           NEW k \in Nat, k <= Len(a), k <= Len(b), \A i \in 1..k : a[i] = b[i]
    PROVE  \A i \in 0..k : f[i] = g[i]
<1> DEFINE P == {i \in 0..k : f[i] = g[i]}
<1>1. 0 \in P
  BY DEF SumsTo
<1>2. ASSUME NEW i \in 1..k, i - 1 \in P PROVE i \in P
  <2>1. i \in 1..Len(a) /\ i \in 1..Len(b) /\ f[i - 1] = g[i - 1]
    BY <1>2
  <2>2. f[i] = f[i - 1] + a[i] /\ g[i] = g[i - 1] + b[i] /\ a[i] = b[i]
    BY <2>1 DEF SumsTo
  <2> QED BY <2>1, <2>2
<1>3. \A i \in 0..k : i \in P
  <2> HIDE DEF P
  <2> QED BY <1>1, <1>2, Induction
<1> QED BY <1>3

\* Nothing sums to nothing.
LEMMA SumOfNone == SumOf(<<>>) = 0
<1>1. <<>> \in Seq(Nat) /\ Len(<<>>) = 0
  OBVIOUS
<1>2. PICK f : SumsTo(f, <<>>) /\ SumOf(<<>>) = f[Len(<<>>)]
  BY <1>1, SumIs
<1> QED BY <1>1, <1>2 DEF SumsTo

\* Sums are naturals, and lists joined are sums added.
LEMMA SumOfJoined ==
    ASSUME NEW a \in Seq(Nat), NEW b \in Seq(Nat)
    PROVE  SumOf(a \o b) = SumOf(a) + SumOf(b) /\ SumOf(a) \in Nat
<1> DEFINE c == a \o b
           n == Len(a)
           m == Len(b)
<1>1. /\ c \in Seq(Nat) /\ n \in Nat /\ m \in Nat /\ Len(c) = n + m
      /\ \A i \in 1..n : c[i] = a[i]
      /\ \A i \in 1..m : c[n + i] = b[i] /\ b[i] \in Nat
  OBVIOUS
<1>2. PICK f : SumsTo(f, a) /\ SumOf(a) = f[n]
  BY SumIs
<1>3. PICK g : SumsTo(g, b) /\ SumOf(b) = g[m]
  BY SumIs
<1> HIDE DEF c
<1>4. PICK h : SumsTo(h, c) /\ SumOf(c) = h[Len(c)]
  BY <1>1, SumIs
<1> HIDE DEF n, m
<1>5. h[n] = f[n]
  <2>1. \A i \in 0..n : h[i] = f[i]
    <3>1. n <= Len(c) /\ n <= Len(a) /\ n \in Nat /\ c \in Seq(Nat)
      BY <1>1 DEF n
    <3>2. \A i \in 1..n : c[i] = a[i]
      BY <1>1
    <3>3. SumsTo(h, c) /\ SumsTo(f, a)
      BY <1>2, <1>4
    <3> QED BY <3>1, <3>2, <3>3, SumsAgree
  <2> QED BY <1>1, <2>1
<1>6. f[n] \in Nat
  <2>1. f \in [0..n -> Nat] /\ n \in 0..n
    BY <1>1, <1>2 DEF SumsTo, n
  <2> QED BY <2>1
<1> DEFINE P == {i \in 0..m : h[n + i] = f[n] + g[i]}
<1>7. 0 \in P
  BY <1>1, <1>3, <1>5, <1>6 DEF SumsTo
<1>8. ASSUME NEW i \in 1..m, i - 1 \in P PROVE i \in P
  <2>1. n + i \in 1..Len(c) /\ (n + i) - 1 = n + (i - 1)
    BY <1>1
  <2>2. h[n + i] = h[n + (i - 1)] + c[n + i]
    BY <2>1, <1>4 DEF SumsTo
  <2>3. g[i] = g[i - 1] + b[i] /\ g[i - 1] \in Nat
    <3>1. g \in [0..m -> Nat] /\ \A j \in 1..m : g[j] = g[j - 1] + b[j]
      BY <1>3 DEF SumsTo, m
    <3>2. i - 1 \in 0..m
      BY <1>1
    <3> QED BY <3>1, <3>2
  <2>4. h[n + (i - 1)] = f[n] + g[i - 1] /\ c[n + i] = b[i] /\ b[i] \in Nat
    BY <1>1, <1>8
  <2> QED BY <1>6, <2>2, <2>3, <2>4
<1>9. h[n + m] = f[n] + g[m]
  <2>1. \A i \in 0..m : i \in P
    <3> HIDE DEF P
    <3> QED BY <1>1, <1>7, <1>8, Induction
  <2> QED BY <1>1, <2>1
<1> QED BY <1>1, <1>2, <1>3, <1>4, <1>6, <1>9 DEF c

\* One part more.
LEMMA SumOfAppended ==
    ASSUME NEW a \in Seq(Nat), NEW x \in Nat
    PROVE  SumOf(Append(a, x)) = SumOf(a) + x
<1> DEFINE b == Append(a, x)
           n == Len(a)
<1>1. /\ b \in Seq(Nat) /\ n \in Nat /\ Len(b) = n + 1
      /\ b[n + 1] = x /\ \A i \in 1..n : b[i] = a[i]
  OBVIOUS
<1>2. PICK f : SumsTo(f, a) /\ SumOf(a) = f[n]
  BY SumIs
<1> HIDE DEF b
<1>3. PICK h : SumsTo(h, b) /\ SumOf(b) = h[Len(b)]
  BY <1>1, SumIs
<1> HIDE DEF n
<1>4. h[n] = f[n]
  <2>1. \A i \in 0..n : h[i] = f[i]
    <3>1. n <= Len(b) /\ n <= Len(a)
      BY <1>1 DEF n
    <3> QED BY <1>1, <1>2, <1>3, <3>1, SumsAgree
  <2> QED BY <1>1, <2>1
<1>5. h[n + 1] = h[n] + x
  <2>1. n + 1 \in 1..Len(b) /\ (n + 1) - 1 = n
    BY <1>1
  <2> QED BY <1>1, <1>3, <2>1 DEF SumsTo
<1> QED BY <1>1, <1>2, <1>3, <1>4, <1>5 DEF b

-----------------------------------------------------------------------------
(* Splits *)

\* What division leaves.
LEMMA Remainder ==
    ASSUME NEW n \in Nat, NEW d \in Nat \ {0}
    PROVE  /\ n % d \in Nat /\ n % d < d /\ n = d * (n \div d) + (n % d)
           /\ \A x \in Nat, y \in Nat : (y < d /\ n = d * x + y) => n % d = y
<1>1. /\ n \div d \in Nat /\ n % d \in Nat /\ n % d < d /\ n = d * (n \div d) + (n % d)
  OBVIOUS
<1>2. ASSUME NEW x \in Nat, NEW y \in Nat, y < d, n = d * x + y PROVE n % d = y
  <2> DEFINE q == n \div d
             r == n % d
  <2>1. q \in Nat /\ r \in Nat /\ r < d /\ n = d * q + r /\ d * q \in Nat /\ d * x \in Nat
    BY <1>1
  <2> HIDE DEF q, r
  <2>2. ASSUME q >= x + 1 PROVE FALSE
    <3>1. d * q >= d * (x + 1) /\ d * (x + 1) = d * x + d
      BY <2>1, <2>2
    <3> QED BY <1>2, <2>1, <3>1
  <2>3. ASSUME x >= q + 1 PROVE FALSE
    <3>1. d * x >= d * (q + 1) /\ d * (q + 1) = d * q + d
      BY <2>1, <2>3
    <3> QED BY <1>2, <2>1, <3>1
  <2>4. q = x
    BY <2>1, <2>2, <2>3
  <2> QED BY <1>2, <2>1, <2>4 DEF r
<1> QED BY <1>1, <1>2

\* The remainder of twice a number has one power of two more.
LEMMA RemainderOfDouble ==
    ASSUME NEW n \in Nat, NEW b \in Nat \ {0}
    PROVE  n % (2 * b) = IF ((n \div b) % 2 = 1) THEN b + (n % b) ELSE n % b
<1> DEFINE q == n \div b
           r == n % b
           d == 2 * b
<1>1. q \in Nat /\ r \in Nat /\ r < b /\ n = b * q + r /\ d \in Nat \ {0}
  BY Remainder
<1>2. PICK m \in Nat : q = 2 * m \/ q = 2 * m + 1
  <2> HIDE DEF q
  <2>1. q \div 2 \in Nat /\ (q % 2 = 0 \/ q % 2 = 1) /\ q = 2 * (q \div 2) + (q % 2)
    BY <1>1
  <2> QED BY <2>1
<1>3. ((n \div b) % 2 = 1) <=> q = 2 * m + 1
  BY <1>1, <1>2
<1>4. \A x \in Nat, y \in Nat : (y < d /\ n = d * x + y) => n % d = y
  BY <1>1, Remainder
<1> HIDE DEF q, r
<1>5. CASE q = 2 * m
  <2>1. n = d * m + r /\ r < d
    BY <1>1, <1>5
  <2>2. n % d = r
    BY <1>1, <1>4, <2>1
  <2>3. q # 2 * m + 1
    BY <1>5
  <2> QED BY <1>3, <2>2, <2>3 DEF r
<1>6. CASE q = 2 * m + 1
  <2>1. n = d * m + (b + r) /\ b + r < d /\ b + r \in Nat
    BY <1>1, <1>6
  <2> QED BY <1>1, <1>3, <1>4, <1>6, <2>1 DEF r
<1> QED BY <1>2, <1>5, <1>6

\* Each part is twice the one before.
LEMMA PartDoubles ==
    ASSUME NEW b \in Nat
    PROVE  Part(0) = 1 /\ Part(b) \in Nat \ {0} /\ Part(b + 1) = 2 * Part(b)
<1> DEFINE Shifts(f, n) == f = [i \in 0..n |-> IF i = 0 THEN 1 ELSE 2 * f[i - 1]]
           Shifted(f, n) == f \in [0..n -> Nat] /\ f[0] = 1 /\ \A i \in 1..n : f[i] = 2 * f[i - 1]
<1>1. ASSUME NEW n \in Nat PROVE \E f : Shifted(f, n) /\ Part(n) = f[n]
  <2> DEFINE step == [i \in 1..n |-> [v \in Nat |-> 2 * v]]
  <2>1. step \in [1..n -> [Nat -> Nat]]
    OBVIOUS
  <2>2. PICK f : Recursive(f, n, Nat, 1, step)
    <3> HIDE DEF step
    <3>1. 1 \in Nat
      OBVIOUS
    <3> QED BY <2>1, <3>1, Recursion
  <2>3. \E g : Shifts(g, n)
    <3>1. f = [i \in 0..n |-> f[i]]
      BY <2>2 DEF Recursive
    <3>2. ASSUME NEW i \in 0..n PROVE f[i] = IF i = 0 THEN 1 ELSE 2 * f[i - 1]
      <4>1. CASE i = 0
        BY <4>1, <2>2 DEF Recursive
      <4>2. CASE i # 0
        <5>1. i \in 1..n /\ i - 1 \in 0..n
          BY <4>2
        <5>2. f[i] = step[i][f[i - 1]] /\ f[i - 1] \in Nat
          BY <5>1, <2>2 DEF Recursive
        <5> QED BY <5>1, <5>2, <4>2
      <4> QED BY <4>1, <4>2
    <3>3. Shifts(f, n)
      BY <3>1, <3>2
    <3> QED BY <3>3
  <2> DEFINE g == CHOOSE h : Shifts(h, n)
  <2>4. Shifts(g, n)
    BY <2>3
  <2>5. Part(n) = g[n]
    BY DEF Part
  <2> HIDE DEF g
  <2>6. g[0] = 1 /\ \A i \in 1..n : g[i] = 2 * g[i - 1]
    <3>1. 0 \in 0..n /\ \A i \in 1..n : i \in 0..n /\ i # 0
      OBVIOUS
    <3> QED BY <2>4, <3>1
  <2> DEFINE P == {i \in 0..n : g[i] \in Nat}
  <2>7. g \in [0..n -> Nat]
    <3>1. 0 \in P
      BY <2>6
    <3>2. ASSUME NEW i \in 1..n, i - 1 \in P PROVE i \in P
      BY <3>2, <2>6
    <3>3. \A i \in 0..n : i \in P
      <4> HIDE DEF P
      <4> QED BY <3>1, <3>2, Induction
    <3>4. g = [i \in 0..n |-> g[i]]
      BY <2>4
    <3> HIDE DEF Shifts
    <3> QED BY <3>3, <3>4
  <2>8. Shifted(g, n)
    BY <2>6, <2>7
  <2> HIDE DEF Shifted
  <2> QED BY <2>5, <2>8
<1>2. PICK f : Shifted(f, b) /\ Part(b) = f[b]
  BY <1>1
<1>3. PICK h : Shifted(h, b + 1) /\ Part(b + 1) = h[b + 1]
  <2> HIDE DEF Shifted
  <2>1. b + 1 \in Nat
    OBVIOUS
  <2> QED BY <1>1, <2>1
<1>4. Part(0) = 1
  <2> HIDE DEF Shifted
  <2>1. PICK e : Shifted(e, 0) /\ Part(0) = e[0]
    BY <1>1
  <2> QED BY <2>1 DEF Shifted
<1> DEFINE P == {i \in 0..b : h[i] = f[i] /\ f[i] > 0}
<1>5. h[b] = f[b] /\ f[b] > 0
  <2>1. 0 \in P
    BY <1>2, <1>3
  <2>2. ASSUME NEW i \in 1..b, i - 1 \in P PROVE i \in P
    <3>1. h[i] = 2 * h[i - 1]
      BY <1>3
    <3>2. f[i] = 2 * f[i - 1] /\ f[i - 1] \in Nat
      BY <1>2
    <3> QED BY <2>2, <3>1, <3>2
  <2>3. \A i \in 0..b : i \in P
    <3> HIDE DEF P
    <3> QED BY <2>1, <2>2, Induction
  <2> QED BY <2>3
<1>6. h[b + 1] = 2 * h[b] /\ f[b] \in Nat
  <2>1. b + 1 \in 1..(b + 1) /\ (b + 1) - 1 = b /\ b \in 0..b
    OBVIOUS
  <2> QED BY <1>2, <1>3, <2>1
<1> QED BY <1>2, <1>3, <1>4, <1>5, <1>6

\* The values there are coins of.
CoinValues == {Part(b) : b \in 0..(Bits - 1)}

\* A split has the bits from the highest down to the last one looked at.
SplitUpto(s, n, i) == s \in Seq(CoinValues) /\ SumOf(s) = n - (n % Part(Bits - i))

\* Amount::split is all of the amount, in coins there are keys for.
LEMMA SplitAddsUp ==
    ASSUME NEW n \in Nat, n < Part(Bits)
    PROVE  Split(n) \in Seq(CoinValues) /\ SumOf(Split(n)) = n
<1> DEFINE V == Seq(CoinValues)
           Bit(i) == (n \div Part(Bits - i)) % 2 = 1
           One(s, i) == IF Bit(i) THEN Append(s, Part(Bits - i)) ELSE s
           step == [i \in 1..Bits |-> [s \in V |-> One(s, i)]]
           Splits(f) == f = [i \in 0..Bits |-> IF i = 0 THEN <<>>
                                ELSE IF (n \div Part(Bits - i)) % 2 = 1
                                     THEN Append(f[i - 1], Part(Bits - i))
                                ELSE f[i - 1]]
<1>0. Bits \in Nat
  BY AmountsAssumption
<1>1. /\ \A i \in 0..Bits : Part(Bits - i) \in Nat \ {0}
      /\ \A i \in 1..Bits : Part(Bits - i) \in CoinValues /\ Part(Bits - (i - 1)) = 2 * Part(Bits - i)
  <2>1. ASSUME NEW i \in 0..Bits PROVE Part(Bits - i) \in Nat \ {0}
    <3>1. Bits - i \in Nat
      BY <1>0
    <3> QED BY <3>1, PartDoubles
  <2>2. ASSUME NEW i \in 1..Bits
        PROVE  Part(Bits - i) \in CoinValues /\ Part(Bits - (i - 1)) = 2 * Part(Bits - i)
    <3>1. Bits - i \in Nat /\ Bits - i \in 0..(Bits - 1) /\ Bits - (i - 1) = (Bits - i) + 1
      BY <1>0
    <3>2. Part((Bits - i) + 1) = 2 * Part(Bits - i)
      BY <3>1, PartDoubles
    <3> QED BY <3>1, <3>2 DEF CoinValues
  <2> QED BY <2>1, <2>2
<1>2. step \in [1..Bits -> [V -> V]] /\ <<>> \in V
  <2>1. ASSUME NEW s \in V, NEW i \in 1..Bits PROVE One(s, i) \in V
    <3> HIDE DEF Bit
    <3> QED BY <1>1
  <2>2. <<>> \in V
    OBVIOUS
  <2> HIDE DEF One, V
  <2> QED BY <2>1, <2>2
<1>3. \E f : Splits(f)
  <2>1. PICK f : Recursive(f, Bits, V, <<>>, step)
    <3> HIDE DEF V, step
    <3> QED BY <1>0, <1>2, Recursion
  <2>2. \A i \in 1..Bits : f[i] = One(f[i - 1], i)
    <3> SUFFICES ASSUME NEW i \in 1..Bits PROVE f[i] = One(f[i - 1], i)
      OBVIOUS
    <3> HIDE DEF One, V
    <3>1. f[i - 1] \in V
      BY <1>0, <2>1 DEF Recursive
    <3> QED BY <2>1, <3>1 DEF Recursive
  <2>3. f = [i \in 0..Bits |-> f[i]] /\ f[0] = <<>>
    BY <2>1 DEF Recursive
  <2>4. ASSUME NEW i \in 0..Bits
        PROVE  f[i] = IF i = 0 THEN <<>>
                      ELSE IF (n \div Part(Bits - i)) % 2 = 1 THEN Append(f[i - 1], Part(Bits - i))
                      ELSE f[i - 1]
    <3>1. CASE i = 0
      BY <3>1, <2>3
    <3>2. CASE i # 0
      <4>1. i \in 1..Bits
        BY <3>2, <1>0
      <4>2. f[i] = One(f[i - 1], i)
        BY <4>1, <2>2
      <4> QED BY <3>2, <4>2, Zenon
    <3> QED BY <3>1, <3>2
  <2>5. Splits(f)
    BY <2>3, <2>4
  <2> HIDE DEF Splits
  <2> QED BY <2>5
<1> DEFINE f == CHOOSE g : Splits(g)
<1>4. Splits(f)
  BY <1>3
<1>5. Split(n) = f[Bits]
  BY DEF Split
<1> HIDE DEF f, V
<1>6. f[0] = <<>> /\ \A i \in 1..Bits : f[i] = One(f[i - 1], i)
  <2>1. 0 \in 0..Bits
    BY <1>0
  <2>2. f[0] = <<>>
    BY <1>4, <2>1
  <2>3. ASSUME NEW i \in 1..Bits PROVE f[i] = One(f[i - 1], i)
    <3>1. i \in 0..Bits /\ i # 0
      BY <1>0
    <3> DEFINE F(j) == IF j = 0 THEN <<>>
                       ELSE IF (n \div Part(Bits - j)) % 2 = 1 THEN Append(f[j - 1], Part(Bits - j))
                       ELSE f[j - 1]
    <3>2. f = [j \in 0..Bits |-> F(j)]
      BY <1>4
    <3>3. f[i] = F(i)
      <4> HIDE DEF F
      <4> QED BY <3>1, <3>2
    <3> QED BY <3>1, <3>3, Zenon
  <2> QED BY <2>2, <2>3
<1> HIDE DEF Splits, One
<1> DEFINE P == {i \in 0..Bits : SplitUpto(f[i], n, i)}
<1>7. 0 \in P
  <2>1. n % Part(Bits) = n
    <3>1. Part(Bits) \in Nat \ {0} /\ n = Part(Bits) * 0 + n
      BY <1>0, PartDoubles
    <3> QED BY <3>1, Remainder
  <2>2. SumOf(<<>>) = n - (n % Part(Bits - 0))
    <3>1. Bits - 0 = Bits
      BY <1>0
    <3> QED BY <2>1, <3>1, SumOfNone
  <2>3. 0 \in 0..Bits /\ <<>> \in Seq(CoinValues)
    BY <1>0
  <2> QED BY <1>6, <2>2, <2>3 DEF SplitUpto
<1>8. ASSUME NEW i \in 1..Bits, i - 1 \in P PROVE i \in P
  <2> DEFINE d == Part(Bits - i)
             s == f[i - 1]
  <2>1. d \in Nat \ {0} /\ d \in CoinValues /\ Part(Bits - (i - 1)) = 2 * d /\ i \in 0..Bits
    BY <1>0, <1>1
  <2>2. s \in Seq(CoinValues) /\ SumOf(s) = n - (n % (2 * d))
    BY <1>8, <2>1 DEF SplitUpto
  <2>3. CoinValues \subseteq Nat
    BY <1>0, PartDoubles DEF CoinValues
  <2>4. s \in Seq(Nat)
    <3> HIDE DEF s
    <3> QED BY <2>2, <2>3, SeqMonotonic
  <2>5. f[i] = IF (n \div d) % 2 = 1 THEN Append(s, d) ELSE s
    BY <1>6 DEF One
  <2> HIDE DEF d, s
  <2>6. n % (2 * d) = IF ((n \div d) % 2 = 1) THEN d + (n % d) ELSE n % d
    BY <2>1, RemainderOfDouble
  <2>7. n % d \in Nat
    BY <2>1, Remainder
  <2>8. CASE (n \div d) % 2 = 1
    <3>1. f[i] = Append(s, d) /\ SumOf(f[i]) = SumOf(s) + d
      BY <2>1, <2>4, <2>5, <2>8, SumOfAppended
    <3>2. f[i] \in Seq(CoinValues)
      BY <2>1, <2>2, <3>1
    <3>3. SumOf(s) + d = n - (n % d)
      <4>1. SumOf(s) = n - (d + (n % d))
        BY <2>2, <2>6, <2>8
      <4> QED BY <2>1, <2>7, <4>1
    <3> QED BY <2>1, <3>1, <3>2, <3>3 DEF SplitUpto, d
  <2>9. CASE (n \div d) % 2 # 1
    <3>1. f[i] = s /\ SumOf(s) = n - (n % d)
      BY <2>2, <2>5, <2>6, <2>9
    <3> QED BY <2>1, <2>2, <3>1 DEF SplitUpto, d
  <2> QED BY <2>8, <2>9
<1>9. SplitUpto(f[Bits], n, Bits)
  <2>1. \A i \in 0..Bits : i \in P
    <3> HIDE DEF P
    <3> QED BY <1>0, <1>7, <1>8, Induction
  <2>2. Bits \in 0..Bits
    BY <1>0
  <2> QED BY <2>1, <2>2
<1>10. n - (n % Part(Bits - Bits)) = n
  <2>1. Bits - Bits = 0 /\ Part(0) = 1
    BY <1>0, PartDoubles
  <2>2. n % 1 = 0
    OBVIOUS
  <2> QED BY <2>1, <2>2
<1> QED BY <1>5, <1>9, <1>10 DEF SplitUpto

\* What has been cut off n so far.
Cuts(n) == {parts \in Seq(CoinValues) : SumOf(parts) <= n}

\* Coins are numbers.
LEMMA CoinsAreNumbers ==
    /\ CoinValues \subseteq Nat
    /\ \A s \in Seq(CoinValues) : s \in Seq(Nat) /\ SumOf(s) \in Nat
<1>1. CoinValues \subseteq Nat
  BY AmountsAssumption, PartDoubles DEF CoinValues
<1>2. ASSUME NEW s \in Seq(CoinValues) PROVE s \in Seq(Nat) /\ SumOf(s) \in Nat
  <2>1. s \in Seq(Nat)
    BY <1>1, SeqMonotonic
  <2> QED BY <2>1, SumOfJoined
<1> QED BY <1>1, <1>2

\* A part is taken whole or ends the search.
LEMMA CutPartCuts ==
    ASSUME NEW n \in Nat, n < Part(Bits), NEW parts \in Cuts(n), NEW part \in CoinValues
    PROVE  /\ CutPart(n, parts, part) \in Cuts(n)
           /\ \/ SumOf(CutPart(n, parts, part)) = n
              \/ SumOf(CutPart(n, parts, part)) = SumOf(parts) + part
           /\ SumOf(parts) = n => CutPart(n, parts, part) = parts
<1>1. /\ parts \in Seq(CoinValues) /\ parts \in Seq(Nat) /\ SumOf(parts) \in Nat /\ SumOf(parts) <= n
      /\ part \in Nat /\ Part(Bits) \in Nat
  BY CoinsAreNumbers, PartDoubles, AmountsAssumption DEF Cuts
<1>2. CASE SumOf(parts) = n
  BY <1>2 DEF CutPart
<1>3. CASE SumOf(parts) # n /\ part + SumOf(parts) <= n
  <2>1. CutPart(n, parts, part) = Append(parts, part)
    BY <1>3 DEF CutPart
  <2>2. SumOf(Append(parts, part)) = SumOf(parts) + part /\ Append(parts, part) \in Seq(CoinValues)
    BY <1>1, SumOfAppended
  <2> QED BY <1>1, <1>3, <2>1, <2>2 DEF Cuts
<1>4. CASE SumOf(parts) # n /\ ~(part + SumOf(parts) <= n)
  <2> DEFINE left == n - SumOf(parts)
  <2>1. CutPart(n, parts, part) = parts \o Split(left)
    BY <1>4 DEF CutPart
  <2>2. left \in Nat /\ left < Part(Bits) /\ SumOf(parts) + left = n
    BY <1>1
  <2> HIDE DEF left
  <2>3. Split(left) \in Seq(CoinValues) /\ SumOf(Split(left)) = left
    BY <2>2, SplitAddsUp
  <2>4. SumOf(parts \o Split(left)) = SumOf(parts) + SumOf(Split(left))
    BY <1>1, <2>3, CoinsAreNumbers, SumOfJoined
  <2>5. parts \o Split(left) \in Seq(CoinValues)
    BY <1>1, <2>3
  <2>6. SumOf(parts \o Split(left)) = n
    BY <2>2, <2>3, <2>4
  <2> QED BY <1>4, <2>1, <2>5, <2>6 DEF Cuts
<1> QED BY <1>2, <1>3, <1>4

\* A round of the inner loop adds the target or ends the search.
LEMMA CutRoundCuts ==
    ASSUME NEW n \in Nat, n < Part(Bits), NEW target \in Nat, target < Part(Bits),
           NEW parts \in Cuts(n)
    PROVE  /\ CutRound(n, target, parts) \in Cuts(n)
           /\ \/ SumOf(CutRound(n, target, parts)) = n
              \/ SumOf(CutRound(n, target, parts)) = SumOf(parts) + target
<1> DEFINE of == Split(target)
           m == Len(of)
           V == Cuts(n)
           step == [i \in 1..m |-> [v \in V |-> CutPart(n, v, of[i])]]
           Rounds(f) == f = [i \in 0..m |-> IF i = 0 THEN parts ELSE CutPart(n, f[i - 1], of[i])]
<1>1. of \in Seq(CoinValues) /\ of \in Seq(Nat) /\ SumOf(of) = target
  BY SplitAddsUp, CoinsAreNumbers
<1>2. CutRound(n, target, parts) = (CHOOSE f : Rounds(f))[m]
  BY DEF CutRound
<1> HIDE DEF of
<1>3. m \in Nat /\ \A i \in 1..m : of[i] \in CoinValues
  BY <1>1
<1>4. step \in [1..m -> [V -> V]] /\ parts \in V
  <2>1. ASSUME NEW i \in 1..m, NEW v \in V PROVE CutPart(n, v, of[i]) \in V
    BY <1>3, CutPartCuts
  <2> HIDE DEF V, m
  <2> QED BY <2>1 DEF V
<1> HIDE DEF m
<1>5. \E f : Rounds(f)
  <2>1. PICK f : Recursive(f, m, V, parts, step)
    <3> HIDE DEF V, step
    <3> QED BY <1>3, <1>4, Recursion
  <2> HIDE DEF V
  <2>2. f = [i \in 0..m |-> f[i]]
    BY <2>1 DEF Recursive
  <2>3. ASSUME NEW i \in 0..m PROVE f[i] = IF i = 0 THEN parts ELSE CutPart(n, f[i - 1], of[i])
    <3>1. CASE i = 0
      BY <3>1, <2>1 DEF Recursive
    <3>2. CASE i # 0
      <4>1. i \in 1..m /\ i - 1 \in 0..m
        BY <3>2, <1>3
      <4>2. f[i] = step[i][f[i - 1]] /\ f[i - 1] \in V
        BY <4>1, <2>1 DEF Recursive
      <4> QED BY <4>1, <4>2, <3>2
    <3> QED BY <3>1, <3>2
  <2>4. Rounds(f)
    BY <2>2, <2>3
  <2> HIDE DEF Rounds
  <2> QED BY <2>4
<1> DEFINE f == CHOOSE g : Rounds(g)
<1>6. Rounds(f)
  BY <1>5
<1>7. CutRound(n, target, parts) = f[m]
  BY <1>2
<1> HIDE DEF f
<1>8. f[0] = parts /\ \A i \in 1..m : f[i] = CutPart(n, f[i - 1], of[i])
  <2>1. 0 \in 0..m /\ \A i \in 1..m : i \in 0..m /\ i # 0
    BY <1>3
  <2> QED BY <1>6, <2>1
<1>9. PICK t : SumsTo(t, of) /\ SumOf(of) = t[m]
  BY <1>1, SumIs DEF m
<1>10. t \in [0..m -> Nat] /\ t[0] = 0 /\ \A i \in 1..m : t[i] = t[i - 1] + of[i]
  BY <1>9 DEF SumsTo, m
<1>11. SumOf(parts) \in Nat /\ \A s \in V : SumOf(s) \in Nat
  BY CoinsAreNumbers DEF Cuts
<1> HIDE DEF Rounds, V
<1> DEFINE P == {i \in 0..m : f[i] \in V /\ (SumOf(f[i]) = n \/ SumOf(f[i]) = SumOf(parts) + t[i])}
<1>12. 0 \in P
  BY <1>3, <1>4, <1>8, <1>10, <1>11
<1>13. ASSUME NEW i \in 1..m, i - 1 \in P PROVE i \in P
  <2>1. f[i - 1] \in V /\ (SumOf(f[i - 1]) = n \/ SumOf(f[i - 1]) = SumOf(parts) + t[i - 1])
    BY <1>13
  <2>2. f[i] = CutPart(n, f[i - 1], of[i]) /\ of[i] \in CoinValues
    BY <1>3, <1>8
  <2>3. /\ f[i] \in V
        /\ SumOf(f[i]) = n \/ SumOf(f[i]) = SumOf(f[i - 1]) + of[i]
        /\ SumOf(f[i - 1]) = n => f[i] = f[i - 1]
    BY <2>1, <2>2, CutPartCuts DEF V
  <2>4. t[i] = t[i - 1] + of[i] /\ t[i - 1] \in Nat /\ of[i] \in Nat
    <3>1. i - 1 \in 0..m
      BY <1>3
    <3> QED BY <1>3, <1>10, <3>1, CoinsAreNumbers
  <2>5. SumOf(f[i]) = n \/ SumOf(f[i]) = SumOf(parts) + t[i]
    <3>1. CASE SumOf(f[i - 1]) = n
      BY <2>3, <3>1
    <3>2. CASE SumOf(f[i - 1]) = SumOf(parts) + t[i - 1]
      <4>1. (SumOf(parts) + t[i - 1]) + of[i] = SumOf(parts) + t[i]
        BY <1>11, <2>4
      <4> QED BY <2>3, <3>2, <4>1
    <3> QED BY <2>1, <3>1, <3>2
  <2> QED BY <1>3, <2>3, <2>5
<1>14. f[m] \in V /\ (SumOf(f[m]) = n \/ SumOf(f[m]) = SumOf(parts) + t[m])
  <2>1. \A i \in 0..m : i \in P
    <3> HIDE DEF P
    <3> QED BY <1>3, <1>12, <1>13, Induction
  <2> QED BY <1>3, <2>1
<1> QED BY <1>1, <1>7, <1>9, <1>14 DEF V

\* The outer loop ends with all of the amount cut.
LEMMA CutTowardsCuts ==
    ASSUME NEW n \in Nat, n < Part(Bits), NEW target \in Nat \ {0}, target < Part(Bits)
    PROVE  CutTowards(n, target) \in Seq(CoinValues) /\ SumOf(CutTowards(n, target)) = n
<1> DEFINE m == n \div target + 1
           V == Cuts(n)
           step == [i \in 1..m |-> [v \in V |-> CutRound(n, target, v)]]
           Rounds(f) == f = [i \in 0..m |-> IF i = 0 THEN <<>> ELSE CutRound(n, target, f[i - 1])]
<1>1. m \in Nat /\ m * target > n
  <2>1. n \div target \in Nat /\ n % target \in Nat /\ n % target < target
        /\ n = target * (n \div target) + (n % target)
    BY Remainder
  <2> DEFINE q == n \div target
  <2>2. q \in Nat /\ n = target * q + (n % target) /\ (q + 1) * target = target * q + target
        /\ target * q \in Nat
    BY <2>1
  <2> HIDE DEF q
  <2>3. (q + 1) * target > n
    BY <2>1, <2>2
  <2> QED BY <2>2, <2>3 DEF q
<1>2. CutTowards(n, target) = (CHOOSE f : Rounds(f))[m]
  BY DEF CutTowards
<1> HIDE DEF m
<1>3. step \in [1..m -> [V -> V]] /\ <<>> \in V
  <2>1. ASSUME NEW v \in V PROVE CutRound(n, target, v) \in V
    BY CutRoundCuts
  <2>2. <<>> \in V
    BY SumOfNone DEF Cuts
  <2> HIDE DEF V
  <2> QED BY <2>1, <2>2
<1>4. \E f : Rounds(f)
  <2>1. PICK f : Recursive(f, m, V, <<>>, step)
    <3> HIDE DEF V, step
    <3> QED BY <1>1, <1>3, Recursion
  <2> HIDE DEF V
  <2>2. f = [i \in 0..m |-> f[i]]
    BY <2>1 DEF Recursive
  <2>3. ASSUME NEW i \in 0..m PROVE f[i] = IF i = 0 THEN <<>> ELSE CutRound(n, target, f[i - 1])
    <3>1. CASE i = 0
      BY <3>1, <2>1 DEF Recursive
    <3>2. CASE i # 0
      <4>1. i \in 1..m /\ i - 1 \in 0..m
        BY <3>2, <1>1
      <4>2. f[i] = step[i][f[i - 1]] /\ f[i - 1] \in V
        BY <4>1, <2>1 DEF Recursive
      <4> QED BY <4>1, <4>2, <3>2
    <3> QED BY <3>1, <3>2
  <2>4. Rounds(f)
    BY <2>2, <2>3
  <2> HIDE DEF Rounds
  <2> QED BY <2>4
<1> DEFINE f == CHOOSE g : Rounds(g)
<1>5. Rounds(f)
  BY <1>4
<1>6. CutTowards(n, target) = f[m]
  BY <1>2
<1> HIDE DEF f
<1>7. f[0] = <<>> /\ \A i \in 1..m : f[i] = CutRound(n, target, f[i - 1])
  <2>1. 0 \in 0..m /\ \A i \in 1..m : i \in 0..m /\ i # 0
    BY <1>1
  <2> QED BY <1>5, <2>1
<1> HIDE DEF Rounds
<1>8. \A s \in V : SumOf(s) \in Nat /\ SumOf(s) <= n /\ s \in Seq(CoinValues)
  BY CoinsAreNumbers DEF Cuts
<1> HIDE DEF V
<1> DEFINE P == {i \in 0..m : f[i] \in V /\ (SumOf(f[i]) = n \/ SumOf(f[i]) = i * target)}
<1>9. 0 \in P
  BY <1>1, <1>3, <1>7, SumOfNone
<1>10. ASSUME NEW i \in 1..m, i - 1 \in P PROVE i \in P
  <2>1. f[i - 1] \in V /\ (SumOf(f[i - 1]) = n \/ SumOf(f[i - 1]) = (i - 1) * target)
    BY <1>10
  <2>2. f[i] = CutRound(n, target, f[i - 1])
    BY <1>7
  <2>3. f[i] \in V /\ (SumOf(f[i]) = n \/ SumOf(f[i]) = SumOf(f[i - 1]) + target)
    BY <2>1, <2>2, CutRoundCuts DEF V
  <2>4. (i - 1) * target + target = i * target
    BY <1>1
  <2>5. SumOf(f[i]) = n \/ SumOf(f[i]) = i * target
    <3>1. CASE SumOf(f[i - 1]) = n
      <4>1. SumOf(f[i]) <= n /\ SumOf(f[i]) \in Nat
        BY <1>8, <2>3
      <4> QED BY <2>3, <3>1, <4>1
    <3>2. CASE SumOf(f[i - 1]) = (i - 1) * target
      BY <2>3, <2>4, <3>2
    <3> QED BY <2>1, <3>1, <3>2
  <2> QED BY <1>1, <2>3, <2>5
<1>11. f[m] \in V /\ (SumOf(f[m]) = n \/ SumOf(f[m]) = m * target)
  <2>1. \A i \in 0..m : i \in P
    <3> HIDE DEF P
    <3> QED BY <1>1, <1>9, <1>10, Induction
  <2> QED BY <1>1, <2>1
<1>12. SumOf(f[m]) = n
  <2>1. SumOf(f[m]) \in Nat /\ SumOf(f[m]) <= n
    BY <1>8, <1>11
  <2> QED BY <1>1, <1>11, <2>1
<1> QED BY <1>6, <1>8, <1>11, <1>12

\* What goes in behind k others stands between them and the rest.
LEMMA Insertion ==
    ASSUME NEW s, NEW k \in Int, NEW x
    PROVE  InsertAt(s, k + 1, x) = (SubSeq(s, 1, k) \o <<x>>) \o SubSeq(s, k + 1, Len(s))
<1>1. \A i : InsertAt(s, i, x) = (SubSeq(s, 1, i - 1) \o <<x>>) \o SubSeq(s, i, Len(s))
  BY DEF InsertAt
<1>2. (k + 1) - 1 = k
  OBVIOUS
<1> QED BY <1>1, <1>2, Zenon

\* Putting a part in its place changes no sum.
LEMMA InsertedAddsUp ==
    ASSUME NEW s \in Seq(CoinValues), NEW x \in CoinValues
    PROVE  Inserted(s, x) \in Seq(CoinValues) /\ SumOf(Inserted(s, x)) = SumOf(s) + x
<1> DEFINE n == Len(s)
           C == {i \in DOMAIN s : s[i] <= x}
           k == Cardinality(C)
           a == SubSeq(s, 1, k)
           b == SubSeq(s, k + 1, n)
<1>1. n \in Nat /\ DOMAIN s = 1..n
  OBVIOUS
<1>2. k \in 0..n
  <2>1. IsFiniteSet(1..n) /\ Cardinality(1..n) = n
    BY <1>1, FS_Interval
  <2>2. C \subseteq 1..n
    BY <1>1
  <2> HIDE DEF C
  <2>3. IsFiniteSet(C) /\ Cardinality(C) <= n
    BY <2>1, <2>2, FS_Subset
  <2>4. Cardinality(C) \in Nat
    BY <2>3, FS_CardinalityType
  <2> QED BY <1>1, <2>3, <2>4
<1>3. Inserted(s, x) = (a \o <<x>>) \o b
  <2>1. k \in Int
    BY <1>2
  <2>2. Inserted(s, x) = InsertAt(s, k + 1, x)
    BY DEF Inserted
  <2> HIDE DEF k
  <2>3. InsertAt(s, k + 1, x) = (SubSeq(s, 1, k) \o <<x>>) \o SubSeq(s, k + 1, Len(s))
    BY <2>1, Insertion, Zenon
  <2> QED BY <2>2, <2>3, Zenon
<1> HIDE DEF k, n
<1>4. a \in Seq(CoinValues) /\ b \in Seq(CoinValues)
  <2>1. \A i \in 1..k : s[i] \in CoinValues
    BY <1>1, <1>2
  <2>2. \A i \in (k + 1)..n : s[i] \in CoinValues
    BY <1>1, <1>2
  <2>3. k \in Int /\ k + 1 \in Int /\ n \in Int
    BY <1>1, <1>2
  <2> QED BY <2>1, <2>2, <2>3, SubSeqProperties
<1>5. a \o b = s
  <2>1. 1 \in 1..(Len(s) + 1) /\ k \in (1 - 1)..Len(s) /\ n \in k..Len(s)
    BY <1>1, <1>2 DEF n
  <2>2. SubSeq(s, 1, k) \o SubSeq(s, k + 1, n) = SubSeq(s, 1, n)
    BY <2>1, ConcatAdjacentSubSeq
  <2>3. SubSeq(s, 1, n) = s
    BY SubSeqFull DEF n
  <2> QED BY <2>2, <2>3
<1> HIDE DEF a, b
<1>6. a \in Seq(Nat) /\ b \in Seq(Nat) /\ x \in Nat /\ SumOf(a) \in Nat /\ SumOf(b) \in Nat
  BY <1>4, CoinsAreNumbers
<1>7. SumOf(s) = SumOf(a) + SumOf(b)
  BY <1>5, <1>6, SumOfJoined
<1>8. /\ a \o <<x>> = Append(a, x)
      /\ Append(a, x) \in Seq(Nat) /\ Append(a, x) \in Seq(CoinValues)
  BY <1>4, <1>6
<1>9. SumOf((a \o <<x>>) \o b) = (SumOf(a) + x) + SumOf(b)
  <2>1. SumOf(Append(a, x) \o b) = SumOf(Append(a, x)) + SumOf(b)
    BY <1>6, <1>8, SumOfJoined
  <2>2. SumOf(Append(a, x)) = SumOf(a) + x
    BY <1>6, SumOfAppended
  <2> QED BY <1>8, <2>1, <2>2
<1>10. (a \o <<x>>) \o b \in Seq(CoinValues)
  <2>1. Append(a, x) \o b \in Seq(CoinValues)
    BY <1>4, <1>8
  <2> QED BY <1>8, <2>1
<1>11. (SumOf(a) + x) + SumOf(b) = SumOf(s) + x
  BY <1>6, <1>7
<1> QED BY <1>3, <1>9, <1>10, <1>11

\* Sorting changes no sum.
LEMMA AscendingAddsUp ==
    ASSUME NEW parts \in Seq(CoinValues)
    PROVE  Ascending(parts) \in Seq(CoinValues) /\ SumOf(Ascending(parts)) = SumOf(parts)
<1> DEFINE m == Len(parts)
           V == Seq(CoinValues)
           step == [i \in 1..m |-> [v \in V |-> Inserted(v, parts[i])]]
           Sorts(f) == f = [i \in 0..m |-> IF i = 0 THEN <<>> ELSE Inserted(f[i - 1], parts[i])]
<1>1. m \in Nat /\ \A i \in 1..m : parts[i] \in CoinValues
  OBVIOUS
<1>2. Ascending(parts) = (CHOOSE f : Sorts(f))[m]
  BY DEF Ascending
<1> HIDE DEF m
<1>3. step \in [1..m -> [V -> V]] /\ <<>> \in V
  <2>1. ASSUME NEW i \in 1..m, NEW v \in V PROVE Inserted(v, parts[i]) \in V
    BY <1>1, InsertedAddsUp
  <2>2. <<>> \in V
    OBVIOUS
  <2> HIDE DEF V
  <2> QED BY <2>1, <2>2
<1>4. \E f : Sorts(f)
  <2>1. PICK f : Recursive(f, m, V, <<>>, step)
    <3> HIDE DEF V, step
    <3> QED BY <1>1, <1>3, Recursion
  <2> HIDE DEF V
  <2>2. f = [i \in 0..m |-> f[i]]
    BY <2>1 DEF Recursive
  <2>3. ASSUME NEW i \in 0..m PROVE f[i] = IF i = 0 THEN <<>> ELSE Inserted(f[i - 1], parts[i])
    <3>1. CASE i = 0
      BY <3>1, <2>1 DEF Recursive
    <3>2. CASE i # 0
      <4>1. i \in 1..m /\ i - 1 \in 0..m
        BY <3>2, <1>1
      <4>2. f[i] = step[i][f[i - 1]] /\ f[i - 1] \in V
        BY <4>1, <2>1 DEF Recursive
      <4> QED BY <4>1, <4>2, <3>2
    <3> QED BY <3>1, <3>2
  <2>4. Sorts(f)
    BY <2>2, <2>3
  <2> HIDE DEF Sorts
  <2> QED BY <2>4
<1> DEFINE f == CHOOSE g : Sorts(g)
<1>5. Sorts(f)
  BY <1>4
<1>6. Ascending(parts) = f[m]
  BY <1>2
<1> HIDE DEF f
<1>7. f[0] = <<>> /\ \A i \in 1..m : f[i] = Inserted(f[i - 1], parts[i])
  <2>1. 0 \in 0..m /\ \A i \in 1..m : i \in 0..m /\ i # 0
    BY <1>1
  <2> QED BY <1>5, <2>1
<1> HIDE DEF Sorts
<1>8. PICK t : SumsTo(t, parts) /\ SumOf(parts) = t[m]
  BY CoinsAreNumbers, SumIs DEF m
<1>9. t[0] = 0 /\ \A i \in 1..m : t[i] = t[i - 1] + parts[i]
  BY <1>8 DEF SumsTo, m
<1> DEFINE P == {i \in 0..m : f[i] \in Seq(CoinValues) /\ SumOf(f[i]) = t[i]}
<1>10. 0 \in P
  <2>1. 0 \in 0..m /\ <<>> \in Seq(CoinValues)
    BY <1>1
  <2> QED BY <2>1, <1>7, <1>9, SumOfNone
<1>11. ASSUME NEW i \in 1..m, i - 1 \in P PROVE i \in P
  <2>1. f[i - 1] \in Seq(CoinValues) /\ SumOf(f[i - 1]) = t[i - 1] /\ parts[i] \in CoinValues
    BY <1>1, <1>11
  <2>2. f[i] = Inserted(f[i - 1], parts[i]) /\ t[i] = t[i - 1] + parts[i] /\ i \in 0..m
    BY <1>1, <1>7, <1>9
  <2>3. f[i] \in Seq(CoinValues) /\ SumOf(f[i]) = SumOf(f[i - 1]) + parts[i]
    BY <2>1, <2>2, InsertedAddsUp
  <2> QED BY <2>1, <2>2, <2>3
<1>12. f[m] \in Seq(CoinValues) /\ SumOf(f[m]) = t[m]
  <2>1. \A i \in 0..m : i \in P
    <3> HIDE DEF P
    <3> QED BY <1>1, <1>10, <1>11, Induction
  <2> QED BY <1>1, <2>1
<1> QED BY <1>6, <1>8, <1>12

\* Amount::split_targeted cuts all of an amount into coins there are keys for,
\* whatever the target.
LEMMA SplitTargetedAddsUp ==
    ASSUME NEW n \in Nat, n < Part(Bits), NEW target \in {NoTarget} \cup (Nat \ {0})
    PROVE  SplitTargeted(n, target) \in Seq(CoinValues) /\ SumOf(SplitTargeted(n, target)) = n
<1>1. Split(n) \in Seq(CoinValues) /\ SumOf(Split(n)) = n
  BY SplitAddsUp
<1>2. CASE target = NoTarget
  BY <1>1, <1>2, AscendingAddsUp DEF SplitTargeted
<1>3. CASE target # NoTarget /\ n <= target
  BY <1>1, <1>3 DEF SplitTargeted
<1>4. CASE target # NoTarget /\ ~(n <= target)
  <2>1. target \in Nat \ {0} /\ target < Part(Bits)
    <3>1. Part(Bits) \in Nat
      BY AmountsAssumption, PartDoubles
    <3> QED BY <1>4, <3>1
  <2>2. SplitTargeted(n, target) = Ascending(CutTowards(n, target))
    BY <1>4 DEF SplitTargeted
  <2> QED BY <2>1, <2>2, CutTowardsCuts, AscendingAddsUp
<1> QED BY <1>2, <1>3, <1>4

-----------------------------------------------------------------------------
(* Whatever the amount is, it is cut into a list of coins. *)

\* The bits of a number that may need more than the keyset has.
LEMMA SplitType ==
    ASSUME NEW n
    PROVE  Split(n) \in Seq(CoinValues)
<1> DEFINE V == Seq(CoinValues)
           One(s, i) == IF (n \div Part(Bits - i)) % 2 = 1 THEN Append(s, Part(Bits - i)) ELSE s
           step == [i \in 1..Bits |-> [s \in V |-> One(s, i)]]
           Splits(f) == f = [i \in 0..Bits |-> IF i = 0 THEN <<>> ELSE One(f[i - 1], i)]
<1>0. Bits \in Nat
  BY AmountsAssumption
<1>1. ASSUME NEW s \in V, NEW i \in 1..Bits PROVE One(s, i) \in V
  <2>1. Bits - i \in 0..(Bits - 1)
    BY <1>0
  <2>2. Part(Bits - i) \in CoinValues
    BY <2>1 DEF CoinValues
  <2> QED BY <2>2
<1>2. Split(n) = (CHOOSE f : Splits(f))[Bits]
  BY DEF Split
<1> HIDE DEF One
<1>3. step \in [1..Bits -> [V -> V]] /\ <<>> \in V
  <2>1. <<>> \in V
    OBVIOUS
  <2> HIDE DEF V
  <2> QED BY <1>1, <2>1
<1>4. \E f : Splits(f)
  <2>1. PICK f : Recursive(f, Bits, V, <<>>, step)
    <3> HIDE DEF V, step
    <3> QED BY <1>0, <1>3, Recursion
  <2> HIDE DEF V
  <2>2. f = [i \in 0..Bits |-> f[i]]
    BY <2>1 DEF Recursive
  <2>3. ASSUME NEW i \in 0..Bits PROVE f[i] = IF i = 0 THEN <<>> ELSE One(f[i - 1], i)
    <3>1. CASE i = 0
      BY <3>1, <2>1 DEF Recursive
    <3>2. CASE i # 0
      <4>1. i \in 1..Bits /\ i - 1 \in 0..Bits
        BY <3>2, <1>0
      <4>2. f[i] = step[i][f[i - 1]] /\ f[i - 1] \in V
        BY <4>1, <2>1 DEF Recursive
      <4> QED BY <4>1, <4>2, <3>2
    <3> QED BY <3>1, <3>2
  <2>4. Splits(f)
    BY <2>2, <2>3
  <2> HIDE DEF Splits
  <2> QED BY <2>4
<1> DEFINE f == CHOOSE g : Splits(g)
<1>5. Splits(f)
  BY <1>4
<1>6. Split(n) = f[Bits]
  BY <1>2
<1> HIDE DEF f
<1>7. f[0] = <<>> /\ \A i \in 1..Bits : f[i] = One(f[i - 1], i)
  <2>1. 0 \in 0..Bits /\ \A i \in 1..Bits : i \in 0..Bits /\ i # 0
    BY <1>0
  <2> QED BY <1>5, <2>1
<1> HIDE DEF Splits
<1> DEFINE P == {i \in 0..Bits : f[i] \in V}
<1>8. 0 \in P
  <2>1. <<>> \in V /\ 0 \in 0..Bits
    BY <1>0
  <2> QED BY <2>1, <1>7
<1>9. ASSUME NEW i \in 1..Bits, i - 1 \in P PROVE i \in P
  BY <1>0, <1>1, <1>7, <1>9
<1>10. \A i \in 0..Bits : i \in P
  <2> HIDE DEF P
  <2> QED BY <1>0, <1>8, <1>9, Induction
<1> QED BY <1>0, <1>6, <1>10

\* A round of the inner loop leaves a list of coins.
LEMMA CutRoundType ==
    ASSUME NEW n, NEW target, NEW parts \in Seq(CoinValues)
    PROVE  CutRound(n, target, parts) \in Seq(CoinValues)
<1> DEFINE of == Split(target)
           m == Len(of)
           V == Seq(CoinValues)
           step == [i \in 1..m |-> [v \in V |-> CutPart(n, v, of[i])]]
           Rounds(f) == f = [i \in 0..m |-> IF i = 0 THEN parts ELSE CutPart(n, f[i - 1], of[i])]
<1>1. of \in Seq(CoinValues)
  BY SplitType
<1>2. CutRound(n, target, parts) = (CHOOSE f : Rounds(f))[m]
  BY DEF CutRound
<1> HIDE DEF of
<1>3. m \in Nat /\ \A i \in 1..m : of[i] \in CoinValues
  BY <1>1
<1>4. ASSUME NEW i \in 1..m, NEW v \in V PROVE CutPart(n, v, of[i]) \in V
  <2>1. of[i] \in CoinValues /\ Split(n - SumOf(v)) \in V
    BY <1>3, SplitType
  <2>2. Append(v, of[i]) \in V /\ v \o Split(n - SumOf(v)) \in V
    BY <2>1
  <2> HIDE DEF V
  <2> QED BY <2>2 DEF CutPart
<1> HIDE DEF m, V
<1>5. step \in [1..m -> [V -> V]] /\ parts \in V
  BY <1>4 DEF V
<1>6. \E f : Rounds(f)
  <2>1. PICK f : Recursive(f, m, V, parts, step)
    <3> HIDE DEF step
    <3> QED BY <1>3, <1>5, Recursion
  <2>2. f = [i \in 0..m |-> f[i]]
    BY <2>1 DEF Recursive
  <2>3. ASSUME NEW i \in 0..m PROVE f[i] = IF i = 0 THEN parts ELSE CutPart(n, f[i - 1], of[i])
    <3>1. CASE i = 0
      BY <3>1, <2>1 DEF Recursive
    <3>2. CASE i # 0
      <4>1. i \in 1..m /\ i - 1 \in 0..m
        BY <3>2, <1>3
      <4>2. f[i] = step[i][f[i - 1]] /\ f[i - 1] \in V
        BY <4>1, <2>1 DEF Recursive
      <4> QED BY <4>1, <4>2, <3>2
    <3> QED BY <3>1, <3>2
  <2>4. Rounds(f)
    BY <2>2, <2>3
  <2> HIDE DEF Rounds
  <2> QED BY <2>4
<1> DEFINE f == CHOOSE g : Rounds(g)
<1>7. Rounds(f)
  BY <1>6
<1>8. CutRound(n, target, parts) = f[m]
  BY <1>2
<1> HIDE DEF f
<1>9. f[0] = parts /\ \A i \in 1..m : f[i] = CutPart(n, f[i - 1], of[i])
  <2>1. 0 \in 0..m /\ \A i \in 1..m : i \in 0..m /\ i # 0
    BY <1>3
  <2> QED BY <1>7, <2>1
<1> HIDE DEF Rounds
<1> DEFINE P == {i \in 0..m : f[i] \in V}
<1>10. 0 \in P
  BY <1>3, <1>5, <1>9
<1>11. ASSUME NEW i \in 1..m, i - 1 \in P PROVE i \in P
  <2>1. f[i - 1] \in V /\ f[i] = CutPart(n, f[i - 1], of[i]) /\ i \in 0..m
    BY <1>3, <1>9, <1>11
  <2> QED BY <1>4, <2>1
<1>12. \A i \in 0..m : i \in P
  <2> HIDE DEF P
  <2> QED BY <1>3, <1>10, <1>11, Induction
<1> QED BY <1>3, <1>8, <1>12 DEF V

\* So does the outer loop.
LEMMA CutTowardsType ==
    ASSUME NEW n \in Nat, NEW target \in Nat \ {0}
    PROVE  CutTowards(n, target) \in Seq(CoinValues)
<1> DEFINE m == n \div target + 1
           V == Seq(CoinValues)
           step == [i \in 1..m |-> [v \in V |-> CutRound(n, target, v)]]
           Rounds(f) == f = [i \in 0..m |-> IF i = 0 THEN <<>> ELSE CutRound(n, target, f[i - 1])]
<1>1. m \in Nat
  BY Remainder
<1>2. CutTowards(n, target) = (CHOOSE f : Rounds(f))[m]
  BY DEF CutTowards
<1>3. <<>> \in V /\ \A v \in V : CutRound(n, target, v) \in V
  BY CutRoundType
<1> HIDE DEF m, V
<1>4. step \in [1..m -> [V -> V]]
  BY <1>3
<1>5. \E f : Rounds(f)
  <2>1. PICK f : Recursive(f, m, V, <<>>, step)
    <3> HIDE DEF step
    <3> QED BY <1>1, <1>3, <1>4, Recursion
  <2>2. f = [i \in 0..m |-> f[i]]
    BY <2>1 DEF Recursive
  <2>3. ASSUME NEW i \in 0..m PROVE f[i] = IF i = 0 THEN <<>> ELSE CutRound(n, target, f[i - 1])
    <3>1. CASE i = 0
      BY <3>1, <2>1 DEF Recursive
    <3>2. CASE i # 0
      <4>1. i \in 1..m /\ i - 1 \in 0..m
        BY <3>2, <1>1
      <4>2. f[i] = step[i][f[i - 1]] /\ f[i - 1] \in V
        BY <4>1, <2>1 DEF Recursive
      <4> QED BY <4>1, <4>2, <3>2
    <3> QED BY <3>1, <3>2
  <2>4. Rounds(f)
    BY <2>2, <2>3
  <2> HIDE DEF Rounds
  <2> QED BY <2>4
<1> DEFINE f == CHOOSE g : Rounds(g)
<1>6. Rounds(f)
  BY <1>5
<1>7. CutTowards(n, target) = f[m]
  BY <1>2
<1> HIDE DEF f
<1>8. f[0] = <<>> /\ \A i \in 1..m : f[i] = CutRound(n, target, f[i - 1])
  <2>1. 0 \in 0..m /\ \A i \in 1..m : i \in 0..m /\ i # 0
    BY <1>1
  <2> QED BY <1>6, <2>1
<1> HIDE DEF Rounds
<1> DEFINE P == {i \in 0..m : f[i] \in V}
<1>9. 0 \in P
  BY <1>1, <1>3, <1>8
<1>10. ASSUME NEW i \in 1..m, i - 1 \in P PROVE i \in P
  BY <1>1, <1>3, <1>8, <1>10
<1>11. \A i \in 0..m : i \in P
  <2> HIDE DEF P
  <2> QED BY <1>1, <1>9, <1>10, Induction
<1> QED BY <1>1, <1>7, <1>11 DEF V

\* Amount::split_targeted answers a list of coins.
LEMMA SplitTargetedType ==
    ASSUME NEW n \in Int, NEW target \in SplitTargets
    PROVE  SplitTargeted(n, target) \in Seq(CoinValues)
<1>1. Split(n) \in Seq(CoinValues)
  BY SplitType
<1>2. CASE target = NoTarget
  BY <1>1, <1>2, AscendingAddsUp DEF SplitTargeted
<1>3. CASE target # NoTarget /\ n <= target
  BY <1>1, <1>3 DEF SplitTargeted
<1>4. CASE target # NoTarget /\ ~(n <= target)
  <2>1. target \in Nat \ {0} /\ n \in Nat
    BY <1>4 DEF SplitTargets
  <2>2. SplitTargeted(n, target) = Ascending(CutTowards(n, target))
    BY <1>4 DEF SplitTargeted
  <2> QED BY <2>1, <2>2, CutTowardsType, AscendingAddsUp
<1> QED BY <1>2, <1>3, <1>4

\* The number of blanks is defined for every fee.
LEMMA BlankCountType ==
    ASSUME NEW fee \in Nat
    PROVE  BlankCount(fee) \in Nat
<1>1. CASE fee <= 0
  BY <1>1 DEF BlankCount
<1>2. CASE fee = 1
  BY <1>2 DEF BlankCount
<1>3. CASE fee >= 2
  <2> DEFINE Fits(c) == Part(c) >= fee /\ Part(c - 1) < fee
  <2>1. \E c \in 1..fee : Fits(c)
    <3> SUFFICES ASSUME \A c \in 1..fee : ~Fits(c) PROVE FALSE
      OBVIOUS
    <3> DEFINE P == {c \in 0..fee : Part(c) < fee /\ Part(c) > c}
    <3>1. 0 \in P
      BY <1>3, PartDoubles
    <3>2. ASSUME NEW c \in 1..fee, c - 1 \in P PROVE c \in P
      <4>1. c - 1 \in Nat /\ (c - 1) + 1 = c
        OBVIOUS
      <4>2. Part(c - 1) \in Nat /\ Part(c) = 2 * Part(c - 1)
        BY <4>1, PartDoubles
      <4>3. Part(c - 1) < fee /\ Part(c - 1) > c - 1 /\ ~Fits(c)
        BY <3>2
      <4> QED BY <4>1, <4>2, <4>3
    <3>3. \A c \in 0..fee : c \in P
      <4> HIDE DEF P
      <4> QED BY <3>1, <3>2, Induction
    <3>4. fee \in P
      BY <3>3
    <3> QED BY <3>4, PartDoubles
  <2>2. BlankCount(fee) = CHOOSE c \in 1..fee : Fits(c)
    BY <1>3 DEF BlankCount
  <2> HIDE DEF Fits
  <2> QED BY <2>1, <2>2
<1> QED BY <1>1, <1>2, <1>3

-----------------------------------------------------------------------------
(* Folds over finite sets *)

\* A set of subsets of a finite set has a minimal one.
LEMMA MinimalSubset ==
    ASSUME NEW S, IsFiniteSet(S), NEW T, T \subseteq SUBSET S, T # {}
    PROVE  \E x \in T : \A y \in T : y \subseteq x => y = x
<1>1. IsWellFoundedOn(StrictSubsetOrdering(S), SUBSET S)
  BY FS_FiniteSubsetsOfFinite, FS_StrictSubsetOrderingWellFounded
<1>2. PICK x \in T : \A y \in T : ~(<<y, x>> \in StrictSubsetOrdering(S))
  BY <1>1, WFMin
<1> QED BY <1>2 DEF StrictSubsetOrdering

Chosen(s) == CHOOSE x \in s : TRUE

\* F takes the elements of a set out one by one and combines what it finds
\* with G.
Folds(F, G, S) ==
    F = [s \in SUBSET S |-> IF s = {} THEN 0 ELSE G[<<s, F[s \ {Chosen(s)}]>>]]

\* Two folds of the same sets agree.
LEMMA FoldUnique ==
    ASSUME NEW S, IsFiniteSet(S), NEW G, NEW E, NEW F,
           NEW U, NEW V, S \subseteq U, S \subseteq V, Folds(E, G, U), Folds(F, G, V)
    PROVE  E[S] = F[S]
<1> DEFINE Bad == {s \in SUBSET S : E[s] # F[s]}
<1>1. SUFFICES ASSUME Bad # {} PROVE FALSE
  OBVIOUS
<1>2. PICK s \in Bad : \A t \in Bad : t \subseteq s => t = s
  <2>1. Bad \subseteq SUBSET S
    OBVIOUS
  <2> HIDE DEF Bad
  <2> QED BY <1>1, <2>1, MinimalSubset
<1>3. E[s] = IF s = {} THEN 0 ELSE G[<<s, E[s \ {Chosen(s)}]>>]
  BY DEF Folds
<1>4. F[s] = IF s = {} THEN 0 ELSE G[<<s, F[s \ {Chosen(s)}]>>]
  BY DEF Folds
<1>5. s # {} => Chosen(s) \in s
  BY DEF Chosen
<1>6. s # {} => E[s \ {Chosen(s)}] = F[s \ {Chosen(s)}]
  BY <1>2, <1>5
<1> QED BY <1>2, <1>3, <1>4, <1>6

\* A fold of natural numbers exists.
LEMMA FoldExists ==
    ASSUME NEW S, IsFiniteSet(S), NEW G, \A s \in SUBSET S, n \in Nat : G[<<s, n>>] \in Nat
    PROVE  \E F \in [SUBSET S -> Nat] : Folds(F, G, S)
<1> DEFINE Good(s) == \E F \in [SUBSET s -> Nat] : Folds(F, G, s)
           Bad == {s \in SUBSET S : ~Good(s)}
<1>1. SUFFICES ASSUME Bad # {} PROVE FALSE
  OBVIOUS
<1>2. PICK s \in Bad : \A t \in Bad : t \subseteq s => t = s
  <2>1. Bad \subseteq SUBSET S
    OBVIOUS
  <2> HIDE DEF Bad
  <2> QED BY <1>1, <2>1, MinimalSubset
<1>3. \A t \in SUBSET s : t # s => Good(t)
  BY <1>2
<1>4. \A t \in SUBSET s : IsFiniteSet(t)
  BY <1>2, FS_Subset
<1> DEFINE H(t) == CHOOSE F \in [SUBSET t -> Nat] : Folds(F, G, t)
           PartOf(t) == H(t)[t]
           Final == IF s = {} THEN 0 ELSE G[<<s, PartOf(s \ {Chosen(s)})>>]
           F == [t \in SUBSET s |-> IF t = s THEN Final ELSE PartOf(t)]
<1>5. ASSUME NEW t \in SUBSET s, t # s
      PROVE  /\ H(t) \in [SUBSET t -> Nat] /\ Folds(H(t), G, t)
             /\ PartOf(t) \in Nat
  <2>1. H(t) \in [SUBSET t -> Nat] /\ Folds(H(t), G, t)
    BY <1>3, <1>5
  <2> QED BY <2>1
<1>6. \A t \in SUBSET s : t # {} => Chosen(t) \in t
  BY DEF Chosen
<1>7. ASSUME NEW t \in SUBSET s, t # s
      PROVE  PartOf(t) = IF t = {} THEN 0 ELSE G[<<t, PartOf(t \ {Chosen(t)})>>]
  <2>1. PartOf(t) = IF t = {} THEN 0 ELSE G[<<t, H(t)[t \ {Chosen(t)}]>>]
    <3> DEFINE E == H(t)
    <3>1. Folds(E, G, t)
      BY <1>5, <1>7
    <3> HIDE DEF E
    <3>2. E[t] = IF t = {} THEN 0 ELSE G[<<t, E[t \ {Chosen(t)}]>>]
      BY <3>1 DEF Folds
    <3> QED BY <3>2 DEF E
  <2>2. CASE t # {}
    <3> DEFINE u == t \ {Chosen(t)}
    <3>1. u \in SUBSET s /\ u # s /\ u \subseteq t
      BY <1>6, <2>2
    <3>2. Folds(H(u), G, u) /\ Folds(H(t), G, t)
      BY <1>5, <1>7, <3>1
    <3>3. IsFiniteSet(u)
      BY <1>4, <3>1
    <3> HIDE DEF H, u
    <3>4. H(t)[u] = H(u)[u]
      BY <3>1, <3>2, <3>3, FoldUnique
    <3> QED BY <2>1, <2>2, <3>4 DEF u
  <2> QED BY <2>1, <2>2
<1>8. s # {} => s \ {Chosen(s)} \in SUBSET s /\ s \ {Chosen(s)} # s
  BY <1>6
<1>9. Final \in Nat
  BY <1>2, <1>5, <1>8
<1> HIDE DEF PartOf, Final
<1>10. F \in [SUBSET s -> Nat]
  BY <1>5, <1>9
<1>11. ASSUME NEW t \in SUBSET s
       PROVE  F[t] = IF t = {} THEN 0 ELSE G[<<t, F[t \ {Chosen(t)}]>>]
  <2>1. t # {} => F[t \ {Chosen(t)}] = PartOf(t \ {Chosen(t)})
    BY <1>6
  <2>2. CASE t = s
    BY <2>1, <2>2 DEF Final
  <2>3. CASE t # s
    BY <1>7, <2>1, <2>3
  <2> QED BY <2>2, <2>3
<1>12. Folds(F, G, s)
  <2> HIDE DEF F
  <2>1. DOMAIN F = SUBSET s /\ F = [t \in DOMAIN F |-> F[t]]
    BY <1>10
  <2> QED BY <1>11, <2>1 DEF Folds
<1> QED BY <1>2, <1>10, <1>12

-----------------------------------------------------------------------------
(* Sums over finite sets *)

Sum(f, S) == SumFunctionOnSet(f, S)

\* A finite sum of natural numbers.
Summable(f, S) == IsFiniteSet(S) /\ \A x \in S : f[x] \in Nat

\* One element added to a sum.
Plus(f, S) == [p \in (SUBSET S) \X Nat |-> IF p[1] = {} THEN 0 ELSE f[Chosen(p[1])] + p[2]]

\* The sum of the community modules is such a fold.
LEMMA SumFolds ==
    ASSUME NEW f, NEW S, Summable(f, S), NEW U, S \subseteq U
    PROVE  \E F \in [SUBSET S -> Nat] : Folds(F, Plus(f, U), S) /\ Sum(f, S) = F[S]
<1> USE DEF Summable
<1> DEFINE Sums(F) == F = [s \in SUBSET S |-> IF s = {} THEN 0 ELSE f[Chosen(s)] + F[s \ {Chosen(s)}]]
<1>1. Sum(f, S) = (CHOOSE F : Sums(F))[S]
  BY DEF Sum, SumFunctionOnSet, FoldFunctionOnSet, MapThenFoldSet, Chosen
<1>2. ASSUME NEW s \in SUBSET S, s # {} PROVE f[Chosen(s)] \in Nat /\ Chosen(s) \in s
  BY <1>2 DEF Chosen
<1>3. PICK F \in [SUBSET S -> Nat] : Folds(F, Plus(f, U), S)
  <2>1. \A s \in SUBSET S, n \in Nat : Plus(f, U)[<<s, n>>] \in Nat
    BY <1>2 DEF Plus
  <2> QED BY <2>1, FoldExists
<1>4. Sums(F)
  <2>1. ASSUME NEW s \in SUBSET S, s # {}
        PROVE  Plus(f, U)[<<s, F[s \ {Chosen(s)}]>>] = f[Chosen(s)] + F[s \ {Chosen(s)}]
    BY <2>1 DEF Plus
  <2> QED BY <1>3, <2>1 DEF Folds
<1>5. Sums(CHOOSE E : Sums(E))
  BY <1>4
<1>6. ASSUME NEW E, Sums(E) PROVE E[S] = F[S]
  <2> DEFINE Bad == {s \in SUBSET S : E[s] # F[s]}
  <2>1. SUFFICES ASSUME Bad # {} PROVE FALSE
    OBVIOUS
  <2>2. PICK s \in Bad : \A t \in Bad : t \subseteq s => t = s
    <3>1. Bad \subseteq SUBSET S
      OBVIOUS
    <3> HIDE DEF Bad
    <3> QED BY <2>1, <3>1, MinimalSubset
  <2>3. s # {} => E[s \ {Chosen(s)}] = F[s \ {Chosen(s)}]
    BY <1>2, <2>2
  <2>4. E[s] = IF s = {} THEN 0 ELSE f[Chosen(s)] + E[s \ {Chosen(s)}]
    BY <1>6
  <2>5. F[s] = IF s = {} THEN 0 ELSE f[Chosen(s)] + F[s \ {Chosen(s)}]
    BY <1>4
  <2> QED BY <2>2, <2>3, <2>4, <2>5
<1> QED BY <1>1, <1>3, <1>5, <1>6

\* A finite sum is a natural number.
LEMMA SumType ==
    ASSUME NEW f, NEW S, Summable(f, S)
    PROVE  Sum(f, S) \in Nat
<1>1. PICK F \in [SUBSET S -> Nat] : Folds(F, Plus(f, S), S) /\ Sum(f, S) = F[S]
  BY SumFolds
<1> QED BY <1>1

\* The sum of nothing is nothing.
LEMMA SumEmpty ==
    ASSUME NEW f
    PROVE  Sum(f, {}) = 0
<1>1. Summable(f, {})
  BY FS_EmptySet DEF Summable
<1>2. PICK F \in [SUBSET {} -> Nat] : Folds(F, Plus(f, {}), {}) /\ Sum(f, {}) = F[{}]
  BY <1>1, SumFolds
<1> QED BY <1>2 DEF Folds

\* What can be summed can be summed in part.
LEMMA SubsetSummable ==
    ASSUME NEW f, NEW S, Summable(f, S), NEW T, T \subseteq S
    PROVE  Summable(f, T)
BY FS_Subset DEF Summable

\* A sum is the element its recursion takes first and the sum of the rest.
LEMMA SumUnfold ==
    ASSUME NEW f, NEW S, Summable(f, S), S # {}
    PROVE  Sum(f, S) = f[Chosen(S)] + Sum(f, S \ {Chosen(S)})
<1> DEFINE T == S \ {Chosen(S)}
<1>1. Chosen(S) \in S
  BY DEF Chosen
<1>2. T \subseteq S /\ Summable(f, T) /\ IsFiniteSet(T)
  BY SubsetSummable DEF Summable
<1> HIDE DEF T
<1>3. PICK F \in [SUBSET S -> Nat] : Folds(F, Plus(f, S), S) /\ Sum(f, S) = F[S]
  BY SumFolds
<1>4. PICK E \in [SUBSET T -> Nat] : Folds(E, Plus(f, S), T) /\ Sum(f, T) = E[T]
  BY <1>2, SumFolds
<1>5. E[T] = F[T]
  BY <1>2, <1>3, <1>4, FoldUnique
<1>6. F[S] = Plus(f, S)[<<S, F[T]>>]
  BY <1>3 DEF Folds, T
<1>7. Plus(f, S)[<<S, F[T]>>] = f[Chosen(S)] + F[T]
  BY <1>2 DEF Plus
<1> QED BY <1>3, <1>4, <1>5, <1>6, <1>7 DEF T

\* Whichever element is taken out first.
LEMMA SumElement ==
    ASSUME NEW f, NEW S, Summable(f, S), NEW x \in S
    PROVE  Sum(f, S) = f[x] + Sum(f, S \ {x})
<1> DEFINE Bad == {s \in SUBSET S : \E y \in s : Sum(f, s) # f[y] + Sum(f, s \ {y})}
<1>1. SUFFICES ASSUME Bad # {} PROVE FALSE
  OBVIOUS
<1>2. PICK s \in Bad : \A t \in Bad : t \subseteq s => t = s
  <2>1. Bad \subseteq SUBSET S /\ IsFiniteSet(S)
    BY DEF Summable
  <2> HIDE DEF Bad
  <2> QED BY <1>1, <2>1, MinimalSubset
<1>3. PICK y \in s : Sum(f, s) # f[y] + Sum(f, s \ {y})
  BY <1>2
<1> DEFINE z == Chosen(s)
<1>4. s \in SUBSET S /\ z \in s
  BY <1>2, <1>3 DEF Chosen
<1>5. \A t \in SUBSET s : Summable(f, t) /\ t \in SUBSET S
  BY <1>4, SubsetSummable
<1>6. Sum(f, s) = f[z] + Sum(f, s \ {z})
  BY <1>3, <1>5, SumUnfold
<1>7. z # y
  BY <1>3, <1>6
<1>8. \A t \in SUBSET s : t # s => \A u \in t : Sum(f, t) = f[u] + Sum(f, t \ {u})
  BY <1>2, <1>5
<1> HIDE DEF z
<1>9. Sum(f, s \ {z}) = f[y] + Sum(f, s \ {z, y})
  <2>1. s \ {z} # s /\ y \in s \ {z} /\ (s \ {z}) \ {y} = s \ {z, y}
    BY <1>3, <1>4, <1>7
  <2> QED BY <1>8, <2>1
<1>10. Sum(f, s \ {y}) = f[z] + Sum(f, s \ {z, y})
  <2>1. s \ {y} # s /\ z \in s \ {y} /\ (s \ {y}) \ {z} = s \ {z, y}
    BY <1>3, <1>4, <1>7
  <2> QED BY <1>8, <2>1
<1>11. f[y] \in Nat /\ f[z] \in Nat /\ Sum(f, s \ {z, y}) \in Nat
  BY <1>3, <1>4, <1>5, SumType DEF Summable
<1> QED BY <1>3, <1>6, <1>9, <1>10, <1>11

\* No summand is larger: nor is the sum.
LEMMA SumMonotone ==
    ASSUME NEW f, NEW g, NEW S, Summable(f, S), Summable(g, S), \A x \in S : g[x] <= f[x]
    PROVE  Sum(g, S) <= Sum(f, S)
<1> DEFINE Bad == {s \in SUBSET S : ~(Sum(g, s) <= Sum(f, s))}
<1>1. SUFFICES ASSUME Bad # {} PROVE FALSE
  OBVIOUS
<1>2. PICK s \in Bad : \A t \in Bad : t \subseteq s => t = s
  <2>1. Bad \subseteq SUBSET S /\ IsFiniteSet(S)
    BY DEF Summable
  <2> HIDE DEF Bad
  <2> QED BY <1>1, <2>1, MinimalSubset
<1>3. s # {}
  <2>1. Sum(f, {}) = 0 /\ Sum(g, {}) = 0
    BY SumEmpty
  <2>2. s = {} => Sum(f, s) = 0 /\ Sum(g, s) = 0
    BY <2>1, Zenon
  <2> QED BY <1>2, <2>2
<1>4. PICK x : x \in s
  BY <1>3
<1>5. Sum(g, s \ {x}) <= Sum(f, s \ {x})
  BY <1>2, <1>4
<1>6. Summable(f, s) /\ Summable(g, s) /\ Summable(f, s \ {x}) /\ Summable(g, s \ {x})
  BY <1>2, SubsetSummable
<1>7. Sum(g, s) = g[x] + Sum(g, s \ {x}) /\ Sum(f, s) = f[x] + Sum(f, s \ {x})
  BY <1>4, <1>6, SumElement
<1>8. /\ g[x] \in Nat /\ f[x] \in Nat /\ g[x] <= f[x]
      /\ Sum(g, s \ {x}) \in Nat /\ Sum(f, s \ {x}) \in Nat
  BY <1>2, <1>4, <1>6, SumType DEF Summable
<1> QED BY <1>2, <1>5, <1>7, <1>8

\* Two sums that may differ at one element, the second being less elsewhere.
LEMMA SumChange ==
    ASSUME NEW f, NEW g, NEW S, Summable(f, S), Summable(g, S), NEW x \in S,
           \A y \in S \ {x} : g[y] <= f[y]
    PROVE  Sum(g, S) + f[x] <= Sum(f, S) + g[x]
<1>1. Summable(f, S \ {x}) /\ Summable(g, S \ {x})
  BY SubsetSummable
<1>2. Sum(g, S \ {x}) <= Sum(f, S \ {x})
  BY <1>1, SumMonotone
<1>3. Sum(g, S) = g[x] + Sum(g, S \ {x}) /\ Sum(f, S) = f[x] + Sum(f, S \ {x})
  BY SumElement
<1>4. g[x] \in Nat /\ f[x] \in Nat /\ Sum(g, S \ {x}) \in Nat /\ Sum(f, S \ {x}) \in Nat
  BY <1>1, SumType DEF Summable
<1> QED BY <1>2, <1>3, <1>4

\* A part of the summands is worth no more than all of them.
LEMMA SumSubset ==
    ASSUME NEW f, NEW S, Summable(f, S), NEW T, T \subseteq S
    PROVE  Sum(f, T) <= Sum(f, S)
<1> DEFINE Bad == {s \in SUBSET S : T \subseteq s /\ ~(Sum(f, T) <= Sum(f, s))}
<1>1. SUFFICES ASSUME Bad # {} PROVE FALSE
  OBVIOUS
<1>2. PICK s \in Bad : \A t \in Bad : t \subseteq s => t = s
  <2>1. Bad \subseteq SUBSET S /\ IsFiniteSet(S)
    BY DEF Summable
  <2> HIDE DEF Bad
  <2> QED BY <1>1, <2>1, MinimalSubset
<1>3. Summable(f, T) /\ Summable(f, s)
  BY <1>2, SubsetSummable
<1>4. PICK x \in s : x \notin T
  BY <1>2, <1>3, SumType
<1>5. Sum(f, T) <= Sum(f, s \ {x})
  BY <1>2, <1>4
<1>6. Sum(f, s) = f[x] + Sum(f, s \ {x}) /\ Summable(f, s \ {x})
  BY <1>3, SumElement, SubsetSummable
<1>7. f[x] \in Nat /\ Sum(f, T) \in Nat /\ Sum(f, s \ {x}) \in Nat
  BY <1>3, <1>6, SumType DEF Summable
<1> QED BY <1>2, <1>5, <1>6, <1>7

\* Nothing but zeros makes zero.
LEMMA SumZero ==
    ASSUME NEW f, NEW S, Summable(f, S), \A x \in S : f[x] = 0
    PROVE  Sum(f, S) = 0
<1> DEFINE Bad == {s \in SUBSET S : Sum(f, s) # 0}
<1>1. SUFFICES ASSUME Bad # {} PROVE FALSE
  OBVIOUS
<1>2. PICK s \in Bad : \A t \in Bad : t \subseteq s => t = s
  <2>1. Bad \subseteq SUBSET S /\ IsFiniteSet(S)
    BY DEF Summable
  <2> HIDE DEF Bad
  <2> QED BY <1>1, <2>1, MinimalSubset
<1>3. s # {}
  <2>1. s = {} => Sum(f, s) = 0
    BY SumEmpty, Zenon
  <2> QED BY <1>2, <2>1
<1>4. PICK x : x \in s
  BY <1>3
<1>5. Sum(f, s \ {x}) = 0
  BY <1>2, <1>4
<1>6. Sum(f, s) = f[x] + Sum(f, s \ {x})
  BY <1>2, <1>4, SubsetSummable, SumElement
<1> QED BY <1>2, <1>4, <1>5, <1>6

\* The amounts of a list added up in a word that wraps at W, as a fold does.
WrappedSum(ps, W) ==
    (CHOOSE F : F = [s \in SUBSET (DOMAIN ps) |->
                        IF s = {} THEN 0 ELSE (ps[Chosen(s)].amount + F[s \ {Chosen(s)}]) % W])[DOMAIN ps]

\* It fits the word, and is the sum when that fits.
LEMMA WrappedSumIs ==
    ASSUME NEW ps, NEW W \in Nat \ {0}, NEW f, f = [i \in DOMAIN ps |-> ps[i].amount],
           Summable(f, DOMAIN ps)
    PROVE  /\ WrappedSum(ps, W) \in Nat
           /\ Sum(f, DOMAIN ps) < W => WrappedSum(ps, W) = Sum(f, DOMAIN ps)
<1> DEFINE D == DOMAIN ps
           Totals(F) == F = [s \in SUBSET D |->
                                IF s = {} THEN 0 ELSE (ps[Chosen(s)].amount + F[s \ {Chosen(s)}]) % W]
<1>1. WrappedSum(ps, W) = (CHOOSE F : Totals(F))[D]
  BY DEF WrappedSum
<1>2. Summable(f, D) /\ IsFiniteSet(D)
  BY DEF Summable
<1>3. ASSUME NEW s \in SUBSET D, s # {}
      PROVE  /\ Chosen(s) \in s
             /\ ps[Chosen(s)].amount = f[Chosen(s)] /\ f[Chosen(s)] \in Nat
  <2>1. Chosen(s) \in s /\ Chosen(s) \in D
    BY <1>3 DEF Chosen
  <2> QED BY <1>2, <2>1 DEF Summable
<1> HIDE DEF D
<1>4. \E F : Totals(F)
  <2> DEFINE H == [p \in (SUBSET D) \X Nat |-> IF p[1] = {} THEN 0 ELSE (ps[Chosen(p[1])].amount + p[2]) % W]
  <2>1. ASSUME NEW s \in SUBSET D, NEW n \in Nat PROVE H[<<s, n>>] \in Nat
    <3>1. H[<<s, n>>] = IF s = {} THEN 0 ELSE (ps[Chosen(s)].amount + n) % W
      OBVIOUS
    <3>2. s # {} => ps[Chosen(s)].amount \in Nat
      BY <1>3
    <3> QED BY <3>1, <3>2
  <2> HIDE DEF H
  <2>2. PICK F \in [SUBSET D -> Nat] : Folds(F, H, D)
    BY <1>2, <2>1, FoldExists
  <2>3. ASSUME NEW s \in SUBSET D, s # {}
        PROVE  H[<<s, F[s \ {Chosen(s)}]>>] = (ps[Chosen(s)].amount + F[s \ {Chosen(s)}]) % W
    BY <2>2, <2>3 DEF H
  <2>4. Totals(F)
    BY <2>2, <2>3 DEF Folds
  <2> QED BY <2>4
<1>5. Totals(CHOOSE F : Totals(F))
  BY <1>4
<1>6. ASSUME NEW F, Totals(F) PROVE \A s \in SUBSET D : F[s] \in Nat
  <2> DEFINE Bad == {s \in SUBSET D : F[s] \notin Nat}
  <2>1. SUFFICES ASSUME Bad # {} PROVE FALSE
    OBVIOUS
  <2>2. PICK s \in Bad : \A t \in Bad : t \subseteq s => t = s
    <3>1. Bad \subseteq SUBSET D
      OBVIOUS
    <3> HIDE DEF Bad
    <3> QED BY <1>2, <2>1, <3>1, MinimalSubset
  <2>3. s \in SUBSET D /\ F[s] = IF s = {} THEN 0 ELSE (ps[Chosen(s)].amount + F[s \ {Chosen(s)}]) % W
    BY <1>6, <2>2
  <2>4. s # {} => F[s \ {Chosen(s)}] \in Nat
    BY <1>3, <2>2, <2>3
  <2>5. s # {} => ps[Chosen(s)].amount \in Nat
    BY <1>3, <2>3
  <2>6. F[s] \in Nat
    BY <2>3, <2>4, <2>5
  <2> QED BY <2>2, <2>6
<1>7. ASSUME NEW F, Totals(F), Sum(f, D) < W PROVE F[D] = Sum(f, D)
  <2> DEFINE Bad == {s \in SUBSET D : F[s] # Sum(f, s)}
  <2>1. SUFFICES ASSUME Bad # {} PROVE FALSE
    OBVIOUS
  <2>2. PICK s \in Bad : \A t \in Bad : t \subseteq s => t = s
    <3>1. Bad \subseteq SUBSET D
      OBVIOUS
    <3> HIDE DEF Bad
    <3> QED BY <1>2, <2>1, <3>1, MinimalSubset
  <2>3. s \in SUBSET D /\ Summable(f, s)
    BY <1>2, <2>2, SubsetSummable
  <2>4. F[s] = IF s = {} THEN 0 ELSE (ps[Chosen(s)].amount + F[s \ {Chosen(s)}]) % W
    BY <1>7, <2>3
  <2>5. s # {}
    <3>1. s = {} => Sum(f, s) = 0
      BY SumEmpty, Zenon
    <3> QED BY <2>2, <2>4, <3>1
  <2>6. F[s \ {Chosen(s)}] = Sum(f, s \ {Chosen(s)})
    <3>1. s \ {Chosen(s)} \in SUBSET D /\ s \ {Chosen(s)} \subseteq s /\ s \ {Chosen(s)} # s
      BY <1>3, <2>3, <2>5
    <3> QED BY <2>2, <3>1
  <2>7. Sum(f, s) = f[Chosen(s)] + Sum(f, s \ {Chosen(s)})
    BY <2>3, <2>5, SumUnfold
  <2>8. Sum(f, s) \in Nat /\ Sum(f, s) < W
    <3>1. Sum(f, s) <= Sum(f, D) /\ Sum(f, s) \in Nat /\ Sum(f, D) \in Nat
      BY <1>2, <2>3, SumSubset, SumType
    <3> QED BY <1>7, <3>1
  <2>9. F[s] = Sum(f, s) % W
    BY <1>3, <2>3, <2>4, <2>5, <2>6, <2>7
  <2>10. Sum(f, s) % W = Sum(f, s)
    BY <2>8
  <2> QED BY <2>2, <2>9, <2>10
<1>8. WrappedSum(ps, W) \in Nat
  <2>1. PICK F : F = CHOOSE E : Totals(E)
    OBVIOUS
  <2>2. \A s \in SUBSET D : F[s] \in Nat
    BY <1>5, <1>6, <2>1
  <2>3. D \in SUBSET D
    OBVIOUS
  <2> QED BY <1>1, <2>1, <2>2, <2>3, Zenon
<1>9. Sum(f, D) < W => WrappedSum(ps, W) = Sum(f, D)
  BY <1>1, <1>5, <1>7
<1> QED BY <1>8, <1>9 DEF D

-----------------------------------------------------------------------------
(* Listing a finite set of integers *)

\* A finite set of integers has a least element.
LEMMA LeastElement ==
    ASSUME NEW S, IsFiniteSet(S), \A x \in S : x \in Int, S # {}
    PROVE  \E m \in S : \A x \in S : m <= x
<1> DEFINE Below(a) == {x \in S : x <= a}
           T == {Below(a) : a \in S}
<1>1. PICK t \in T : \A u \in T : u \subseteq t => u = t
  <2>1. T \subseteq SUBSET S /\ T # {}
    OBVIOUS
  <2> HIDE DEF T
  <2> QED BY <2>1, MinimalSubset
<1>2. PICK m \in S : t = Below(m)
  BY <1>1
<1>3. ASSUME NEW x \in S, ~(m <= x) PROVE FALSE
  <2>1. Below(x) \in T /\ Below(x) \subseteq t
    BY <1>2, <1>3
  <2>2. Below(x) = Below(m)
    BY <1>1, <1>2, <2>1
  <2>3. m \in Below(m)
    OBVIOUS
  <2> QED BY <1>3, <2>2, <2>3
<1> QED BY <1>3

\* A finite set of integers can be listed from the largest to the smallest.
Descending(s) == \A i, j \in DOMAIN s : i < j => s[i] > s[j]

\* A finite set of integers can be listed in descending order.
LEMMA DescendingExists ==
    ASSUME NEW S, IsFiniteSet(S), \A x \in S : x \in Int
    PROVE  /\ Cardinality(S) \in Nat
           /\ \E s \in [1..Cardinality(S) -> S] : Descending(s)
<1> DEFINE Good(t) == \E s \in [1..Cardinality(t) -> t] : Descending(s)
           Bad == {t \in SUBSET S : ~Good(t)}
<1>0. \A t \in SUBSET S : IsFiniteSet(t) /\ Cardinality(t) \in Nat
  BY FS_Subset, FS_CardinalityType
<1>1. SUFFICES ASSUME Bad # {} PROVE FALSE
  BY <1>0
<1>2. PICK t \in Bad : \A u \in Bad : u \subseteq t => u = t
  <2>1. Bad \subseteq SUBSET S
    OBVIOUS
  <2> HIDE DEF Bad
  <2> QED BY <1>1, <2>1, MinimalSubset
<1>3. CASE t = {}
  <2>1. Cardinality(t) = 0
    BY <1>3, FS_EmptySet, Zenon
  <2>2. [i \in 1..0 |-> 0] \in [1..Cardinality(t) -> t] /\ Descending([i \in 1..0 |-> 0])
    BY <2>1 DEF Descending
  <2> QED BY <1>2, <2>2
<1>4. CASE t # {}
  <2>1. PICK m \in t : \A x \in t : m <= x
    BY <1>0, <1>2, <1>4, LeastElement
  <2> DEFINE u == t \ {m}
             n == Cardinality(t)
  <2>2. u \in SUBSET S /\ u # t /\ u \subseteq t
    BY <2>1
  <2>3. Cardinality(u) = n - 1 /\ n \in Nat /\ Cardinality(u) \in Nat
    BY <1>0, <1>2, <2>1, <2>2, FS_RemoveElement
  <2>4. PICK s \in [1..Cardinality(u) -> u] : Descending(s)
    BY <1>2, <2>2
  <2> DEFINE r == [i \in 1..n |-> IF i = n THEN m ELSE s[i]]
  <2> HIDE DEF n, u
  <2>5. \A i \in 1..n : i # n => i \in DOMAIN s /\ s[i] \in u
    BY <2>3, <2>4
  <2>6. r \in [1..n -> t]
    BY <2>1, <2>2, <2>5
  <2>7. \A i \in 1..n : i # n => r[i] > m
    <3>1. \A x \in u : x > m
      BY <2>1, <2>2, <1>2 DEF u
    <3> QED BY <2>5, <3>1
  <2>8. ASSUME NEW i \in 1..n, NEW j \in 1..n, i < j PROVE r[i] > r[j]
    <3>1. i # n
      BY <2>3, <2>8
    <3>2. CASE j = n
      BY <2>7, <3>1, <3>2
    <3>3. CASE j # n
      BY <2>4, <2>5, <2>8, <3>1, <3>3 DEF Descending
    <3> QED BY <3>2, <3>3
  <2>9. Descending(r)
    BY <2>6, <2>8 DEF Descending
  <2> QED BY <1>2, <2>6, <2>9 DEF n
<1> QED BY <1>3, <1>4

=============================================================================
