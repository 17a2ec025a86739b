--------------------------- MODULE PaymentProofs ----------------------------
(***************************************************************************)
(* What a receiver that verified a token may rely on, who has a coin       *)
(* swapped, who is served, and that what is paid adds up: for any number   *)
(* of payments, keys and conditions, any amounts and any split target.     *)
(***************************************************************************)
EXTENDS Payment, Lemmas

-----------------------------------------------------------------------------
(* The way of the conditions through the tags *)

Associate(x, y, z) == (x \o y) \o z = x \o (y \o z)

\* Joining lists is associative.
LEMMA Regrouped ==
    ASSUME NEW S, NEW x \in Seq(S), NEW y \in Seq(S), NEW z \in Seq(S)
    PROVE  Associate(x, y, z)
BY DEF Associate

NoTag(tags, kind) == \A i \in DOMAIN tags : tags[i].kind # kind

\* The one tag of a kind gives its value, wherever it stands; where there is
\* none the option was None.
LEMMA TagFound ==
    ASSUME NEW S, NEW a \in Seq(S), NEW c \in Seq(S), NEW kind, NEW value,
           [kind |-> kind, value |-> value] \in S,
           NEW b, b = Tagged(kind, value), NoTag(a, kind), NoTag(c, kind)
    PROVE  TagValue((a \o b) \o c, kind) = value
<1> DEFINE whole == (a \o b) \o c
           tagged == {i \in DOMAIN whole : whole[i].kind = kind}
<1>1. CASE value = None
  <2>1. b = <<>>
    BY <1>1 DEF Tagged
  <2>2. \A i \in DOMAIN whole : whole[i].kind # kind
    <3>1. ASSUME NEW i \in DOMAIN whole PROVE whole[i].kind # kind
      <4>1. CASE i \in DOMAIN a
        BY <4>1, <2>1 DEF NoTag
      <4>2. CASE i \notin DOMAIN a
        <5>1. i - Len(a) \in DOMAIN c /\ whole[i] = c[i - Len(a)]
          BY <4>2, <2>1
        <5> QED BY <5>1 DEF NoTag
      <4> QED BY <4>1, <4>2
    <3> QED BY <3>1
  <2>3. tagged = {}
    BY <2>2
  <2> QED BY <2>3, <1>1 DEF TagValue
<1>2. CASE value # None
  <2>1. b = <<[kind |-> kind, value |-> value]>> /\ b \in Seq(S)
    BY <1>2 DEF Tagged
  <2>2. DOMAIN whole = 1..(Len(a) + 1 + Len(c))
    BY <2>1
  <2>3. Len(a) + 1 \in DOMAIN whole /\ whole[Len(a) + 1] = [kind |-> kind, value |-> value]
    BY <2>1
  <2>4. ASSUME NEW i \in DOMAIN whole, i # Len(a) + 1 PROVE whole[i].kind # kind
    <3>1. CASE i \in DOMAIN a
      <4>1. whole[i] = a[i]
        BY <3>1, <2>1
      <4> QED BY <3>1, <4>1 DEF NoTag
    <3>2. CASE i \notin DOMAIN a
      <4>1. i - (Len(a) + 1) \in DOMAIN c /\ whole[i] = c[i - (Len(a) + 1)]
        BY <3>2, <2>1, <2>4
      <4> QED BY <4>1 DEF NoTag
    <3> QED BY <3>1, <3>2
  <2>5. tagged = {Len(a) + 1}
    BY <2>3, <2>4
  <2> HIDE DEF whole, tagged
  <2>6. (CHOOSE i \in tagged : \A j \in tagged : j <= i) = Len(a) + 1
    <3>1. Len(a) + 1 \in Int /\ Len(a) + 1 <= Len(a) + 1
      OBVIOUS
    <3> QED BY <2>5, <3>1
  <2>7. TagValue(whole, kind) = whole[Len(a) + 1].value
    BY <2>5, <2>6 DEF TagValue, tagged
  <2> QED BY <2>3, <2>7 DEF whole
<1> QED BY <1>1, <1>2

\* An option makes conditions of its own kind only.
LEMMA TaggedKinds ==
    ASSUME NEW S, NEW kind, NEW value, [kind |-> kind, value |-> value] \in S
    PROVE  /\ Tagged(kind, value) \in Seq(S)
           /\ \A other : other # kind => NoTag(Tagged(kind, value), other)
<1>1. CASE value = None
  BY <1>1 DEF Tagged, NoTag
<1>2. CASE value # None
  BY <1>2 DEF Tagged, NoTag
<1> QED BY <1>1, <1>2

\* Two lists without a kind, joined, are without it.
LEMMA NoTagConcat ==
    ASSUME NEW S, NEW a \in Seq(S), NEW b \in Seq(S), NEW kind, NoTag(a, kind), NoTag(b, kind)
    PROVE  a \o b \in Seq(S) /\ NoTag(a \o b, kind)
<1>1. a \o b \in Seq(S)
  OBVIOUS
<1>2. ASSUME NEW i \in DOMAIN (a \o b) PROVE (a \o b)[i].kind # kind
  <2>1. CASE i \in DOMAIN a
    BY <2>1 DEF NoTag
  <2>2. CASE i \notin DOMAIN a
    <3>1. i - Len(a) \in DOMAIN b /\ (a \o b)[i] = b[i - Len(a)]
      BY <2>2
    <3> QED BY <3>1 DEF NoTag
  <2> QED BY <2>1, <2>2
<1> QED BY <1>1, <1>2 DEF NoTag

\* Conditions survive being written into a secret and read back: no tag is
\* taken for another (Conditions to Vec<Vec<String>> and TryFrom).
LEMMA ConditionsSurvive ==
    ASSUME NEW c
    PROVE  /\ TagValue(Tags(c), "pubkeys") = c.pubkeys
           /\ TagValue(Tags(c), "locktime") = c.locktime
           /\ TagValue(Tags(c), "n_sigs") = c.num_sigs
           /\ TagValue(Tags(c), "refund") = c.refund_keys
<1> DEFINE V == {c.pubkeys, c.locktime, c.num_sigs, c.refund_keys, c.sig_flag}
           S == [kind : {"pubkeys", "locktime", "n_sigs", "refund", "sigflag"}, value : V]
<1>1. /\ [kind |-> "pubkeys", value |-> c.pubkeys] \in S
      /\ [kind |-> "locktime", value |-> c.locktime] \in S
      /\ [kind |-> "n_sigs", value |-> c.num_sigs] \in S
      /\ [kind |-> "refund", value |-> c.refund_keys] \in S
      /\ [kind |-> "sigflag", value |-> c.sig_flag] \in S
  OBVIOUS
<1> HIDE DEF V, S
<1>2. SUFFICES ASSUME NEW p, p = Tagged("pubkeys", c.pubkeys),
                      NEW l, l = Tagged("locktime", c.locktime),
                      NEW n, n = Tagged("n_sigs", c.num_sigs),
                      NEW r, r = Tagged("refund", c.refund_keys),
                      NEW f, f = Tagged("sigflag", c.sig_flag)
               PROVE  /\ TagValue(Tags(c), "pubkeys") = c.pubkeys
                      /\ TagValue(Tags(c), "locktime") = c.locktime
                      /\ TagValue(Tags(c), "n_sigs") = c.num_sigs
                      /\ TagValue(Tags(c), "refund") = c.refund_keys
  OBVIOUS
<1>3. /\ p \in Seq(S) /\ NoTag(p, "locktime") /\ NoTag(p, "n_sigs") /\ NoTag(p, "refund")
      /\ l \in Seq(S) /\ NoTag(l, "pubkeys") /\ NoTag(l, "n_sigs") /\ NoTag(l, "refund")
      /\ n \in Seq(S) /\ NoTag(n, "pubkeys") /\ NoTag(n, "locktime") /\ NoTag(n, "refund")
      /\ r \in Seq(S) /\ NoTag(r, "pubkeys") /\ NoTag(r, "locktime") /\ NoTag(r, "n_sigs")
      /\ f \in Seq(S) /\ NoTag(f, "pubkeys") /\ NoTag(f, "locktime") /\ NoTag(f, "n_sigs")
      /\ NoTag(f, "refund")
  <2>1. p \in Seq(S) /\ \A kind : kind # "pubkeys" => NoTag(p, kind)
    BY <1>1, <1>2, TaggedKinds
  <2>2. l \in Seq(S) /\ \A kind : kind # "locktime" => NoTag(l, kind)
    BY <1>1, <1>2, TaggedKinds
  <2>3. n \in Seq(S) /\ \A kind : kind # "n_sigs" => NoTag(n, kind)
    BY <1>1, <1>2, TaggedKinds
  <2>4. r \in Seq(S) /\ \A kind : kind # "refund" => NoTag(r, kind)
    BY <1>1, <1>2, TaggedKinds
  <2>5. f \in Seq(S) /\ \A kind : kind # "sigflag" => NoTag(f, kind)
    BY <1>1, <1>2, TaggedKinds
  <2> QED BY <2>1, <2>2, <2>3, <2>4, <2>5
<1>4. Tags(c) = (((p \o l) \o n) \o r) \o f
  BY <1>2 DEF Tags
<1>5. r \o f \in Seq(S) /\ NoTag(r \o f, "n_sigs") /\ NoTag(r \o f, "locktime")
      /\ NoTag(r \o f, "pubkeys")
  BY <1>3, NoTagConcat
<1>6. n \o (r \o f) \in Seq(S) /\ NoTag(n \o (r \o f), "locktime")
      /\ NoTag(n \o (r \o f), "pubkeys")
  BY <1>3, <1>5, NoTagConcat
<1>7. l \o (n \o (r \o f)) \in Seq(S) /\ NoTag(l \o (n \o (r \o f)), "pubkeys")
  BY <1>3, <1>6, NoTagConcat
<1>8. p \o l \in Seq(S) /\ NoTag(p \o l, "n_sigs") /\ NoTag(p \o l, "refund")
  BY <1>3, NoTagConcat
<1>9. (p \o l) \o n \in Seq(S) /\ NoTag((p \o l) \o n, "refund")
  BY <1>3, <1>8, NoTagConcat
<1>10. <<>> \in Seq(S) /\ NoTag(<<>>, "pubkeys") /\ <<>> \o p = p
  BY <1>3 DEF NoTag
<1>11. SUFFICES ASSUME NEW pln \in Seq(S), pln = (p \o l) \o n, NEW pl \in Seq(S), pl = p \o l,
                       NEW rf \in Seq(S), rf = r \o f, NEW nrf \in Seq(S), nrf = n \o rf,
                       NEW lnrf \in Seq(S), lnrf = l \o nrf
                PROVE  /\ TagValue(Tags(c), "pubkeys") = c.pubkeys
                       /\ TagValue(Tags(c), "locktime") = c.locktime
                       /\ TagValue(Tags(c), "n_sigs") = c.num_sigs
                       /\ TagValue(Tags(c), "refund") = c.refund_keys
  BY <1>5, <1>6, <1>7, <1>8, <1>9
<1>12. /\ NoTag(pln, "refund") /\ NoTag(pl, "n_sigs") /\ NoTag(rf, "n_sigs")
       /\ NoTag(nrf, "locktime") /\ NoTag(lnrf, "pubkeys")
  BY <1>5, <1>6, <1>7, <1>8, <1>9, <1>11
<1>13. (pln \o r) \o f = pln \o (r \o f)
  <2>1. pln \in Seq(S) /\ r \in Seq(S) /\ f \in Seq(S)
    BY <1>3
  <2>2. Associate(pln, r, f)
    BY <2>1, Regrouped
  <2> QED BY <2>2 DEF Associate
<1>14. (pl \o n) \o rf = pl \o (n \o rf)
  <2>1. pl \in Seq(S) /\ n \in Seq(S) /\ rf \in Seq(S)
    BY <1>3
  <2>2. Associate(pl, n, rf)
    BY <2>1, Regrouped
  <2> QED BY <2>2 DEF Associate
<1>15. (p \o l) \o nrf = p \o (l \o nrf)
  <2>1. p \in Seq(S) /\ l \in Seq(S) /\ nrf \in Seq(S)
    BY <1>3
  <2>2. Associate(p, l, nrf)
    BY <2>1, Regrouped
  <2> QED BY <2>2 DEF Associate
<1>16. /\ Tags(c) = (pln \o r) \o f
       /\ Tags(c) = (pl \o n) \o rf
       /\ Tags(c) = (p \o l) \o nrf
       /\ Tags(c) = (<<>> \o p) \o lnrf
  BY <1>4, <1>10, <1>11, <1>13, <1>14, <1>15, Zenon
<1>17. TagValue((pln \o r) \o f, "refund") = c.refund_keys
  BY <1>1, <1>2, <1>3, <1>12, TagFound
<1>18. TagValue((pl \o n) \o rf, "n_sigs") = c.num_sigs
  BY <1>1, <1>2, <1>3, <1>12, TagFound
<1>19. TagValue((p \o l) \o nrf, "locktime") = c.locktime
  BY <1>1, <1>2, <1>3, <1>12, TagFound
<1>20. TagValue((<<>> \o p) \o lnrf, "pubkeys") = c.pubkeys
  <2>1. /\ [kind |-> "pubkeys", value |-> c.pubkeys] \in S
        /\ <<>> \in Seq(S) /\ NoTag(<<>>, "pubkeys") /\ NoTag(lnrf, "pubkeys")
    BY <1>1, <1>10, <1>12
  <2>2. p = Tagged("pubkeys", c.pubkeys)
    BY <1>2
  <2> QED BY <2>1, <2>2, TagFound
<1> QED BY <1>16, <1>17, <1>18, <1>19, <1>20, Zenon

-----------------------------------------------------------------------------
(* Taking back *)

\* Keys that are not listed make no valid signature.
LEMMA NoSigner ==
    ASSUME NEW keys, NEW signatures, ToSet(keys) \cap ToSet(signatures) = {}
    PROVE  ValidSignatures(keys, signatures) = 0
<1>1. {p \in (DOMAIN keys) \X (DOMAIN signatures) : keys[p[1]] = signatures[p[2]]} = {}
  BY DEF ToSet
<1> QED BY <1>1, FS_EmptySet DEF ValidSignatures

\* The mint checks the keys of a P2PK secret in another order than the
\* receiver compares them.
LEMMA SameKeys ==
    ASSUME NEW listed, IsList(listed), NEW data
    PROVE  ToSet(listed \o <<data>>) = ToSet(<<data>> \o listed)
<1>1. PICK S : listed \in Seq(S) /\ data \in S
  <2>1. listed \in Seq(ToSet(listed) \cup {data})
    BY DEF IsList
  <2> QED BY <2>1
<1>2. DOMAIN (listed \o <<data>>) = 1..(Len(listed) + 1)
      /\ DOMAIN (<<data>> \o listed) = 1..(Len(listed) + 1)
      /\ Len(listed) \in Nat /\ DOMAIN listed = 1..Len(listed)
  BY <1>1
<1>3. \A i \in DOMAIN listed : (listed \o <<data>>)[i] = listed[i]
                                /\ (<<data>> \o listed)[i + 1] = listed[i]
  BY <1>1
<1>4. (listed \o <<data>>)[Len(listed) + 1] = data /\ (<<data>> \o listed)[1] = data
  BY <1>1
<1>5. ASSUME NEW i \in DOMAIN (listed \o <<data>>)
      PROVE  \E j \in DOMAIN (<<data>> \o listed) : (<<data>> \o listed)[j] = (listed \o <<data>>)[i]
  <2>1. CASE i = Len(listed) + 1
    BY <2>1, <1>2, <1>4
  <2>2. CASE i # Len(listed) + 1
    <3>1. i \in DOMAIN listed /\ i + 1 \in DOMAIN (<<data>> \o listed)
      BY <2>2, <1>2
    <3> QED BY <3>1, <1>3
  <2> QED BY <2>1, <2>2
<1>6. ASSUME NEW i \in DOMAIN (<<data>> \o listed)
      PROVE  \E j \in DOMAIN (listed \o <<data>>) : (listed \o <<data>>)[j] = (<<data>> \o listed)[i]
  <2>1. CASE i = 1
    BY <2>1, <1>2, <1>4
  <2>2. CASE i # 1
    <3>1. i - 1 \in DOMAIN listed /\ i - 1 \in DOMAIN (listed \o <<data>>) /\ (i - 1) + 1 = i
      BY <2>2, <1>2
    <3> QED BY <3>1, <1>3
  <2> QED BY <2>1, <2>2
<1>7. ASSUME NEW a, NEW b, \A i \in DOMAIN a : \E j \in DOMAIN b : b[j] = a[i]
      PROVE  ToSet(a) \subseteq ToSet(b)
  BY <1>7 DEF ToSet
<1>8. ToSet(listed \o <<data>>) \subseteq ToSet(<<data>> \o listed)
  BY <1>5, <1>7, Zenon
<1>9. ToSet(<<data>> \o listed) \subseteq ToSet(listed \o <<data>>)
  BY <1>6, <1>7, Zenon
<1> QED BY <1>8, <1>9, Zenon

\* Of a P2PK coin the receiver finds acceptable, the mint honours the sender's
\* signatures only after the locktime the receiver asked for.
LEMMA SenderIsLate ==
    ASSUME NEW w \in Wants, NEW p \in Payments, p.condition # None, p.condition.kind = "P2PK",
           NEW at \in Int,
           KeysAcceptable(ConditionOf(SecretOf(p.condition)), w),
           RefundAcceptable(ConditionOf(SecretOf(p.condition)), w),
           VerifyP2pk(SecretOf(p.condition), AddSignatures(None, SenderKeys), at)
    PROVE  Late(w.conditions.locktime, at)
<1> DEFINE c == p.condition.conditions
           data == p.condition.data
           secret == SecretOf(p.condition)
           listed == OrEmpty(c.pubkeys)
           witness == AddSignatures(None, SenderKeys)
<1>1. /\ secret.kind = "P2PK" /\ secret.data = data
      /\ ReadTags(secret.tags).pubkeys = c.pubkeys
      /\ ReadTags(secret.tags).locktime = c.locktime
      /\ ReadTags(secret.tags).num_sigs = c.num_sigs
      /\ ReadTags(secret.tags).refund_keys = c.refund_keys
  BY ConditionsSurvive DEF SecretOf, ReadTags, NewConditions
<1>2. /\ ConditionOf(secret).kind = "P2PK" /\ ConditionOf(secret).data = data
      /\ ConditionOf(secret).conditions = ReadTags(secret.tags)
  BY <1>1 DEF ConditionOf
<1>3. IsList(listed)
  <2>1. CASE c.pubkeys = None
    BY <2>1 DEF OrEmpty, IsList, ToSet
  <2>2. CASE c.pubkeys # None
    BY <2>2, PaymentAssumption DEF OrEmpty
  <2> QED BY <2>1, <2>2
<1>4. ConditionKeys(ConditionOf(secret)) = <<data>> \o listed
  BY <1>1, <1>2 DEF ConditionKeys
<1>5. ToSet(listed \o <<data>>) \cap ToSet(SenderKeys) = {}
  <2>1. ToSet(listed \o <<data>>) = ToSet(<<data>> \o listed)
    BY <1>3, SameKeys
  <2>2. ToSet(<<data>> \o listed) \subseteq ToSet(ConditionKeys(w))
    BY <1>4 DEF KeysAcceptable
  <2>3. ToSet(SenderKeys) \cap ToSet(ConditionKeys(w)) = {}
    BY PaymentAssumption
  <2> QED BY <2>1, <2>2, <2>3
<1> HIDE DEF c, data, secret, listed, witness
<1>6. witness.signatures = SenderKeys
  <2>1. witness # None
    BY DEF VerifyP2pk, witness, secret
  <2> QED BY <2>1 DEF witness, AddSignatures, SignatureWitness
<1>7. \/ ValidSignatures(listed \o <<data>>, SenderKeys) >= OrOne(c.num_sigs)
      \/ /\ c.locktime # None
         /\ c.locktime < at
         /\ ValidSignatures(OrEmpty(c.refund_keys), SenderKeys) >= 1
  <2>1. VerifyP2pk(secret, witness, at)
    BY DEF secret, witness
  <2> QED BY <2>1, <1>1, <1>6, Zenon DEF VerifyP2pk, listed
<1>8. ~(ValidSignatures(listed \o <<data>>, SenderKeys) >= OrOne(c.num_sigs))
  <2>1. ValidSignatures(listed \o <<data>>, SenderKeys) = 0
    BY <1>5, NoSigner
  <2>2. c.num_sigs = w.conditions.num_sigs
    BY <1>1, <1>2 DEF KeysAcceptable, secret
  <2>3. OrOne(c.num_sigs) \in Nat \ {0}
    BY <2>2, PaymentAssumption DEF OrOne
  <2> QED BY <2>1, <2>3
<1>9. c.refund_keys # None
  <2>1. ASSUME c.refund_keys = None PROVE ValidSignatures(OrEmpty(c.refund_keys), SenderKeys) = 0
    <3>1. ToSet(OrEmpty(c.refund_keys)) \cap ToSet(SenderKeys) = {}
      BY <2>1 DEF OrEmpty, ToSet
    <3> QED BY <3>1, NoSigner
  <2> QED BY <2>1, <1>7, <1>8
<1>10. w.conditions.locktime # None /\ c.locktime >= w.conditions.locktime
  BY <1>1, <1>2, <1>9 DEF RefundAcceptable, secret
<1>11. c.locktime \in Int /\ w.conditions.locktime \in Int
  BY <1>7, <1>8, <1>10, PaymentAssumption DEF c
<1> QED BY <1>7, <1>8, <1>10, <1>11 DEF Late

-----------------------------------------------------------------------------
(* What the wallet signs and what the mint counts *)

\* What was signed after i keys.
SignedUpto(s, keys, own, i) ==
    /\ s \in Seq(ToSet(keys))
    /\ \A j \in DOMAIN s : \E k \in 1..i : s[j] = keys[k] /\ keys[k] \in own
    /\ \A k \in 1..i : keys[k] \in own => \E j \in DOMAIN s : s[j] = keys[k]
    /\ IsInjective(keys) => IsInjective(s)

\* One more key.
LEMMA SignOne ==
    ASSUME NEW keys, IsList(keys), NEW own, NEW i \in 1..Len(keys), NEW s,
           SignedUpto(s, keys, own, i - 1)
    PROVE  SignedUpto(IF keys[i] \in own THEN Append(s, keys[i]) ELSE s, keys, own, i)
<1>0. keys[i] \in ToSet(keys) /\ Len(keys) \in Nat /\ DOMAIN keys = 1..Len(keys)
  BY DEF IsList, ToSet
<1>1. CASE keys[i] \notin own
  <2>1. \A k \in 1..i : keys[k] \in own => k \in 1..(i - 1)
    BY <1>1, <1>0
  <2> QED BY <1>0, <1>1, <2>1 DEF SignedUpto
<1>2. CASE keys[i] \in own
  <2> DEFINE t == Append(s, keys[i])
  <2>1. /\ t \in Seq(ToSet(keys)) /\ Len(s) \in Nat /\ DOMAIN s = 1..Len(s)
        /\ DOMAIN t = 1..(Len(s) + 1) /\ t[Len(s) + 1] = keys[i]
        /\ \A j \in DOMAIN s : t[j] = s[j]
    BY <1>0 DEF SignedUpto
  <2> HIDE DEF t
  <2>2. \A j \in DOMAIN t : \E k \in 1..i : t[j] = keys[k] /\ keys[k] \in own
    <3> SUFFICES ASSUME NEW j \in DOMAIN t PROVE \E k \in 1..i : t[j] = keys[k] /\ keys[k] \in own
      OBVIOUS
    <3>1. CASE j = Len(s) + 1
      BY <3>1, <2>1, <1>2, <1>0
    <3>2. CASE j \in DOMAIN s
      <4>1. PICK k \in 1..(i - 1) : s[j] = keys[k] /\ keys[k] \in own
        BY <3>2 DEF SignedUpto
      <4> QED BY <4>1, <3>2, <2>1, <1>0
    <3> QED BY <3>1, <3>2, <2>1
  <2>3. \A k \in 1..i : keys[k] \in own => \E j \in DOMAIN t : t[j] = keys[k]
    <3> SUFFICES ASSUME NEW k \in 1..i, keys[k] \in own PROVE \E j \in DOMAIN t : t[j] = keys[k]
      OBVIOUS
    <3>1. CASE k = i
      BY <3>1, <2>1
    <3>2. CASE k # i
      <4>1. k \in 1..(i - 1)
        BY <3>2, <1>0
      <4>2. PICK j \in DOMAIN s : s[j] = keys[k]
        BY <4>1 DEF SignedUpto
      <4> QED BY <4>2, <2>1
    <3> QED BY <3>1, <3>2
  <2>4. ASSUME IsInjective(keys) PROVE IsInjective(t)
    <3>1. \A j \in DOMAIN s : t[j] # keys[i]
      <4> SUFFICES ASSUME NEW j \in DOMAIN s, t[j] = keys[i] PROVE FALSE
        OBVIOUS
      <4>1. PICK k \in 1..(i - 1) : s[j] = keys[k]
        BY DEF SignedUpto
      <4>2. keys[k] = keys[i] /\ k \in DOMAIN keys /\ i \in DOMAIN keys /\ k # i
        BY <4>1, <2>1, <1>0
      <4> QED BY <4>2, <2>4 DEF IsInjective
    <3>2. IsInjective(s)
      BY <2>4 DEF SignedUpto
    <3> QED BY <3>1, <3>2, <2>1 DEF IsInjective
  <2>5. SignedUpto(t, keys, own, i)
    BY <2>1, <2>2, <2>3, <2>4 DEF SignedUpto
  <2> QED BY <2>5, <1>2 DEF t
<1> QED BY <1>1, <1>2

\* The wallet signs with the keys of the list that it holds and no others, and
\* once with each if each is listed once.
LEMMA SignedKeys ==
    ASSUME NEW keys, IsList(keys), NEW own
    PROVE  /\ Signed(keys, own) \in Seq(ToSet(keys))
           /\ ToSet(Signed(keys, own)) = ToSet(keys) \cap own
           /\ IsInjective(keys) => IsInjective(Signed(keys, own))
<1> DEFINE n == Len(keys)
           V == Seq(ToSet(keys))
           One(s, i) == IF keys[i] \in own THEN Append(s, keys[i]) ELSE s
           step == [i \in 1..n |-> [s \in V |-> One(s, i)]]
           Signs(f) == f = [i \in 0..n |-> IF i = 0 THEN <<>>
                                           ELSE IF keys[i] \in own THEN Append(f[i - 1], keys[i])
                                           ELSE f[i - 1]]
<1>1. n \in Nat /\ DOMAIN keys = 1..n /\ \A i \in 1..n : keys[i] \in ToSet(keys)
  BY DEF IsList, ToSet
<1>2. <<>> \in V /\ step \in [1..n -> [V -> V]]
  <2>1. ASSUME NEW s \in V, NEW i \in 1..n PROVE One(s, i) \in V
    BY <1>1
  <2>2. <<>> \in V
    OBVIOUS
  <2> HIDE DEF One, V
  <2> QED BY <2>1, <2>2
<1>3. \E f : Signs(f)
  <2>1. PICK f : Recursive(f, n, V, <<>>, step)
    <3> HIDE DEF n, V, step
    <3> QED BY <1>1, <1>2, Recursion
  <2>2. \A i \in 1..n : f[i] = One(f[i - 1], i)
    <3> SUFFICES ASSUME NEW i \in 1..n PROVE f[i] = One(f[i - 1], i)
      OBVIOUS
    <3> HIDE DEF One, V, n
    <3>1. f[i - 1] \in V
      BY <1>1, <2>1 DEF Recursive
    <3> QED BY <2>1, <3>1 DEF Recursive
  <2>3. Signs(f)
    <3> HIDE DEF V, n
    <3>1. f = [i \in 0..n |-> f[i]]
      BY <2>1 DEF Recursive
    <3>2. \A i \in 0..n : f[i] = IF i = 0 THEN <<>>
                                  ELSE IF keys[i] \in own THEN Append(f[i - 1], keys[i])
                                  ELSE f[i - 1]
      <4> SUFFICES ASSUME NEW i \in 0..n
                   PROVE  f[i] = IF i = 0 THEN <<>>
                                 ELSE IF keys[i] \in own THEN Append(f[i - 1], keys[i])
                                 ELSE f[i - 1]
        OBVIOUS
      <4>1. CASE i = 0
        BY <4>1, <2>1 DEF Recursive
      <4>2. CASE i # 0
        <5>1. i \in 1..n
          BY <4>2, <1>1
        <5> QED BY <5>1, <4>2, <2>2
      <4> QED BY <4>1, <4>2
    <3> QED BY <3>1, <3>2
  <2> HIDE DEF Signs
  <2> QED BY <2>3
<1> DEFINE f == CHOOSE f : Signs(f)
<1>4. Signs(f)
  BY <1>3
<1>5. Signed(keys, own) = f[n]
  BY DEF Signed
<1> HIDE DEF f
<1> HIDE DEF n, V
<1>6. f[0] = <<>> /\ \A i \in 1..n : f[i] = One(f[i - 1], i)
  <2>1. 0 \in 0..n /\ \A i \in 1..n : i \in 0..n /\ i # 0
    BY <1>1
  <2> QED BY <1>4, <2>1
<1> DEFINE P == {i \in 0..n : SignedUpto(f[i], keys, own, i)}
<1> HIDE DEF Signs, One
<1>7. 0 \in P
  <2>1. /\ <<>> \in Seq(ToSet(keys)) /\ DOMAIN <<>> = {} /\ 1..0 = {}
    OBVIOUS
  <2>2. SignedUpto(<<>>, keys, own, 0)
    BY <2>1 DEF SignedUpto, IsInjective
  <2>3. 0 \in 0..n
    BY <1>1
  <2> QED BY <1>6, <2>2, <2>3
<1>8. \A i \in 1..n : i - 1 \in P => i \in P
  <2> SUFFICES ASSUME NEW i \in 1..n, SignedUpto(f[i - 1], keys, own, i - 1)
               PROVE  SignedUpto(f[i], keys, own, i)
    BY <1>1
  <2> QED BY <1>6, SignOne DEF One, n
<1>9. SignedUpto(f[n], keys, own, n)
  <2> HIDE DEF P
  <2>1. \A i \in 0..n : i \in P
    BY <1>1, <1>7, <1>8, Induction
  <2>2. n \in P
    BY <1>1, <2>1
  <2> QED BY <2>2 DEF P
<1>10. ToSet(f[n]) = ToSet(keys) \cap own
  <2>1. ToSet(f[n]) = {f[n][j] : j \in DOMAIN f[n]} /\ ToSet(keys) = {keys[k] : k \in 1..n}
    BY <1>1 DEF ToSet
  <2> QED BY <1>9, <2>1 DEF SignedUpto
<1> QED BY <1>5, <1>9, <1>10 DEF SignedUpto

\* The keys in the order the mint checks them make a list too, of different
\* keys if they are different.
LEMMA KeysInOrder ==
    ASSUME NEW listed, IsList(listed), NEW data
    PROVE  /\ IsList(listed \o <<data>>)
           /\ IsFiniteSet(ToSet(listed \o <<data>>))
           /\ IsInjective(<<data>> \o listed) => IsInjective(listed \o <<data>>)
<1> DEFINE a == listed \o <<data>>
           b == <<data>> \o listed
           n == Len(listed)
<1>1. PICK S : listed \in Seq(S) /\ data \in S
  <2>1. listed \in Seq(ToSet(listed) \cup {data})
    BY DEF IsList
  <2> QED BY <2>1
<1>2. /\ n \in Nat /\ DOMAIN a = 1..(n + 1) /\ DOMAIN b = 1..(n + 1) /\ Len(a) = n + 1
      /\ a = [i \in 1..(n + 1) |-> a[i]]
  BY <1>1
<1>3. /\ \A i \in 1..n : a[i] = b[i + 1]
      /\ a[n + 1] = b[1]
  BY <1>1
<1> HIDE DEF a, b, n
<1>4. IsList(a)
  <2>1. \A i \in 1..(n + 1) : a[i] \in ToSet(a)
    BY <1>2 DEF ToSet
  <2> DEFINE R == ToSet(a)
  <2>2. \A i \in 1..(n + 1) : a[i] \in R
    BY <2>1
  <2> HIDE DEF R
  <2>3. a \in [1..(n + 1) -> R] /\ n + 1 \in Nat
    BY <1>2, <2>2
  <2>4. a \in Seq(R)
    BY <2>3
  <2> QED BY <2>4 DEF IsList, R
<1>5. IsFiniteSet(ToSet(a))
  <2>1. IsFiniteSet(1..(n + 1))
    <3>1. 1 \in Int /\ n + 1 \in Int
      BY <1>2
    <3> QED BY <3>1, FS_Interval
  <2>2. a \in Surjection(1..(n + 1), ToSet(a))
    BY <1>2 DEF Surjection, ToSet
  <2> QED BY <2>1, <2>2, FS_Surjection
<1>6. ASSUME IsInjective(b) PROVE IsInjective(a)
  <2> SUFFICES ASSUME NEW i \in 1..(n + 1), NEW j \in 1..(n + 1), a[i] = a[j] PROVE i = j
    BY <1>2 DEF IsInjective
  <2> DEFINE Place(k) == IF k = n + 1 THEN 1 ELSE k + 1
  <2>1. ASSUME NEW k \in 1..(n + 1) PROVE a[k] = b[Place(k)] /\ Place(k) \in DOMAIN b
    <3>1. CASE k = n + 1
      BY <3>1, <1>2, <1>3
    <3>2. CASE k # n + 1
      <4>1. k \in 1..n /\ k + 1 \in 1..(n + 1)
        BY <3>2, <1>2
      <4> QED BY <4>1, <3>2, <1>2, <1>3
    <3> QED BY <3>1, <3>2
  <2>2. Place(i) = Place(j)
    <3> HIDE DEF Place
    <3> QED BY <1>6, <2>1 DEF IsInjective
  <2> QED BY <1>2, <2>2
<1> QED BY <1>4, <1>5, <1>6 DEF a, b

\* Where no key is listed twice and none signs twice, the mint counts keys.
LEMMA CountedOnce ==
    ASSUME NEW keys, IsInjective(keys), NEW signatures, IsInjective(signatures),
           NEW K, IsFiniteSet(K), ToSet(keys) \cap ToSet(signatures) \subseteq K
    PROVE  ValidSignatures(keys, signatures) \in Nat /\ ValidSignatures(keys, signatures) <= Cardinality(K)
<1> DEFINE S == {p \in (DOMAIN keys) \X (DOMAIN signatures) : keys[p[1]] = signatures[p[2]]}
           f == [p \in S |-> keys[p[1]]]
<1>1. \A p \in S : keys[p[1]] \in K
  BY DEF ToSet
<1>2. \A p, q \in S : keys[p[1]] = keys[q[1]] => p = q
  BY DEF IsInjective
<1>3. ValidSignatures(keys, signatures) = Cardinality(S)
  BY DEF ValidSignatures
<1> HIDE DEF S
<1>4. f \in Injection(S, K)
  BY <1>1, <1>2 DEF Injection, IsInjective
<1> QED BY <1>3, <1>4, FS_Injection, FS_CardinalityType

\* Of a P2PK coin, what the mint honours is signed by enough of its keys or,
\* past its locktime, by a refund key.
LEMMA KeysDecide ==
    ASSUME NEW p \in Payments, p.condition # None, p.condition.kind = "P2PK",
           IsInjective(ConditionKeys(p.condition)),
           NEW signatures, IsInjective(signatures), NEW own, ToSet(signatures) \subseteq own, NEW at,
           VerifyP2pk(SecretOf(p.condition), AddSignatures(None, signatures), at)
    PROVE  \/ Enough(p.condition, own)
           \/ /\ Late(p.condition.conditions.locktime, at)
              /\ ToSet(OrEmpty(p.condition.conditions.refund_keys)) \cap own # {}
<1> DEFINE c == p.condition.conditions
           data == p.condition.data
           secret == SecretOf(p.condition)
           listed == OrEmpty(c.pubkeys)
           witness == AddSignatures(None, signatures)
<1>1. /\ secret.kind = "P2PK" /\ secret.data = data
      /\ ReadTags(secret.tags).pubkeys = c.pubkeys
      /\ ReadTags(secret.tags).locktime = c.locktime
      /\ ReadTags(secret.tags).num_sigs = c.num_sigs
      /\ ReadTags(secret.tags).refund_keys = c.refund_keys
  BY ConditionsSurvive DEF SecretOf, ReadTags, NewConditions
<1>2. IsList(listed)
  <2>1. CASE c.pubkeys = None
    BY <2>1 DEF OrEmpty, IsList, ToSet
  <2>2. CASE c.pubkeys # None
    BY <2>2, PaymentAssumption DEF OrEmpty
  <2> QED BY <2>1, <2>2
<1>3. ConditionKeys(p.condition) = <<data>> \o listed
  BY DEF ConditionKeys
<1>4. OrOne(c.num_sigs) \in Nat
  BY PaymentAssumption DEF OrOne
<1> HIDE DEF c, data, secret, listed, witness
<1>5. witness.signatures = signatures
  <2>1. witness # None
    BY DEF VerifyP2pk, witness, secret
  <2> QED BY <2>1 DEF witness, AddSignatures, SignatureWitness
<1>6. \/ ValidSignatures(listed \o <<data>>, signatures) >= OrOne(c.num_sigs)
      \/ /\ c.locktime # None
         /\ c.locktime < at
         /\ ValidSignatures(OrEmpty(c.refund_keys), signatures) >= 1
  <2>1. VerifyP2pk(secret, witness, at)
    BY DEF secret, witness
  <2> QED BY <2>1, <1>1, <1>5, Zenon DEF VerifyP2pk, listed
<1>7. ASSUME ValidSignatures(listed \o <<data>>, signatures) >= OrOne(c.num_sigs)
      PROVE  Enough(p.condition, own)
  <2> DEFINE K == KeysOf(p.condition) \cap own
  <2>1. KeysOf(p.condition) = ToSet(listed \o <<data>>)
    BY <1>2, <1>3, SameKeys DEF KeysOf
  <2>2. IsFiniteSet(K) /\ ToSet(listed \o <<data>>) \cap ToSet(signatures) \subseteq K
    BY <1>2, <2>1, KeysInOrder, FS_Subset
  <2>3. IsInjective(listed \o <<data>>)
    BY <1>2, <1>3, KeysInOrder
  <2> HIDE DEF K
  <2>4. /\ ValidSignatures(listed \o <<data>>, signatures) \in Nat
        /\ ValidSignatures(listed \o <<data>>, signatures) <= Cardinality(K)
        /\ Cardinality(K) \in Nat
    BY <2>2, <2>3, CountedOnce, FS_CardinalityType
  <2>6. Cardinality(K) >= OrOne(c.num_sigs)
    BY <1>4, <1>7, <2>4
  <2> QED BY <2>6 DEF Enough, K, c
<1>8. ASSUME ValidSignatures(OrEmpty(c.refund_keys), signatures) >= 1
      PROVE  ToSet(OrEmpty(c.refund_keys)) \cap own # {}
  <2>1. ToSet(OrEmpty(c.refund_keys)) \cap ToSet(signatures) # {}
    BY <1>8, NoSigner
  <2> QED BY <2>1
<1> QED BY <1>6, <1>7, <1>8 DEF Late, c

-----------------------------------------------------------------------------
Claims == [by : {None, "receiver", "sender"}, keys : Keyrings \cup {{}, ToSet(SenderKeys)},
           at : Int]

TypeInv ==
    /\ now \in Int
    /\ wanted \in Wants
    /\ held \in Keyrings
    /\ token \in Seq({Paid(p) : p \in Payments})
    /\ spent \in Seq(Claims)
    /\ Len(spent) = Len(token)

\* The token does not change once it was verified.
VerifiedInv == verified = TRUE => VerifyTokenP2pk(Secrets(token), wanted)

\* The mint took somebody's signatures for every coin that is swapped.
SwappedInv ==
    \A i \in DOMAIN spent :
        LET secret == token[i].secret
            claim == spent[i]
        IN  \/ claim = Unspent
            \/ /\ claim.by = "sender" /\ claim.keys = ToSet(SenderKeys)
               /\ Verify(secret, AddSignatures(None, SenderKeys), claim.at)
            \/ /\ claim.by = "receiver"
               /\ Verify(secret, ReceiveWitness(secret, claim.keys, Preimages), claim.at)

ClaimInv == TypeInv /\ VerifiedInv /\ SwappedInv

\* Nothing was sent or taken yet.
LEMMA InitClaim == Init => ClaimInv
<1> SUFFICES ASSUME Init PROVE ClaimInv
  OBVIOUS
<1>1. TypeInv
  BY DEF Init, TypeInv
<1>2. VerifiedInv
  BY PaymentAssumption DEF Init, VerifiedInv
<1>3. SwappedInv
  BY DEF Init, SwappedInv
<1> QED BY <1>1, <1>2, <1>3 DEF ClaimInv

\* Every step keeps the invariant of the claims.
LEMMA StepClaim == ClaimInv /\ [Next]_vars => ClaimInv'
<1> SUFFICES ASSUME ClaimInv, [Next]_vars PROVE ClaimInv'
  OBVIOUS
<1> USE DEF ClaimInv
<1>1. ASSUME NEW p \in Payments, Send(p) PROVE ClaimInv'
  <2>1. Unspent \in Claims
    BY DEF Unspent, Claims
  <2>2. /\ spent' = Append(spent, Unspent)
        /\ token' = Append(token, Paid(p))
        /\ verified = None /\ UNCHANGED <<now, wanted, held, verified>>
        /\ spent = [i \in DOMAIN token |-> Unspent]
    BY <1>1 DEF Send
  <2>3. TypeInv'
    BY <2>1, <2>2 DEF TypeInv
  <2>4. VerifiedInv'
    BY <2>2, PaymentAssumption DEF VerifiedInv
  <2>5. \A i \in DOMAIN spent' : spent'[i] = Unspent
    BY <2>1, <2>2 DEF TypeInv
  <2>6. SwappedInv'
    BY <2>5 DEF SwappedInv
  <2> QED BY <2>3, <2>4, <2>6
<1>2. CASE VerifyToken
  <2>1. /\ verified' = VerifyTokenP2pk(Secrets(token), wanted)
        /\ UNCHANGED <<now, wanted, held, token, spent>>
    BY <1>2 DEF VerifyToken
  <2>2. TypeInv'
    BY <2>1 DEF TypeInv
  <2>3. VerifiedInv'
    BY <2>1 DEF VerifiedInv, Secrets
  <2>4. SwappedInv'
    BY <2>1 DEF SwappedInv
  <2> QED BY <2>2, <2>3, <2>4
<1>3. CASE Receive
  <2>1. /\ UNCHANGED <<now, wanted, held, token, verified>>
        /\ \/ spent' = spent
           \/ spent' = [i \in DOMAIN token |-> [by |-> "receiver", keys |-> held, at |-> now]]
    BY <1>3 DEF Receive
  <2>2. VerifiedInv'
    BY <2>1 DEF VerifiedInv, Secrets
  <2>3. CASE spent' = spent
    BY <2>1, <2>2, <2>3 DEF TypeInv, SwappedInv
  <2>4. CASE spent' = [i \in DOMAIN token |-> [by |-> "receiver", keys |-> held, at |-> now]]
    <3>1. [by |-> "receiver", keys |-> held, at |-> now] \in Claims
      BY DEF TypeInv, Claims
    <3>2. TypeInv'
      BY <2>1, <2>4, <3>1 DEF TypeInv
    <3>3. CASE spent = spent'
      BY <3>3, <2>1, <2>2, <3>2 DEF SwappedInv
    <3>4. CASE spent # spent'
      <4>1. \A i \in DOMAIN token :
                Verify(token[i].secret, ReceiveWitness(token[i].secret, held, Preimages), now)
        BY <1>3, <3>4 DEF Receive, Honoured
      <4>2. SwappedInv'
        BY <2>1, <2>4, <4>1 DEF SwappedInv
      <4> QED BY <2>2, <3>2, <4>2
    <3> QED BY <3>3, <3>4
  <2> QED BY <2>1, <2>3, <2>4
<1>4. ASSUME NEW i \in DOMAIN token, TakeBack(i) PROVE ClaimInv'
  <2>1. /\ spent' = [spent EXCEPT ![i] = [by |-> "sender", keys |-> ToSet(SenderKeys), at |-> now]]
        /\ UNCHANGED <<now, wanted, held, token, verified>>
    BY <1>4 DEF TakeBack
  <2>2. [by |-> "sender", keys |-> ToSet(SenderKeys), at |-> now] \in Claims
    BY DEF TypeInv, Claims
  <2>3. TypeInv'
    BY <2>1, <2>2 DEF TypeInv
  <2>4. VerifiedInv'
    BY <2>1 DEF VerifiedInv, Secrets
  <2>5. Verify(token[i].secret, AddSignatures(None, SenderKeys), now)
    BY <1>4 DEF TakeBack, Takeable, Honoured
  <2>6. SwappedInv'
    <3> DEFINE Backed(j) ==
            LET secret == token[j].secret
                claim == spent'[j]
            IN  \/ claim = Unspent
                \/ /\ claim.by = "sender" /\ claim.keys = ToSet(SenderKeys)
                   /\ Verify(secret, AddSignatures(None, SenderKeys), claim.at)
                \/ /\ claim.by = "receiver"
                   /\ Verify(secret, ReceiveWitness(secret, claim.keys, Preimages), claim.at)
    <3>1. ASSUME NEW j \in DOMAIN spent' PROVE Backed(j)
      <4>1. CASE j = i
        BY <2>1, <2>5, <4>1 DEF TypeInv
      <4>2. CASE j # i
        <5>1. spent'[j] = spent[j] /\ j \in DOMAIN spent
          BY <2>1, <4>2 DEF TypeInv
        <5> QED BY <5>1 DEF SwappedInv
      <4> QED BY <4>1, <4>2
    <3> QED BY <2>1, <3>1 DEF SwappedInv
  <2> QED BY <2>3, <2>4, <2>6
<1>5. CASE Tick
  BY <1>5 DEF Tick, TypeInv, VerifiedInv, SwappedInv, Secrets
<1>6. CASE UNCHANGED vars
  BY <1>6 DEF vars, TypeInv, VerifiedInv, SwappedInv, Secrets
<1> QED BY <1>1, <1>2, <1>3, <1>4, <1>5, <1>6 DEF Next

\* A receiver that verified a token of P2PK coins can rely on it until the
\* locktime it asked for, whatever conditions the sender chose
\* (verify_token_p2pk against verify_p2pk).
THEOREM TakenBackLate == Spec => []ClaimedBackOnlyLate
<1>1. ClaimInv => ClaimedBackOnlyLate
  <2> SUFFICES ASSUME ClaimInv, verified = TRUE, IsP2pk,
                      NEW i \in DOMAIN spent, spent[i].by = "sender"
               PROVE  Late(wanted.conditions.locktime, spent[i].at)
    BY DEF ClaimedBackOnlyLate
  <2>1. i \in DOMAIN token /\ token[i] \in {Paid(p) : p \in Payments} /\ spent[i].at \in Int
        /\ wanted \in Wants
    <3>1. i \in DOMAIN token /\ wanted \in Wants
      BY DEF ClaimInv, TypeInv
    <3>2. token[i] \in {Paid(p) : p \in Payments}
      BY <3>1 DEF ClaimInv, TypeInv
    <3>3. spent[i] \in Claims
      BY DEF ClaimInv, TypeInv
    <3> QED BY <3>1, <3>2, <3>3 DEF Claims
  <2>2. PICK p \in Payments : token[i] = Paid(p)
    BY <2>1
  <2>3. token[i].secret \in Secrets(token)
    BY <2>1 DEF Secrets, ToSet
  <2>4. token[i].secret.kind = "P2PK"
    BY <2>3 DEF IsP2pk
  <2>5. p.condition # None /\ token[i].secret = SecretOf(p.condition)
    BY <2>2, <2>4, PaymentAssumption DEF Paid, Plain
  <2>6. p.condition.kind = "P2PK"
    BY <2>4, <2>5 DEF SecretOf
  <2>7. /\ KeysAcceptable(ConditionOf(SecretOf(p.condition)), wanted)
        /\ RefundAcceptable(ConditionOf(SecretOf(p.condition)), wanted)
    BY <2>3, <2>5 DEF ClaimInv, VerifiedInv, VerifyTokenP2pk
  <2>8. VerifyP2pk(SecretOf(p.condition), AddSignatures(None, SenderKeys), spent[i].at)
    <3>1. Verify(token[i].secret, AddSignatures(None, SenderKeys), spent[i].at)
      BY PaymentAssumption DEF ClaimInv, SwappedInv, Unspent
    <3> QED BY <2>4, <2>5, <3>1 DEF Verify
  <2> QED BY <2>1, <2>5, <2>6, <2>7, <2>8, SenderIsLate
<1> QED BY <1>1, InitClaim, StepClaim, PTL DEF Spec

\* Whoever has a P2PK coin swapped has as many of its keys as it asks for or,
\* past its locktime, a refund key: the mint's counting of signatures comes to
\* a counting of keys where none is listed twice (verify_p2pk, the way of the
\* conditions through the secret's tags, and what either side signs with).
THEOREM SwappedByOwners ==
    ASSUME DistinctKeys
    PROVE  Spec => []AuthorisedOnly
<1>1. ClaimInv => AuthorisedOnly
  <2> SUFFICES ASSUME ClaimInv, NEW i \in DOMAIN spent, spent[i] # Unspent,
                      token[i].secret.kind = "P2PK"
               PROVE  \/ Enough(token[i].condition, spent[i].keys)
                      \/ /\ Late(token[i].condition.conditions.locktime, spent[i].at)
                         /\ ToSet(OrEmpty(token[i].condition.conditions.refund_keys))
                                \cap spent[i].keys # {}
    BY DEF AuthorisedOnly
  <2>1. token[i] \in {Paid(p) : p \in Payments}
    <3>1. i \in DOMAIN token
      BY DEF ClaimInv, TypeInv
    <3> QED BY <3>1 DEF ClaimInv, TypeInv
  <2>2. PICK p \in Payments : token[i] = Paid(p)
    BY <2>1
  <2>3. p.condition # None /\ token[i].secret = SecretOf(p.condition) /\ token[i].condition = p.condition
    BY <2>2, PaymentAssumption DEF Paid, Plain
  <2>4. p.condition.kind = "P2PK"
    BY <2>3 DEF SecretOf
  <2>5. IsInjective(ConditionKeys(p.condition)) /\ IsInjective(SenderKeys)
    BY <2>3, DistinctKeys DEF DistinctKeys
  <2>6. ASSUME NEW signatures, IsInjective(signatures), ToSet(signatures) \subseteq spent[i].keys,
               Verify(token[i].secret, AddSignatures(None, signatures), spent[i].at)
        PROVE  \/ Enough(token[i].condition, spent[i].keys)
               \/ /\ Late(token[i].condition.conditions.locktime, spent[i].at)
                  /\ ToSet(OrEmpty(token[i].condition.conditions.refund_keys))
                         \cap spent[i].keys # {}
    <3>1. VerifyP2pk(SecretOf(p.condition), AddSignatures(None, signatures), spent[i].at)
      BY <2>3, <2>6 DEF Verify
    <3> QED BY <2>3, <2>4, <2>5, <2>6, <3>1, KeysDecide
  <2>7. CASE /\ spent[i].keys = ToSet(SenderKeys)
             /\ Verify(token[i].secret, AddSignatures(None, SenderKeys), spent[i].at)
    BY <2>5, <2>6, <2>7
  <2>8. CASE Verify(token[i].secret, ReceiveWitness(token[i].secret, spent[i].keys, Preimages),
                    spent[i].at)
    <3> DEFINE c == p.condition.conditions
               listed == OrEmpty(c.pubkeys) \o <<p.condition.data>>
    <3>1. ReceiveWitness(token[i].secret, spent[i].keys, Preimages)
              = AddSignatures(None, Signed(listed, spent[i].keys))
      <4>1. /\ token[i].secret.kind = "P2PK" /\ token[i].secret.data = p.condition.data
            /\ token[i].secret.tags = Tags(c)
        BY <2>3, <2>4 DEF SecretOf
      <4>2. ConditionOf(token[i].secret).conditions.pubkeys = c.pubkeys
        BY <4>1, ConditionsSurvive DEF ConditionOf, ReadTags, NewConditions
      <4> QED BY <4>1, <4>2, PaymentAssumption DEF ReceiveWitness
    <3>2. IsList(OrEmpty(c.pubkeys))
      <4>1. CASE c.pubkeys = None
        BY <4>1 DEF OrEmpty, IsList, ToSet
      <4>2. CASE c.pubkeys # None
        BY <2>3, <4>2, PaymentAssumption DEF OrEmpty
      <4> QED BY <4>1, <4>2
    <3>3. ConditionKeys(p.condition) = <<p.condition.data>> \o OrEmpty(c.pubkeys)
      BY <2>4 DEF ConditionKeys
    <3>4. IsList(listed) /\ IsInjective(listed)
      <4> HIDE DEF c
      <4> QED BY <2>5, <3>2, <3>3, KeysInOrder
    <3> HIDE DEF listed
    <3>5. /\ IsInjective(Signed(listed, spent[i].keys))
          /\ ToSet(Signed(listed, spent[i].keys)) \subseteq spent[i].keys
      BY <3>4, SignedKeys
    <3> QED BY <2>6, <2>8, <3>1, <3>5
  <2> QED BY <2>7, <2>8 DEF ClaimInv, SwappedInv
<1> QED BY <1>1, InitClaim, StepClaim, PTL DEF Spec

-----------------------------------------------------------------------------
(* What is paid adds up *)

\* What a payment became is all of what was meant.
LEMMA PaidAddsUp ==
    ASSUME NEW p \in Payments
    PROVE  /\ Paid(p).parts \in Seq(CoinValues)
           /\ SumOf(Paid(p).parts) = p.amount
           /\ Paid(p).amount = p.amount
<1>1. p.amount \in Nat /\ p.amount < Part(Bits) /\ p.target \in {NoTarget} \cup (Nat \ {0})
  <2>1. Part(Bits) \in Nat
    BY AmountsAssumption, PartDoubles
  <2>2. p.amount \in 0..(Part(Bits) - 1) /\ p.target \in SplitTargets
    BY PaymentAssumption
  <2> QED BY <2>1, <2>2 DEF SplitTargets
<1>2. /\ SplitTargeted(p.amount, p.target) \in Seq(CoinValues)
      /\ SumOf(SplitTargeted(p.amount, p.target)) = p.amount
  BY <1>1, SplitTargetedAddsUp
<1> QED BY <1>2 DEF Paid

\* What is paid adds up, in coins the keyset has keys for, for every amount and
\* every target (split_targeted).
THEOREM PaidInFull == Spec => []PartsAddUp
<1>1. ClaimInv => PartsAddUp
  <2> SUFFICES ASSUME ClaimInv, NEW i \in DOMAIN token
               PROVE  /\ SumOf(token[i].parts) = token[i].amount
                      /\ ToSet(token[i].parts) \subseteq {Part(b) : b \in 0..(Bits - 1)}
    BY DEF PartsAddUp
  <2>1. PICK p \in Payments : token[i] = Paid(p)
    BY DEF ClaimInv, TypeInv
  <2>2. token[i].parts \in Seq(CoinValues) /\ SumOf(token[i].parts) = token[i].amount
    BY <2>1, PaidAddsUp
  <2>3. ToSet(token[i].parts) \subseteq CoinValues
    BY <2>2 DEF ToSet
  <2> QED BY <2>2, <2>3 DEF CoinValues
<1> QED BY <1>1, InitClaim, StepClaim, PTL DEF Spec

\* Lists whose sums have a bound, joined, have a bound.
LEMMA FlattenedFits ==
    ASSUME NEW lists \in Seq(Seq(CoinValues)), NEW bound \in Nat,
           \A i \in DOMAIN lists : SumOf(lists[i]) <= bound
    PROVE  /\ FlattenSeq(lists) \in Seq(CoinValues)
           /\ SumOf(FlattenSeq(lists)) <= Len(lists) * bound
<1> DEFINE n == Len(lists)
           V == Seq(CoinValues)
           step == [i \in 1..n |-> [v \in V |-> v \o lists[i]]]
           Joins(f) == f = [i \in 1..n |-> IF i = 1 THEN lists[i] ELSE f[i - 1] \o lists[i]]
<1>1. n \in Nat /\ DOMAIN lists = 1..n /\ \A i \in 1..n : lists[i] \in V
  OBVIOUS
<1>2. CASE n = 0
  <2>1. lists = <<>>
    BY <1>2
  <2>2. FlattenSeq(lists) = <<>>
    BY <1>2, <2>1 DEF FlattenSeq
  <2>3. n * bound = 0 /\ <<>> \in V
    BY <1>2
  <2> QED BY <2>2, <2>3, SumOfNone
<1>3. CASE n # 0
  <2>1. FlattenSeq(lists) = (CHOOSE f : Joins(f))[n]
    BY <1>3 DEF FlattenSeq
  <2>2. step \in [1..n -> [V -> V]] /\ <<>> \in V
    <3>1. ASSUME NEW i \in 1..n, NEW v \in V PROVE v \o lists[i] \in V
      <4>1. lists[i] \in V
        BY <1>1
      <4> QED BY <4>1
    <3>2. <<>> \in V
      OBVIOUS
    <3> HIDE DEF V, n
    <3> QED BY <3>1, <3>2
  <2>3. \E f : Joins(f)
    <3>1. PICK g : Recursive(g, n, V, <<>>, step)
      <4> HIDE DEF V, step, n
      <4> QED BY <1>1, <2>2, Recursion
    <3> DEFINE f == [i \in 1..n |-> g[i]]
    <3> HIDE DEF n
    <3>2. ASSUME NEW i \in 1..n PROVE f[i] = IF i = 1 THEN lists[i] ELSE f[i - 1] \o lists[i]
      <4>1. lists[i] \in V /\ i - 1 \in 0..n /\ i \in Int
        BY <1>1
      <4>2. g[i - 1] \in V
        <5> HIDE DEF V
        <5> QED BY <3>1, <4>1 DEF Recursive
      <4>3. g[i] = g[i - 1] \o lists[i]
        <5>1. g[i] = step[i][g[i - 1]]
          BY <3>1 DEF Recursive
        <5> HIDE DEF V
        <5> QED BY <5>1, <4>2
      <4>4. CASE i = 1
        <5>1. g[i - 1] = <<>>
          BY <4>4, <3>1 DEF Recursive
        <5>2. <<>> \o lists[i] = lists[i]
          BY <4>1
        <5> QED BY <4>3, <4>4, <5>1, <5>2
      <4>5. CASE i # 1
        <5>1. i - 1 \in 1..n
          BY <4>5, <1>1
        <5> QED BY <4>3, <4>5, <5>1
      <4> QED BY <4>4, <4>5
    <3>3. Joins(f)
      <4>1. f = [i \in 1..n |-> f[i]]
        OBVIOUS
      <4> HIDE DEF f
      <4> QED BY <3>2, <4>1
    <3> HIDE DEF Joins
    <3> QED BY <3>3
  <2> DEFINE f == CHOOSE g : Joins(g)
  <2>4. Joins(f)
    BY <2>3
  <2>5. FlattenSeq(lists) = f[n]
    BY <2>1
  <2> HIDE DEF f, n
  <2>6. 1 \in 1..n /\ f[1] = lists[1] /\ \A i \in 1..n : i # 1 => f[i] = f[i - 1] \o lists[i]
    <3>1. 1 \in 1..n
      BY <1>1, <1>3
    <3> QED BY <3>1, <2>4
  <2> HIDE DEF Joins
  <2> DEFINE Fits(i) == f[i] \in V /\ SumOf(f[i]) <= i * bound
             P == {i \in 0..n : i # 0 => Fits(i)}
  <2>7. 0 \in P
    BY <1>1
  <2>8. ASSUME NEW i \in 1..n, i - 1 \in P PROVE i \in P
    <3>1. lists[i] \in V /\ SumOf(lists[i]) <= bound /\ SumOf(lists[i]) \in Nat /\ i \in Nat
      <4>1. i \in DOMAIN lists /\ i \in Nat
        BY <1>1
      <4>2. lists[i] \in Seq(CoinValues)
        BY <4>1
      <4>3. SumOf(lists[i]) \in Nat
        BY <4>2, CoinsAreNumbers
      <4> QED BY <4>1, <4>2, <4>3
    <3>2. CASE i = 1
      <4>1. f[i] \in V /\ SumOf(f[i]) <= bound
        BY <3>1, <3>2, <2>6
      <4>2. i * bound = bound
        BY <3>2
      <4> QED BY <4>1, <4>2
    <3>3. CASE i # 1
      <4>1. f[i - 1] \in V /\ SumOf(f[i - 1]) <= (i - 1) * bound
        BY <2>8, <3>3
      <4>2. f[i] = f[i - 1] \o lists[i]
        BY <3>3, <2>6
      <4>3. f[i - 1] \in Seq(Nat) /\ lists[i] \in Seq(Nat) /\ SumOf(f[i - 1]) \in Nat
        BY <4>1, <3>1, CoinsAreNumbers
      <4>4. SumOf(f[i]) = SumOf(f[i - 1]) + SumOf(lists[i])
        BY <4>2, <4>3, SumOfJoined
      <4>5. i * bound = (i - 1) * bound + bound /\ (i - 1) * bound \in Int
        BY <3>1
      <4>6. f[i] \in V
        BY <4>1, <4>2, <3>1
      <4>7. SumOf(f[i]) <= i * bound
        <5> HIDE DEF V
        <5> QED BY <3>1, <4>1, <4>3, <4>4, <4>5
      <4> QED BY <4>6, <4>7
    <3> QED BY <3>2, <3>3
  <2>9. Fits(n)
    <3>1. \A i \in 0..n : i \in P
      <4> HIDE DEF P
      <4> QED BY <1>1, <2>7, <2>8, Induction
    <3>2. n \in P
      BY <1>1, <3>1
    <3> QED BY <3>2, <1>3
  <2> QED BY <2>5, <2>9 DEF n
<1> QED BY <1>2, <1>3

-----------------------------------------------------------------------------
(* Receiving *)

\* The mint counts a signature at least for every key the wallet holds.
LEMMA EveryKeyCounts ==
    ASSUME NEW keys, IsList(keys), IsFiniteSet(ToSet(keys)), NEW own
    PROVE  /\ ValidSignatures(keys, Signed(keys, own)) \in Nat
           /\ Cardinality(ToSet(keys) \cap own) \in Nat
           /\ ValidSignatures(keys, Signed(keys, own)) >= Cardinality(ToSet(keys) \cap own)
<1> DEFINE s == Signed(keys, own)
           S == {p \in (DOMAIN keys) \X (DOMAIN s) : keys[p[1]] = s[p[2]]}
           K == ToSet(keys) \cap own
           f == [k \in K |-> CHOOSE p \in S : keys[p[1]] = k]
<1>1. s \in Seq(ToSet(keys)) /\ ToSet(s) = K
  BY SignedKeys
<1>2. ValidSignatures(keys, s) = Cardinality(S)
  BY DEF ValidSignatures
<1>3. DOMAIN keys = 1..Len(keys) /\ Len(keys) \in Nat
  BY DEF IsList
<1> HIDE DEF s
<1>4. DOMAIN s = 1..Len(s) /\ Len(s) \in Nat
  BY <1>1
<1>5. IsFiniteSet(S)
  <2>1. IsFiniteSet(DOMAIN keys) /\ IsFiniteSet(DOMAIN s)
    BY <1>3, <1>4, FS_Interval
  <2>2. IsFiniteSet((DOMAIN keys) \X (DOMAIN s))
    BY <2>1, FS_Product
  <2>3. S \subseteq (DOMAIN keys) \X (DOMAIN s)
    OBVIOUS
  <2> HIDE DEF S
  <2> QED BY <2>2, <2>3, FS_Subset
<1>6. \A k \in K : \E p \in S : keys[p[1]] = k
  <2> SUFFICES ASSUME NEW k \in K PROVE \E p \in S : keys[p[1]] = k
    OBVIOUS
  <2>1. PICK i \in DOMAIN keys : keys[i] = k
    BY DEF ToSet
  <2>2. k \in ToSet(s)
    BY <1>1
  <2>3. PICK j \in DOMAIN s : s[j] = k
    BY <2>2 DEF ToSet
  <2>4. <<i, j>> \in S /\ keys[<<i, j>>[1]] = k
    BY <2>1, <2>3
  <2> HIDE DEF S
  <2> QED BY <2>4
<1> HIDE DEF S, K
<1>7. \A k \in K : f[k] \in S /\ keys[f[k][1]] = k
  BY <1>6
<1>8. f \in Injection(K, S)
  <2>1. f \in [K -> S]
    BY <1>7
  <2> HIDE DEF f
  <2> QED BY <1>7, <2>1 DEF Injection, IsInjective
<1>9. IsFiniteSet(K)
  BY FS_Subset DEF K
<1>10. Cardinality(K) <= Cardinality(S)
  BY <1>5, <1>8, FS_Injection
<1> QED BY <1>2, <1>5, <1>9, <1>10, FS_CardinalityType DEF s, K

\* What the mint and the receiver read of a P2PK coin's condition.
LEMMA ReadBack ==
    ASSUME NEW p \in Payments, p.condition # None, p.condition.kind = "P2PK"
    PROVE  LET c == p.condition.conditions
               secret == SecretOf(p.condition)
           IN  /\ secret.kind = "P2PK" /\ secret.data = p.condition.data
               /\ ReadTags(secret.tags).pubkeys = c.pubkeys
               /\ ReadTags(secret.tags).num_sigs = c.num_sigs
               /\ ConditionKeys(ConditionOf(secret)) = ConditionKeys(p.condition)
               /\ ConditionKeys(p.condition) = <<p.condition.data>> \o OrEmpty(c.pubkeys)
               /\ IsList(OrEmpty(c.pubkeys))
<1> DEFINE c == p.condition.conditions
           secret == SecretOf(p.condition)
<1>1. /\ secret.kind = "P2PK" /\ secret.data = p.condition.data
      /\ ReadTags(secret.tags).pubkeys = c.pubkeys
      /\ ReadTags(secret.tags).num_sigs = c.num_sigs
  BY ConditionsSurvive DEF SecretOf, ReadTags, NewConditions
<1>2. ConditionKeys(p.condition) = <<p.condition.data>> \o OrEmpty(c.pubkeys)
  BY DEF ConditionKeys
<1>3. IsList(OrEmpty(c.pubkeys))
  <2>1. CASE c.pubkeys = None
    BY <2>1 DEF OrEmpty, IsList, ToSet
  <2>2. CASE c.pubkeys # None
    BY <2>2, PaymentAssumption DEF OrEmpty
  <2> QED BY <2>1, <2>2
<1>4. ConditionKeys(ConditionOf(secret)) = ConditionKeys(p.condition)
  <2> HIDE DEF c, secret
  <2>1. /\ ConditionOf(secret).kind = "P2PK" /\ ConditionOf(secret).data = p.condition.data
        /\ ConditionOf(secret).conditions.pubkeys = c.pubkeys
    BY <1>1 DEF ConditionOf
  <2> QED BY <1>2, <2>1 DEF ConditionKeys
<1> QED BY <1>1, <1>2, <1>3, <1>4

\* Whoever holds enough keys of a P2PK coin makes a witness the mint takes.
LEMMA KeysServe ==
    ASSUME NEW p \in Payments, p.condition # None, p.condition.kind = "P2PK",
           OrOne(p.condition.conditions.num_sigs) >= 1,
           NEW own, Enough(p.condition, own), NEW at
    PROVE  /\ VerifyP2pk(SecretOf(p.condition),
                         ReceiveWitness(SecretOf(p.condition), own, Preimages), at)
           /\ KeysOf(p.condition) \cap own # {}
<1> DEFINE c == p.condition.conditions
           data == p.condition.data
           secret == SecretOf(p.condition)
           listed == OrEmpty(c.pubkeys) \o <<data>>
           signed == Signed(listed, own)
           K == KeysOf(p.condition) \cap own
<1>1. /\ secret.kind = "P2PK" /\ secret.data = data
      /\ ReadTags(secret.tags).pubkeys = c.pubkeys
      /\ ReadTags(secret.tags).num_sigs = c.num_sigs
      /\ ConditionKeys(p.condition) = <<data>> \o OrEmpty(c.pubkeys)
      /\ IsList(OrEmpty(c.pubkeys))
  BY ReadBack
<1>2. OrOne(c.num_sigs) \in Nat
  BY PaymentAssumption DEF OrOne
<1>3. OrOne(c.num_sigs) >= 1 /\ Cardinality(K) >= OrOne(c.num_sigs)
  BY DEF Enough
<1> HIDE DEF c, data, secret
<1>4. IsList(listed) /\ IsFiniteSet(ToSet(listed)) /\ KeysOf(p.condition) = ToSet(listed)
  <2>1. IsList(listed) /\ IsFiniteSet(ToSet(listed))
    BY <1>1, KeysInOrder
  <2>2. ToSet(listed) = ToSet(<<data>> \o OrEmpty(c.pubkeys))
    BY <1>1, SameKeys
  <2> QED BY <1>1, <2>1, <2>2 DEF KeysOf
<1> HIDE DEF listed
<1>5. /\ ValidSignatures(listed, signed) \in Nat /\ Cardinality(K) \in Nat
      /\ ValidSignatures(listed, signed) >= Cardinality(K)
  BY <1>4, EveryKeyCounts
<1>6. K # {}
  BY <1>2, <1>3, FS_EmptySet
<1>7. signed # <<>>
  <2>1. ToSet(signed) = K
    BY <1>4, SignedKeys
  <2>2. ToSet(<<>>) = {}
    BY DEF ToSet
  <2> QED BY <1>6, <2>1, <2>2
<1> HIDE DEF K, signed
<1>8. ReceiveWitness(secret, own, Preimages) = SignatureWitness(signed)
  <2>1. ConditionOf(secret).conditions.pubkeys = c.pubkeys
    BY <1>1 DEF ConditionOf
  <2>2. ReceiveWitness(secret, own, Preimages) = AddSignatures(None, signed)
    BY <1>1, <2>1, PaymentAssumption DEF ReceiveWitness, listed, signed
  <2> QED BY <1>7, <2>2 DEF AddSignatures
<1>9. VerifyP2pk(secret, SignatureWitness(signed), at)
  <2> DEFINE witness == SignatureWitness(signed)
             keys == ToSet(ConditionKeys(p.condition))
  <2>1. witness.signatures = signed
    BY DEF SignatureWitness
  <2>2. signed \in Seq(keys)
    <3>1. signed \in Seq(ToSet(listed))
      BY <1>4, SignedKeys DEF signed
    <3> QED BY <1>4, <3>1 DEF KeysOf
  <2>3. None \notin Seq(keys) /\ None \notin [kind : {"P2PK"}, preimage : {None}, signatures : Seq(keys)]
    BY PaymentAssumption
  <2>4. witness # None /\ witness.signatures # None
    <3>1. witness \in [kind : {"P2PK"}, preimage : {None}, signatures : Seq(keys)]
      <4> HIDE DEF keys
      <4> QED BY <2>2 DEF SignatureWitness
    <3> HIDE DEF keys, witness
    <3> QED BY <2>1, <2>2, <2>3, <3>1
  <2>5. OrEmpty(ReadTags(secret.tags).pubkeys)
            \o (IF secret.kind = "P2PK" THEN <<secret.data>> ELSE <<>>) = listed
    BY <1>1 DEF listed
  <2> HIDE DEF witness
  <2>6. ValidSignatures(listed, witness.signatures) >= OrOne(ReadTags(secret.tags).num_sigs)
    BY <1>1, <1>2, <1>3, <1>5, <2>1
  <2>7. ValidSignatures(OrEmpty(ReadTags(secret.tags).pubkeys)
                            \o (IF secret.kind = "P2PK" THEN <<secret.data>> ELSE <<>>),
                        witness.signatures) >= OrOne(ReadTags(secret.tags).num_sigs)
    BY <2>5, <2>6, Zenon
  <2>8. VerifyP2pk(secret, witness, at)
    BY <2>4, <2>7, Zenon DEF VerifyP2pk
  <2> QED BY <2>8 DEF witness
<1> QED BY <1>6, <1>8, <1>9 DEF secret, K

\* Nobody who is entitled was refused, and the token has room for what it holds.
ServedInv == OwnersAreServed /\ Len(token) <= MaxSends

\* What the payments of a token come to is an amount.
LEMMA TokenFits ==
    ASSUME TokensFit, TypeInv, Len(token) <= MaxSends
    PROVE  SumOf(AllParts(token)) \in Nat /\ SumOf(AllParts(token)) < Part(Bits)
<1> DEFINE lists == [i \in DOMAIN token |-> token[i].parts]
<1>1. PICK largest \in 0..(Part(Bits) - 1) :
          (\A p \in Payments : p.amount <= largest) /\ MaxSends * largest < Part(Bits)
  BY DEF TokensFit
<1>2. /\ Part(Bits) \in Nat /\ largest \in Nat /\ MaxSends \in Nat /\ Len(token) \in Nat
      /\ DOMAIN token = 1..Len(token)
  BY AmountsAssumption, PartDoubles, PaymentAssumption, <1>1 DEF TypeInv
<1>3. ASSUME NEW i \in DOMAIN token
      PROVE  token[i].parts \in Seq(CoinValues) /\ SumOf(token[i].parts) <= largest
  <2>1. PICK p \in Payments : token[i] = Paid(p)
    BY <1>3 DEF TypeInv
  <2> QED BY <1>1, <2>1, PaidAddsUp
<1>4. /\ lists \in Seq(Seq(CoinValues)) /\ Len(lists) = Len(token)
      /\ \A i \in DOMAIN lists : SumOf(lists[i]) <= largest
  BY <1>2, <1>3
<1>5. AllParts(token) = FlattenSeq(lists)
  BY DEF AllParts
<1> HIDE DEF lists
<1>6. FlattenSeq(lists) \in Seq(CoinValues) /\ SumOf(FlattenSeq(lists)) <= Len(lists) * largest
  BY <1>2, <1>4, FlattenedFits
<1>7. SumOf(FlattenSeq(lists)) \in Nat
  BY <1>6, CoinsAreNumbers
<1>8. Len(lists) * largest <= MaxSends * largest
  <2>1. ASSUME NEW a \in Nat, NEW b \in Nat, NEW c \in Nat, a <= b PROVE a * c <= b * c
    <3>1. PICK d \in Nat : b = a + d
      <4>1. b - a \in Nat /\ b = a + (b - a)
        BY <2>1
      <4> QED BY <4>1
    <3>2. b * c = a * c + d * c /\ d * c \in Nat /\ a * c \in Nat
      BY <3>1
    <3> QED BY <3>2
  <2> QED BY <1>2, <1>4, <2>1
<1>9. Len(lists) * largest \in Int /\ MaxSends * largest \in Int
  BY <1>2, <1>4
<1> QED BY <1>1, <1>2, <1>5, <1>6, <1>7, <1>8, <1>9

\* A receiver that is entitled to every coin of an unspent token is served.
LEMMA EntitledAreServed ==
    ASSUME CountsFit, TokensFit, TypeInv, Len(token) <= MaxSends,
           \A p \in ToSet(token) : Entitled(p),
           \A i \in DOMAIN spent : spent[i] = Unspent
    PROVE  LET witnesses == [i \in DOMAIN token |->
                                ReceiveWitness(token[i].secret, held, Preimages)]
               outputs == SplitTargeted(SumOf(AllParts(token)), ReceiveTarget)
               signing == IF SigFlag(Secrets(token)) = "SIG_ALL" THEN held ELSE {}
               free == \A i \in DOMAIN spent : spent[i] = Unspent
           IN  /\ \A s \in Secrets(token) : PreimageProvided(s, Preimages)
               /\ Honoured(token, witnesses, free, outputs, signing)
<1> DEFINE witnesses == [i \in DOMAIN token |-> ReceiveWitness(token[i].secret, held, Preimages)]
           total == SumOf(AllParts(token))
           outputs == SplitTargeted(total, ReceiveTarget)
           signing == IF SigFlag(Secrets(token)) = "SIG_ALL" THEN held ELSE {}
           free == \A i \in DOMAIN spent : spent[i] = Unspent
           Owned(p) == /\ VerifyP2pk(SecretOf(p.condition),
                                     ReceiveWitness(SecretOf(p.condition), held, Preimages), now)
                       /\ KeysOf(p.condition) \cap held # {}
<1>1. ASSUME NEW i \in DOMAIN token
      PROVE  \E p \in Payments :
                 /\ token[i] = Paid(p)
                 /\ \/ p.condition = None /\ token[i].secret = Plain
                    \/ /\ p.condition # None /\ p.condition.kind = "P2PK"
                       /\ token[i].secret = SecretOf(p.condition)
                       /\ token[i].secret.kind = "P2PK"
                       /\ Owned(p)
  <2>1. PICK p \in Payments : token[i] = Paid(p)
    BY <1>1 DEF TypeInv
  <2>2. CASE p.condition = None
    BY <2>1, <2>2 DEF Paid
  <2>3. CASE p.condition # None
    <3>1. /\ token[i].secret = SecretOf(p.condition) /\ token[i].condition = p.condition
          /\ token[i].secret.kind = p.condition.kind
      BY <2>1, <2>3 DEF Paid, SecretOf
    <3>2. p.condition.kind \in {"P2PK", "HTLC"} /\ OrOne(p.condition.conditions.num_sigs) >= 1
      BY <2>3, PaymentAssumption DEF CountsFit
    <3>3. Entitled(token[i])
      BY <1>1 DEF ToSet
    <3>4. p.condition.kind = "P2PK" /\ Enough(p.condition, held)
      <4>1. CASE p.condition.kind = "P2PK"
        BY <3>1, <3>3, <4>1 DEF Entitled
      <4>2. CASE p.condition.kind = "HTLC"
        BY <3>1, <3>3, <4>2 DEF Entitled
      <4> QED BY <3>2, <4>1, <4>2
    <3>5. Owned(p)
      BY <2>3, <3>2, <3>4, KeysServe
    <3> HIDE DEF Owned
    <3> QED BY <2>1, <2>3, <3>1, <3>4, <3>5
  <2> QED BY <2>2, <2>3
<1>2. \A s \in Secrets(token) : PreimageProvided(s, Preimages)
  <2> SUFFICES ASSUME NEW i \in DOMAIN token PROVE PreimageProvided(token[i].secret, Preimages)
    BY DEF Secrets, ToSet
  <2> HIDE DEF Owned
  <2>1. token[i].secret.kind # "HTLC"
    <3>1. token[i].secret = Plain \/ token[i].secret.kind = "P2PK"
      BY <1>1
    <3> QED BY <3>1, PaymentAssumption DEF Plain
  <2> QED BY <2>1 DEF PreimageProvided
<1>3. SumOf(outputs) = total
  <2>1. total \in Nat /\ total < Part(Bits)
    BY TokenFits
  <2>2. ReceiveTarget \in {NoTarget} \cup (Nat \ {0})
    BY PaymentAssumption DEF SplitTargets
  <2> HIDE DEF total
  <2> QED BY <2>1, <2>2, SplitTargetedAddsUp
<1>4. ASSUME NEW i \in DOMAIN token PROVE Verify(token[i].secret, witnesses[i], now)
  <2>1. PICK p \in Payments :
                 \/ p.condition = None /\ token[i].secret = Plain
                 \/ /\ token[i].secret = SecretOf(p.condition)
                    /\ token[i].secret.kind = "P2PK"
                    /\ Owned(p)
    BY <1>1, <1>4, Zenon
  <2>2. CASE token[i].secret = Plain
    BY <2>2, PaymentAssumption DEF Verify, Plain
  <2>3. CASE token[i].secret = SecretOf(p.condition) /\ token[i].secret.kind = "P2PK" /\ Owned(p)
    BY <1>4, <2>3 DEF Verify
  <2> QED BY <2>1, <2>2, <2>3
<1>5. ASSUME SigFlag(Secrets(token)) = "SIG_ALL"
      PROVE  VerifyOutput(signing, SigKeys(Secrets(token)))
  <2>1. PICK s \in Secrets(token) : s.kind # None
    BY <1>5 DEF SigFlag
  <2>2. PICK i \in DOMAIN token : s = token[i].secret
    BY <2>1 DEF Secrets, ToSet
  <2>3. PICK p \in Payments :
            /\ p.condition # None /\ p.condition.kind = "P2PK"
            /\ s = SecretOf(p.condition)
            /\ KeysOf(p.condition) \cap held # {}
    <3>1. s # Plain
      BY <2>1 DEF Plain
    <3> QED BY <1>1, <2>2, <3>1
  <2>4. ToSet(ConditionKeys(ConditionOf(s))) = KeysOf(p.condition)
    <3>1. ConditionKeys(ConditionOf(SecretOf(p.condition))) = ConditionKeys(p.condition)
      BY <2>3, ReadBack
    <3> QED BY <2>3, <3>1 DEF KeysOf
  <2>5. ToSet(ConditionKeys(ConditionOf(s))) \subseteq SigKeys(Secrets(token))
    BY <2>1 DEF SigKeys
  <2> QED BY <1>5, <2>3, <2>4, <2>5 DEF VerifyOutput
<1>6. Honoured(token, witnesses, free, outputs, signing)
  <2> HIDE DEF witnesses, outputs, signing
  <2> QED BY <1>3, <1>4, <1>5 DEF Honoured
<1> QED BY <1>2, <1>6

\* Every step keeps a served token's invariant.
LEMMA StepServed ==
    ASSUME CountsFit, TokensFit, ClaimInv, ServedInv, [Next]_vars
    PROVE  ServedInv'
<1>1. ASSUME NEW p \in Payments, Send(p) PROVE ServedInv'
  <2>1. /\ token' = Append(token, Paid(p)) /\ UNCHANGED <<held, refused>>
        /\ Len(token) < MaxSends
    BY <1>1 DEF Send
  <2>2. token \in Seq({Paid(q) : q \in Payments}) /\ Paid(p) \in {Paid(q) : q \in Payments}
    BY DEF ClaimInv, TypeInv
  <2>3. Len(token') <= MaxSends
    BY <2>1, <2>2, PaymentAssumption
  <2>4. ToSet(token) \subseteq ToSet(token')
    <3>1. \A i \in DOMAIN token : i \in DOMAIN token' /\ token'[i] = token[i]
      BY <2>1, <2>2
    <3> QED BY <3>1 DEF ToSet
  <2>5. OwnersAreServed'
    BY <2>1, <2>4 DEF ServedInv, OwnersAreServed, Entitled
  <2> QED BY <2>3, <2>5 DEF ServedInv
<1>2. CASE VerifyToken
  BY <1>2 DEF VerifyToken, ServedInv, OwnersAreServed, Entitled
<1>3. CASE Receive
  <2>1. UNCHANGED <<held, token>>
    BY <1>3 DEF Receive
  <2>2. ASSUME refused', ~refused PROVE \E p \in ToSet(token) : ~Entitled(p)
    <3> SUFFICES ASSUME \A p \in ToSet(token) : Entitled(p) PROVE FALSE
      OBVIOUS
    <3>1. \A i \in DOMAIN spent : spent[i] = Unspent
      BY <1>3, <2>2 DEF Receive
    <3> QED BY <1>3, <2>2, <3>1, EntitledAreServed DEF Receive, ClaimInv, ServedInv
  <2> QED BY <2>1, <2>2 DEF ServedInv, OwnersAreServed, Entitled
<1>4. ASSUME NEW i \in DOMAIN token, TakeBack(i) PROVE ServedInv'
  BY <1>4 DEF TakeBack, ServedInv, OwnersAreServed, Entitled
<1>5. CASE Tick
  BY <1>5 DEF Tick, ServedInv, OwnersAreServed, Entitled
<1>6. CASE UNCHANGED vars
  BY <1>6 DEF vars, ServedInv, OwnersAreServed, Entitled
<1> QED BY <1>1, <1>2, <1>3, <1>4, <1>5, <1>6 DEF Next

\* A receiver with enough keys of every P2PK coin of a token is served, whatever
\* else comes in the same swap and however the coins differ in keys, counts,
\* flags and amounts (receive, enforce_sig_flag, verify_p2pk, split_targeted).
THEOREM OwnersServed ==
    ASSUME CountsFit, TokensFit
    PROVE  Spec => []OwnersAreServed
<1>1. Init => ServedInv
  BY PaymentAssumption DEF Init, ServedInv, OwnersAreServed
<1>2. ClaimInv /\ ServedInv /\ [Next]_vars => ServedInv'
  BY StepServed
<1>3. ServedInv => OwnersAreServed
  BY DEF ServedInv
<1> QED BY <1>1, <1>2, <1>3, InitClaim, StepClaim, PTL DEF Spec

\* A receiver that verified a token and holds the keys it asked for is never
\* refused: what verify_token_p2pk compares is enough for verify_p2pk.
THEOREM VerifiedAreServed ==
    ASSUME DistinctKeys, CountsFit, TokensFit
    PROVE  Spec => []VerifiedIsSpendable
<1>1. ClaimInv /\ OwnersAreServed => VerifiedIsSpendable
  <2> SUFFICES ASSUME ClaimInv, OwnersAreServed, verified = TRUE, IsP2pk,
                      KeysOf(wanted) \subseteq held, refused
               PROVE  FALSE
    BY DEF VerifiedIsSpendable, KeysOf
  <2>1. PICK i \in DOMAIN token : ~Entitled(token[i])
    BY DEF OwnersAreServed, ToSet
  <2>2. PICK p \in Payments : token[i] = Paid(p)
    BY DEF ClaimInv, TypeInv
  <2>3. token[i].secret \in Secrets(token)
    BY DEF Secrets, ToSet
  <2>4. token[i].secret.kind = "P2PK"
    BY <2>3 DEF IsP2pk
  <2>5. p.condition # None /\ token[i].secret = SecretOf(p.condition) /\ token[i].condition = p.condition
    BY <2>2, <2>4, PaymentAssumption DEF Paid, Plain
  <2>6. p.condition.kind = "P2PK"
    BY <2>4, <2>5 DEF SecretOf
  <2>7. KeysAcceptable(ConditionOf(SecretOf(p.condition)), wanted)
    BY <2>3, <2>5 DEF ClaimInv, VerifiedInv, VerifyTokenP2pk
  <2> DEFINE keys == ConditionKeys(p.condition)
             num_sigs == p.condition.conditions.num_sigs
  <2>8. /\ num_sigs = wanted.conditions.num_sigs
        /\ Len(keys) = Len(ConditionKeys(wanted))
        /\ ToSet(keys) \subseteq KeysOf(wanted)
    <3>1. /\ ConditionKeys(ConditionOf(SecretOf(p.condition))) = keys
          /\ ConditionOf(SecretOf(p.condition)).conditions.num_sigs = num_sigs
      BY <2>5, <2>6, ReadBack DEF ConditionOf
    <3> HIDE DEF keys, num_sigs
    <3> QED BY <2>7, <3>1 DEF KeysAcceptable, KeysOf
  <2>9. Len(keys) >= OrOne(num_sigs)
    BY <2>8 DEF CountsFit, ClaimInv, TypeInv
  <2>10. IsInjective(keys)
    BY <2>5 DEF DistinctKeys
  <2>11. Len(keys) \in Nat /\ keys = [j \in 1..Len(keys) |-> keys[j]]
    <3>1. PICK S : OrEmpty(p.condition.conditions.pubkeys) \in Seq(S) /\ p.condition.data \in S
      <4>1. IsList(OrEmpty(p.condition.conditions.pubkeys))
        BY <2>5, <2>6, ReadBack
      <4>2. OrEmpty(p.condition.conditions.pubkeys)
                \in Seq(ToSet(OrEmpty(p.condition.conditions.pubkeys)) \cup {p.condition.data})
        BY <4>1 DEF IsList
      <4> QED BY <4>2
    <3>2. keys = <<p.condition.data>> \o OrEmpty(p.condition.conditions.pubkeys)
      BY <2>5, <2>6, ReadBack
    <3>3. <<p.condition.data>> \o OrEmpty(p.condition.conditions.pubkeys) \in Seq(S)
      BY <3>1
    <3> HIDE DEF keys
    <3> QED BY <3>2, <3>3
  <2>12. Cardinality(ToSet(keys)) = Len(keys)
    <3> HIDE DEF keys
    <3>1. keys \in Injection(1..Len(keys), ToSet(keys)) /\ keys \in Surjection(1..Len(keys), ToSet(keys))
      <4>1. keys \in [1..Len(keys) -> ToSet(keys)]
        BY <2>11 DEF ToSet
      <4>2. \A k \in ToSet(keys) : \E j \in 1..Len(keys) : keys[j] = k
        BY <2>11 DEF ToSet
      <4> QED BY <2>10, <2>11, <4>1, <4>2 DEF Injection, Surjection, IsInjective
    <3>2. IsFiniteSet(1..Len(keys)) /\ Cardinality(1..Len(keys)) = Len(keys)
      <4>1. \A n \in Nat : IsFiniteSet(1..n) /\ Cardinality(1..n) = n
        BY FS_Interval
      <4> QED BY <2>11, <4>1
    <3> QED BY <3>1, <3>2, FS_Surjection
  <2>13. KeysOf(p.condition) \cap held = ToSet(keys)
    BY <2>8 DEF KeysOf
  <2>14. Enough(p.condition, held)
    <3> HIDE DEF keys
    <3> QED BY <2>9, <2>12, <2>13 DEF Enough, num_sigs
  <2> QED BY <2>1, <2>4, <2>5, <2>14 DEF Entitled
<1> QED BY <1>1, InitClaim, StepClaim, OwnersServed, PTL DEF Spec
=============================================================================
