---------------------------- MODULE KeysetProofs ----------------------------
(***************************************************************************)
(* What a crash between two writes of Mint::new or rotate_keyset cannot    *)
(* break, for any number of keysets, requests and crashes.                 *)
(***************************************************************************)
EXTENDS MintKeysets, TLAPS

USE KeysetsAssumption

\* A request past loading names a keyset that is in the map: the map only
\* loses keysets when the requests go too.
RequestInv ==
    \A w \in Workers :
        /\ pc[w] # "idle" => wanted[w] \in Keysets
        /\ pc[w] \in {"active", "sign"} => keys[wanted[w]] \in Keys

TypeInv == TypeOK /\ RequestInv

\* A mint that starts is well typed.
LEMMA InitType == Init => TypeInv
<1> SUFFICES ASSUME Init PROVE TypeInv
  OBVIOUS
<1>1. keys \in [Keysets -> Keys \cup {"none"}]
  BY DEF Init
<1>2. pc \in [Workers -> {"idle", "load", "active", "sign"}]
  BY DEF Init
<1>3. wanted \in [Workers -> Keysets \cup {NoKeyset}]
  BY DEF Init
<1>4. signed \subseteq Keysets \X Keys
  BY DEF Init
<1>5. RequestInv
  BY DEF Init, RequestInv
<1> QED BY <1>1, <1>2, <1>3, <1>4, <1>5 DEF Init, TypeInv, TypeOK

\* Every step keeps the types.
LEMMA StepType == TypeInv /\ [Next]_vars => TypeInv'
<1> SUFFICES ASSUME TypeInv, [Next]_vars PROVE TypeInv'
  OBVIOUS
<1> USE DEF TypeInv, TypeOK, RequestInv, storedVars, makeVars, requestVars, boundVars
<1>1. CASE Start
  BY <1>1 DEF Start
<1>2. CASE MakeInfo
  BY <1>2 DEF MakeInfo, AddKeysetInfo
<1>3. CASE MakeRefused
  BY <1>3 DEF MakeRefused
<1>4. CASE MakeActive
  BY <1>4 DEF MakeActive, AddActiveKeyset
<1>5. CASE MakeInsert
  BY <1>5 DEF MakeInsert, Keys
<1>6. CASE Crash
  <2>1. keys' \in [Keysets -> Keys \cup {"none"}]
    BY <1>6 DEF Crash
  <2>2. /\ pc' \in [Workers -> {"idle", "load", "active", "sign"}]
        /\ wanted' \in [Workers -> Keysets \cup {NoKeyset}]
    BY <1>6 DEF Crash
  <2>3. RequestInv'
    BY <1>6 DEF Crash
  <2>4. up' \in BOOLEAN /\ making' \in Keysets \cup {NoKeyset} /\ makeStep' = "info"
    BY <1>6 DEF Crash
  <2>5. crashes' \in Nat /\ rotations' \in Nat /\ UNCHANGED <<store, rows, flagged, activated, signed>>
    BY <1>6 DEF Crash
  <2> QED BY <2>1, <2>2, <2>3, <2>4, <2>5
<1>7. ASSUME NEW k \in Keysets, Rotate(k) PROVE TypeInv'
  BY <1>7 DEF Rotate
<1>8. ASSUME NEW w \in Workers, Load(w) PROVE TypeInv'
  BY <1>8 DEF Load, Finish, Keys
<1>9. ASSUME NEW w \in Workers, CheckActive(w) PROVE TypeInv'
  BY <1>9 DEF CheckActive, Finish
<1>10. ASSUME NEW w \in Workers, Sign(w) PROVE TypeInv'
  <2>1. <<wanted[w], keys[wanted[w]]>> \in Keysets \X Keys
    BY <1>10 DEF Sign
  <2> QED BY <1>10, <2>1 DEF Sign, Finish
<1>11. ASSUME NEW w \in Workers, NEW k \in Keysets, Request(w, k) PROVE TypeInv'
  BY <1>11 DEF Request
<1>12. CASE UNCHANGED vars
  BY <1>12 DEF vars
<1> QED
  BY <1>1, <1>2, <1>3, <1>4, <1>5, <1>6, <1>7, <1>8, <1>9, <1>10, <1>11, <1>12 DEF Next

-----------------------------------------------------------------------------
\* A keyset is made active only when its row is there.  With redb the active
\* table holds what add_active_keyset was called for, and a request that is
\* about to sign has found its keyset there.
ActiveInv ==
    /\ making = NoKeyset => makeStep = "info"
    /\ (making # NoKeyset /\ makeStep \in {"active", "insert"}) => making \in rows
    /\ ActiveIsStored
    /\ store = "redb" =>
        /\ flagged \subseteq activated
        /\ \A w \in Workers : pc[w] = "sign" => wanted[w] \in activated
    /\ SignsWhenActivated

\* With no keyset there is nothing to be active.
LEMMA InitActive == Init => ActiveInv
BY DEF Init, ActiveInv, ActiveIsStored, SignsWhenActivated

\* Every step keeps the active keysets in order.
LEMMA StepActive == TypeInv /\ ActiveInv /\ [Next]_vars => ActiveInv'
<1> SUFFICES ASSUME TypeInv, ActiveInv, [Next]_vars PROVE ActiveInv'
  OBVIOUS
<1> USE DEF TypeInv, TypeOK, ActiveInv, ActiveIsStored, SignsWhenActivated,
            storedVars, makeVars, requestVars, boundVars
<1>1. CASE Start
  BY <1>1 DEF Start
<1>2. CASE MakeInfo
  BY <1>2 DEF MakeInfo, AddKeysetInfo
<1>3. CASE MakeRefused
  BY <1>3 DEF MakeRefused
<1>4. CASE MakeActive
  <2>1. /\ ActiveIsStored'
        /\ making # NoKeyset
        /\ UNCHANGED <<store, making, rows>>
    BY <1>4 DEF MakeActive, AddActiveKeyset
  <2>2. making \in rows
    BY <1>4 DEF MakeActive
  <2>3. ASSUME store = "redb"
        PROVE  /\ (flagged \subseteq activated)'
               /\ activated \subseteq activated'
               /\ UNCHANGED <<pc, wanted, signed>>
    BY <1>4, <2>3 DEF MakeActive, AddActiveKeyset
  <2> QED BY <2>1, <2>2, <2>3
<1>5. CASE MakeInsert
  BY <1>5 DEF MakeInsert
<1>6. CASE Crash
  BY <1>6 DEF Crash
<1>7. ASSUME NEW k \in Keysets, Rotate(k) PROVE ActiveInv'
  BY <1>7 DEF Rotate
<1>8. ASSUME NEW w \in Workers, Load(w) PROVE ActiveInv'
  BY <1>8 DEF Load, Finish
<1>9. ASSUME NEW w \in Workers, CheckActive(w) PROVE ActiveInv'
  BY <1>9 DEF CheckActive, Finish
<1>10. ASSUME NEW w \in Workers, Sign(w) PROVE ActiveInv'
  <2>1. /\ UNCHANGED <<store, rows, flagged, activated, making, makeStep>>
        /\ \A v \in Workers : pc'[v] = "sign" => pc[v] = "sign" /\ wanted'[v] = wanted[v]
    BY <1>10 DEF Sign, Finish
  <2>2. ASSUME store = "redb" PROVE SignsWhenActivated'
    <3>1. wanted[w] \in activated
      BY <1>10, <2>2 DEF Sign
    <3>2. \A s \in signed' : s \in signed \/ s[1] = wanted[w]
      BY <1>10 DEF Sign
    <3> QED BY <2>1, <2>2, <3>1, <3>2
  <2> QED BY <2>1, <2>2
<1>11. ASSUME NEW w \in Workers, NEW k \in Keysets, Request(w, k) PROVE ActiveInv'
  BY <1>11 DEF Request
<1>12. CASE UNCHANGED vars
  BY <1>12 DEF vars
<1> QED
  BY <1>1, <1>2, <1>3, <1>4, <1>5, <1>6, <1>7, <1>8, <1>9, <1>10, <1>11, <1>12 DEF Next

\* Types and active keysets are in order throughout.
LEMMA Invariance == Spec => [](TypeInv /\ ActiveInv)
BY InitType, StepType, InitActive, StepActive, PTL DEF Spec

\* Whatever is active has a row: blind_sign never finds an active id it does
\* not know, whatever the store and wherever the process ended.
THEOREM ActiveStored == Spec => []ActiveIsStored
<1>1. ActiveInv => ActiveIsStored
  BY DEF ActiveInv
<1> QED BY <1>1, Invariance, PTL

\* With redb a keyset whose making was cut short before add_active_keyset
\* signs nothing, though requests can name it and its keys get loaded.
THEOREM ActivatedSign == Spec => []SignsWhenActivated
<1>1. ActiveInv => SignsWhenActivated
  BY DEF ActiveInv
<1> QED BY <1>1, Invariance, PTL

-----------------------------------------------------------------------------
\* The keyset of the first start is the first to have a row, and no row is
\* ever deleted.  SQLite's rows are active from the start and stay so; redb's
\* active table has an id for each unit a keyset was activated for.
SignInv ==
    /\ up => rows # {}
    /\ rows # {} => FirstKeyset \in rows
    /\ (~up /\ making # NoKeyset) => making = FirstKeyset
    /\ store = "sqlite" => rows \subseteq flagged
    /\ store = "redb" =>
        \A k \in activated : \E j \in flagged : UnitOf[j] = UnitOf[k]

\* With no keyset there is nothing to sign with.
LEMMA InitSign == Init => SignInv
BY DEF Init, SignInv

\* Every step keeps a keyset to sign with.
LEMMA StepSign == TypeInv /\ ActiveInv /\ SignInv /\ [Next]_vars => SignInv'
<1> SUFFICES ASSUME TypeInv, ActiveInv, SignInv, [Next]_vars PROVE SignInv'
  OBVIOUS
<1> USE DEF TypeInv, TypeOK, SignInv, storedVars, makeVars, requestVars, boundVars
<1>1. CASE Start
  BY <1>1 DEF Start
<1>2. CASE MakeInfo
  BY <1>2 DEF MakeInfo, AddKeysetInfo
<1>3. CASE MakeRefused
  BY <1>3 DEF MakeRefused
<1>4. CASE MakeActive
  <2>1. making \in Keysets
    BY <1>4 DEF MakeActive
  <2>2. CASE store = "redb"
    <3>1. /\ flagged' = {j \in flagged : UnitOf[j] # UnitOf[making]} \cup {making}
          /\ activated' = activated \cup {making}
          /\ UNCHANGED <<store, rows, up, making>>
      BY <1>4, <2>2 DEF MakeActive, AddActiveKeyset
    <3>2. ASSUME NEW k \in activated'
          PROVE  \E j \in flagged' : UnitOf[j] = UnitOf[k]
      <4>1. CASE UnitOf[k] = UnitOf[making]
        BY <3>1, <4>1
      <4>2. CASE UnitOf[k] # UnitOf[making]
        <5>1. PICK j \in flagged : UnitOf[j] = UnitOf[k]
          BY <2>2, <3>1, <4>2
        <5> QED BY <3>1, <4>2, <5>1
      <4> QED BY <4>1, <4>2
    <3> QED BY <2>2, <3>1, <3>2
  <2>3. CASE store = "sqlite"
    BY <1>4, <2>3 DEF MakeActive, AddActiveKeyset
  <2> QED BY <2>2, <2>3
<1>5. CASE MakeInsert
  BY <1>5 DEF MakeInsert, ActiveInv
<1>6. CASE Crash
  BY <1>6 DEF Crash
<1>7. ASSUME NEW k \in Keysets, Rotate(k) PROVE SignInv'
  BY <1>7 DEF Rotate
<1>8. ASSUME NEW w \in Workers, Load(w) PROVE SignInv'
  BY <1>8 DEF Load
<1>9. ASSUME NEW w \in Workers, CheckActive(w) PROVE SignInv'
  BY <1>9 DEF CheckActive
<1>10. ASSUME NEW w \in Workers, Sign(w) PROVE SignInv'
  BY <1>10 DEF Sign
<1>11. ASSUME NEW w \in Workers, NEW k \in Keysets, Request(w, k) PROVE SignInv'
  BY <1>11 DEF Request
<1>12. CASE UNCHANGED vars
  BY <1>12 DEF vars
<1> QED
  BY <1>1, <1>2, <1>3, <1>4, <1>5, <1>6, <1>7, <1>8, <1>9, <1>10, <1>11, <1>12 DEF Next

\* The types of the keyset module's state.
THEOREM KeysetTypes == Spec => []TypeOK
<1>1. TypeInv => TypeOK
  BY DEF TypeInv
<1> QED BY <1>1, Invariance, PTL

\* A mint that serves has an active keyset of its unit, however often its
\* process ended while making one: with SQLite always, with redb once a
\* keyset of the unit was activated.
THEOREM AlwaysCanSign == Spec => []CanSign
<1>1. TypeInv /\ SignInv => CanSign
  <2> SUFFICES ASSUME TypeInv, SignInv,
                      up, store = "sqlite" \/ \E k \in activated : UnitOf[k] = UnitOf[FirstKeyset]
               PROVE  \E k \in flagged : UnitOf[k] = UnitOf[FirstKeyset]
    BY DEF CanSign
  <2>1. CASE store = "sqlite"
    BY <2>1 DEF SignInv
  <2>2. CASE store = "redb"
    BY <2>2 DEF SignInv
  <2> QED BY <2>1, <2>2 DEF TypeInv, TypeOK
<1> QED BY <1>1, InitSign, StepSign, Invariance, InitType, InitActive, PTL DEF Spec
=============================================================================
