----------------------------- MODULE MintKeysets -----------------------------
(***************************************************************************)
(* The life of a mint's keysets: the first start makes one, rotation makes *)
(* more, a request loads the one it names, blind_sign asks the store which *)
(* is active, and the process may end between any two of these steps.      *)
(*                                                                         *)
(* The store keeps a row for each keyset and says which is active: redb    *)
(* and the memory store in a table of one id per unit, SQLite in a column  *)
(* of the row.  Both are the set flagged here.  The keys themselves are    *)
(* never stored: Mint keeps them in a map that starts empty.               *)
(*                                                                         *)
(* MintServer takes a rotation for one step and loading for none; this     *)
(* module has every step.                                                  *)
(***************************************************************************)
EXTENDS Naturals, FiniteSets

CONSTANTS
    Keysets,        \* Ids that different derivation paths give.
    UnitOf,         \* The unit each is made for.
    FirstKeyset,    \* The one Mint::new makes.
    NoKeyset,
    Workers,        \* Requests served at the same time.
    MaxCrashes, MaxRotations    \* Bounds on the run.

ASSUME KeysetsAssumption ==
    /\ FirstKeyset \in Keysets
    /\ NoKeyset \notin Keysets
    /\ {MaxCrashes, MaxRotations} \subseteq Nat

VARIABLES
    store,      \* The database the mint was set up with: "redb" or "sqlite".
    rows,       \* Keysets with a row in the store.
    flagged,    \* Keysets the store says are active.
    activated,  \* History: keysets add_active_keyset was called for.
    keys,       \* The map in memory: no keys, those of the keyset's path, or
                \* those generated from the seed's key without the path.
    up,         \* Mint::new has returned and requests are served.
    making,     \* The keyset Mint::new or rotate_keyset is making.
    makeStep,   \* The step of it that is next.
    pc,         \* Where each request stands.
    wanted,     \* The keyset it names.
    signed,     \* The keys each keyset's signatures were made with.
    crashes, rotations      \* Counters for the bounds.

storedVars == <<store, rows, flagged, activated>>
makeVars == <<making, makeStep>>
requestVars == <<pc, wanted>>
boundVars == <<crashes, rotations>>
vars == <<storedVars, keys, up, makeVars, requestVars, signed, boundVars>>

Keys == {"path", "seed"}

TypeOK ==
    /\ store \in {"redb", "sqlite"}
    /\ rows \subseteq Keysets
    /\ flagged \subseteq Keysets
    /\ activated \subseteq Keysets
    /\ keys \in [Keysets -> Keys \cup {"none"}]
    /\ up \in BOOLEAN
    /\ making \in Keysets \cup {NoKeyset}
    /\ makeStep \in {"info", "active", "insert"}
    /\ pc \in [Workers -> {"idle", "load", "active", "sign"}]
    /\ wanted \in [Workers -> Keysets \cup {NoKeyset}]
    /\ signed \subseteq Keysets \X Keys
    /\ crashes \in Nat /\ rotations \in Nat

Init ==
    /\ store \in {"redb", "sqlite"}
    /\ rows = {}
    /\ flagged = {}
    /\ activated = {}
    /\ keys = [k \in Keysets |-> "none"]
    /\ up = FALSE
    /\ making = NoKeyset
    /\ makeStep = "info"
    /\ pc = [w \in Workers |-> "idle"]
    /\ wanted = [w \in Workers |-> NoKeyset]
    /\ signed = {}
    /\ crashes = 0 /\ rotations = 0

-----------------------------------------------------------------------------
(* The store *)

\* Mutant: the row says inactive until add_active_keyset.
AddInactiveKeysetInfo(k) ==
    /\ store = "sqlite" => k \notin rows
    /\ rows' = rows \cup {k}
    /\ UNCHANGED flagged

\* create_new_keyset marks the row active.  SQLite refuses a second row of
\* one id, redb replaces it and does not look at the mark.
AddKeysetInfo(k) ==
    /\ store = "sqlite" => k \notin rows
    /\ rows' = rows \cup {k}
    /\ flagged' = IF store = "sqlite" THEN flagged \cup {k} ELSE flagged

\* redb replaces the unit's id; SQLite sets the mark of this row, if there is
\* one, and leaves the others.
AddActiveKeyset(k) ==
    flagged' = IF store = "redb"
               THEN {j \in flagged : UnitOf[j] # UnitOf[k]} \cup {k}
               ELSE flagged \cup ({k} \cap rows)

-----------------------------------------------------------------------------
(* Mint::new and rotate_keyset *)

\* A store with a keyset needs none, whatever became of the start that made it.
Start ==
    /\ ~up
    /\ making = NoKeyset
    /\ IF rows = {}
       THEN making' = FirstKeyset /\ up' = up
       ELSE up' = TRUE /\ making' = making
    /\ UNCHANGED <<storedVars, keys, makeStep, requestVars, signed, boundVars>>

Rotate(k) ==
    /\ up
    /\ making = NoKeyset
    /\ rotations < MaxRotations
    /\ rotations' = rotations + 1
    /\ making' = k
    /\ UNCHANGED <<storedVars, keys, up, makeStep, requestVars, signed, crashes>>

\* Mutant: the active id is stored where the keyset's row should be.
MakeActiveFirst ==
    /\ making # NoKeyset
    /\ makeStep = "info"
    /\ AddActiveKeyset(making)
    /\ activated' = activated \cup {making}
    /\ makeStep' = "active"
    /\ UNCHANGED <<store, rows, keys, up, making, requestVars, signed, boundVars>>

\* Mutant: a keyset is stored though none is being made.
MakeInfoUnasked ==
    /\ makeStep = "info"
    /\ AddKeysetInfo(making)
    /\ makeStep' = "active"
    /\ UNCHANGED <<store, activated, keys, up, making, requestVars, signed, boundVars>>

MakeInfo ==
    /\ making # NoKeyset
    /\ makeStep = "info"
    /\ AddKeysetInfo(making)
    /\ makeStep' = "active"
    /\ UNCHANGED <<store, activated, keys, up, making, requestVars, signed, boundVars>>

\* SQLite refuses the row, and the rotation ends.
MakeRefused ==
    /\ making \in rows
    /\ makeStep = "info"
    /\ store = "sqlite"
    /\ making' = NoKeyset
    /\ UNCHANGED <<storedVars, keys, up, makeStep, requestVars, signed, boundVars>>

MakeActive ==
    /\ making # NoKeyset
    /\ makeStep = "active"
    /\ AddActiveKeyset(making)
    /\ activated' = activated \cup {making}
    /\ makeStep' = "insert"
    /\ UNCHANGED <<store, rows, keys, up, making, requestVars, signed, boundVars>>

MakeInsert ==
    /\ making # NoKeyset
    /\ makeStep = "insert"
    /\ keys' = [keys EXCEPT ![making] = "path"]
    /\ up' = TRUE
    /\ making' = NoKeyset
    /\ makeStep' = "info"
    /\ UNCHANGED <<storedVars, requestVars, signed, boundVars>>

-----------------------------------------------------------------------------
(* Requests *)

Finish(w) ==
    /\ pc' = [pc EXCEPT ![w] = "idle"]
    /\ wanted' = [wanted EXCEPT ![w] = NoKeyset]

\* ensure_keyset_loaded drops the read lock when the keyset is not in the
\* map, asks the store for its row, and takes the write lock later.
Request(w, k) ==
    /\ up
    /\ pc[w] = "idle"
    /\ keys[k] # "none" \/ k \in rows
    /\ pc' = [pc EXCEPT ![w] = IF keys[k] = "none" THEN "load" ELSE "active"]
    /\ wanted' = [wanted EXCEPT ![w] = k]
    /\ UNCHANGED <<storedVars, keys, up, makeVars, signed, boundVars>>

\* generate_keyset has the row's derivation path and does not use it.  The
\* map is not looked at again.  A request that only wanted to see or to
\* verify with the keys ends here.
Load(w) ==
    /\ pc[w] = "load"
    /\ keys' = [keys EXCEPT ![wanted[w]] = "seed"]
    /\ \/ pc' = [pc EXCEPT ![w] = "active"] /\ UNCHANGED wanted
       \/ Finish(w)
    /\ UNCHANGED <<storedVars, up, makeVars, signed, boundVars>>

\* Mutant: blind_sign does not ask which keyset is active.
CheckActiveSkipped(w) ==
    /\ pc[w] = "active"
    /\ pc' = [pc EXCEPT ![w] = "sign"]
    /\ UNCHANGED <<storedVars, keys, up, makeVars, wanted, signed, boundVars>>

\* get_active_keyset_id gives one of the unit's active ids: SQLite takes
\* whichever row comes first.
CheckActive(w) ==
    /\ pc[w] = "active"
    /\ \/ /\ wanted[w] \in flagged
          /\ pc' = [pc EXCEPT ![w] = "sign"]
          /\ UNCHANGED wanted
       \/ /\ {k \in flagged : UnitOf[k] = UnitOf[wanted[w]]} # {wanted[w]}
          /\ Finish(w)
    /\ UNCHANGED <<storedVars, keys, up, makeVars, signed, boundVars>>

\* With the keys the map holds now.
Sign(w) ==
    /\ pc[w] = "sign"
    /\ signed' = signed \cup {<<wanted[w], keys[wanted[w]]>>}
    /\ Finish(w)
    /\ UNCHANGED <<storedVars, keys, up, makeVars, boundVars>>

-----------------------------------------------------------------------------
\* The process ends, in whatever it was doing; the store stays.
Crash ==
    /\ crashes < MaxCrashes
    /\ crashes' = crashes + 1
    /\ keys' = [k \in Keysets |-> "none"]
    /\ up' = FALSE
    /\ making' = NoKeyset
    /\ makeStep' = "info"
    /\ pc' = [w \in Workers |-> "idle"]
    /\ wanted' = [w \in Workers |-> NoKeyset]
    /\ UNCHANGED <<storedVars, signed, rotations>>

Next ==
    \/ Start \/ MakeInfo \/ MakeRefused \/ MakeActive \/ MakeInsert \/ Crash
    \/ \E k \in Keysets : Rotate(k)
    \/ \E w \in Workers :
        \/ Load(w) \/ CheckActive(w) \/ Sign(w)
        \/ \E k \in Keysets : Request(w, k)

Spec == Init /\ [][Next]_vars

-----------------------------------------------------------------------------
(* Properties *)

\* The active id always names a stored keyset, however the process ended in
\* the middle of making one: blind_sign finds the row of what is active.
ActiveIsStored == flagged \subseteq rows

\* With redb a keyset whose making was cut short before it became active
\* signs nothing, though requests can load it.
SignsWhenActivated == store = "redb" => \A s \in signed : s[1] \in activated

\* A mint that serves has a keyset to sign with.  With redb this takes a
\* start or a rotation that ran to add_active_keyset; with SQLite the row of
\* a start cut short before it is active already.
CanSign ==
    (up /\ (store = "sqlite" \/ \E k \in activated : UnitOf[k] = UnitOf[FirstKeyset]))
        => \E k \in flagged : UnitOf[k] = UnitOf[FirstKeyset]

\* A keyset id is the hash of the keyset's public keys: the keys the map
\* holds under an id are those the id was made of.
KeysetHasItsKeys == \A k \in Keysets : keys[k] # "seed"
=============================================================================
