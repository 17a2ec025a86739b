---------------------------- MODULE WalletLemmas ----------------------------
(***************************************************************************)
(* What each operation of the wallet does to its store and to the coins it *)
(* holds, whatever store it was built with, and the types of its state.    *)
(***************************************************************************)
EXTENDS Wallet, Lemmas

\* Option::None is no list of rows either, which TLC does not evaluate.
NoneIsNoList == \A rows \in SUBSET ProofRows : rows # None

-----------------------------------------------------------------------------
(* Tables *)

\* Of some positions in a list one is the last.
LEMMA LastPosition ==
    ASSUME NEW n \in Nat, NEW T, T \subseteq 1..n, T # {}
    PROVE  \E i \in T : \A j \in T : j <= i
<1> SUFFICES ASSUME \A i \in T : \E j \in T : ~(j <= i) PROVE FALSE
  OBVIOUS
<1> DEFINE Q == {i \in 0..n : \A j \in T : j <= n - i}
<1>1. 0 \in Q
  OBVIOUS
<1>2. ASSUME NEW i \in 1..n, i - 1 \in Q PROVE i \in Q
  <2>1. \A j \in T : j \in Int /\ j <= (n - i) + 1
    BY <1>2
  <2>2. (n - i) + 1 \notin T
    BY <2>1
  <2> QED BY <2>1, <2>2
<1>3. \A i \in 0..n : i \in Q
  <2> HIDE DEF Q
  <2> QED BY <1>1, <1>2, Induction
<1>4. n \in Q
  BY <1>3
<1>5. \A j \in T : j <= 0
  BY <1>4
<1> HIDE DEF Q
<1>6. PICK j \in T : j \in 1..n
  OBVIOUS
<1> QED BY <1>5, <1>6

\* Proofs written to a table.
Upserted(t, rows) == UpsertAll(t, rows, YOf)

\* What a list of rows leaves in a table: each of its rows stands under its
\* key, and the keys of the list are added.
Left(u, t, rows) ==
    /\ DOMAIN u = DOMAIN t \cup {r.y : r \in ToSet(rows)}
    /\ \A k \in DOMAIN u :
         \/ k \in DOMAIN t /\ u[k] = t[k] /\ k \notin {r.y : r \in ToSet(rows)}
         \/ \E r \in ToSet(rows) : r.y = k /\ u[k] = r

\* Upserting a list of rows leaves the last row of each key, and the rest.
LEMMA RowsUpserted ==
    ASSUME NEW t, NEW rows, \E n \in Nat : DOMAIN rows = 1..n
    PROVE  Left(Upserted(t, rows), t, rows)
<1> PICK n \in Nat : DOMAIN rows = 1..n
  OBVIOUS
<1> DEFINE u == Upserted(t, rows)
           At(k) == {i \in DOMAIN rows : rows[i].y = k}
           LastAt(k) == CHOOSE i \in At(k) : \A j \in At(k) : j <= i
<1>1. u = [k \in DOMAIN t \cup {rows[i].y : i \in DOMAIN rows} |->
             IF At(k) = {} THEN t[k] ELSE rows[LastAt(k)]]
  BY DEF Upserted, UpsertAll, YOf
<1>2. ASSUME NEW k, At(k) # {} PROVE LastAt(k) \in At(k)
  <2>1. At(k) \subseteq 1..n
    OBVIOUS
  <2> HIDE DEF At
  <2>2. \E i \in At(k) : \A j \in At(k) : j <= i
    BY <1>2, <2>1, LastPosition
  <2> QED BY <2>2
<1>3. {r.y : r \in ToSet(rows)} = {rows[i].y : i \in DOMAIN rows}
  BY DEF ToSet
<1>4. \A k : (At(k) = {} <=> k \notin {rows[i].y : i \in DOMAIN rows})
  OBVIOUS
<1>5. \A k : At(k) # {} => LastAt(k) \in DOMAIN rows /\ rows[LastAt(k)].y = k
                            /\ rows[LastAt(k)] \in ToSet(rows)
  BY <1>2 DEF ToSet
<1> HIDE DEF At, LastAt, u
<1>6. \A k \in DOMAIN u : k \notin {rows[i].y : i \in DOMAIN rows} => k \in DOMAIN t /\ u[k] = t[k]
  BY <1>1, <1>4
<1>7. \A k \in DOMAIN u : k \in {rows[i].y : i \in DOMAIN rows} => \E r \in ToSet(rows) : r.y = k /\ u[k] = r
  BY <1>1, <1>4, <1>5
<1>8. DOMAIN u = DOMAIN t \cup {rows[i].y : i \in DOMAIN rows}
  BY <1>1
<1> QED BY <1>3, <1>6, <1>7, <1>8 DEF u, Left

\* The same of keysets, whose rows bear their id.
LEMMA KeysetsUpserted ==
    ASSUME NEW t, NEW n \in Nat, NEW rows, DOMAIN rows = 1..n
    PROVE  /\ DOMAIN UpsertAll(t, rows, IdOf) = DOMAIN t \cup {r.id : r \in ToSet(rows)}
           /\ \A k \in DOMAIN UpsertAll(t, rows, IdOf) :
                \/ k \in DOMAIN t /\ UpsertAll(t, rows, IdOf)[k] = t[k]
                \/ \E r \in ToSet(rows) : r.id = k /\ UpsertAll(t, rows, IdOf)[k] = r
<1> DEFINE u == UpsertAll(t, rows, IdOf)
           At(k) == {i \in DOMAIN rows : rows[i].id = k}
           LastAt(k) == CHOOSE i \in At(k) : \A j \in At(k) : j <= i
<1>1. u = [k \in DOMAIN t \cup {rows[i].id : i \in DOMAIN rows} |->
             IF At(k) = {} THEN t[k] ELSE rows[LastAt(k)]]
  BY DEF UpsertAll, IdOf
<1>2. ASSUME NEW k, At(k) # {} PROVE LastAt(k) \in At(k)
  <2>1. At(k) \subseteq 1..n
    OBVIOUS
  <2> HIDE DEF At
  <2>2. \E i \in At(k) : \A j \in At(k) : j <= i
    BY <1>2, <2>1, LastPosition
  <2> QED BY <2>2
<1>3. {r.id : r \in ToSet(rows)} = {rows[i].id : i \in DOMAIN rows}
  BY DEF ToSet
<1>4. \A k : (At(k) = {} <=> k \notin {rows[i].id : i \in DOMAIN rows})
  OBVIOUS
<1>5. \A k : At(k) # {} => LastAt(k) \in DOMAIN rows /\ rows[LastAt(k)].id = k
                            /\ rows[LastAt(k)] \in ToSet(rows)
  BY <1>2 DEF ToSet
<1> HIDE DEF At, LastAt, u
<1>6. \A k \in DOMAIN u : k \notin {rows[i].id : i \in DOMAIN rows} => k \in DOMAIN t /\ u[k] = t[k]
  BY <1>1, <1>4
<1>7. \A k \in DOMAIN u : k \in {rows[i].id : i \in DOMAIN rows} => \E r \in ToSet(rows) : r.id = k /\ u[k] = r
  BY <1>1, <1>4, <1>5
<1>8. DOMAIN u = DOMAIN t \cup {rows[i].id : i \in DOMAIN rows}
  BY <1>1
<1> QED BY <1>3, <1>6, <1>7, <1>8 DEF u

\* A finite set in some order is a list of its elements.
LEMMA InSomeOrder ==
    ASSUME NEW S, IsFiniteSet(S)
    PROVE  SetToSeq(S) \in Seq(S) /\ ToSet(SetToSeq(S)) = S /\ Len(SetToSeq(S)) = Cardinality(S)
<1> DEFINE n == Cardinality(S)
           f == SetToSeq(S)
           T == {f[i] : i \in 1..n}
<1>1. n \in Nat /\ \E g : g \in Bijection(1..n, S)
  BY FS_CardinalityType DEF ExistsBijection
<1>2. f \in [1..n -> S] /\ IsInjective(f)
  <2>1. \E g \in [1..n -> S] : IsInjective(g)
    BY <1>1 DEF Bijection, Injection, IsInjective
  <2> QED BY <2>1 DEF SetToSeq
<1>3. IsFiniteSet(1..n) /\ Cardinality(1..n) = n
  BY <1>1, FS_Interval
<1> HIDE DEF f, n
<1>4. f \in Bijection(1..n, T)
  BY <1>2 DEF Bijection, Injection, Surjection, IsInjective
<1>5. IsFiniteSet(T) /\ Cardinality(T) = n
  BY <1>3, <1>4, FS_Bijection DEF ExistsBijection
<1>6. T \subseteq S
  BY <1>2
<1> HIDE DEF T
<1>7. T = S
  BY <1>5, <1>6, FS_Subset DEF n
<1>8. f \in Seq(S) /\ Len(f) = n /\ DOMAIN f = 1..n
  BY <1>1, <1>2
<1>9. ToSet(f) = T
  BY <1>8 DEF ToSet, T
<1> QED BY <1>7, <1>8, <1>9 DEF f, n

-----------------------------------------------------------------------------
(* Each store has the operators of Tables as its own; they are the same. *)

\* Those of the store in redb.
LEMMA RedbSame ==
    /\ Redb!NoRows = NoRows /\ \A t, k : Redb!Lookup(t, k) = Lookup(t, k)
    /\ \A t, k, row : Redb!Upsert(t, k, row) = Upsert(t, k, row)
    /\ \A t, ks : Redb!Without(t, ks) = Without(t, ks)
    /\ \A t : Redb!Rows(t) = Rows(t)
    /\ \A d : Redb!Ok(d) = Ok(d) /\ Redb!Error(d) = Error(d)
    /\ \A rows : Redb!NoneIfEmpty(rows) = NoneIfEmpty(rows)
    /\ \A list : Redb!ToSet(list) = ToSet(list)
    /\ \A t, rows : Redb!UpsertAll(t, rows, Redb!YOf) = UpsertAll(t, rows, YOf)
    /\ \A t, rows : Redb!UpsertAll(t, rows, Redb!IdOf) = UpsertAll(t, rows, IdOf)
<1>1. /\ Redb!NoRows = NoRows /\ \A t, k : Redb!Lookup(t, k) = Lookup(t, k)
      /\ \A t, k, row : Redb!Upsert(t, k, row) = Upsert(t, k, row)
      /\ \A t, ks : Redb!Without(t, ks) = Without(t, ks)
  BY DEF Redb!NoRows, NoRows, Redb!Lookup, Lookup, Redb!Upsert, Upsert, Redb!Without, Without,
     Redb!Restrict, Restrict
<1>2. /\ \A t : Redb!Rows(t) = Rows(t)
      /\ \A d : Redb!Ok(d) = Ok(d) /\ Redb!Error(d) = Error(d)
      /\ \A rows : Redb!NoneIfEmpty(rows) = NoneIfEmpty(rows)
      /\ \A list : Redb!ToSet(list) = ToSet(list)
  BY DEF Redb!ToSet, ToSet, Redb!Rows, Rows, Redb!Ok, Ok, Redb!Error, Error, Redb!NoneIfEmpty, NoneIfEmpty
<1>3. /\ \A t, rows : Redb!UpsertAll(t, rows, Redb!YOf) = UpsertAll(t, rows, YOf)
      /\ \A t, rows : Redb!UpsertAll(t, rows, Redb!IdOf) = UpsertAll(t, rows, IdOf)
  BY DEF UpsertAll, YOf, IdOf, Redb!UpsertAll, Redb!YOf, Redb!IdOf
<1> QED BY <1>1, <1>2, <1>3

\* Those of the store in SQLite.
LEMMA SqliteSame ==
    /\ Sqlite!NoRows = NoRows /\ \A t, k : Sqlite!Lookup(t, k) = Lookup(t, k)
    /\ \A t, k, row : Sqlite!Upsert(t, k, row) = Upsert(t, k, row)
    /\ \A t, ks : Sqlite!Without(t, ks) = Without(t, ks)
    /\ \A t : Sqlite!Rows(t) = Rows(t)
    /\ \A d : Sqlite!Ok(d) = Ok(d) /\ Sqlite!Error(d) = Error(d)
    /\ \A rows : Sqlite!NoneIfEmpty(rows) = NoneIfEmpty(rows)
    /\ \A list : Sqlite!ToSet(list) = ToSet(list)
    /\ \A t, rows : Sqlite!UpsertAll(t, rows, Sqlite!YOf) = UpsertAll(t, rows, YOf)
    /\ \A t, rows : Sqlite!UpsertAll(t, rows, Sqlite!IdOf) = UpsertAll(t, rows, IdOf)
<1>1. /\ Sqlite!NoRows = NoRows /\ \A t, k : Sqlite!Lookup(t, k) = Lookup(t, k)
      /\ \A t, k, row : Sqlite!Upsert(t, k, row) = Upsert(t, k, row)
      /\ \A t, ks : Sqlite!Without(t, ks) = Without(t, ks)
  BY DEF Sqlite!NoRows, NoRows, Sqlite!Lookup, Lookup, Sqlite!Upsert, Upsert, Sqlite!Without, Without,
     Sqlite!Restrict, Restrict
<1>2. /\ \A t : Sqlite!Rows(t) = Rows(t)
      /\ \A d : Sqlite!Ok(d) = Ok(d) /\ Sqlite!Error(d) = Error(d)
      /\ \A rows : Sqlite!NoneIfEmpty(rows) = NoneIfEmpty(rows)
      /\ \A list : Sqlite!ToSet(list) = ToSet(list)
  BY DEF Sqlite!ToSet, ToSet, Sqlite!Rows, Rows, Sqlite!Ok, Ok, Sqlite!Error, Error, Sqlite!NoneIfEmpty, NoneIfEmpty
<1>3. /\ \A t, rows : Sqlite!UpsertAll(t, rows, Sqlite!YOf) = UpsertAll(t, rows, YOf)
      /\ \A t, rows : Sqlite!UpsertAll(t, rows, Sqlite!IdOf) = UpsertAll(t, rows, IdOf)
  BY DEF UpsertAll, YOf, IdOf, Sqlite!UpsertAll, Sqlite!YOf, Sqlite!IdOf
<1> QED BY <1>1, <1>2, <1>3

\* Those of the store in IndexedDB.
LEMMA RexieSame ==
    /\ Rexie!NoRows = NoRows /\ \A t, k : Rexie!Lookup(t, k) = Lookup(t, k)
    /\ \A t, k, row : Rexie!Upsert(t, k, row) = Upsert(t, k, row)
    /\ \A t, ks : Rexie!Without(t, ks) = Without(t, ks)
    /\ \A t : Rexie!Rows(t) = Rows(t)
    /\ \A d : Rexie!Ok(d) = Ok(d) /\ Rexie!Error(d) = Error(d)
    /\ \A rows : Rexie!NoneIfEmpty(rows) = NoneIfEmpty(rows)
    /\ \A list : Rexie!ToSet(list) = ToSet(list)
    /\ \A t, rows : Rexie!UpsertAll(t, rows, Rexie!YOf) = UpsertAll(t, rows, YOf)
    /\ \A t, rows : Rexie!UpsertAll(t, rows, Rexie!IdOf) = UpsertAll(t, rows, IdOf)
<1>1. /\ Rexie!NoRows = NoRows /\ \A t, k : Rexie!Lookup(t, k) = Lookup(t, k)
      /\ \A t, k, row : Rexie!Upsert(t, k, row) = Upsert(t, k, row)
      /\ \A t, ks : Rexie!Without(t, ks) = Without(t, ks)
  BY DEF Rexie!NoRows, NoRows, Rexie!Lookup, Lookup, Rexie!Upsert, Upsert, Rexie!Without, Without,
     Rexie!Restrict, Restrict
<1>2. /\ \A t : Rexie!Rows(t) = Rows(t)
      /\ \A d : Rexie!Ok(d) = Ok(d) /\ Rexie!Error(d) = Error(d)
      /\ \A rows : Rexie!NoneIfEmpty(rows) = NoneIfEmpty(rows)
      /\ \A list : Rexie!ToSet(list) = ToSet(list)
  BY DEF Rexie!ToSet, ToSet, Rexie!Rows, Rows, Rexie!Ok, Ok, Rexie!Error, Error, Rexie!NoneIfEmpty, NoneIfEmpty
<1>3. /\ \A t, rows : Rexie!UpsertAll(t, rows, Rexie!YOf) = UpsertAll(t, rows, YOf)
      /\ \A t, rows : Rexie!UpsertAll(t, rows, Rexie!IdOf) = UpsertAll(t, rows, IdOf)
  BY DEF UpsertAll, YOf, IdOf, Rexie!UpsertAll, Rexie!YOf, Rexie!IdOf
<1> QED BY <1>1, <1>2, <1>3

\* Those of the store in memory.
LEMMA MemorySame ==
    /\ Memory!NoRows = NoRows /\ \A t, k : Memory!Lookup(t, k) = Lookup(t, k)
    /\ \A t, k, row : Memory!Upsert(t, k, row) = Upsert(t, k, row)
    /\ \A t, ks : Memory!Without(t, ks) = Without(t, ks)
    /\ \A t : Memory!Rows(t) = Rows(t)
    /\ \A d : Memory!Ok(d) = Ok(d) /\ Memory!Error(d) = Error(d)
    /\ \A rows : Memory!NoneIfEmpty(rows) = NoneIfEmpty(rows)
    /\ \A list : Memory!ToSet(list) = ToSet(list)
    /\ \A t, rows : Memory!UpsertAll(t, rows, Memory!YOf) = UpsertAll(t, rows, YOf)
    /\ \A t, rows : Memory!UpsertAll(t, rows, Memory!IdOf) = UpsertAll(t, rows, IdOf)
<1>1. /\ Memory!NoRows = NoRows /\ \A t, k : Memory!Lookup(t, k) = Lookup(t, k)
      /\ \A t, k, row : Memory!Upsert(t, k, row) = Upsert(t, k, row)
      /\ \A t, ks : Memory!Without(t, ks) = Without(t, ks)
  BY DEF Memory!NoRows, NoRows, Memory!Lookup, Lookup, Memory!Upsert, Upsert, Memory!Without, Without,
     Memory!Restrict, Restrict
<1>2. /\ \A t : Memory!Rows(t) = Rows(t)
      /\ \A d : Memory!Ok(d) = Ok(d) /\ Memory!Error(d) = Error(d)
      /\ \A rows : Memory!NoneIfEmpty(rows) = NoneIfEmpty(rows)
      /\ \A list : Memory!ToSet(list) = ToSet(list)
  BY DEF Memory!ToSet, ToSet, Memory!Rows, Rows, Memory!Ok, Ok, Memory!Error, Error, Memory!NoneIfEmpty, NoneIfEmpty
<1>3. /\ \A t, rows : Memory!UpsertAll(t, rows, Memory!YOf) = UpsertAll(t, rows, YOf)
      /\ \A t, rows : Memory!UpsertAll(t, rows, Memory!IdOf) = UpsertAll(t, rows, IdOf)
  BY DEF UpsertAll, YOf, IdOf, Memory!UpsertAll, Memory!YOf, Memory!IdOf
<1> QED BY <1>1, <1>2, <1>3

-----------------------------------------------------------------------------
(* What the stores have in common *)

Coins(st, d) == IF st = "sqlite" THEN d.proof ELSE d.proofs
Quotes(st, d) == IF st = "sqlite" THEN d.mint_quote ELSE d.mint_quotes
Melts(st, d) == IF st = "sqlite" THEN d.melt_quote ELSE d.melt_quotes
\* Where the keysets of the mint and their counters are kept.
Registry(st, d) ==
    IF st = "sqlite" THEN d.keyset
    ELSE [ids |-> d.mint_keysets, keysets |-> d.keysets, counters |-> d.keyset_counter]

\* The tables the wallet's operations read.
View(st, d) == [coins |-> Coins(st, d), quotes |-> Quotes(st, d), melts |-> Melts(st, d),
                registry |-> Registry(st, d)]

\* A store has all its tables.
Shaped(st, d) ==
    /\ st = "sqlite" => {"mint", "keyset", "mint_quote", "melt_quote", "proof"} \subseteq DOMAIN d
    /\ st # "sqlite" => {"mints", "mint_keysets", "keysets", "mint_quotes", "melt_quotes",
                         "proofs", "keyset_counter"} \subseteq DOMAIN d

\* What each method that writes does to the tables: a mint quote under its id,
LEMMA QuoteWritten ==
    ASSUME NEW st \in WalletStores, NEW d, Shaped(st, d), NEW row
    PROVE  LET r == AddMintQuote(st, d, row)
           IN  /\ r.ok /\ Shaped(st, r.db)
               /\ View(st, r.db) = [View(st, d) EXCEPT !.quotes = Upsert(@, row.id, row)]
<1> USE DEF AddMintQuote, Of, View, Coins, Quotes, Melts, Registry, Shaped, Ok
<1>1. CASE st = "redb"
  BY <1>1, RedbSame DEF Redb!AddMintQuote
<1>2. CASE st = "sqlite"
  BY <1>2, SqliteSame DEF Sqlite!AddMintQuote
<1>3. CASE st = "rexie"
  BY <1>3, RexieSame DEF Rexie!AddMintQuote
<1>4. CASE st = "memory"
  BY <1>4, MemorySame DEF Memory!AddMintQuote
<1> QED BY <1>1, <1>2, <1>3, <1>4 DEF WalletStores

\* ... no mint quote under an id,
LEMMA QuoteRemoved ==
    ASSUME NEW st \in WalletStores, NEW d, Shaped(st, d), NEW id, NEW ks, ks = {id}
    PROVE  LET r == RemoveMintQuote(st, d, id)
           IN  /\ r.ok /\ Shaped(st, r.db)
               /\ View(st, r.db) = [View(st, d) EXCEPT !.quotes = Without(@, ks)]
<1> USE DEF RemoveMintQuote, Of, View, Coins, Quotes, Melts, Registry, Shaped, Ok
<1>1. CASE st = "redb"
  BY <1>1, RedbSame DEF Redb!RemoveMintQuote
<1>2. CASE st = "sqlite"
  BY <1>2, SqliteSame DEF Sqlite!RemoveMintQuote
<1>3. CASE st = "rexie"
  BY <1>3, RexieSame DEF Rexie!RemoveMintQuote
<1>4. CASE st = "memory"
  BY <1>4, MemorySame DEF Memory!RemoveMintQuote
<1> QED BY <1>1, <1>2, <1>3, <1>4 DEF WalletStores

\* ... a melt quote under its id,
LEMMA MeltWritten ==
    ASSUME NEW st \in WalletStores, NEW d, Shaped(st, d), NEW row
    PROVE  LET r == AddMeltQuote(st, d, row)
           IN  /\ r.ok /\ Shaped(st, r.db)
               /\ View(st, r.db) = [View(st, d) EXCEPT !.melts = Upsert(@, row.id, row)]
<1> USE DEF AddMeltQuote, Of, View, Coins, Quotes, Melts, Registry, Shaped, Ok
<1>1. CASE st = "redb"
  BY <1>1, RedbSame DEF Redb!AddMeltQuote
<1>2. CASE st = "sqlite"
  BY <1>2, SqliteSame DEF Sqlite!AddMeltQuote
<1>3. CASE st = "rexie"
  BY <1>3, RexieSame DEF Rexie!AddMeltQuote
<1>4. CASE st = "memory"
  BY <1>4, MemorySame DEF Memory!AddMeltQuote
<1> QED BY <1>1, <1>2, <1>3, <1>4 DEF WalletStores

\* ... no melt quote under an id,
LEMMA MeltRemoved ==
    ASSUME NEW st \in WalletStores, NEW d, Shaped(st, d), NEW id, NEW ks, ks = {id}
    PROVE  LET r == RemoveMeltQuote(st, d, id)
           IN  /\ r.ok /\ Shaped(st, r.db)
               /\ View(st, r.db) = [View(st, d) EXCEPT !.melts = Without(@, ks)]
<1> USE DEF RemoveMeltQuote, Of, View, Coins, Quotes, Melts, Registry, Shaped, Ok
<1>1. CASE st = "redb"
  BY <1>1, RedbSame DEF Redb!RemoveMeltQuote
<1>2. CASE st = "sqlite"
  BY <1>2, SqliteSame DEF Sqlite!RemoveMeltQuote
<1>3. CASE st = "rexie"
  BY <1>3, RexieSame DEF Rexie!RemoveMeltQuote
<1>4. CASE st = "memory"
  BY <1>4, MemorySame DEF Memory!RemoveMeltQuote
<1> QED BY <1>1, <1>2, <1>3, <1>4 DEF WalletStores

\* ... proofs under their Y,
LEMMA ProofsWritten ==
    ASSUME NEW st \in WalletStores, NEW d, Shaped(st, d), NEW rows
    PROVE  LET r == AddProofs(st, d, rows)
           IN  /\ r.ok /\ Shaped(st, r.db)
               /\ View(st, r.db) = [View(st, d) EXCEPT !.coins = Upserted(@, rows)]
<1> USE DEF Upserted, AddProofs, Of, View, Coins, Quotes, Melts, Registry, Shaped, Ok
<1>1. CASE st = "redb"
  BY <1>1, RedbSame DEF Redb!AddProofs
<1>2. CASE st = "sqlite"
  BY <1>2, SqliteSame DEF Sqlite!AddProofs
<1>3. CASE st = "rexie"
  BY <1>3, RexieSame DEF Rexie!AddProofs
<1>4. CASE st = "memory"
  BY <1>4, MemorySame DEF Memory!AddProofs
<1> QED BY <1>1, <1>2, <1>3, <1>4 DEF WalletStores

\* ... no proofs with these secrets,
LEMMA ProofsRemoved ==
    ASSUME NEW st \in WalletStores, NEW d, Shaped(st, d), NEW proofs
    PROVE  LET r == RemoveProofs(st, d, proofs)
           IN  /\ r.ok /\ Shaped(st, r.db)
               /\ View(st, r.db) =
                      [View(st, d) EXCEPT !.coins = Without(@, Secrets(ToSet(proofs)))]
<1> DEFINE gone == Secrets(ToSet(proofs))
<1>1. /\ gone = {p.secret : p \in Redb!ToSet(proofs)}
      /\ gone = {p.secret : p \in Sqlite!ToSet(proofs)}
      /\ gone = {p.secret : p \in Rexie!ToSet(proofs)}
      /\ gone = {p.secret : p \in Memory!ToSet(proofs)}
  BY DEF Secrets, ToSet, Redb!ToSet, Sqlite!ToSet, Rexie!ToSet, Memory!ToSet
<1>2. /\ Redb!RemoveProofs(d, proofs) = Redb!Ok([d EXCEPT !.proofs = Redb!Without(@, gone)])
      /\ Sqlite!RemoveProofs(d, proofs) = Sqlite!Ok([d EXCEPT !.proof = Sqlite!Without(@, gone)])
      /\ Rexie!RemoveProofs(d, proofs) = Rexie!Ok([d EXCEPT !.proofs = Rexie!Without(@, gone)])
      /\ Memory!RemoveProofs(d, proofs) = Memory!Ok([d EXCEPT !.proofs = Memory!Without(@, gone)])
  <2> HIDE DEF gone
  <2> QED BY <1>1, Zenon DEF Redb!RemoveProofs, Sqlite!RemoveProofs, Rexie!RemoveProofs,
             Memory!RemoveProofs
<1> HIDE DEF gone
<1> USE DEF RemoveProofs, Of, View, Coins, Quotes, Melts, Registry, Shaped, Ok
<1> DEFINE r == RemoveProofs(st, d, proofs)
<1>3. /\ r.ok /\ Shaped(st, r.db)
      /\ View(st, r.db) = [View(st, d) EXCEPT !.coins = Without(@, gone)]
  <2>1. CASE st = "redb"
    BY <1>2, <2>1, RedbSame
  <2>2. CASE st = "sqlite"
    BY <1>2, <2>2, SqliteSame
  <2>3. CASE st = "rexie"
    BY <1>2, <2>3, RexieSame
  <2>4. CASE st = "memory"
    BY <1>2, <2>4, MemorySame
  <2> QED BY <2>1, <2>2, <2>3, <2>4 DEF WalletStores
<1> QED BY <1>3 DEF gone

\* ... a proof in another state, if there is one,
Marked(t, y, state) == IF y \in DOMAIN t THEN [t EXCEPT ![y].state = state] ELSE t

\* set_proof_state changes the state of one row and nothing else.
LEMMA StateWritten ==
    ASSUME NEW st \in WalletStores, NEW d, Shaped(st, d), NEW y, NEW state,
           \A x \in DOMAIN Coins(st, d) : Coins(st, d)[x] # None
    PROVE  LET r == SetProofState(st, d, y, state)
           IN  /\ Shaped(st, r.db)
               /\ View(st, r.db) = [View(st, d) EXCEPT !.coins = Marked(@, y, state)]
<1> USE DEF SetProofState, Of, View, Coins, Quotes, Melts, Registry, Shaped, Ok, Error, Marked
<1>1. CASE st = "redb"
  BY <1>1, RedbSame DEF Redb!SetProofState
<1>2. CASE st = "sqlite"
  BY <1>2, SqliteSame DEF Sqlite!SetProofState
<1>3. CASE st = "rexie"
  BY <1>3, RexieSame DEF Rexie!SetProofState
<1>4. CASE st = "memory"
  <2>1. CASE y \in DOMAIN d.proofs
    <3>1. Memory!SetProofState(d, y, state) =
              Ok([d EXCEPT !.proofs = Upsert(@, y, [d.proofs[y] EXCEPT !.state = state])])
      BY <1>4, <2>1, MemorySame DEF Memory!SetProofState, Memory!WriteProofState, Memory!ReadProof, Lookup
    <3>2. Upsert(d.proofs, y, [d.proofs[y] EXCEPT !.state = state]) =
              [x \in DOMAIN d.proofs |-> IF x = y THEN [d.proofs[y] EXCEPT !.state = state] ELSE d.proofs[x]]
      <4>1. DOMAIN d.proofs \cup {y} = DOMAIN d.proofs
        BY <2>1
      <4> QED BY <4>1 DEF Upsert
    <3>3. Upsert(d.proofs, y, [d.proofs[y] EXCEPT !.state = state]) = [d.proofs EXCEPT ![y].state = state]
      BY <3>2
    <3> HIDE DEF Ok
    <3>4. SetProofState(st, d, y, state) = Ok([d EXCEPT !.proofs = [d.proofs EXCEPT ![y].state = state]])
      BY <1>4, <3>1, <3>3
    <3> QED BY <1>4, <2>1, <3>4 DEF Ok
  <2>2. CASE y \notin DOMAIN d.proofs
    <3>1. Memory!SetProofState(d, y, state) = Ok(d)
      BY <1>4, <2>2, MemorySame DEF Memory!SetProofState, Memory!WriteProofState, Memory!ReadProof, Lookup
    <3> QED BY <1>4, <2>2, <3>1
  <2> QED BY <2>1, <2>2
<1> QED BY <1>1, <1>2, <1>3, <1>4 DEF WalletStores

-----------------------------------------------------------------------------
(* Keysets and their counters *)

KeysetRows == [id : ToSet(Chain), unit : {Unit}, active : BOOLEAN]
CountedRows == [mint_url : {Url}, id : ToSet(Chain), unit : {Unit}, active : BOOLEAN,
                counter : Nat]

\* Every keyset a store lists is one of the mint's, and the counters count.
\* redb lists none, and rexie lists none of any mint.
Listed(st, registry) ==
    /\ st = "sqlite" => \A k \in DOMAIN registry : registry[k] \in CountedRows
    /\ st # "sqlite" => \A k \in DOMAIN registry.counters : registry.counters[k] \in Nat
    /\ st = "redb" => DOMAIN registry.keysets = {}
    /\ st = "memory" => \A k \in DOMAIN registry.keysets : registry.keysets[k].id \in ToSet(Chain)
    /\ st = "rexie" => \A m \in DOMAIN registry.ids : registry.ids[m] = None

\* The counter of a keyset, None when there is none.
Count(st, d, k) ==
    IF st = "sqlite"
    THEN IF k \in DOMAIN Registry(st, d) THEN Registry(st, d)[k].counter ELSE None
    ELSE Lookup(Registry(st, d).counters, k)

\* The mint and its keysets are written: the rest stays, but for the counters
\* of SQLite.
Refreshed(st, d, e) ==
    /\ Shaped(st, e)
    /\ Coins(st, e) = Coins(st, d) /\ Quotes(st, e) = Quotes(st, d) /\ Melts(st, e) = Melts(st, d)
    /\ Listed(st, Registry(st, e))
    /\ st # "sqlite" => Registry(st, e).counters = Registry(st, d).counters

\* What a store answers for a keyset is its counter.
LEMMA CounterRead ==
    ASSUME NEW st \in WalletStores, NEW d, NEW k
    PROVE  GetKeysetCounter(st, d, k) = Count(st, d, k)
<1> USE DEF GetKeysetCounter, Of, Count, Registry
<1>1. CASE st = "redb"
  BY <1>1, RedbSame DEF Redb!GetKeysetCounter
<1>2. CASE st = "sqlite"
  BY <1>2, SqliteSame DEF Sqlite!GetKeysetCounter
<1>3. CASE st = "rexie"
  BY <1>3, RexieSame DEF Rexie!GetKeysetCounter
<1>4. CASE st = "memory"
  BY <1>4, MemorySame DEF Memory!GetKeysetCounter
<1> QED BY <1>1, <1>2, <1>3, <1>4 DEF WalletStores

\* A counter is a number, or missing.
LEMMA CountType ==
    ASSUME NEW st \in WalletStores, NEW d, Listed(st, Registry(st, d)), NEW k
    PROVE  Count(st, d, k) \in Nat \cup {None}
BY DEF Listed, Count, Lookup, CountedRows

\* add_mint.
LEMMA MintWritten ==
    ASSUME NEW st \in WalletStores, NEW d, Shaped(st, d), Listed(st, Registry(st, d)), NEW info
    PROVE  Refreshed(st, d, AddMint(st, d, Url, info).db)
<1> USE DEF AddMint, Of, Refreshed, Shaped, Coins, Quotes, Melts, Registry, Listed, Ok
<1>1. CASE st = "redb"
  BY <1>1, RedbSame DEF Redb!AddMint
<1>2. CASE st = "sqlite"
  BY <1>2, SqliteSame DEF Sqlite!AddMint, Without, Restrict
<1>3. CASE st = "rexie"
  BY <1>3, RexieSame DEF Rexie!AddMint
<1>4. CASE st = "memory"
  BY <1>4, MemorySame DEF Memory!AddMint
<1> QED BY <1>1, <1>2, <1>3, <1>4 DEF WalletStores

\* add_mint_keysets.
LEMMA KeysetsWritten ==
    ASSUME NEW st \in WalletStores, NEW d, Shaped(st, d), Listed(st, Registry(st, d)),
           NEW keysets \in Seq(KeysetRows)
    PROVE  Refreshed(st, d, AddMintKeysets(st, d, Url, keysets).db)
<1> USE DEF AddMintKeysets, Of, Refreshed, Shaped, Coins, Quotes, Melts, Registry, Ok, Error
<1>0. /\ DOMAIN keysets = 1..Len(keysets) /\ Len(keysets) \in Nat
      /\ \A i \in DOMAIN keysets : keysets[i] \in KeysetRows
      /\ \A r \in ToSet(keysets) : r \in KeysetRows
  BY DEF ToSet
<1>1. CASE st = "redb"
  BY <1>1, RedbSame DEF Redb!AddMintKeysets, Listed
<1>2. CASE st = "sqlite"
  <2> DEFINE rows == [i \in DOMAIN keysets |->
                        [mint_url |-> Url, id |-> keysets[i].id, unit |-> keysets[i].unit,
                         active |-> keysets[i].active, counter |-> 0]]
             table == UpsertAll(d.keyset, rows, IdOf)
  <2>1. DOMAIN rows = 1..Len(keysets) /\ \A r \in ToSet(rows) : r \in CountedRows
    BY <1>0 DEF ToSet, KeysetRows, CountedRows
  <2>2. \/ AddMintKeysets(st, d, Url, keysets).db = d
        \/ AddMintKeysets(st, d, Url, keysets).db = [d EXCEPT !.keyset = table]
    BY <1>2, SqliteSame DEF Sqlite!AddMintKeysets
  <2> HIDE DEF rows
  <2>3. \A k \in DOMAIN table : table[k] \in CountedRows
    <3>1. \A k \in DOMAIN table : \/ k \in DOMAIN d.keyset /\ table[k] = d.keyset[k]
                                \/ \E r \in ToSet(rows) : r.id = k /\ table[k] = r
      BY <1>0, <2>1, KeysetsUpserted
    <3>2. \A k \in DOMAIN d.keyset : d.keyset[k] \in CountedRows
      BY <1>2 DEF Listed
    <3> QED BY <2>1, <3>1, <3>2
  <2> HIDE DEF table
  <2> QED BY <1>2, <2>2, <2>3 DEF Listed
<1> DEFINE table == UpsertAll(d.keysets, keysets, IdOf)
<1>3. CASE st = "rexie"
  <2> DEFINE ids == Upsert(d.mint_keysets, Url, None)
  <2>1. Lookup(d.mint_keysets, Url) = None
    BY <1>3 DEF Listed, Lookup
  <2>2. AddMintKeysets(st, d, Url, keysets).db = [d EXCEPT !.mint_keysets = ids, !.keysets = table]
    BY <1>3, <2>1, RexieSame DEF Rexie!AddMintKeysets
  <2>3. \A m \in DOMAIN ids : ids[m] = None
    BY <1>3 DEF Listed, Upsert
  <2> HIDE DEF table, ids
  <2> QED BY <1>3, <2>2, <2>3 DEF Listed
<1>4. CASE st = "memory"
  <2>1. \/ AddMintKeysets(st, d, Url, keysets).db = d
        \/ \E ids : AddMintKeysets(st, d, Url, keysets).db = [d EXCEPT !.mint_keysets = ids, !.keysets = table]
    BY <1>4, MemorySame DEF Memory!AddMintKeysets
  <2>2. \A k \in DOMAIN table : table[k].id \in ToSet(Chain)
    <3>1. \A k \in DOMAIN table : \/ k \in DOMAIN d.keysets /\ table[k] = d.keysets[k]
                                \/ \E r \in ToSet(keysets) : r.id = k /\ table[k] = r
      BY <1>0, KeysetsUpserted
    <3>2. \A k \in DOMAIN d.keysets : d.keysets[k].id \in ToSet(Chain)
      BY <1>4 DEF Listed
    <3>3. \A r \in ToSet(keysets) : r.id \in ToSet(Chain)
      BY <1>0 DEF KeysetRows
    <3> HIDE DEF table
    <3> QED BY <3>1, <3>2, <3>3
  <2> HIDE DEF table
  <2>3. CASE AddMintKeysets(st, d, Url, keysets).db = d
    BY <1>4, <2>3
  <2>4. ASSUME NEW ids, AddMintKeysets(st, d, Url, keysets).db = [d EXCEPT !.mint_keysets = ids, !.keysets = table]
        PROVE  Refreshed(st, d, AddMintKeysets(st, d, Url, keysets).db)
    BY <1>4, <2>2, <2>4 DEF Listed
  <2> QED BY <2>1, <2>3, <2>4
<1> QED BY <1>1, <1>2, <1>3, <1>4 DEF WalletStores

\* increment_keyset_counter: on SQLite only a keyset that is listed counts.
LEMMA CounterWritten ==
    ASSUME NEW st \in WalletStores, NEW d, Shaped(st, d), Listed(st, Registry(st, d)), NEW k,
           NEW n \in Nat
    PROVE  LET r == IncrementKeysetCounter(st, d, k, n)
           IN  /\ r.ok /\ Shaped(st, r.db) /\ Listed(st, Registry(st, r.db))
               /\ Coins(st, r.db) = Coins(st, d) /\ Quotes(st, r.db) = Quotes(st, d)
               /\ Melts(st, r.db) = Melts(st, d)
               /\ st # "sqlite" =>
                    /\ Count(st, r.db, k) = IF Count(st, d, k) = None THEN n ELSE Count(st, d, k) + n
                    /\ \A x : x # k => Count(st, r.db, x) = Count(st, d, x)
<1> USE DEF IncrementKeysetCounter, Of, Shaped, Coins, Quotes, Melts, Registry, Ok
<1>1. CASE st = "sqlite"
  BY <1>1, SqliteSame DEF Sqlite!IncrementKeysetCounter, Listed, CountedRows
<1>2. CASE st # "sqlite"
  <2> DEFINE t == d.keyset_counter
             current == IF k \in DOMAIN t THEN t[k] ELSE 0
             u == Upsert(t, k, current + n)
  <2>1. IncrementKeysetCounter(st, d, k, n) = Ok([d EXCEPT !.keyset_counter = u])
    BY <1>2, RedbSame, RexieSame, MemorySame
       DEF WalletStores, Redb!IncrementKeysetCounter, Rexie!IncrementKeysetCounter,
           Memory!IncrementKeysetCounter, Memory!WriteCounter, Memory!ReadCounter
  <2>2. \A x \in DOMAIN t : t[x] \in Nat
    BY <1>2 DEF Listed
  <2>3. /\ DOMAIN u = DOMAIN t \cup {k} /\ u[k] = current + n
        /\ \A x \in DOMAIN t : x # k => u[x] = t[x]
        /\ \A x \in DOMAIN u : u[x] \in Nat
    BY <2>2 DEF Upsert
  <2>4. \A x \in DOMAIN t : t[x] # None
    BY <2>2, NoneAssumption
  <2> DEFINE e == [d EXCEPT !.keyset_counter = u]
  <2>5. /\ e.keyset_counter = u /\ e.keysets = d.keysets /\ e.mint_keysets = d.mint_keysets
        /\ Shaped(st, e) /\ Coins(st, e) = Coins(st, d) /\ Quotes(st, e) = Quotes(st, d)
        /\ Melts(st, e) = Melts(st, d)
    BY <1>2
  <2> HIDE DEF e, u
  <2>6. Listed(st, Registry(st, e))
    BY <1>2, <2>3, <2>5 DEF Listed
  <2>7. \A x : Count(st, e, x) = Lookup(u, x) /\ Count(st, d, x) = Lookup(t, x)
    BY <1>2, <2>5 DEF Count
  <2>8. Lookup(u, k) = IF Lookup(t, k) = None THEN n ELSE Lookup(t, k) + n
    BY <2>3, <2>4 DEF Lookup
  <2>9. \A x : x # k => Lookup(u, x) = Lookup(t, x)
    BY <2>3 DEF Lookup
  <2>10. IncrementKeysetCounter(st, d, k, n).ok /\ IncrementKeysetCounter(st, d, k, n).db = e
    <3> HIDE DEF IncrementKeysetCounter
    <3> QED BY <2>1 DEF e
  <2> HIDE DEF Shaped, Coins, Quotes, Melts, Registry
  <2> QED BY <1>2, <2>5, <2>6, <2>7, <2>8, <2>9, <2>10
<1> QED BY <1>1, <1>2

\* A new store is empty.
LEMMA NewStore ==
    ASSUME NEW st \in WalletStores
    PROVE  /\ Shaped(st, New(st)) /\ Listed(st, Registry(st, New(st)))
           /\ DOMAIN Coins(st, New(st)) = {} /\ DOMAIN Quotes(st, New(st)) = {}
           /\ DOMAIN Melts(st, New(st)) = {}
           /\ \A k : Count(st, New(st), k) = None
<1> USE DEF New, Of, Shaped, Coins, Quotes, Melts, Registry, Listed, Count, Lookup, NoRows
<1>1. CASE st = "redb"
  BY <1>1, RedbSame DEF Redb!New
<1>2. CASE st = "sqlite"
  BY <1>2, SqliteSame DEF Sqlite!New
<1>3. CASE st = "rexie"
  BY <1>3, RexieSame DEF Rexie!New
<1>4. CASE st = "memory"
  BY <1>4, MemorySame DEF Memory!New
<1> QED BY <1>1, <1>2, <1>3, <1>4 DEF WalletStores

-----------------------------------------------------------------------------
(* What is read *)

\* A row as the store hands it out; SQLite has no column for the DLEQ proof.
Read(st, row) == IF st = "sqlite" THEN Sqlite!ReadProofInfo(row) ELSE row

\* What a store answers for a quote is its row.
LEMMA QuoteRead ==
    ASSUME NEW st \in WalletStores, NEW d, NEW id
    PROVE  /\ GetMintQuote(st, d, id) = Lookup(Quotes(st, d), id)
           /\ GetMintQuotes(st, d) = Rows(Quotes(st, d))
           /\ GetMeltQuote(st, d, id) = Lookup(Melts(st, d), id)
<1> USE DEF GetMintQuote, GetMintQuotes, GetMeltQuote, Of, Quotes, Melts
<1>1. CASE st = "redb"
  BY <1>1, RedbSame DEF Redb!GetMintQuote, Redb!GetMintQuotes, Redb!GetMeltQuote
<1>2. CASE st = "sqlite"
  BY <1>2, SqliteSame DEF Sqlite!GetMintQuote, Sqlite!GetMintQuotes, Sqlite!GetMeltQuote
<1>3. CASE st = "rexie"
  BY <1>3, RexieSame DEF Rexie!GetMintQuote, Rexie!GetMintQuotes, Rexie!GetMeltQuote
<1>4. CASE st = "memory"
  BY <1>4, MemorySame DEF Memory!GetMintQuote, Memory!GetMintQuotes, Memory!GetMeltQuote
<1> QED BY <1>1, <1>2, <1>3, <1>4 DEF WalletStores

\* The keysets a store lists are the mint's.
LEMMA KeysetsRead ==
    ASSUME NEW st \in WalletStores, NEW d, Listed(st, Registry(st, d)),
           NEW i \in GetMintKeysets(st, d, Url), GetMintKeysets(st, d, Url) # None
    PROVE  i.id \in ToSet(Chain)
<1> USE DEF GetMintKeysets, Of, Registry, Listed
<1>1. CASE st = "redb"
  BY <1>1, RedbSame DEF Redb!GetMintKeysets, NoneIfEmpty
<1>2. CASE st = "sqlite"
  <2>1. GetMintKeysets(st, d, Url) = {Sqlite!ReadKeyset(d.keyset[id]) : id \in Sqlite!KeysetsOf(d, Url)}
    BY <1>2, SqliteSame DEF Sqlite!GetMintKeysets, NoneIfEmpty
  <2>2. Sqlite!KeysetsOf(d, Url) \subseteq DOMAIN d.keyset
    BY DEF Sqlite!KeysetsOf
  <2>3. PICK id \in DOMAIN d.keyset : i = Sqlite!ReadKeyset(d.keyset[id])
    BY <2>1, <2>2
  <2> QED BY <1>2, <2>3 DEF Sqlite!ReadKeyset, CountedRows
<1>3. CASE st = "rexie"
  BY <1>3, RexieSame DEF Rexie!GetMintKeysets, Lookup
<1>4. CASE st = "memory"
  BY <1>4, MemorySame DEF Memory!GetMintKeysets
<1> QED BY <1>1, <1>2, <1>3, <1>4 DEF WalletStores

\* The proofs a store lists are those of its table.
LEMMA ProofsRead ==
    ASSUME NEW st \in WalletStores, NEW d, NEW states, NEW conds
    PROVE  GetProofs(st, d, Url, Unit, states, conds) =
               Matching([y \in DOMAIN Coins(st, d) |-> Read(st, Coins(st, d)[y])],
                        Url, Unit, states, conds)
<1> DEFINE T(t) == [y \in DOMAIN t |-> t[y]]
<1>0. \A t : Rows(T(t)) = Rows(t)
  BY DEF Rows
<1>1. \A t, u, v, x, c : Matching(T(t), u, v, x, c) = Matching(t, u, v, x, c)
  <2> HIDE DEF T
  <2> QED BY <1>0, Zenon DEF Matching
<1>2. /\ \A t, u, v, x, c : Redb!Matching(t, u, v, x, c) = Matching(t, u, v, x, c)
      /\ \A t, u, v, x, c : Rexie!Matching(t, u, v, x, c) = Matching(t, u, v, x, c)
      /\ \A t, u, v, x, c : Memory!Matching(t, u, v, x, c) = Matching(t, u, v, x, c)
      /\ \A t, u, v, x, c : Sqlite!Matching(t, u, v, x, c) = Matching(t, u, v, x, c)
  <2> USE DEF Matching, NoneIfEmpty, MatchesConditions, Rows
  <2>1. \A t, u, v, x, c : Redb!Matching(t, u, v, x, c) = Matching(t, u, v, x, c)
    BY DEF Redb!Matching, Redb!NoneIfEmpty, Redb!MatchesConditions, Redb!Rows
  <2>2. \A t, u, v, x, c : Rexie!Matching(t, u, v, x, c) = Matching(t, u, v, x, c)
    BY DEF Rexie!Matching, Rexie!NoneIfEmpty, Rexie!MatchesConditions, Rexie!Rows
  <2>3. \A t, u, v, x, c : Memory!Matching(t, u, v, x, c) = Matching(t, u, v, x, c)
    BY DEF Memory!Matching, Memory!NoneIfEmpty, Memory!MatchesConditions, Memory!Rows
  <2>4. \A t, u, v, x, c : Sqlite!Matching(t, u, v, x, c) = Matching(t, u, v, x, c)
    BY DEF Sqlite!Matching, Sqlite!NoneIfEmpty, Sqlite!MatchesConditions, Sqlite!Rows
  <2> HIDE DEF Matching, NoneIfEmpty, MatchesConditions, Rows
  <2> QED BY <2>1, <2>2, <2>3, <2>4
<1> USE DEF GetProofs, Of, Coins, Read
<1>3. CASE st = "redb"
  BY <1>1, <1>2, <1>3 DEF Redb!GetProofs
<1>4. CASE st = "sqlite"
  BY <1>2, <1>4 DEF Sqlite!GetProofs
<1>5. CASE st = "rexie"
  BY <1>1, <1>2, <1>5 DEF Rexie!GetProofs
<1>6. CASE st = "memory"
  BY <1>1, <1>2, <1>6 DEF Memory!GetProofs
<1> QED BY <1>3, <1>4, <1>5, <1>6 DEF WalletStores

-----------------------------------------------------------------------------
(* Coins *)

OwnPurses == {ps \in SUBSET OwnCoins : IsFiniteSet(ps)}
Purses == {ps \in SUBSET (OwnCoins \cup ForeignCoins) : IsFiniteSet(ps)}
Outputs == [secret : OwnSecrets, amount : Nat]

\* A proof has an amount.
LEMMA CoinsHaveAmounts == \A p \in OwnCoins \cup ForeignCoins : p.amount \in Nat
BY ForeignAssumption DEF OwnCoins

\* What proofs are worth.
LEMMA AmountType ==
    ASSUME NEW ps \in Purses
    PROVE  Amount(ps) \in Nat
<1> DEFINE Adds(F) == F = [s \in SUBSET ps |-> IF s = {} THEN 0
                                          ELSE Chosen(s).amount + F[s \ {Chosen(s)}]]
           Added == [x \in (SUBSET ps) \X Nat |-> IF x[1] = {} THEN 0 ELSE Chosen(x[1]).amount + x[2]]
<1>1. Amount(ps) = (CHOOSE F : Adds(F))[ps]
  BY DEF Amount, MapThenSumSet, MapThenFoldSet, Chosen
<1>2. ASSUME NEW s \in SUBSET ps, s # {} PROVE Chosen(s).amount \in Nat /\ Chosen(s) \in s
  <2>1. Chosen(s) \in s
    BY <1>2 DEF Chosen
  <2>2. Chosen(s) \in OwnCoins \cup ForeignCoins
    BY <2>1 DEF Purses
  <2> QED BY <2>1, <2>2, CoinsHaveAmounts
<1>3. PICK F \in [SUBSET ps -> Nat] : Folds(F, Added, ps)
  <2>1. \A s \in SUBSET ps, n \in Nat : Added[<<s, n>>] \in Nat
    BY <1>2
  <2> HIDE DEF Added
  <2> QED BY <2>1, FoldExists DEF Purses
<1>4. Adds(F)
  <2>1. ASSUME NEW s \in SUBSET ps, s # {}
        PROVE  Added[<<s, F[s \ {Chosen(s)}]>>] = Chosen(s).amount + F[s \ {Chosen(s)}]
    BY <2>1
  <2> HIDE DEF Added
  <2> QED BY <1>3, <2>1 DEF Folds
<1> DEFINE E == CHOOSE G : Adds(G)
<1>5. Adds(E)
  BY <1>4
<1> HIDE DEF E
<1> DEFINE Bad == {s \in SUBSET ps : E[s] \notin Nat}
<1>6. SUFFICES ASSUME Bad # {} PROVE FALSE
  BY <1>1 DEF E
<1>7. PICK s \in Bad : \A t \in Bad : t \subseteq s => t = s
  <2>1. Bad \subseteq SUBSET ps /\ IsFiniteSet(ps)
    BY DEF Purses
  <2> HIDE DEF Bad
  <2> QED BY <1>6, <2>1, MinimalSubset
<1>8. s # {} => E[s \ {Chosen(s)}] \in Nat
  BY <1>2, <1>7
<1>9. E[s] = IF s = {} THEN 0 ELSE Chosen(s).amount + E[s \ {Chosen(s)}]
  BY <1>5
<1> QED BY <1>2, <1>7, <1>8, <1>9

\* The parts of an amount.
LEMMA PartsType ==
    ASSUME NEW n \in Int
    PROVE  Parts(n) \in Seq(Nat)
<1>1. Parts(n) \in Seq(CoinValues)
  BY WalletAssumption, SplitTargetedType DEF Parts
<1> QED BY <1>1, CoinsAreNumbers

\* The secrets the wallet makes are among its own.
LEMMA SecretsMade ==
    /\ \A k \in ToSet(Chain), i \in Nat : <<k, i>> \in OwnSecrets
    /\ \A c \in Locks, i \in Nat \ {0} : <<c, i>> \in OwnSecrets
BY DEF OwnSecrets

\* The outputs of the three constructors.
LEMMA XprivType ==
    ASSUME NEW n \in Int, NEW count \in Nat, NEW k \in ToSet(Chain)
    PROVE  FromXpriv(k, count, n) \in Seq(Outputs) /\ Len(FromXpriv(k, count, n)) = Len(Parts(n))
<1>1. Parts(n) \in Seq(Nat)
  BY PartsType
<1> DEFINE m == Len(Parts(n))
<1>2. m \in Nat /\ DOMAIN Parts(n) = 1..m /\ \A i \in 1..m : Parts(n)[i] \in Nat
  BY <1>1
<1> HIDE DEF m
<1>3. \A i \in 1..m : <<k, count + i - 1>> \in OwnSecrets
  <2>1. \A i \in 1..m : count + i - 1 \in Nat
    BY <1>2
  <2> QED BY <2>1, SecretsMade
<1>4. \A i \in 1..m : [secret |-> <<k, count + i - 1>>, amount |-> Parts(n)[i]] \in Outputs
  BY <1>2, <1>3 DEF Outputs
<1>5. FromXpriv(k, count, n) \in [1..m -> Outputs]
  BY <1>2, <1>4 DEF FromXpriv
<1> QED BY <1>2, <1>5 DEF m

\* PreMintSecrets::with_conditions makes an output for every part.
LEMMA ConditionsType ==
    ASSUME NEW n \in Int, NEW cond \in Locks, random \in Nat
    PROVE  WithConditions(cond, n) \in Seq(Outputs) /\ Len(WithConditions(cond, n)) = Len(Parts(n))
<1>1. Parts(n) \in Seq(Nat)
  BY PartsType
<1> DEFINE m == Len(Parts(n))
<1>2. m \in Nat /\ DOMAIN Parts(n) = 1..m /\ \A i \in 1..m : Parts(n)[i] \in Nat
  BY <1>1
<1> HIDE DEF m
<1>3. \A i \in 1..m : <<cond, random + i>> \in OwnSecrets
  <2>1. \A i \in 1..m : random + i \in Nat \ {0}
    BY <1>2
  <2> QED BY <2>1, SecretsMade
<1>4. \A i \in 1..m : [secret |-> <<cond, random + i>>, amount |-> Parts(n)[i]] \in Outputs
  BY <1>2, <1>3 DEF Outputs
<1>5. WithConditions(cond, n) \in [1..m -> Outputs]
  BY <1>2, <1>4 DEF WithConditions
<1> QED BY <1>2, <1>5 DEF m

\* PreMintSecrets::blank makes outputs too.
LEMMA BlanksType ==
    ASSUME NEW count \in Nat, NEW k \in ToSet(Chain)
    PROVE  FromXprivBlank(k, count, FeeReserve) \in Seq(Outputs)
<1> DEFINE m == BlankCount(FeeReserve)
<1>1. m \in Nat
  BY WalletAssumption, BlankCountType
<1> HIDE DEF m
<1>2. \A i \in 1..m : <<k, count + i - 1>> \in OwnSecrets
  <2>1. \A i \in 1..m : count + i - 1 \in Nat
    BY <1>1
  <2> QED BY <2>1, SecretsMade
<1>3. FromXprivBlank(k, count, FeeReserve) \in [1..m -> Outputs]
  BY <1>2 DEF FromXprivBlank, Outputs, m
<1> QED BY <1>1, <1>3


\* The elements of a list, and of a list taken apart.
LEMMA Elements ==
    ASSUME NEW S, NEW s \in Seq(S)
    PROVE  /\ ToSet(s) \subseteq S /\ IsFiniteSet(ToSet(s))
           /\ s # <<>> => /\ Head(s) \in ToSet(s) /\ Head(s) \in S /\ Tail(s) \in Seq(S)
                          /\ ToSet(s) = {Head(s)} \cup ToSet(Tail(s))
<1> DEFINE n == Len(s)
           f == [i \in 1..n |-> s[i]]
<1>1. n \in Nat /\ DOMAIN s = 1..n /\ \A i \in 1..n : s[i] \in S
  OBVIOUS
<1>2. f \in Surjection(1..n, ToSet(s))
  BY <1>1 DEF ToSet, Surjection
<1>3. IsFiniteSet(1..n)
  BY <1>1, FS_Interval
<1> HIDE DEF f, n
<1>4. IsFiniteSet(ToSet(s))
  BY <1>2, <1>3, FS_Surjection
<1>5. ASSUME s # <<>>
      PROVE  /\ Head(s) \in ToSet(s) /\ Head(s) \in S /\ Tail(s) \in Seq(S)
             /\ ToSet(s) = {Head(s)} \cup ToSet(Tail(s))
  <2>1. n >= 1
    BY <1>1, <1>5 DEF n
  <2>2. /\ Head(s) = s[1] /\ Tail(s) \in Seq(S) /\ Len(Tail(s)) = n - 1
        /\ \A i \in 1..(n - 1) : Tail(s)[i] = s[i + 1]
    BY <1>5 DEF n
  <2>3. DOMAIN Tail(s) = 1..(n - 1)
    BY <2>2
  <2>4. ToSet(Tail(s)) = {s[i] : i \in 2..n}
    <3>1. ASSUME NEW x \in ToSet(Tail(s)) PROVE x \in {s[i] : i \in 2..n}
      <4>1. PICK i \in 1..(n - 1) : x = Tail(s)[i]
        BY <2>3 DEF ToSet
      <4>2. i + 1 \in 2..n /\ x = s[i + 1]
        BY <1>1, <2>2, <4>1
      <4> QED BY <4>2
    <3>2. ASSUME NEW i \in 2..n PROVE s[i] \in ToSet(Tail(s))
      <4>1. i - 1 \in 1..(n - 1) /\ (i - 1) + 1 = i
        BY <1>1
      <4>2. Tail(s)[i - 1] = s[i]
        BY <2>2, <4>1
      <4> QED BY <2>3, <4>1, <4>2 DEF ToSet
    <3> QED BY <3>1, <3>2
  <2>5. 1 \in 1..n /\ \A i \in 1..n : i = 1 \/ i \in 2..n
    BY <1>1, <2>1
  <2>6. \A i \in 2..n : i \in 1..n
    BY <1>1
  <2> QED BY <1>1, <2>2, <2>4, <2>5, <2>6 DEF ToSet
<1> QED BY <1>1, <1>4, <1>5 DEF ToSet

\* The elements of one list behind another.
LEMMA JoinedElements ==
    ASSUME NEW S, NEW s \in Seq(S), NEW u \in Seq(S)
    PROVE  s \o u \in Seq(S) /\ ToSet(s \o u) = ToSet(s) \cup ToSet(u)
<1>1. /\ Len(s) \in Nat /\ Len(u) \in Nat /\ DOMAIN s = 1..Len(s) /\ DOMAIN u = 1..Len(u)
      /\ s \o u \in Seq(S) /\ Len(s \o u) = Len(s) + Len(u)
      /\ \A i \in 1..(Len(s) + Len(u)) : (s \o u)[i] = IF i <= Len(s) THEN s[i] ELSE u[i - Len(s)]
  OBVIOUS
<1> DEFINE m == Len(s)
           n == Len(u)
           j == s \o u
<1>2. DOMAIN j = 1..(m + n)
  BY <1>1
<1> HIDE DEF m, n, j
<1>3. ASSUME NEW x \in ToSet(j) PROVE x \in ToSet(s) \cup ToSet(u)
  <2>1. PICK i \in 1..(m + n) : x = j[i]
    BY <1>2 DEF ToSet
  <2>2. CASE i <= m
    BY <1>1, <2>1, <2>2 DEF ToSet, m, n, j
  <2>3. CASE ~(i <= m)
    <3>1. i - m \in 1..n
      BY <1>1, <2>3 DEF m, n
    <3> QED BY <1>1, <2>1, <2>3, <3>1 DEF ToSet, m, n, j
  <2> QED BY <2>2, <2>3
<1>4. ASSUME NEW i \in 1..m PROVE s[i] \in ToSet(j)
  <2>1. i \in 1..(m + n) /\ i <= m
    BY <1>1 DEF m, n
  <2>2. j[i] = s[i]
    BY <1>1, <2>1 DEF m, n, j
  <2> QED BY <1>2, <2>1, <2>2 DEF ToSet
<1>5. ASSUME NEW i \in 1..n PROVE u[i] \in ToSet(j)
  <2>1. i + m \in 1..(m + n) /\ ~(i + m <= m) /\ (i + m) - m = i
    BY <1>1 DEF m, n
  <2>2. j[i + m] = u[i]
    BY <1>1, <2>1 DEF m, n, j
  <2> QED BY <1>2, <2>1, <2>2 DEF ToSet
<1>6. ToSet(s) = {s[i] : i \in 1..m} /\ ToSet(u) = {u[i] : i \in 1..n}
  BY <1>1 DEF ToSet, m, n
<1> QED BY <1>1, <1>3, <1>4, <1>5, <1>6 DEF j

\* sort_secrets puts outputs in another order.
LEMMA BySizeType ==
    ASSUME NEW S, NEW outs \in Seq(S)
    PROVE  BySize(outs) \in Seq(S)
<1> DEFINE m == Len(outs)
           V == Seq(S)
           step == [i \in 1..m |-> [v \in V |-> Placed(v, outs[i])]]
           Sorts(f) == f = [i \in 0..m |-> IF i = 0 THEN <<>> ELSE Placed(f[i - 1], outs[i])]
<1>1. m \in Nat /\ \A i \in 1..m : outs[i] \in S
  OBVIOUS
<1>2. BySize(outs) = (CHOOSE f : Sorts(f))[m]
  BY DEF BySize
<1> HIDE DEF m
<1>3. ASSUME NEW s \in V, NEW x \in S PROVE Placed(s, x) \in V
  <2> DEFINE C == {i \in DOMAIN s : s[i].amount <= x.amount}
             k == Cardinality(C)
  <2>1. Len(s) \in Nat /\ DOMAIN s = 1..Len(s) /\ \A i \in 1..Len(s) : s[i] \in S
    OBVIOUS
  <2>2. k \in 0..Len(s)
    <3>1. IsFiniteSet(1..Len(s)) /\ Cardinality(1..Len(s)) = Len(s)
      <4>1. ASSUME NEW n \in Nat PROVE IsFiniteSet(1..n) /\ Cardinality(1..n) = n
        BY FS_Interval
      <4> QED BY <2>1, <4>1
    <3>2. C \subseteq 1..Len(s)
      BY <2>1
    <3> HIDE DEF C
    <3>3. IsFiniteSet(C) /\ Cardinality(C) <= Len(s)
      BY <3>1, <3>2, FS_Subset
    <3>4. Cardinality(C) \in Nat
      BY <3>3, FS_CardinalityType
    <3> QED BY <2>1, <3>3, <3>4
  <2> DEFINE a == SubSeq(s, 1, k)
             b == SubSeq(s, k + 1, Len(s))
  <2>3. Placed(s, x) = (a \o <<x>>) \o b
    <3>1. k \in Int
      BY <2>2
    <3>2. Placed(s, x) = InsertAt(s, k + 1, x)
      BY DEF Placed
    <3> HIDE DEF k
    <3>3. InsertAt(s, k + 1, x) = (SubSeq(s, 1, k) \o <<x>>) \o SubSeq(s, k + 1, Len(s))
      BY <3>1, Insertion, Zenon
    <3> QED BY <3>2, <3>3, Zenon
  <2> HIDE DEF k
  <2>4. a \in V /\ b \in V
    <3>1. \A i \in 1..k : s[i] \in S
      BY <2>1, <2>2
    <3>2. \A i \in (k + 1)..Len(s) : s[i] \in S
      BY <2>1, <2>2
    <3>3. k \in Int /\ k + 1 \in Int /\ Len(s) \in Int
      BY <2>1, <2>2
    <3> QED BY <3>1, <3>2, <3>3, SubSeqProperties
  <2> HIDE DEF a, b
  <2> QED BY <2>3, <2>4
<1>4. step \in [1..m -> [V -> V]] /\ <<>> \in V
  <2>1. <<>> \in V
    OBVIOUS
  <2> HIDE DEF V
  <2> QED BY <1>1, <1>3, <2>1
<1>5. \E f : Sorts(f)
  <2>1. PICK f : Recursive(f, m, V, <<>>, step)
    <3> HIDE DEF V, step
    <3> QED BY <1>1, <1>4, Recursion
  <2> HIDE DEF V
  <2>2. f = [i \in 0..m |-> f[i]]
    BY <2>1 DEF Recursive
  <2>3. ASSUME NEW i \in 0..m PROVE f[i] = IF i = 0 THEN <<>> ELSE Placed(f[i - 1], outs[i])
    <3>1. CASE i = 0
      BY <3>1, <2>1 DEF Recursive
    <3>2. CASE i # 0
      <4>1. i \in 1..m /\ i - 1 \in 0..m
        BY <3>2, <1>1
      <4>2. f[i] = step[i][f[i - 1]] /\ f[i - 1] \in V
        BY <4>1, <2>1 DEF Recursive
      <4> QED BY <4>1, <4>2, <3>2
    <3> QED BY <3>1, <3>2
  <2>4. Sorts(f)
    BY <2>2, <2>3
  <2> HIDE DEF Sorts
  <2> QED BY <2>4
<1> DEFINE f == CHOOSE g : Sorts(g)
<1>6. Sorts(f)
  BY <1>5
<1>7. BySize(outs) = f[m]
  BY <1>2
<1> HIDE DEF f
<1>8. f[0] = <<>> /\ \A i \in 1..m : f[i] = Placed(f[i - 1], outs[i])
  <2>1. 0 \in 0..m /\ \A i \in 1..m : i \in 0..m /\ i # 0
    BY <1>1
  <2> QED BY <1>6, <2>1
<1> HIDE DEF Sorts
<1> DEFINE P == {i \in 0..m : f[i] \in V}
<1>9. 0 \in P
  <2>1. <<>> \in V /\ 0 \in 0..m
    BY <1>1
  <2> QED BY <2>1, <1>8
<1>10. ASSUME NEW i \in 1..m, i - 1 \in P PROVE i \in P
  BY <1>1, <1>3, <1>8, <1>10
<1>11. \A i \in 0..m : i \in P
  <2> HIDE DEF P
  <2> QED BY <1>1, <1>9, <1>10, Induction
<1> QED BY <1>1, <1>7, <1>11

\* Outputs become as many coins at most, with the same secrets.
LEMMA ConstructedType ==
    ASSUME NEW outs \in Seq(Outputs), NEW k \in ToSet(Chain), NEW c \in ToSet(Chain)
    PROVE  /\ ConstructProofs(outs, k, c) \in OwnPurses
           /\ Secrets(ConstructProofs(outs, k, c)) = Secrets(ToSet(outs))
<1> DEFINE S == ToSet(outs)
           coin(o) == [secret |-> o.secret, amount |-> o.amount, keyset_id |-> k, c |-> c, dleq |-> k]
           f == [o \in S |-> coin(o)]
           T == {coin(o) : o \in S}
<1>1. S \subseteq Outputs /\ IsFiniteSet(S)
  BY Elements
<1>2. ConstructProofs(outs, k, c) = T
  BY DEF ConstructProofs
<1>3. \A o \in Outputs : coin(o) \in OwnCoins /\ coin(o).secret = o.secret
  BY DEF Outputs, OwnCoins
<1> HIDE DEF S, coin
<1>4. f \in Surjection(S, T)
  BY DEF Surjection
<1> HIDE DEF f
<1>5. IsFiniteSet(T)
  BY <1>1, <1>4, FS_Surjection
<1>6. T \in OwnPurses
  BY <1>1, <1>3, <1>5 DEF OwnPurses
<1>7. Secrets(T) = {o.secret : o \in S}
  BY <1>1, <1>3 DEF Secrets
<1> QED BY <1>2, <1>6, <1>7 DEF Secrets, S

\* Proofs of the own mint are proofs.
LEMMA OwnPursesArePurses == OwnPurses \subseteq Purses
BY DEF OwnPurses, Purses

\* A part of a purse is a purse.
LEMMA PartOfPurse ==
    /\ \A ps \in OwnPurses : \A qs : qs \subseteq ps => qs \in OwnPurses
    /\ \A ps \in Purses : \A qs : qs \subseteq ps => qs \in Purses
BY FS_Subset DEF OwnPurses, Purses

\* Two lists of proofs make one.
LEMMA JoinedPurses == \A ps, qs \in OwnPurses : ps \cup qs \in OwnPurses
BY FS_Union DEF OwnPurses

-----------------------------------------------------------------------------
(* Writes to come *)

\* The rows the wallet makes for its proofs.
CoinRows == {row \in ProofRows : row.y = row.proof.secret}

\* One call of the store each.
Calls ==
    [call : {"add_proofs"}, x : Seq(CoinRows), y : {None}]
    \cup [call : {"remove_proofs"}, x : Seq(OwnCoins \cup ForeignCoins), y : {None}]
    \cup [call : {"set_proof_state"}, x : Secrets(OwnCoins \cup ForeignCoins), y : States]
    \cup [call : {"increment_keyset_counter"}, x : ToSet(Chain), y : Nat]
    \cup [call : {"remove_mint_quote"}, x : MintQuotes, y : {None}]
    \cup [call : {"remove_melt_quote"}, x : MeltQuotes, y : {None}]

\* The calls c among cs that write a row of the secret s, and those that
\* remove one.
Adds(cs, s) == \E c \in cs : c.call = "add_proofs" /\ \E r \in ToSet(c.x) : r.y = s
Removes(cs, s) == \E c \in cs : c.call = "remove_proofs" /\ s \in Secrets(ToSet(c.x))

\* One call for all rows, or one for each.
LEMMA PerRowElements ==
    ASSUME NEW S, NEW rows \in Seq(S), NEW name
    PROVE  /\ \A c \in ToSet(PerRow(name, rows)) :
                c.call = name /\ c.y = None /\ c.x \in Seq(S) /\ ToSet(c.x) \subseteq ToSet(rows)
           /\ \A c \in ToSet(PerRow(name, rows)) : c = Call(name, c.x, None)
           /\ \A r \in ToSet(rows) : \E c \in ToSet(PerRow(name, rows)) : r \in ToSet(c.x)
           /\ PerRow(name, rows) \in Seq(ToSet(PerRow(name, rows)))
<1> DEFINE n == Len(rows)
<1>1. n \in Nat /\ DOMAIN rows = 1..n /\ \A i \in 1..n : rows[i] \in S
  OBVIOUS
<1>2. \A r \in S : <<r>> \in Seq(S) /\ ToSet(<<r>>) = {r}
  BY DEF ToSet
<1>3. \A i \in 1..n : rows[i] \in ToSet(rows)
  BY <1>1 DEF ToSet
<1>4. \A r \in ToSet(rows) : \E i \in 1..n : r = rows[i]
  BY <1>1 DEF ToSet
<1>5. CASE RowByRow(store)
  <2> DEFINE f == [i \in 1..n |-> Call(name, <<rows[i]>>, None)]
  <2>1. PerRow(name, rows) = f
    BY <1>1, <1>5 DEF PerRow
  <2>2. ToSet(f) = {Call(name, <<rows[i]>>, None) : i \in 1..n}
    BY DEF ToSet
  <2>3. f \in Seq(ToSet(f))
    <3>1. f \in [1..n -> ToSet(f)]
      BY <2>2
    <3> HIDE DEF f
    <3> QED BY <1>1, <3>1
  <2>4. \A i \in 1..n : LET c == Call(name, <<rows[i]>>, None)
                        IN  /\ c.call = name /\ c.y = None /\ c.x = <<rows[i]>>
                            /\ c = Call(name, c.x, None)
    BY DEF Call
  <2> HIDE DEF f, n
  <2>5. \A c \in ToSet(f) : \E i \in 1..n : c = Call(name, <<rows[i]>>, None)
    BY <2>2
  <2>6. \A i \in 1..n : <<rows[i]>> \in Seq(S) /\ ToSet(<<rows[i]>>) = {rows[i]}
    BY <1>1, <1>2
  <2>7. \A i \in 1..n : Call(name, <<rows[i]>>, None) \in ToSet(f)
    BY <2>2
  <2>8. \A c \in ToSet(f) : /\ c.call = name /\ c.y = None /\ c.x \in Seq(S) /\ ToSet(c.x) \subseteq ToSet(rows)
                            /\ c = Call(name, c.x, None)
    <3> TAKE c \in ToSet(f)
    <3>1. PICK i \in 1..n : c = Call(name, <<rows[i]>>, None)
      BY <2>5
    <3>2. c.x = <<rows[i]>> /\ c.call = name /\ c.y = None /\ c = Call(name, c.x, None)
      BY <2>4, <3>1
    <3> QED BY <1>3, <2>6, <3>2
  <2>9. \A r \in ToSet(rows) : \E c \in ToSet(f) : r \in ToSet(c.x)
    <3> TAKE r \in ToSet(rows)
    <3>1. PICK i \in 1..n : r = rows[i]
      BY <1>4
    <3>2. Call(name, <<rows[i]>>, None).x = <<rows[i]>>
      BY DEF Call
    <3> QED BY <2>6, <2>7, <3>1, <3>2
  <2> QED BY <2>1, <2>3, <2>8, <2>9
<1>6. CASE ~RowByRow(store) /\ rows = <<>>
  <2>1. PerRow(name, rows) = <<>>
    BY <1>6 DEF PerRow
  <2>2. ToSet(<<>>) = {} /\ \A X : <<>> \in Seq(X)
    BY DEF ToSet
  <2>3. ToSet(rows) = {} /\ ToSet(PerRow(name, rows)) = {}
    BY <1>6, <2>1, <2>2
  <2>4. PerRow(name, rows) \in Seq(ToSet(PerRow(name, rows)))
    BY <2>1, <2>2
  <2> QED BY <2>3, <2>4
<1>7. CASE ~RowByRow(store) /\ rows # <<>>
  <2> DEFINE one == Call(name, rows, None)
             cs == PerRow(name, rows)
  <2>1. cs = <<one>>
    BY <1>7 DEF PerRow
  <2>2. one.call = name /\ one.x = rows /\ one.y = None
    BY DEF Call
  <2>3. one = Call(name, one.x, None)
    BY <2>2
  <2> HIDE DEF one, cs
  <2>4. ToSet(cs) = {one} /\ cs \in Seq(ToSet(cs))
    BY <2>1 DEF ToSet
  <2>5. one.x \in Seq(S) /\ ToSet(one.x) = ToSet(rows)
    BY <2>2
  <2>6. \A c \in ToSet(cs) : /\ c.call = name /\ c.y = None /\ c.x \in Seq(S) /\ ToSet(c.x) \subseteq ToSet(rows)
                             /\ c = Call(name, c.x, None)
    BY <2>2, <2>3, <2>4, <2>5
  <2>7. \A r \in ToSet(rows) : \E c \in ToSet(cs) : r \in ToSet(c.x)
    BY <2>4, <2>5
  <2> QED BY <2>4, <2>6, <2>7 DEF cs
<1> QED BY <1>5, <1>6, <1>7

\* The rows of some of the wallet's proofs.
LEMMA InfosType ==
    ASSUME NEW ps \in OwnPurses, NEW state \in States
    PROVE  /\ Infos(ps, state) \in Seq(CoinRows)
           /\ \A r \in ToSet(Infos(ps, state)) : /\ r.y = r.proof.secret /\ r.state = state
                                                 /\ r.proof \in ps
           /\ \A s \in Secrets(ps) : \E r \in ToSet(Infos(ps, state)) : r.y = s
<1> DEFINE info(p) == ProofInfo(p, Url, state, Unit, Lock(p.secret))
           f == [p \in ps |-> info(p)]
           T == {info(p) : p \in ps}
<1>1. Infos(ps, state) = SetToSeq(T)
  BY DEF Infos
<1>2. \A p \in ps : /\ info(p) \in ProofRows /\ info(p).y = p.secret /\ info(p).proof = p
                    /\ info(p).state = state
  <2>1. \A p \in ps : p \in OwnCoins /\ p.secret \in OwnSecrets
    BY DEF OwnPurses, OwnCoins
  <2>2. \A s : Lock(s) \in Conditions \cup {None}
    BY DEF Lock
  <2> QED BY <2>1, <2>2 DEF ProofInfo, ProofRows
<1> HIDE DEF info
<1>3. f \in Surjection(ps, T)
  BY DEF Surjection
<1> HIDE DEF f
<1>4. IsFiniteSet(T)
  BY <1>3, FS_Surjection DEF OwnPurses
<1>5. SetToSeq(T) \in Seq(T) /\ ToSet(SetToSeq(T)) = T
  BY <1>4, InSomeOrder
<1>6. T \subseteq CoinRows
  BY <1>2 DEF CoinRows
<1>7. SetToSeq(T) \in Seq(CoinRows)
  BY <1>5, <1>6
<1>8. \A s \in Secrets(ps) : \E r \in T : r.y = s
  BY <1>2 DEF Secrets
<1>9. \A r \in T : r.y = r.proof.secret /\ r.state = state /\ r.proof \in ps
  BY <1>2
<1> HIDE DEF T
<1> QED BY <1>1, <1>5, <1>7, <1>8, <1>9

\* add_proofs for some of the wallet's proofs.
LEMMA AddingCalls ==
    ASSUME NEW ps \in OwnPurses, NEW state \in States
    PROVE  /\ Adding(ps, state) \in Seq(Calls)
           /\ \A c \in ToSet(Adding(ps, state)) :
                c.call = "add_proofs" /\ \A r \in ToSet(c.x) : r.y = r.proof.secret /\ r.proof \in ps
           /\ \A s \in Secrets(ps) : Adds(ToSet(Adding(ps, state)), s)
<1> DEFINE rows == Infos(ps, state)
           cs == PerRow("add_proofs", rows)
<1>1. Adding(ps, state) = cs
  BY DEF Adding
<1>2. /\ rows \in Seq(CoinRows)
      /\ \A r \in ToSet(rows) : r.y = r.proof.secret /\ r.proof \in ps
      /\ \A s \in Secrets(ps) : \E r \in ToSet(rows) : r.y = s
  BY InfosType
<1> HIDE DEF rows
<1>3. /\ \A c \in ToSet(cs) : c.call = "add_proofs" /\ c.y = None /\ c.x \in Seq(CoinRows)
                              /\ ToSet(c.x) \subseteq ToSet(rows)
      /\ \A c \in ToSet(cs) : c = Call("add_proofs", c.x, None)
      /\ \A r \in ToSet(rows) : \E c \in ToSet(cs) : r \in ToSet(c.x)
      /\ cs \in Seq(ToSet(cs))
  BY <1>2, PerRowElements
<1> HIDE DEF cs
<1>4. \A c \in ToSet(cs) : c \in Calls
  BY <1>3 DEF Calls, Call
<1>5. cs \in Seq(Calls)
  BY <1>3, <1>4
<1>6. \A s \in Secrets(ps) : Adds(ToSet(cs), s)
  BY <1>2, <1>3 DEF Adds
<1> QED BY <1>1, <1>2, <1>3, <1>5, <1>6

\* remove_proofs for some proofs.
LEMMA RemovingCalls ==
    ASSUME NEW ps \in Purses
    PROVE  /\ Removing(ps) \in Seq(Calls)
           /\ \A c \in ToSet(Removing(ps)) : c.call = "remove_proofs" /\ ToSet(c.x) \subseteq ps
<1> DEFINE rows == SetToSeq(ps)
           cs == PerRow("remove_proofs", rows)
           C == OwnCoins \cup ForeignCoins
<1>1. Removing(ps) = cs
  BY DEF Removing
<1>2. rows \in Seq(ps) /\ ToSet(rows) = ps
  BY InSomeOrder DEF Purses
<1>3. rows \in Seq(C)
  BY <1>2 DEF Purses
<1> HIDE DEF rows, C
<1>4. /\ \A c \in ToSet(cs) : c.call = "remove_proofs" /\ c.y = None /\ c.x \in Seq(C)
                              /\ ToSet(c.x) \subseteq ToSet(rows)
      /\ \A c \in ToSet(cs) : c = Call("remove_proofs", c.x, None)
      /\ cs \in Seq(ToSet(cs))
  BY <1>3, PerRowElements
<1> HIDE DEF cs
<1>5. \A c \in ToSet(cs) : c \in Calls
  BY <1>4 DEF Calls, Call, C
<1>6. cs \in Seq(Calls)
  BY <1>4, <1>5
<1> QED BY <1>1, <1>2, <1>4, <1>6

\* set_proof_state for some proofs.
LEMMA SettingCalls ==
    ASSUME NEW ps \in Purses, NEW state \in States
    PROVE  /\ Setting(ps, state) \in Seq(Calls)
           /\ \A c \in ToSet(Setting(ps, state)) : c.call = "set_proof_state"
<1> DEFINE rows == SetToSeq(ps)
           n == Len(rows)
           f == [i \in 1..n |-> Call("set_proof_state", rows[i].secret, state)]
<1>1. rows \in Seq(ps)
  BY InSomeOrder DEF Purses
<1>2. n \in Nat /\ DOMAIN rows = 1..n /\ \A i \in 1..n : rows[i] \in ps
  BY <1>1
<1>3. Setting(ps, state) = f
  BY <1>2 DEF Setting
<1> HIDE DEF rows, n
<1>4. \A i \in 1..n : rows[i].secret \in Secrets(OwnCoins \cup ForeignCoins)
  BY <1>2 DEF Purses, Secrets
<1>5. \A i \in 1..n : /\ Call("set_proof_state", rows[i].secret, state) \in Calls
                      /\ Call("set_proof_state", rows[i].secret, state).call = "set_proof_state"
  BY <1>4 DEF Call, Calls
<1>6. f \in [1..n -> Calls] /\ \A i \in 1..n : f[i].call = "set_proof_state"
  BY <1>5
<1> HIDE DEF f
<1>7. f \in Seq(Calls) /\ DOMAIN f = 1..n
  BY <1>2, <1>6
<1> QED BY <1>3, <1>6, <1>7 DEF ToSet

\* increment_keyset_counter.
LEMMA IncrementCalls ==
    ASSUME NEW k \in ToSet(Chain), NEW n \in Nat
    PROVE  /\ Increment(k, n) \in Seq(Calls)
           /\ \A c \in ToSet(Increment(k, n)) : c = Call("increment_keyset_counter", k, n)
           /\ \A c \in ToSet(Increment(k, n)) : c.call = "increment_keyset_counter"
<1> DEFINE c == Call("increment_keyset_counter", k, n)
<1>1. c \in Calls /\ c.call = "increment_keyset_counter"
  BY DEF Calls, Call
<1> HIDE DEF c
<1>2. Increment(k, n) = <<c>>
  BY DEF Increment, c
<1> QED BY <1>1, <1>2 DEF ToSet, c

-----------------------------------------------------------------------------
(* What a store holds is well formed *)

CoinsOK(t) ==
    /\ IsFiniteSet(DOMAIN t)
    /\ \A y \in DOMAIN t : t[y] \in CoinRows /\ t[y].y = y
QuotesOK(t) == \A q \in DOMAIN t : t[q] \in MintQuoteRows /\ t[q].id = q
MeltsOK(t) == \A q \in DOMAIN t : t[q] \in MeltQuoteRows /\ t[q].id = q

Sound(st, d) ==
    /\ Shaped(st, d) /\ Listed(st, Registry(st, d))
    /\ CoinsOK(Coins(st, d)) /\ QuotesOK(Quotes(st, d)) /\ MeltsOK(Melts(st, d))

\* A new store is sound.
LEMMA NewIsSound ==
    ASSUME NEW st \in WalletStores
    PROVE  Sound(st, New(st))
<1>1. IsFiniteSet({})
  BY FS_EmptySet
<1> QED BY <1>1, NewStore DEF Sound, CoinsOK, QuotesOK, MeltsOK

\* Keysets written one after the other.
LEMMA RefreshedSelf ==
    ASSUME NEW st, NEW d, Shaped(st, d), Listed(st, Registry(st, d))
    PROVE  Refreshed(st, d, d)
BY DEF Refreshed

\* To write keysets twice is to write keysets.
LEMMA RefreshedTwice ==
    ASSUME NEW st, NEW d, NEW e, NEW f, Refreshed(st, d, e), Refreshed(st, e, f)
    PROVE  Refreshed(st, d, f)
BY DEF Refreshed

\* A store stays sound when only its keysets are written.
LEMMA RefreshedSound ==
    ASSUME NEW st, NEW d, NEW e, Sound(st, d), Refreshed(st, d, e)
    PROVE  Sound(st, e)
BY DEF Refreshed, Sound

\* What the mint answers are rows of its keysets.
LEMMA MintKeysetsType ==
    ASSUME active \in 1..Len(Chain)
    PROVE  MintKeysets \in Seq(KeysetRows) /\ Chain[active] \in ToSet(Chain)
<1>1. Len(Chain) \in Nat /\ DOMAIN Chain = 1..Len(Chain)
  BY WalletAssumption
<1>2. \A i \in 1..active : Chain[i] \in ToSet(Chain)
  BY <1>1 DEF ToSet
<1>3. \A i \in 1..active : [id |-> Chain[i], unit |-> Unit, active |-> i = active] \in KeysetRows
  BY <1>2 DEF KeysetRows
<1>4. MintKeysets \in [1..active -> KeysetRows]
  BY <1>3 DEF MintKeysets
<1>5. active \in Nat /\ active \in 1..active
  BY <1>1
<1> QED BY <1>2, <1>4, <1>5

\* add_mint touches neither proofs nor quotes.
LEMMA EnsureMintType ==
    ASSUME store \in WalletStores, NEW d, Shaped(store, d), Listed(store, Registry(store, d)), NEW info
    PROVE  Refreshed(store, d, EnsureMint(d, info).db)
<1>1. CASE GetMint(store, d, Url) = None
  BY <1>1, MintWritten DEF EnsureMint
<1>2. CASE GetMint(store, d, Url) # None
  BY <1>2, RefreshedSelf DEF EnsureMint, Ok
<1> QED BY <1>1, <1>2

\* The active keyset, cached or fetched, is one of the mint's.
LEMMA ActiveKeysetType ==
    ASSUME store \in WalletStores, active \in 1..Len(Chain), NEW d, Shaped(store, d),
           Listed(store, Registry(store, d))
    PROVE  /\ Refreshed(store, d, ActiveMintKeyset(d).db)
           /\ ActiveMintKeyset(d).id \in ToSet(Chain)
<1> DEFINE infos == GetMintKeysets(store, d, Url)
           cached == IF infos = None THEN {} ELSE {k \in infos : k.active}
           added == AddMintKeysets(store, d, Url, MintKeysets)
<1>1. CASE cached # {}
  <2>1. infos # None
    BY <1>1
  <2>2. \A i \in cached : i.id \in ToSet(Chain)
    BY <2>1, KeysetsRead
  <2>3. ActiveMintKeyset(d) = [ok |-> TRUE, db |-> d, id |-> (CHOOSE k \in cached : TRUE).id]
    BY <1>1 DEF ActiveMintKeyset
  <2> HIDE DEF cached
  <2>4. (CHOOSE k \in cached : TRUE) \in cached
    BY <1>1
  <2> QED BY <2>2, <2>3, <2>4, RefreshedSelf
<1>2. CASE cached = {}
  <2>1. ActiveMintKeyset(d) = [ok |-> added.ok, db |-> added.db, id |-> Chain[active]]
    BY <1>2 DEF ActiveMintKeyset
  <2>2. Refreshed(store, d, added.db)
    BY MintKeysetsType, KeysetsWritten
  <2> HIDE DEF added
  <2> QED BY <2>1, <2>2, MintKeysetsType
<1> QED BY <1>1, <1>2

\* So does looking up the keysets of the mint.
LEMMA KnownKeysetsType ==
    ASSUME store \in WalletStores, active \in 1..Len(Chain), NEW d, Shaped(store, d),
           Listed(store, Registry(store, d))
    PROVE  Refreshed(store, d, KnownKeysets(d).db)
<1> DEFINE infos == GetMintKeysets(store, d, Url)
           added == AddMintKeysets(store, d, Url, MintKeysets)
<1>1. Refreshed(store, d, added.db)
  BY MintKeysetsType, KeysetsWritten
<1>2. \/ KnownKeysets(d) = [ok |-> TRUE, db |-> d, infos |-> infos]
      \/ KnownKeysets(d) = [ok |-> added.ok, db |-> added.db, infos |-> ToSet(MintKeysets)]
  BY DEF KnownKeysets
<1> HIDE DEF added, infos
<1> QED BY <1>1, <1>2, RefreshedSelf

\* The next index of a keyset is a number.
LEMMA NextIndexType ==
    ASSUME store \in WalletStores, NEW d, Listed(store, Registry(store, d)), NEW k
    PROVE  NextIndex(d, k) \in Nat
<1>1. Count(store, d, k) \in Nat \cup {None}
  BY CountType
<1> QED BY <1>1, CounterRead DEF NextIndex

-----------------------------------------------------------------------------
(* Proofs that are read *)

\* A row that is read is still the row of its coin.
LEMMA ReadType ==
    ASSUME NEW st, NEW row \in ProofRows
    PROVE  /\ Read(st, row) \in ProofRows /\ Read(st, row).proof.secret = row.proof.secret
           /\ Read(st, row).y = row.y /\ Read(st, row).state = row.state
<1>1. row.proof \in OwnCoins /\ [row.proof EXCEPT !.dleq = None] \in OwnCoins
  BY DEF ProofRows, OwnCoins
<1>2. [row EXCEPT !.proof.dleq = None] = [row EXCEPT !.proof = [row.proof EXCEPT !.dleq = None]]
  BY DEF ProofRows
<1>3. [row.proof EXCEPT !.dleq = None].secret = row.proof.secret
  BY <1>1 DEF OwnCoins
<1> DEFINE bare == [row.proof EXCEPT !.dleq = None]
<1>4. bare \in OwnCoins /\ bare.secret = row.proof.secret
  BY <1>1, <1>3
<1>5. [row EXCEPT !.proof.dleq = None] = [row EXCEPT !.proof = bare]
  BY <1>2
<1> HIDE DEF bare
<1>6. /\ [row EXCEPT !.proof = bare] \in ProofRows /\ [row EXCEPT !.proof = bare].proof = bare
      /\ [row EXCEPT !.proof = bare].y = row.y /\ [row EXCEPT !.proof = bare].state = row.state
  BY <1>4 DEF ProofRows
<1>7. CASE st = "sqlite"
  BY <1>4, <1>5, <1>6, <1>7 DEF Read, Sqlite!ReadProofInfo
<1>8. CASE st # "sqlite"
  BY <1>8 DEF Read
<1> QED BY <1>7, <1>8

\* The proofs a store answers are the wallet's, and there is a row for each.
LEMMA StoredType ==
    ASSUME store \in WalletStores, NEW d, CoinsOK(Coins(store, d)), NEW states, NEW conds
    PROVE  /\ Stored(d, states, conds) \in OwnPurses
           /\ \A p \in Stored(d, states, conds) :
                /\ p.secret \in DOMAIN Coins(store, d)
                /\ p = Read(store, Coins(store, d)[p.secret]).proof
                /\ states # None => Coins(store, d)[p.secret].state \in states
<1> DEFINE t == Coins(store, d)
           Y == DOMAIN t
           u == [y \in Y |-> Read(store, t[y])]
           infos == GetProofs(store, d, Url, Unit, states, conds)
           R == {u[y] : y \in Y}
<1>1. infos = Matching(u, Url, Unit, states, conds)
  BY ProofsRead
<1>2. /\ IsFiniteSet(Y)
      /\ \A y \in Y : t[y] \in ProofRows /\ t[y].y = y /\ t[y].proof.secret = y
  BY DEF CoinsOK, CoinRows
<1> HIDE DEF t, Y, infos
<1>3. \A y \in Y : /\ u[y] \in ProofRows /\ u[y].proof.secret = y /\ u[y].y = y
                   /\ u[y].state = t[y].state /\ u[y].proof \in OwnCoins /\ u[y] = Read(store, t[y])
  BY <1>2, ReadType DEF ProofRows
<1>4. Rows(u) = R
  BY DEF Rows
<1>5. infos = None \/ infos \subseteq {r \in R : MatchesConditions(r, Url, Unit, states, conds)}
  BY <1>1, <1>4 DEF Matching, NoneIfEmpty
<1>6. infos # None => \A i \in infos : \E y \in Y : i = u[y] /\ (states # None => u[y].state \in states)
  BY <1>5 DEF MatchesConditions
<1> HIDE DEF u, R
<1> DEFINE S == Stored(d, states, conds)
<1>7. S = IF infos = None THEN {} ELSE {i.proof : i \in infos}
  BY DEF Stored, infos
<1>8. \A p \in S : \E y \in Y : p = u[y].proof /\ (states # None => u[y].state \in states)
  BY <1>6, <1>7
<1> HIDE DEF S
<1>9. \A p \in S : /\ p \in OwnCoins /\ p.secret \in Y /\ p = u[p.secret].proof
                   /\ states # None => t[p.secret].state \in states
  BY <1>3, <1>8
<1> DEFINE f == [y \in Y |-> u[y].proof]
           T == {u[y].proof : y \in Y}
<1>10. f \in Surjection(Y, T)
  BY DEF Surjection
<1>11. IsFiniteSet(T)
  <2> HIDE DEF f, T
  <2> QED BY <1>2, <1>10, FS_Surjection
<1>12. S \subseteq T
  BY <1>8
<1>13. S \in OwnPurses
  <2> HIDE DEF T
  <2> QED BY <1>9, <1>11, <1>12, FS_Subset DEF OwnPurses
<1> QED BY <1>3, <1>9, <1>13 DEF S, t, Y

\* Asked for every row it answers every coin.
LEMMA AllStored ==
    ASSUME NoneIsNoList, store \in WalletStores, NEW d, CoinsOK(Coins(store, d))
    PROVE  Secrets(Stored(d, None, None)) = DOMAIN Coins(store, d)
<1> DEFINE t == Coins(store, d)
           Y == DOMAIN t
           u == [y \in Y |-> Read(store, t[y])]
           infos == GetProofs(store, d, Url, Unit, None, None)
           R == {u[y] : y \in Y}
<1>1. infos = Matching(u, Url, Unit, None, None)
  BY ProofsRead
<1>2. \A y \in Y : t[y] \in ProofRows /\ t[y].proof.secret = y
  BY DEF CoinsOK, CoinRows
<1> HIDE DEF t, Y, infos
<1>3. \A y \in Y : u[y] \in ProofRows /\ u[y].proof.secret = y
  BY <1>2, ReadType
<1>4. Rows(u) = R
  BY DEF Rows
<1>5. \A r \in ProofRows : MatchesConditions(r, Url, Unit, None, None)
  BY DEF MatchesConditions, ProofRows
<1>6. {r \in R : MatchesConditions(r, Url, Unit, None, None)} = R
  BY <1>3, <1>5
<1>7. infos = NoneIfEmpty(R)
  BY <1>1, <1>4, <1>6 DEF Matching
<1>8. R # None
  BY <1>3 DEF NoneIsNoList
<1>9. Stored(d, None, None) = {r.proof : r \in R}
  <2>1. Stored(d, None, None) = IF infos = None THEN {} ELSE {i.proof : i \in infos}
    BY DEF Stored, infos
  <2> HIDE DEF R
  <2>2. CASE R = {}
    BY <1>7, <2>1, <2>2 DEF NoneIfEmpty
  <2>3. CASE R # {}
    BY <1>7, <1>8, <2>1, <2>3 DEF NoneIfEmpty
  <2> QED BY <2>2, <2>3
<1>10. Secrets({r.proof : r \in R}) = {r.proof.secret : r \in R}
  BY DEF Secrets
<1>11. {r.proof.secret : r \in R} = {u[y].proof.secret : y \in Y}
  OBVIOUS
<1>12. {u[y].proof.secret : y \in Y} = Y
  <2> HIDE DEF u
  <2> QED BY <1>3
<1> QED BY <1>9, <1>10, <1>11, <1>12 DEF Y, t

-----------------------------------------------------------------------------
(* Proofs that are taken *)

\* What Wallet::select_proofs takes with a condition is the wallet's.
LEMMA SelectLockedType ==
    ASSUME store \in WalletStores, NEW d, CoinsOK(Coins(store, d)), NEW infos, NEW amount, NEW cond,
           NEW ps \in SelectLocked(d, infos, amount, cond)
    PROVE  ps \in OwnPurses
<1>1. {} \in OwnPurses
  BY FS_EmptySet DEF OwnPurses
<1>2. CASE cond = None
  BY <1>1, <1>2 DEF SelectLocked
<1>3. CASE cond # None
  <2>1. ps \subseteq Stored(d, {"Unspent"}, {cond})
    BY <1>3 DEF SelectLocked, Fitting
  <2> QED BY <2>1, StoredType, PartOfPurse
<1> QED BY <1>2, <1>3

\* What it takes without one is the wallet's and unspent.
LEMMA SelectionsType ==
    ASSUME store \in WalletStores, NEW d, CoinsOK(Coins(store, d)), NEW infos, NEW amount, NEW locked,
           NEW ps \in Selections(d, infos, amount, locked)
    PROVE  ps \in OwnPurses /\ ps \subseteq Unspent(d)
<1>1. ps \subseteq Unspent(d)
  BY DEF Selections
<1> QED BY <1>1, StoredType, PartOfPurse DEF Unspent

\* What a send hands out is part of what it holds.
LEMMA ToSendType ==
    ASSUME NEW proofs \in OwnPurses, NEW want, NEW send \in ToSend(proofs, want)
    PROVE  send \in OwnPurses /\ send \subseteq proofs
<1> DEFINE locked == {p \in proofs : Lock(p.secret) # None}
<1>1. send \subseteq proofs
  <2>1. locked \subseteq proofs
    OBVIOUS
  <2>2. ToSend(proofs, want) = IF want = None THEN {{}}
          ELSE {locked \cup ps : ps \in Fitting({}, proofs \ locked, Amount(locked), want)}
    BY DEF ToSend
  <2> HIDE DEF locked
  <2>3. CASE want = None
    BY <2>2, <2>3
  <2>4. CASE want # None
    <3>1. PICK ps \in Fitting({}, proofs \ locked, Amount(locked), want) : send = locked \cup ps
      BY <2>2, <2>4
    <3>2. ps \subseteq proofs \ locked
      BY DEF Fitting
    <3> QED BY <2>1, <3>1, <3>2
  <2> QED BY <2>3, <2>4
<1> QED BY <1>1, PartOfPurse

\* What the mint signs.
SignedOK(table) == \A s \in DOMAIN table : table[s].amount \in Nat

\* Signing a list of outputs adds their secrets to the signed ones.
LEMMA SignAllType ==
    ASSUME NEW table, SignedOK(table), NEW outs \in Seq(Outputs), NEW k
    PROVE  /\ SignedOK(SignAll(table, outs, k))
           /\ DOMAIN SignAll(table, outs, k) = DOMAIN table \cup Secrets(ToSet(outs))
<1> DEFINE T == ToSet(outs)
           new(s) == CHOOSE x \in T : x.secret = s
           f == [s \in DOMAIN table \cup Secrets(T) |->
                   IF s \in DOMAIN table THEN table[s]
                   ELSE [amount |-> new(s).amount, keyset_id |-> k]]
<1>1. SignAll(table, outs, k) = f
  BY DEF SignAll
<1>2. T \subseteq Outputs
  BY Elements
<1> HIDE DEF T
<1>3. \A s \in Secrets(T) : new(s) \in T
  BY DEF Secrets
<1>4. \A s \in Secrets(T) : new(s).amount \in Nat
  BY <1>2, <1>3 DEF Outputs
<1> HIDE DEF new
<1>5. DOMAIN f = DOMAIN table \cup Secrets(T)
  OBVIOUS
<1>6. SignedOK(f)
  BY <1>4 DEF SignedOK
<1> QED BY <1>1, <1>5, <1>6 DEF T

-----------------------------------------------------------------------------
(* The invariants *)

OpNames == {"idle", "mint", "check", "swap", "send", "melt", "receive", "restore", "pending"}
Places == {"idle", "post", "answered", "write", "unpaid", "paid", "post_melt", "melted", "batch"}
Nexts == {"finish", "hand", "melt", "entry", "state", "batch"}
Subjects == MintQuotes \cup MeltQuotes \cup Notes \cup {None}
KeysetOrNone == ToSet(Chain) \cup {None}
WantOrNone == Int \cup {None}
LockOrNone == Locks \cup {None}
OutputLists == Seq(Outputs)
CallLists == Seq(Calls)
Remainders == Seq(Purses) \cup Seq(ToSet(Chain))

TaskStates ==
    [op : OpNames, at : Places, id : Subjects, k : KeysetOrNone, ins : Purses, outs : OutputLists,
     want : WantOrNone, cond : LockOrNone, held : OwnPurses, todo : CallLists, next : Nexts,
     rest : Remainders, from : Nat, empty : Nat, expiry : Nat]

\* Where an operation of each kind can stand, and what it has at hand there.
Control(x) ==
    /\ x.op = "idle" => x = Idle
    /\ x.at \in {"post", "answered", "post_melt", "melted"} => x.k \in ToSet(Chain)
    /\ x.at \in {"post", "answered"} => x.op \in {"mint", "swap", "send", "melt", "receive"}
    /\ x.at \in {"post_melt", "melted"} => x.op = "melt"
    /\ x.at \in {"unpaid", "paid"} => x.op = "check" /\ x.id \in MintQuotes
    /\ x.at = "batch" => x.op = "restore"
    /\ x.op = "mint" => x.id \in MintQuotes \cup Notes /\ x.ins = {}
    /\ x.op = "melt" => x.id \in MeltQuotes
    /\ x.op = "check" => x.at \in {"unpaid", "paid"}
    /\ x.op = "restore" => x.rest \in Seq(ToSet(Chain)) /\ x.ins = {} /\ x.at \in {"write", "batch"}
    /\ x.op = "receive" /\ x.at = "write" => x.outs = <<>> /\ x.ins = {}
    /\ x.next = "entry" => x.op = "receive" /\ x.rest \in Seq(Purses)
    /\ x.op = "receive" => x.next \in {"entry", "finish"}
    /\ x.op = "receive" /\ x.next = "finish" => x.at = "write"
    /\ x.next \in {"state", "batch"} => x.op = "restore" /\ x.k \in ToSet(Chain)
    /\ x.next = "melt" => x.op = "melt"
    /\ x.next = "hand" => x.op = "send"

QuoteStates == {"none", "unpaid", "paid", "issued"}

TypeOK ==
    /\ store \in WalletStores /\ Sound(store, db)
    /\ task \in [Tasks -> TaskStates] /\ \A t \in Tasks : Control(task[t])
    /\ random \in Nat
    /\ SignedOK(signed)
    /\ quote \in [MintQuotes \cup MeltQuotes \cup Notes -> QuoteStates]
    /\ active \in 1..Len(Chain)
    /\ clock \in Nat
    /\ \A token \in tokens : token.entries \in Seq(Purses)

\* A quote the mint still waits for, or was paid for, is in the store.
Expected(q) ==
    quote[q] \in {"unpaid", "paid"} /\ ExpiryOf[q] > clock /\ ~wiped
        => q \in DOMAIN Quotes(store, db)

\* Of a task that stands at x: what it checks of a quote is its expiry, and
\* only a quote that was minted goes otherwise.
Due(x, quotes) ==
    /\ x.at \in {"unpaid", "paid"} => x.expiry = ExpiryOf[x.id]
    /\ x.op = "mint" /\ x.at = "answered" => quotes[x.id] = "issued"
    /\ \A c \in ToSet(x.todo) : c.call = "remove_mint_quote" => quotes[c.x] = "issued"

QuotesKept ==
    /\ \A q \in MintQuotes : Expected(q)
    /\ \A q \in DOMAIN Quotes(store, db) : Quotes(store, db)[q].expiry = ExpiryOf[q]
    /\ \A t \in Tasks : Due(task[t], quote)

Keys == DOMAIN Coins(store, db)

\* AtStake, of a task that stands at x.
Stake(x) ==
    (IF x.at \in {"answered", "melted", "write"} THEN Secrets(x.ins) \cup Secrets(ToSet(x.outs)) ELSE {})
    \cup (IF x.op = "receive" THEN Secrets(x.held) ELSE {})

\* A secret that is spent, stored, or about to be written.
SafeIn(s, x, gone, keys) == s \in gone \/ s \in keys \/ Adds(ToSet(x.todo), s)

\* Of a task that stands at x: what it removes is spent, and what it got is
\* stored, spent, or about to be written.
Settled(x, gone, keys) ==
    /\ x.at \in {"answered", "melted", "write"} => Secrets(x.ins) \subseteq gone
    /\ \A s : Removes(ToSet(x.todo), s) => s \in gone
    /\ x.at = "write" /\ x.op # "receive" /\ x.next # "state" =>
         \A s \in Secrets(ToSet(x.outs)) : SafeIn(s, x, gone, keys)
    /\ x.at = "write" /\ x.op = "receive" /\ x.next = "finish" =>
         \A s \in Secrets(x.held) : SafeIn(s, x, gone, keys)

Somewhere ==
    \A s \in DOMAIN signed \ spent :
        \/ s \in adrift \/ s \in TokenSecrets \/ s \in Secrets(ForeignCoins) \/ s \in Keys
        \/ \E t \in Tasks : s \in Stake(task[t])

CoinsKept == Somewhere /\ \A t \in Tasks : Settled(task[t], spent, Keys)

-----------------------------------------------------------------------------
(* What each action does *)

\* Where a task stands after it moved.
LEMMA GotoDoes ==
    ASSUME task \in [Tasks -> TaskStates], NEW t \in Tasks, NEW x, Goto(t, x)
    PROVE  /\ task'[t] = x /\ \A u \in Tasks : u # t => task'[u] = task[u]
           /\ x \in TaskStates => task' \in [Tasks -> TaskStates]
BY DEF Goto

\* The rest of a typed state, when one task moved.
LEMMA MovedType ==
    ASSUME TypeOK, NEW t \in Tasks, NEW x \in TaskStates, Control(x), Goto(t, x),
           store' = store, Sound(store, db'), random' \in Nat, SignedOK(signed'),
           quote' \in [MintQuotes \cup MeltQuotes \cup Notes -> QuoteStates],
           UNCHANGED <<active, clock>>, \A token \in tokens' : token.entries \in Seq(Purses)
    PROVE  TypeOK'
<1>1. /\ task'[t] = x /\ \A u \in Tasks : u # t => task'[u] = task[u]
      /\ task' \in [Tasks -> TaskStates]
  BY GotoDoes DEF TypeOK
<1>2. \A u \in Tasks : Control(task'[u])
  BY <1>1 DEF TypeOK
<1> QED BY <1>1, <1>2 DEF TypeOK

\* An idle task is typed.
LEMMA IdleType == Idle \in TaskStates /\ Control(Idle)
<1>1. {} \in Purses /\ {} \in OwnPurses
  BY FS_EmptySet DEF Purses, OwnPurses
<1>2. \A S : <<>> \in Seq(S)
  OBVIOUS
<1>3. Idle \in TaskStates
  BY <1>1, <1>2 DEF Idle, TaskStates, OpNames, Places, Nexts, Subjects, KeysetOrNone, WantOrNone, LockOrNone,
         OutputLists, CallLists, Remainders
<1> QED BY <1>3 DEF Idle, Control

\* An operation that ends where it stands.
LEMMA EndType ==
    ASSUME TypeOK, NEW t \in Tasks, End(t), UNCHANGED <<store, active, clock>>,
           Sound(store, db'), random' \in Nat, SignedOK(signed'),
           quote' \in [MintQuotes \cup MeltQuotes \cup Notes -> QuoteStates],
           \A token \in tokens' : token.entries \in Seq(Purses)
    PROVE  TypeOK'
BY IdleType, MovedType DEF End

\* create_swap was called and base goes on, with outputs for the mint to sign.
SwapBegun(t, base) ==
    /\ Refreshed(store, db, db') /\ random' \in Nat
    /\ \E k \in ToSet(Chain), outs \in Seq(Outputs), ins \in Purses, want \in Int \cup {None},
          cond \in Locks \cup {None} :
         Goto(t, [base EXCEPT !.at = "post", !.k = k, !.ins = ins, !.want = want,
                              !.cond = cond, !.outs = outs])

\* Wallet::create_swap leaves a task at its request with proofs and outputs.
LEMMA CreateSwapDoes ==
    ASSUME TypeOK, NEW t \in Tasks, NEW base, NEW d, Refreshed(store, db, d), NEW ins \in Purses,
           NEW want \in Int \cup {None}, NEW cond \in Locks \cup {None},
           CreateSwap(t, base, d, ins, want, cond)
    PROVE  SwapBegun(t, base)
<1> DEFINE a == ActiveMintKeyset(d)
           count == NextIndex(a.db, a.id)
           amount == IF want = None THEN Amount(ins) ELSE want
           desired == IF cond = None THEN FromXpriv(a.id, count, amount)
                      ELSE WithConditions(cond, amount)
           from == IF cond = None THEN count + Len(desired) ELSE count
           change == FromXpriv(a.id, from, Amount(ins) - amount)
<1>1. /\ db' = a.db
      /\ random' = IF cond = None THEN random ELSE random + Len(desired)
      /\ Goto(t, [base EXCEPT !.at = "post", !.k = a.id, !.ins = ins, !.want = want,
                              !.cond = cond, !.outs = BySize(desired \o change)])
  BY DEF CreateSwap
<1>2. store \in WalletStores /\ active \in 1..Len(Chain) /\ random \in Nat
  BY DEF TypeOK
<1>3. Shaped(store, d) /\ Listed(store, Registry(store, d))
  BY DEF Refreshed
<1>4. Refreshed(store, d, a.db) /\ a.id \in ToSet(Chain)
  BY <1>2, <1>3, ActiveKeysetType
<1>5. Refreshed(store, db, db')
  BY <1>1, <1>4, RefreshedTwice
<1>6. count \in Nat
  BY <1>2, <1>4, NextIndexType DEF Refreshed
<1>7. amount \in Int /\ Amount(ins) - amount \in Int
  BY AmountType
<1> HIDE DEF a, count, amount
<1>8. desired \in Seq(Outputs) /\ (cond # None => random + Len(desired) \in Nat)
  <2>1. CASE cond = None
    BY <1>4, <1>6, <1>7, <2>1, XprivType
  <2>2. CASE cond # None
    <3>1. WithConditions(cond, amount) \in Seq(Outputs)
      BY <1>2, <1>7, <2>2, ConditionsType
    <3> QED BY <1>2, <2>2, <3>1
  <2> QED BY <2>1, <2>2
<1> HIDE DEF desired
<1>9. from \in Nat
  BY <1>6, <1>8
<1> HIDE DEF from
<1>10. change \in Seq(Outputs)
  BY <1>4, <1>7, <1>9, XprivType
<1> HIDE DEF change
<1>11. BySize(desired \o change) \in Seq(Outputs)
  <2> DEFINE S == Outputs
             outs == desired \o change
  <2>1. outs \in Seq(S)
    BY <1>8, <1>10
  <2> HIDE DEF S, outs
  <2>2. BySize(outs) \in Seq(S)
    BY <2>1, BySizeType
  <2> QED BY <2>2 DEF S, outs
<1>12. random' \in Nat
  BY <1>1, <1>2, <1>8
<1> QED BY <1>1, <1>4, <1>5, <1>11, <1>12 DEF SwapBegun

-----------------------------------------------------------------------------
(* What a method that writes leaves of a sound store *)

QuotePut(st, d, e, row) ==
    /\ Sound(st, e) /\ Coins(st, e) = Coins(st, d)
    /\ DOMAIN Quotes(st, e) = DOMAIN Quotes(st, d) \cup {row.id}
    /\ \A q \in DOMAIN Quotes(st, e) :
         Quotes(st, e)[q] = IF q = row.id THEN row ELSE Quotes(st, d)[q]

QuoteGone(st, d, e, id) ==
    /\ Sound(st, e) /\ Coins(st, e) = Coins(st, d)
    /\ DOMAIN Quotes(st, e) = DOMAIN Quotes(st, d) \ {id}
    /\ \A q \in DOMAIN Quotes(st, e) : Quotes(st, e)[q] = Quotes(st, d)[q]

CoinsPut(st, d, e, rows) ==
    /\ Sound(st, e) /\ Quotes(st, e) = Quotes(st, d) /\ Registry(st, e) = Registry(st, d)
    /\ DOMAIN Coins(st, e) = DOMAIN Coins(st, d) \cup {r.y : r \in ToSet(rows)}
    /\ \A y \in DOMAIN Coins(st, e) :
         \/ y \in DOMAIN Coins(st, d) /\ Coins(st, e)[y] = Coins(st, d)[y]
            /\ y \notin {r.y : r \in ToSet(rows)}
         \/ \E r \in ToSet(rows) : r.y = y /\ Coins(st, e)[y] = r

CoinsGone(st, d, e, proofs) ==
    /\ Sound(st, e) /\ Quotes(st, e) = Quotes(st, d) /\ Registry(st, e) = Registry(st, d)
    /\ DOMAIN Coins(st, e) = DOMAIN Coins(st, d) \ Secrets(ToSet(proofs))
    /\ \A y \in DOMAIN Coins(st, e) : Coins(st, e)[y] = Coins(st, d)[y]

CoinMarked(st, d, e, y, state) ==
    /\ Sound(st, e) /\ Quotes(st, e) = Quotes(st, d) /\ Registry(st, e) = Registry(st, d)
    /\ DOMAIN Coins(st, e) = DOMAIN Coins(st, d)
    /\ \A x \in DOMAIN Coins(st, d) :
         Coins(st, e)[x] = IF x = y THEN [Coins(st, d)[x] EXCEPT !.state = state]
                           ELSE Coins(st, d)[x]

\* add_mint_quote puts one row.
LEMMA QuoteWrites ==
    ASSUME NEW st \in WalletStores, NEW d, Sound(st, d), NEW row \in MintQuoteRows
    PROVE  QuotePut(st, d, AddMintQuote(st, d, row).db, row)
<1> DEFINE e == AddMintQuote(st, d, row).db
<1>1. Shaped(st, e) /\ View(st, e) = [View(st, d) EXCEPT !.quotes = Upsert(@, row.id, row)]
  BY QuoteWritten DEF Sound
<1> HIDE DEF e
<1>2. /\ Coins(st, e) = Coins(st, d) /\ Melts(st, e) = Melts(st, d) /\ Registry(st, e) = Registry(st, d)
      /\ Quotes(st, e) = Upsert(Quotes(st, d), row.id, row)
  BY <1>1 DEF View
<1>3. /\ DOMAIN Quotes(st, e) = DOMAIN Quotes(st, d) \cup {row.id}
      /\ \A q \in DOMAIN Quotes(st, e) :
           Quotes(st, e)[q] = IF q = row.id THEN row ELSE Quotes(st, d)[q]
  BY <1>2 DEF Upsert
<1>4. QuotesOK(Quotes(st, e))
  BY <1>3 DEF Sound, QuotesOK
<1>5. Sound(st, e)
  BY <1>1, <1>2, <1>4 DEF Sound
<1> QED BY <1>2, <1>3, <1>5 DEF e, QuotePut

\* remove_mint_quote takes one row away.
LEMMA QuoteRemoves ==
    ASSUME NEW st \in WalletStores, NEW d, Sound(st, d), NEW id
    PROVE  /\ RemoveMintQuote(st, d, id).ok
           /\ QuoteGone(st, d, RemoveMintQuote(st, d, id).db, id)
<1> DEFINE e == RemoveMintQuote(st, d, id).db
           ks == {id}
<1>1. /\ RemoveMintQuote(st, d, id).ok /\ Shaped(st, e)
      /\ View(st, e) = [View(st, d) EXCEPT !.quotes = Without(@, ks)]
  <2>1. Shaped(st, d)
    BY DEF Sound
  <2> QED BY <2>1, QuoteRemoved
<1> HIDE DEF e
<1>2. /\ Coins(st, e) = Coins(st, d) /\ Melts(st, e) = Melts(st, d) /\ Registry(st, e) = Registry(st, d)
      /\ Quotes(st, e) = Without(Quotes(st, d), ks)
  BY <1>1 DEF View
<1>3. /\ DOMAIN Quotes(st, e) = DOMAIN Quotes(st, d) \ {id}
      /\ \A q \in DOMAIN Quotes(st, e) : Quotes(st, e)[q] = Quotes(st, d)[q]
  BY <1>2 DEF Without, Restrict
<1>4. QuotesOK(Quotes(st, e))
  BY <1>3 DEF Sound, QuotesOK
<1>5. Sound(st, e)
  BY <1>1, <1>2, <1>4 DEF Sound
<1> QED BY <1>1, <1>2, <1>3, <1>5 DEF e, QuoteGone

\* add_melt_quote leaves the proofs and the mint quotes.
LEMMA MeltWrites ==
    ASSUME NEW st \in WalletStores, NEW d, Sound(st, d), NEW row \in MeltQuoteRows
    PROVE  LET e == AddMeltQuote(st, d, row).db
           IN  Sound(st, e) /\ Coins(st, e) = Coins(st, d) /\ Quotes(st, e) = Quotes(st, d)
<1> DEFINE e == AddMeltQuote(st, d, row).db
<1>1. Shaped(st, e) /\ View(st, e) = [View(st, d) EXCEPT !.melts = Upsert(@, row.id, row)]
  BY MeltWritten DEF Sound
<1> HIDE DEF e
<1>2. /\ Coins(st, e) = Coins(st, d) /\ Quotes(st, e) = Quotes(st, d) /\ Registry(st, e) = Registry(st, d)
      /\ Melts(st, e) = Upsert(Melts(st, d), row.id, row)
  BY <1>1 DEF View
<1>3. MeltsOK(Melts(st, e))
  BY <1>2 DEF Sound, MeltsOK, Upsert
<1> QED BY <1>1, <1>2, <1>3 DEF Sound, e

\* So does remove_melt_quote.
LEMMA MeltRemoves ==
    ASSUME NEW st \in WalletStores, NEW d, Sound(st, d), NEW id
    PROVE  LET e == RemoveMeltQuote(st, d, id).db
           IN  RemoveMeltQuote(st, d, id).ok /\ Sound(st, e) /\ Coins(st, e) = Coins(st, d) /\ Quotes(st, e) = Quotes(st, d)
<1> DEFINE e == RemoveMeltQuote(st, d, id).db
           ks == {id}
<1>1. /\ RemoveMeltQuote(st, d, id).ok /\ Shaped(st, e)
      /\ View(st, e) = [View(st, d) EXCEPT !.melts = Without(@, ks)]
  <2>1. Shaped(st, d)
    BY DEF Sound
  <2> QED BY <2>1, MeltRemoved
<1> HIDE DEF e
<1>2. /\ Coins(st, e) = Coins(st, d) /\ Quotes(st, e) = Quotes(st, d) /\ Registry(st, e) = Registry(st, d)
      /\ Melts(st, e) = Without(Melts(st, d), ks)
  BY <1>1 DEF View
<1>3. MeltsOK(Melts(st, e))
  BY <1>2 DEF Sound, MeltsOK, Without, Restrict
<1> QED BY <1>1, <1>2, <1>3 DEF Sound, e

\* add_proofs puts rows of proofs.
LEMMA CoinsWrites ==
    ASSUME NEW st \in WalletStores, NEW d, Sound(st, d), NEW rows \in Seq(CoinRows)
    PROVE  /\ AddProofs(st, d, rows).ok
           /\ CoinsPut(st, d, AddProofs(st, d, rows).db, rows)
<1> DEFINE e == AddProofs(st, d, rows).db
           n == Len(rows)
           Y == {r.y : r \in ToSet(rows)}
<1>0. n \in Nat /\ DOMAIN rows = 1..n
  OBVIOUS
<1>1. /\ AddProofs(st, d, rows).ok /\ Shaped(st, e)
      /\ View(st, e) = [View(st, d) EXCEPT !.coins = Upserted(@, rows)]
  BY ProofsWritten DEF Sound
<1> HIDE DEF e, n
<1>2. /\ Quotes(st, e) = Quotes(st, d) /\ Melts(st, e) = Melts(st, d) /\ Registry(st, e) = Registry(st, d)
      /\ Coins(st, e) = Upserted(Coins(st, d), rows)
  BY <1>1 DEF View
<1>3. /\ DOMAIN Coins(st, e) = DOMAIN Coins(st, d) \cup Y
      /\ \A y \in DOMAIN Coins(st, e) :
           \/ y \in DOMAIN Coins(st, d) /\ Coins(st, e)[y] = Coins(st, d)[y] /\ y \notin Y
           \/ \E r \in ToSet(rows) : r.y = y /\ Coins(st, e)[y] = r
  <2>1. Left(Upserted(Coins(st, d), rows), Coins(st, d), rows)
    BY <1>0, RowsUpserted
  <2>2. Left(Coins(st, e), Coins(st, d), rows)
    BY <1>2, <2>1
  <2> QED BY <2>2 DEF Left
<1>4. ToSet(rows) \subseteq CoinRows /\ IsFiniteSet(ToSet(rows))
  BY Elements
<1>5. IsFiniteSet(Y)
  <2> DEFINE f == [r \in ToSet(rows) |-> r.y]
  <2>1. f \in Surjection(ToSet(rows), Y)
    BY DEF Surjection
  <2> HIDE DEF f, Y
  <2> QED BY <1>4, <2>1, FS_Surjection
<1> HIDE DEF Y
<1>6. IsFiniteSet(DOMAIN Coins(st, d)) /\ \A y \in DOMAIN Coins(st, d) : Coins(st, d)[y] \in CoinRows /\ Coins(st, d)[y].y = y
  BY DEF Sound, CoinsOK
<1>7. IsFiniteSet(DOMAIN Coins(st, e))
  <2>1. IsFiniteSet(DOMAIN Coins(st, d) \cup Y)
    BY <1>5, <1>6, FS_Union
  <2> QED BY <1>3, <2>1
<1>8. \A y \in DOMAIN Coins(st, e) : Coins(st, e)[y] \in CoinRows /\ Coins(st, e)[y].y = y
  BY <1>3, <1>4, <1>6
<1>9. CoinsOK(Coins(st, e))
  BY <1>7, <1>8 DEF CoinsOK
<1>10. Sound(st, e)
  BY <1>1, <1>2, <1>9 DEF Sound
<1> QED BY <1>1, <1>2, <1>3, <1>10 DEF e, Y, CoinsPut

\* remove_proofs takes rows of proofs away.
LEMMA CoinsRemoves ==
    ASSUME NEW st \in WalletStores, NEW d, Sound(st, d), NEW proofs
    PROVE  /\ RemoveProofs(st, d, proofs).ok
           /\ CoinsGone(st, d, RemoveProofs(st, d, proofs).db, proofs)
<1> DEFINE e == RemoveProofs(st, d, proofs).db
           Y == Secrets(ToSet(proofs))
<1>1. /\ RemoveProofs(st, d, proofs).ok /\ Shaped(st, e)
      /\ View(st, e) = [View(st, d) EXCEPT !.coins = Without(@, Y)]
  BY ProofsRemoved DEF Sound
<1> HIDE DEF e, Y
<1>2. /\ Quotes(st, e) = Quotes(st, d) /\ Melts(st, e) = Melts(st, d) /\ Registry(st, e) = Registry(st, d)
      /\ Coins(st, e) = Without(Coins(st, d), Y)
  BY <1>1 DEF View
<1>3. /\ DOMAIN Coins(st, e) = DOMAIN Coins(st, d) \ Y
      /\ \A y \in DOMAIN Coins(st, e) : Coins(st, e)[y] = Coins(st, d)[y]
  BY <1>2 DEF Without, Restrict
<1>4. IsFiniteSet(DOMAIN Coins(st, e))
  BY <1>3, FS_Subset DEF Sound, CoinsOK
<1>5. CoinsOK(Coins(st, e))
  BY <1>3, <1>4 DEF Sound, CoinsOK
<1>6. Sound(st, e)
  BY <1>1, <1>2, <1>5 DEF Sound
<1> QED BY <1>1, <1>2, <1>3, <1>6 DEF e, Y, CoinsGone

\* set_proof_state changes one state.
LEMMA CoinsMarked ==
    ASSUME NEW st \in WalletStores, NEW d, Sound(st, d), NEW y, NEW state \in States
    PROVE  CoinMarked(st, d, SetProofState(st, d, y, state).db, y, state)
<1> DEFINE e == SetProofState(st, d, y, state).db
<1>1. \A x \in DOMAIN Coins(st, d) : Coins(st, d)[x] # None /\ Coins(st, d)[x] \in ProofRows
  BY NoneAssumption DEF Sound, CoinsOK, CoinRows
<1>2. /\ Shaped(st, e)
      /\ View(st, e) = [View(st, d) EXCEPT !.coins = Marked(@, y, state)]
  BY <1>1, StateWritten DEF Sound
<1> HIDE DEF e
<1>3. /\ Quotes(st, e) = Quotes(st, d) /\ Melts(st, e) = Melts(st, d) /\ Registry(st, e) = Registry(st, d)
      /\ Coins(st, e) = Marked(Coins(st, d), y, state)
  BY <1>2 DEF View
<1> DEFINE t == Coins(st, d)
<1>4. /\ DOMAIN Coins(st, e) = DOMAIN t
      /\ \A x \in DOMAIN t : Coins(st, e)[x] = IF x = y THEN [t[x] EXCEPT !.state = state] ELSE t[x]
  <2> HIDE DEF t
  <2> QED BY <1>3 DEF Marked, t
<1>5. \A row \in CoinRows : [row EXCEPT !.state = state] \in CoinRows /\ [row EXCEPT !.state = state].y = row.y
  BY DEF CoinRows, ProofRows
<1>6. \A x \in DOMAIN t : t[x] \in CoinRows /\ t[x].y = x
  BY DEF Sound, CoinsOK
<1>7. \A x \in DOMAIN t : Coins(st, e)[x] \in CoinRows /\ Coins(st, e)[x].y = x
  <2> HIDE DEF t
  <2> QED BY <1>4, <1>5, <1>6
<1>8. IsFiniteSet(DOMAIN t)
  BY DEF Sound, CoinsOK
<1> HIDE DEF t
<1>9. CoinsOK(Coins(st, e))
  BY <1>4, <1>7, <1>8 DEF CoinsOK
<1>10. Sound(st, e)
  BY <1>2, <1>3, <1>9 DEF Sound
<1> QED BY <1>3, <1>4, <1>10 DEF e, t, CoinMarked

\* increment_keyset_counter leaves the proofs and the quotes.
LEMMA CounterWrites ==
    ASSUME NEW st \in WalletStores, NEW d, Sound(st, d), NEW k, NEW n \in Nat
    PROVE  LET e == IncrementKeysetCounter(st, d, k, n).db
           IN  /\ IncrementKeysetCounter(st, d, k, n).ok
               /\ Sound(st, e) /\ Quotes(st, e) = Quotes(st, d) /\ Coins(st, e) = Coins(st, d)
<1>1. /\ IncrementKeysetCounter(st, d, k, n).ok /\ Shaped(st, IncrementKeysetCounter(st, d, k, n).db)
      /\ Listed(st, Registry(st, IncrementKeysetCounter(st, d, k, n).db))
      /\ Coins(st, IncrementKeysetCounter(st, d, k, n).db) = Coins(st, d)
      /\ Quotes(st, IncrementKeysetCounter(st, d, k, n).db) = Quotes(st, d)
      /\ Melts(st, IncrementKeysetCounter(st, d, k, n).db) = Melts(st, d)
  BY CounterWritten DEF Sound
<1> QED BY <1>1 DEF Sound

-----------------------------------------------------------------------------
(* What each operation does, as far as the invariants tell *)

\* A state of the store whose mint and keysets were refreshed.
LEMMA RefreshedDb ==
    ASSUME TypeOK, Refreshed(store, db, db'), store' = store
    PROVE  Sound(store, db') /\ Coins(store', db') = Coins(store, db)
           /\ Quotes(store', db') = Quotes(store, db)
BY RefreshedSound DEF TypeOK, Refreshed

\* To write nothing is to write keysets.
LEMMA SameDb ==
    ASSUME TypeOK
    PROVE  Refreshed(store, db, db)
BY RefreshedSelf DEF TypeOK, Sound

\* The quote a task asks for is stored with its expiry.
LEMMA MintQuoteDoes ==
    ASSUME TypeOK, NEW t \in Tasks, MintQuote(t)
    PROVE  \E q \in MintQuotes, row \in MintQuoteRows :
             /\ quote[q] = "none" /\ quote' = [quote EXCEPT ![q] = "unpaid"]
             /\ row.id = q /\ row.expiry = ExpiryOf[q]
             /\ QuotePut(store, db, db', row)
<1>1. PICK q \in MintQuotes :
        /\ quote[q] = "none" /\ quote' = [quote EXCEPT ![q] = "unpaid"]
        /\ db' = AddMintQuote(store, db,
                    [id |-> q, amount |-> AmountOf[q], paid |-> FALSE, expiry |-> ExpiryOf[q]]).db
  BY DEF MintQuote
<1> DEFINE row == [id |-> q, amount |-> AmountOf[q], paid |-> FALSE, expiry |-> ExpiryOf[q]]
<1>2. row \in MintQuoteRows /\ row.id = q /\ row.expiry = ExpiryOf[q]
  BY WalletAssumption DEF MintQuoteRows
<1>3. db' = AddMintQuote(store, db, row).db
  BY <1>1
<1> HIDE DEF row
<1>4. store \in WalletStores /\ Sound(store, db)
  BY DEF TypeOK
<1>5. QuotePut(store, db, AddMintQuote(store, db, row).db, row)
  BY <1>2, <1>4, QuoteWrites
<1>6. QuotePut(store, db, db', row)
  BY <1>3, <1>5
<1> QED BY <1>1, <1>2, <1>6

\* Up to the request nothing but the keysets is written.
LEMMA IssueDoes ==
    ASSUME TypeOK, NEW t \in Tasks, NEW src \in MintQuotes \cup Notes, NEW cond \in Locks \cup {None},
           BeginIssue(t, src, cond)
    PROVE  /\ Refreshed(store, db, db') /\ random' \in Nat
           /\ \E k \in ToSet(Chain), outs \in Seq(Outputs) :
                Goto(t, [Idle EXCEPT !.op = "mint", !.at = "post", !.id = src, !.k = k,
                                     !.cond = cond, !.outs = outs])
<1> PICK info \in MintInfos :
        LET d == EnsureMint(db, info).db
            a == ActiveMintKeyset(d)
            n == AmountOf[src]
        IN  /\ db' = a.db
            /\ Goto(t, [Idle EXCEPT !.op = "mint", !.at = "post", !.id = src, !.k = a.id,
                    !.cond = cond,
                    !.outs = IF cond = None THEN FromXpriv(a.id, NextIndex(a.db, a.id), n)
                             ELSE WithConditions(cond, n)])
            /\ random' = IF cond = None THEN random ELSE random + Len(Parts(n))
  BY DEF BeginIssue
<1> DEFINE d == EnsureMint(db, info).db
           a == ActiveMintKeyset(d)
           n == AmountOf[src]
           outs == IF cond = None THEN FromXpriv(a.id, NextIndex(a.db, a.id), n)
                   ELSE WithConditions(cond, n)
<1>1. store \in WalletStores /\ active \in 1..Len(Chain) /\ random \in Nat
  BY DEF TypeOK
<1>2. Refreshed(store, db, d)
  BY <1>1, EnsureMintType DEF TypeOK, Sound
<1> HIDE DEF d
<1>3. Refreshed(store, d, a.db) /\ a.id \in ToSet(Chain)
  BY <1>1, <1>2, ActiveKeysetType DEF Refreshed
<1> HIDE DEF a
<1>4. n \in Nat
  BY WalletAssumption
<1>5. NextIndex(a.db, a.id) \in Nat
  BY <1>1, <1>3, NextIndexType DEF Refreshed
<1>6. Parts(n) \in Seq(Nat)
  BY <1>4, PartsType
<1> HIDE DEF n
<1>7. outs \in Seq(Outputs)
  <2>1. CASE cond = None
    BY <1>3, <1>4, <1>5, <2>1, XprivType
  <2>2. CASE cond # None
    BY <1>1, <1>4, <2>2, ConditionsType
  <2> QED BY <2>1, <2>2
<1>8. random' \in Nat
  BY <1>1, <1>6 DEF d, a, n
<1>9. Refreshed(store, db, db')
  BY <1>2, <1>3, RefreshedTwice DEF d, a
<1>10. Goto(t, [Idle EXCEPT !.op = "mint", !.at = "post", !.id = src, !.k = a.id,
                            !.cond = cond, !.outs = outs])
  BY DEF d, a, n
<1> HIDE DEF outs
<1> QED BY <1>3, <1>7, <1>8, <1>9, <1>10

\* The writes of a mint: the quote that was issued, the counter and the coins.
LEMMA AnsweredMintDoes ==
    ASSUME TypeOK, NEW t \in Tasks, AnsweredMint(t)
    PROVE  \E todo \in Seq(Calls) :
             /\ Goto(t, [task[t] EXCEPT !.at = "write", !.todo = todo])
             /\ \A c \in ToSet(todo) :
                  /\ c.call \in {"remove_mint_quote", "increment_keyset_counter", "add_proofs"}
                  /\ c.call = "remove_mint_quote" => c.x = task[t].id
             /\ \A s \in Secrets(ToSet(task[t].outs)) : Adds(ToSet(todo), s)
<1> DEFINE now == task[t]
           p == ConstructProofs(now.outs, now.k, now.k)
           drop == IF now.id \in MintQuotes THEN <<Call("remove_mint_quote", now.id, None)>> ELSE <<>>
           count == IF now.cond = None THEN Increment(now.k, Cardinality(p)) ELSE <<>>
           add == Adding(p, "Unspent")
<1>1. now \in TaskStates /\ Control(now) /\ now.op = "mint" /\ now.at = "answered"
  BY DEF TypeOK, AnsweredMint
<1>2. Goto(t, [now EXCEPT !.at = "write", !.todo = drop \o count \o add])
  BY DEF AnsweredMint
<1>3. now.outs \in Seq(Outputs) /\ now.k \in ToSet(Chain)
  BY <1>1 DEF TaskStates, OutputLists, Control
<1> HIDE DEF now
<1>4. p \in OwnPurses /\ Secrets(p) = Secrets(ToSet(now.outs))
  BY <1>3, ConstructedType
<1> HIDE DEF p
<1>5. /\ add \in Seq(Calls) /\ \A c \in ToSet(add) : c.call = "add_proofs"
      /\ \A s \in Secrets(p) : Adds(ToSet(add), s)
  BY <1>4, AddingCalls DEF States
<1>6. /\ count \in Seq(Calls) /\ \A c \in ToSet(count) : c.call = "increment_keyset_counter"
  <2>1. Cardinality(p) \in Nat
    BY <1>4, FS_CardinalityType DEF OwnPurses
  <2>2. <<>> \in Seq(Calls) /\ ToSet(<<>>) = {}
    BY DEF ToSet
  <2> QED BY <1>3, <2>1, <2>2, IncrementCalls
<1>7. /\ drop \in Seq(Calls)
      /\ \A c \in ToSet(drop) : c.call = "remove_mint_quote" /\ c.x = now.id
  <2>1. <<>> \in Seq(Calls) /\ ToSet(<<>>) = {}
    BY DEF ToSet
  <2> DEFINE one == Call("remove_mint_quote", now.id, None)
  <2>2. now.id \in MintQuotes => one \in Calls /\ one.call = "remove_mint_quote" /\ one.x = now.id
    BY DEF Call, Calls
  <2> HIDE DEF one
  <2>3. ToSet(<<one>>) = {one}
    BY DEF ToSet
  <2>4. drop = IF now.id \in MintQuotes THEN <<one>> ELSE <<>>
    BY DEF one
  <2> HIDE DEF drop
  <2> QED BY <2>1, <2>2, <2>3, <2>4
<1> HIDE DEF drop, count, add
<1> DEFINE todo == drop \o count \o add
<1>8. todo \in Seq(Calls) /\ ToSet(todo) = (ToSet(drop) \cup ToSet(count)) \cup ToSet(add)
  <2> DEFINE u == drop \o count
  <2>1. u \in Seq(Calls) /\ ToSet(u) = ToSet(drop) \cup ToSet(count)
    BY <1>6, <1>7, JoinedElements
  <2> HIDE DEF u
  <2>2. u \o add \in Seq(Calls) /\ ToSet(u \o add) = ToSet(u) \cup ToSet(add)
    BY <2>1, <1>5, JoinedElements
  <2> QED BY <2>1, <2>2 DEF u
<1>9. Goto(t, [now EXCEPT !.at = "write", !.todo = todo])
  BY <1>2
<1> HIDE DEF todo
<1>10. \A s \in Secrets(ToSet(now.outs)) : Adds(ToSet(todo), s)
  BY <1>4, <1>5, <1>8 DEF Adds
<1>11. \A c \in ToSet(todo) :
         /\ c.call \in {"remove_mint_quote", "increment_keyset_counter", "add_proofs"}
         /\ c.call = "remove_mint_quote" => c.x = now.id
  BY <1>5, <1>6, <1>7, <1>8
<1> QED BY <1>8, <1>9, <1>10, <1>11 DEF now

\* The writes of a swap: the counter, the new coins and the state of the old.
LEMMA AnsweredSwapDoes ==
    ASSUME TypeOK, NEW t \in Tasks, AnsweredSwap(t)
    PROVE  /\ Refreshed(store, db, db')
           /\ \E todo \in Seq(Calls), held \in OwnPurses :
                /\ Goto(t, [task[t] EXCEPT !.at = "write", !.held = held, !.todo = todo])
                /\ \A c \in ToSet(todo) :
                     c.call \in {"increment_keyset_counter", "add_proofs", "set_proof_state"}
                /\ \A s \in Secrets(ToSet(task[t].outs)) : Adds(ToSet(todo), s)
<1> DEFINE now == task[t]
           a == ActiveMintKeyset(db)
           proofs == ConstructProofs(now.outs, now.k, a.id)
<1>1. now \in TaskStates /\ Control(now) /\ now.at = "answered"
  BY DEF TypeOK, AnsweredSwap
<1>2. db' = a.db
  BY DEF AnsweredSwap
<1>3. PICK send \in ToSend(proofs, now.want) :
         LET handed == now.held \cup send
         IN  Goto(t, [now EXCEPT !.at = "write", !.held = handed, !.todo =
                Increment(a.id, Len(now.outs)) \o Adding(send, "Reserved")
                \o Setting(now.ins, "Reserved") \o Adding(proofs \ send, "Unspent")
                \o (IF now.op = "send" THEN Setting(handed, "Reserved") ELSE <<>>)])
  BY DEF AnsweredSwap
<1> DEFINE handed == now.held \cup send
           count == Increment(a.id, Len(now.outs))
           add == Adding(send, "Reserved")
           set == Setting(now.ins, "Reserved")
           rest == Adding(proofs \ send, "Unspent")
           mark == IF now.op = "send" THEN Setting(handed, "Reserved") ELSE <<>>
           todo == count \o add \o set \o rest \o mark
<1>4. Goto(t, [now EXCEPT !.at = "write", !.held = handed, !.todo = todo])
  BY <1>3
<1>5. now.outs \in Seq(Outputs) /\ now.k \in ToSet(Chain) /\ now.held \in OwnPurses /\ now.ins \in Purses
  BY <1>1 DEF TaskStates, OutputLists, Control
<1> HIDE DEF now
<1>6. Refreshed(store, db, a.db) /\ a.id \in ToSet(Chain)
  BY ActiveKeysetType DEF TypeOK, Sound
<1> HIDE DEF a
<1>7. proofs \in OwnPurses /\ Secrets(proofs) = Secrets(ToSet(now.outs))
  BY <1>5, <1>6, ConstructedType
<1> HIDE DEF proofs
<1>8. send \in OwnPurses /\ send \subseteq proofs /\ proofs \ send \in OwnPurses
  <2>1. send \in OwnPurses /\ send \subseteq proofs
    BY <1>7, ToSendType
  <2> QED BY <1>7, <2>1, PartOfPurse
<1>9. handed \in OwnPurses /\ handed \in Purses
  BY <1>5, <1>8, JoinedPurses, OwnPursesArePurses
<1> HIDE DEF handed
<1>10. /\ add \in Seq(Calls) /\ \A c \in ToSet(add) : c.call = "add_proofs"
       /\ \A s \in Secrets(send) : Adds(ToSet(add), s)
  BY <1>8, AddingCalls DEF States
<1>11. /\ rest \in Seq(Calls) /\ \A c \in ToSet(rest) : c.call = "add_proofs"
       /\ \A s \in Secrets(proofs \ send) : Adds(ToSet(rest), s)
  BY <1>8, AddingCalls DEF States
<1>12. set \in Seq(Calls) /\ \A c \in ToSet(set) : c.call = "set_proof_state"
  BY <1>5, SettingCalls DEF States
<1>13. mark \in Seq(Calls) /\ \A c \in ToSet(mark) : c.call = "set_proof_state"
  <2>1. <<>> \in Seq(Calls) /\ ToSet(<<>>) = {}
    BY DEF ToSet
  <2>2. Setting(handed, "Reserved") \in Seq(Calls) /\ \A c \in ToSet(Setting(handed, "Reserved")) : c.call = "set_proof_state"
    BY <1>9, SettingCalls DEF States
  <2> QED BY <2>1, <2>2
<1>14. count \in Seq(Calls) /\ \A c \in ToSet(count) : c.call = "increment_keyset_counter"
  <2>1. Len(now.outs) \in Nat
    BY <1>5
  <2> QED BY <1>6, <2>1, IncrementCalls
<1> HIDE DEF count, add, set, rest, mark
<1>15. /\ todo \in Seq(Calls)
       /\ ToSet(todo) = (((ToSet(count) \cup ToSet(add)) \cup ToSet(set)) \cup ToSet(rest)) \cup ToSet(mark)
  <2>1. count \o add \in Seq(Calls) /\ ToSet(count \o add) = ToSet(count) \cup ToSet(add)
    BY <1>10, <1>14, JoinedElements
  <2> DEFINE u == count \o add
  <2>2. u \in Seq(Calls) /\ ToSet(u) = ToSet(count) \cup ToSet(add)
    BY <2>1
  <2> HIDE DEF u
  <2>3. u \o set \in Seq(Calls) /\ ToSet(u \o set) = ToSet(u) \cup ToSet(set)
    BY <2>2, <1>12, JoinedElements
  <2> DEFINE v == u \o set
  <2>4. v \in Seq(Calls) /\ ToSet(v) = ToSet(u) \cup ToSet(set)
    BY <2>3
  <2> HIDE DEF v
  <2>5. v \o rest \in Seq(Calls) /\ ToSet(v \o rest) = ToSet(v) \cup ToSet(rest)
    BY <2>4, <1>11, JoinedElements
  <2> DEFINE w == v \o rest
  <2>6. w \in Seq(Calls) /\ ToSet(w) = ToSet(v) \cup ToSet(rest)
    BY <2>5
  <2> HIDE DEF w
  <2>7. w \o mark \in Seq(Calls) /\ ToSet(w \o mark) = ToSet(w) \cup ToSet(mark)
    BY <2>6, <1>13, JoinedElements
  <2>8. todo = w \o mark
    BY DEF u, v, w
  <2> QED BY <2>2, <2>4, <2>6, <2>7, <2>8
<1> HIDE DEF todo
<1>16. \A s \in Secrets(ToSet(now.outs)) : Adds(ToSet(todo), s)
  <2>1. \A s \in Secrets(proofs) : s \in Secrets(send) \/ s \in Secrets(proofs \ send)
    BY DEF Secrets
  <2> QED BY <1>7, <1>10, <1>11, <1>15, <2>1 DEF Adds
<1>17. \A c \in ToSet(todo) : c.call \in {"increment_keyset_counter", "add_proofs", "set_proof_state"}
  BY <1>10, <1>11, <1>12, <1>13, <1>14, <1>15
<1>18. Refreshed(store, db, db')
  BY <1>2, <1>6 DEF a
<1> QED BY <1>4, <1>9, <1>15, <1>16, <1>17, <1>18 DEF now

\* The writes of a melt: the counter, the change, the quote and the inputs,
\* which are spent.
LEMMA AnsweredMeltDoes ==
    ASSUME TypeOK, NEW t \in Tasks, AnsweredMelt(t)
    PROVE  /\ Refreshed(store, db, db')
           /\ \E todo \in Seq(Calls) :
                /\ Goto(t, [task[t] EXCEPT !.at = "write", !.todo = todo])
                /\ \A c \in ToSet(todo) :
                     /\ c.call \in {"increment_keyset_counter", "add_proofs", "remove_melt_quote",
                                    "remove_proofs"}
                     /\ c.call = "remove_proofs" => ToSet(c.x) \subseteq task[t].ins
                /\ \A s \in Secrets(ToSet(task[t].outs)) : Adds(ToSet(todo), s)
<1> DEFINE now == task[t]
           a == ActiveMintKeyset(db)
           change == ConstructProofs(now.outs, now.k, a.id)
           count == Increment(now.k, Len(now.outs))
           add == Adding(change, "Unspent")
           drop == <<Call("remove_melt_quote", now.id, None)>>
           gone == Removing(now.ins)
           todo == count \o add \o drop \o gone
<1>1. now \in TaskStates /\ Control(now) /\ now.at = "melted"
  BY DEF TypeOK, AnsweredMelt
<1>2. db' = a.db /\ Goto(t, [now EXCEPT !.at = "write", !.todo = todo])
  BY DEF AnsweredMelt
<1>3. now.outs \in Seq(Outputs) /\ now.k \in ToSet(Chain) /\ now.ins \in Purses /\ now.id \in MeltQuotes
  BY <1>1 DEF TaskStates, OutputLists, Control
<1> HIDE DEF now
<1>4. Refreshed(store, db, a.db) /\ a.id \in ToSet(Chain)
  BY ActiveKeysetType DEF TypeOK, Sound
<1> HIDE DEF a
<1>5. change \in OwnPurses /\ Secrets(change) = Secrets(ToSet(now.outs))
  BY <1>3, <1>4, ConstructedType
<1> HIDE DEF change
<1>6. /\ add \in Seq(Calls) /\ \A c \in ToSet(add) : c.call = "add_proofs"
      /\ \A s \in Secrets(change) : Adds(ToSet(add), s)
  BY <1>5, AddingCalls DEF States
<1>7. count \in Seq(Calls) /\ \A c \in ToSet(count) : c.call = "increment_keyset_counter"
  <2>1. Len(now.outs) \in Nat
    BY <1>3
  <2> QED BY <1>3, <2>1, IncrementCalls
<1>8. gone \in Seq(Calls) /\ \A c \in ToSet(gone) : c.call = "remove_proofs" /\ ToSet(c.x) \subseteq now.ins
  BY <1>3, RemovingCalls
<1>9. drop \in Seq(Calls) /\ \A c \in ToSet(drop) : c.call = "remove_melt_quote"
  <2> DEFINE one == Call("remove_melt_quote", now.id, None)
  <2>1. one \in Calls /\ one.call = "remove_melt_quote" /\ drop = <<one>>
    BY <1>3 DEF Call, Calls
  <2> HIDE DEF one, drop
  <2> QED BY <2>1 DEF ToSet
<1> HIDE DEF count, add, drop, gone
<1>10. todo \in Seq(Calls) /\ ToSet(todo) = ((ToSet(count) \cup ToSet(add)) \cup ToSet(drop)) \cup ToSet(gone)
  <2> DEFINE u == count \o add
             v == u \o drop
  <2>1. u \in Seq(Calls) /\ ToSet(u) = ToSet(count) \cup ToSet(add)
    BY <1>6, <1>7, JoinedElements
  <2> HIDE DEF u
  <2>2. v \in Seq(Calls) /\ ToSet(v) = ToSet(u) \cup ToSet(drop)
    BY <2>1, <1>9, JoinedElements
  <2> HIDE DEF v
  <2>3. v \o gone \in Seq(Calls) /\ ToSet(v \o gone) = ToSet(v) \cup ToSet(gone)
    BY <2>2, <1>8, JoinedElements
  <2>4. todo = v \o gone
    BY DEF u, v
  <2> QED BY <2>1, <2>2, <2>3, <2>4
<1>11. Goto(t, [now EXCEPT !.at = "write", !.todo = todo])
  BY <1>2 DEF count, add, drop, gone, change, a
<1> HIDE DEF todo
<1>12. \A s \in Secrets(ToSet(now.outs)) : Adds(ToSet(todo), s)
  BY <1>5, <1>6, <1>10 DEF Adds
<1>13. \A c \in ToSet(todo) :
         /\ c.call \in {"increment_keyset_counter", "add_proofs", "remove_melt_quote", "remove_proofs"}
         /\ c.call = "remove_proofs" => ToSet(c.x) \subseteq now.ins
  BY <1>6, <1>7, <1>8, <1>9, <1>10
<1>14. Refreshed(store, db, db')
  BY <1>2, <1>4 DEF a
<1> QED BY <1>10, <1>11, <1>12, <1>13, <1>14 DEF now

-----------------------------------------------------------------------------
(* The operations that store quotes and keysets only *)

\* A melt quote is stored, which no coin and no mint quote feels.
LEMMA MeltQuoteDoes ==
    ASSUME TypeOK, NEW t \in Tasks, MeltQuote(t)
    PROVE  /\ \E q \in MeltQuotes : quote[q] = "none" /\ quote' = [quote EXCEPT ![q] = "unpaid"]
           /\ Sound(store, db') /\ Coins(store, db') = Coins(store, db)
           /\ Quotes(store, db') = Quotes(store, db)
<1>1. PICK q \in MeltQuotes :
        /\ quote[q] = "none" /\ clock < Late /\ quote' = [quote EXCEPT ![q] = "unpaid"]
        /\ db' = AddMeltQuote(store, db, [id |-> q, amount |-> AmountOf[q], paid |-> FALSE,
                                          fee_reserve |-> FeeReserve, expiry |-> Late]).db
  BY DEF MeltQuote
<1> DEFINE row == [id |-> q, amount |-> AmountOf[q], paid |-> FALSE,
                   fee_reserve |-> FeeReserve, expiry |-> Late]
<1>2. row \in MeltQuoteRows
  BY WalletAssumption DEF MeltQuoteRows, Late
<1>3. db' = AddMeltQuote(store, db, row).db
  BY <1>1
<1> HIDE DEF row
<1>4. store \in WalletStores /\ Sound(store, db)
  BY DEF TypeOK
<1>5. /\ Sound(store, db') /\ Coins(store, db') = Coins(store, db)
      /\ Quotes(store, db') = Quotes(store, db)
  BY <1>2, <1>3, <1>4, MeltWrites
<1> QED BY <1>1, <1>5

\* melt_quote_status writes the row it read.
LEMMA MeltQuoteStatusDoes ==
    ASSUME TypeOK, NEW t \in Tasks, MeltQuoteStatus(t)
    PROVE  /\ Sound(store, db') /\ Coins(store, db') = Coins(store, db)
           /\ Quotes(store, db') = Quotes(store, db)
<1>1. PICK q \in MeltQuotes :
        /\ GetMeltQuote(store, db, q) # None
        /\ db' = AddMeltQuote(store, db, [GetMeltQuote(store, db, q) EXCEPT !.paid = FALSE]).db
  BY DEF MeltQuoteStatus
<1>2. store \in WalletStores /\ Sound(store, db)
  BY DEF TypeOK
<1> DEFINE old == GetMeltQuote(store, db, q)
           row == [old EXCEPT !.paid = FALSE]
<1>3. old \in MeltQuoteRows
  <2>1. old = Lookup(Melts(store, db), q)
    BY <1>2, QuoteRead
  <2>2. MeltsOK(Melts(store, db))
    BY <1>2 DEF Sound
  <2> QED BY <1>1, <2>1, <2>2 DEF Lookup, MeltsOK
<1>4. db' = AddMeltQuote(store, db, row).db
  BY <1>1
<1> HIDE DEF old
<1>5. row \in MeltQuoteRows
  BY <1>3 DEF MeltQuoteRows
<1> HIDE DEF row
<1> QED BY <1>2, <1>4, <1>5, MeltWrites

\* add_mint and refresh_mint_keys only write what the mint says of itself.
LEMMA AddMintDoes ==
    ASSUME TypeOK, NEW t \in Tasks, AddMintCalled(t) \/ RefreshMintKeys(t)
    PROVE  Refreshed(store, db, db')
<1>1. store \in WalletStores /\ Shaped(store, db) /\ Listed(store, Registry(store, db))
  BY DEF TypeOK, Sound
<1>2. CASE AddMintCalled(t)
  <2>1. PICK info \in MintInfos : db' = AddMint(store, db, Url, info).db
    BY <1>2 DEF AddMintCalled
  <2> QED BY <1>1, <2>1, MintWritten
<1>3. CASE RefreshMintKeys(t)
  <2>1. db' = AddMintKeysets(store, db, Url, MintKeysets).db
    BY <1>3 DEF RefreshMintKeys
  <2>2. MintKeysets \in Seq(KeysetRows)
    BY MintKeysetsType DEF TypeOK
  <2> HIDE DEF MintKeysets
  <2> QED BY <1>1, <2>1, <2>2, KeysetsWritten
<1> QED BY <1>2, <1>3

\* A check stores the quote it read and remembers its expiry.
LEMMA CheckMintQuoteDoes ==
    ASSUME TypeOK, NEW t \in Tasks, CheckMintQuote(t)
    PROVE  \E q \in MintQuotes, row \in MintQuoteRows :
             /\ q \in DOMAIN Quotes(store, db) /\ quote[q] \in {"unpaid", "paid"}
             /\ row.id = q /\ row.expiry = Quotes(store, db)[q].expiry
             /\ QuotePut(store, db, db', row)
             /\ Goto(t, [Idle EXCEPT !.op = "check", !.at = quote[q], !.id = q,
                                     !.expiry = row.expiry])
<1>1. store \in WalletStores /\ Sound(store, db) /\ QuotesOK(Quotes(store, db))
  BY DEF TypeOK, Sound
<1>2. PICK old \in GetMintQuotes(store, db) :
        /\ quote[old.id] \in {"unpaid", "paid"}
        /\ db' = AddMintQuote(store, db, [old EXCEPT !.paid = quote[old.id] = "paid"]).db
        /\ Goto(t, [Idle EXCEPT !.op = "check", !.at = quote[old.id], !.id = old.id,
                                !.expiry = old.expiry])
  BY DEF CheckMintQuote
<1>3. PICK q \in DOMAIN Quotes(store, db) : old = Quotes(store, db)[q]
  <2>1. old \in Rows(Quotes(store, db))
    BY <1>1, <1>2, QuoteRead
  <2> QED BY <2>1 DEF Rows
<1>4. old \in MintQuoteRows /\ old.id = q /\ q \in MintQuotes
  BY <1>1, <1>3 DEF QuotesOK, MintQuoteRows
<1> DEFINE row == [old EXCEPT !.paid = quote[old.id] = "paid"]
<1>5. row \in MintQuoteRows /\ row.id = q /\ row.expiry = old.expiry
  <2>1. (quote[old.id] = "paid") \in BOOLEAN
    OBVIOUS
  <2> QED BY <1>4, <2>1 DEF MintQuoteRows
<1>6. db' = AddMintQuote(store, db, row).db
  BY <1>2
<1> HIDE DEF row
<1>7. QuotePut(store, db, db', row)
  BY <1>1, <1>5, <1>6, QuoteWrites
<1>8. Goto(t, [Idle EXCEPT !.op = "check", !.at = quote[q], !.id = q, !.expiry = row.expiry])
  BY <1>2, <1>4, <1>5
<1> QED BY <1>2, <1>3, <1>4, <1>5, <1>7, <1>8

\* A check of a quote that was not paid removes it when it is past its expiry.
LEMMA CheckedUnpaidDoes ==
    ASSUME TypeOK, NEW t \in Tasks, CheckedUnpaid(t)
    PROVE  /\ Sound(store, db') /\ Coins(store, db') = Coins(store, db)
           /\ \/ db' = db
              \/ task[t].expiry <= clock /\ QuoteGone(store, db, db', task[t].id)
<1>1. store \in WalletStores /\ Sound(store, db)
  BY DEF TypeOK
<1>2. CASE task[t].expiry <= clock
  <2>1. db' = RemoveMintQuote(store, db, task[t].id).db
    BY <1>2 DEF CheckedUnpaid
  <2>2. QuoteGone(store, db, db', task[t].id)
    BY <1>1, <2>1, QuoteRemoves
  <2> QED BY <1>2, <2>2 DEF QuoteGone
<1>3. CASE ~(task[t].expiry <= clock)
  BY <1>1, <1>3 DEF CheckedUnpaid
<1> QED BY <1>2, <1>3

\* A mint begins, or the check of a quote that was paid turns into one.
LEMMA MintDoes ==
    ASSUME TypeOK, NEW t \in Tasks, Mint(t)
    PROVE  /\ Refreshed(store, db, db') /\ random' \in Nat
           /\ \E src \in MintQuotes \cup Notes, cond \in Locks \cup {None}, k \in ToSet(Chain),
                 outs \in Seq(Outputs) :
                Goto(t, [Idle EXCEPT !.op = "mint", !.at = "post", !.id = src, !.k = k,
                                     !.cond = cond, !.outs = outs])
<1>1. PICK src \in MintQuotes \cup Notes, cond \in Locks \cup {None} : BeginIssue(t, src, cond)
  BY DEF Mint
<1>2. /\ Refreshed(store, db, db') /\ random' \in Nat
      /\ \E k \in ToSet(Chain), outs \in Seq(Outputs) :
           Goto(t, [Idle EXCEPT !.op = "mint", !.at = "post", !.id = src, !.k = k,
                                !.cond = cond, !.outs = outs])
  BY <1>1, IssueDoes
<1> QED BY <1>2

\* A quote that is paid is minted, or the check ends.
LEMMA CheckedPaidDoes ==
    ASSUME TypeOK, NEW t \in Tasks, CheckedPaid(t)
    PROVE  /\ Refreshed(store, db, db') /\ random' \in Nat
           /\ \/ End(t)
              \/ \E src \in MintQuotes, k \in ToSet(Chain), outs \in Seq(Outputs) :
                    Goto(t, [Idle EXCEPT !.op = "mint", !.at = "post", !.id = src, !.k = k,
                                         !.cond = None, !.outs = outs])
<1> DEFINE src == task[t].id
<1>1. src \in MintQuotes
  BY DEF CheckedPaid, TypeOK, Control
<1>2. CASE QuoteUsable(db, src)
  <2>1. BeginIssue(t, src, None)
    BY <1>2 DEF CheckedPaid
  <2> HIDE DEF src
  <2>2. /\ Refreshed(store, db, db') /\ random' \in Nat
        /\ \E k \in ToSet(Chain), outs \in Seq(Outputs) :
             Goto(t, [Idle EXCEPT !.op = "mint", !.at = "post", !.id = src, !.k = k,
                                  !.cond = None, !.outs = outs])
    BY <1>1, <2>1, IssueDoes
  <2> QED BY <1>1, <2>2
<1>3. CASE ~QuoteUsable(db, src)
  <2>1. End(t) /\ db' = db /\ random' = random
    BY <1>3 DEF CheckedPaid
  <2> QED BY <2>1, SameDb DEF TypeOK
<1> QED BY <1>2, <1>3

-----------------------------------------------------------------------------
(* The operations that end or begin in a swap *)

\* Wallet::swap begins a swap.
LEMMA SwapDoes ==
    ASSUME TypeOK, NEW t \in Tasks, Swap(t)
    PROVE  SwapBegun(t, [Idle EXCEPT !.op = "swap"])
<1> DEFINE ins == Unspent(db)
           base == [Idle EXCEPT !.op = "swap"]
<1>1. CreateSwap(t, base, db, ins, None, None)
  BY DEF Swap, base, ins
<1>2. ins \in Purses
  BY StoredType, OwnPursesArePurses DEF Unspent, TypeOK, Sound
<1>3. Refreshed(store, db, db)
  BY SameDb
<1> HIDE DEF ins, base
<1>4. SwapBegun(t, base)
  BY <1>1, <1>2, <1>3, CreateSwapDoes
<1> QED BY <1>4 DEF base

\* What send starts from when it found the proofs at once.
Handing(ps) == [Idle EXCEPT !.op = "send", !.next = "hand", !.at = "write", !.held = ps,
                            !.todo = Setting(ps, "Reserved")]

\* The store with the keysets looked up is as sound as before.
LEMMA KnownDb ==
    ASSUME TypeOK
    PROVE  Refreshed(store, db, KnownKeysets(db).db) /\ CoinsOK(Coins(store, KnownKeysets(db).db))
           /\ store \in WalletStores
<1>1. Refreshed(store, db, KnownKeysets(db).db)
  BY KnownKeysetsType DEF TypeOK, Sound
<1>2. Sound(store, KnownKeysets(db).db)
  BY <1>1, RefreshedSound DEF TypeOK
<1> QED BY <1>1, <1>2 DEF Sound, TypeOK

\* Wallet::send hands out what it selected, or swaps first.
LEMMA SendDoes ==
    ASSUME TypeOK, NEW t \in Tasks, Send(t)
    PROVE  \/ /\ Refreshed(store, db, db') /\ random' = random
              /\ \E ps \in OwnPurses : Goto(t, Handing(ps))
           \/ \E locked \in OwnPurses :
                SwapBegun(t, [Idle EXCEPT !.op = "send", !.next = "hand", !.held = locked])
<1> DEFINE s == KnownKeysets(db)
           base == [Idle EXCEPT !.op = "send", !.next = "hand"]
           Hand(ps) == /\ db' = s.db
                       /\ Goto(t, [base EXCEPT !.at = "write", !.held = ps,
                                               !.todo = Setting(ps, "Reserved")])
                       /\ UNCHANGED random
<1>0. PICK amount \in SendAmounts, cond \in Locks \cup {None} :
        \E locked \in SelectLocked(s.db, s.infos, amount, cond) :
           IF cond # None /\ Amount(locked) = amount THEN Hand(locked)
           ELSE \E ps \in Selections(s.db, s.infos, amount, Amount(locked)) :
                   IF cond = None /\ Amount(ps) = amount THEN Hand(ps)
                   ELSE CreateSwap(t, [base EXCEPT !.held = locked], s.db, ps,
                                   amount - Amount(locked), cond)
  BY DEF Send
<1>1. PICK locked \in SelectLocked(s.db, s.infos, amount, cond) :
        \/ Hand(locked)
        \/ \E ps \in Selections(s.db, s.infos, amount, Amount(locked)) :
             \/ Hand(ps)
             \/ CreateSwap(t, [base EXCEPT !.held = locked], s.db, ps, amount - Amount(locked), cond)
  BY <1>0
<1>2. Refreshed(store, db, s.db) /\ CoinsOK(Coins(store, s.db)) /\ store \in WalletStores
  BY KnownDb
<1> HIDE DEF s
<1>3. locked \in OwnPurses
  BY <1>2, SelectLockedType
<1>4. \A ps \in OwnPurses : Hand(ps) => Refreshed(store, db, db') /\ random' = random /\ Goto(t, Handing(ps))
  BY <1>2 DEF Handing
<1>5. CASE Hand(locked)
  BY <1>3, <1>4, <1>5
<1>6. ASSUME NEW ps \in Selections(s.db, s.infos, amount, Amount(locked)), Hand(ps)
      PROVE  /\ Refreshed(store, db, db') /\ random' = random
             /\ \E qs \in OwnPurses : Goto(t, Handing(qs))
  <2>1. ps \in OwnPurses
    BY <1>2, SelectionsType
  <2> QED BY <1>4, <1>6, <2>1
<1>7. ASSUME NEW ps \in Selections(s.db, s.infos, amount, Amount(locked)),
             CreateSwap(t, [base EXCEPT !.held = locked], s.db, ps, amount - Amount(locked), cond)
      PROVE  SwapBegun(t, [base EXCEPT !.held = locked])
  <2>1. ps \in Purses
    BY <1>2, SelectionsType, OwnPursesArePurses
  <2>2. Amount(locked) \in Nat /\ amount \in Nat
    BY <1>3, OwnPursesArePurses, AmountType, WalletAssumption
  <2> DEFINE want == amount - Amount(locked)
             from == [base EXCEPT !.held = locked]
  <2>3. want \in Int \cup {None}
    BY <2>2
  <2>4. CreateSwap(t, from, s.db, ps, want, cond)
    BY <1>7
  <2> HIDE DEF want, from
  <2>5. SwapBegun(t, from)
    BY <1>2, <2>1, <2>3, <2>4, CreateSwapDoes
  <2> QED BY <2>5 DEF from
<1> QED BY <1>1, <1>3, <1>5, <1>6, <1>7

\* Wallet::melt swaps first, or reserves what it selected.
LEMMA MeltDoes ==
    ASSUME TypeOK, NEW t \in Tasks, Melt(t)
    PROVE  \E q \in MeltQuotes :
             \/ SwapBegun(t, [Idle EXCEPT !.op = "melt", !.next = "melt", !.id = q])
             \/ /\ Refreshed(store, db, db') /\ random' = random
                /\ \E ps \in OwnPurses : Goto(t, [Idle EXCEPT !.op = "melt", !.next = "melt",
                                                 !.at = "write", !.id = q, !.held = ps])
<1> DEFINE s == KnownKeysets(db)
           base == [Idle EXCEPT !.op = "melt", !.next = "melt"]
           row(q) == GetMeltQuote(store, db, q)
           needed(q) == row(q).amount + row(q).fee_reserve
<1>1. PICK q \in MeltQuotes :
        /\ row(q) # None
        /\ \E ps \in Selections(s.db, s.infos, needed(q), 0) :
             IF Amount(ps) > needed(q)
             THEN CreateSwap(t, [base EXCEPT !.id = q], s.db, ps, needed(q), None)
             ELSE /\ db' = s.db
                  /\ Goto(t, [base EXCEPT !.at = "write", !.id = q, !.held = ps])
                  /\ UNCHANGED random
  BY DEF Melt
<1>2. Refreshed(store, db, s.db) /\ CoinsOK(Coins(store, s.db)) /\ store \in WalletStores
  BY KnownDb
<1>3. needed(q) \in Nat
  <2>1. row(q) = Lookup(Melts(store, db), q)
    BY <1>2, QuoteRead
  <2>2. MeltsOK(Melts(store, db))
    BY DEF TypeOK, Sound
  <2>3. row(q) \in MeltQuoteRows
    BY <1>1, <2>1, <2>2 DEF Lookup, MeltsOK
  <2> QED BY <2>3 DEF MeltQuoteRows
<1> DEFINE want == needed(q)
<1>4. PICK ps \in Selections(s.db, s.infos, want, 0) :
        \/ CreateSwap(t, [base EXCEPT !.id = q], s.db, ps, want, None)
        \/ /\ db' = s.db
           /\ Goto(t, [base EXCEPT !.at = "write", !.id = q, !.held = ps])
           /\ random' = random
  BY <1>1
<1> HIDE DEF s, want
<1>5. ps \in OwnPurses /\ ps \in Purses
  BY <1>2, SelectionsType, OwnPursesArePurses
<1>6. CASE CreateSwap(t, [base EXCEPT !.id = q], s.db, ps, want, None)
  <2> DEFINE from == [base EXCEPT !.id = q]
  <2>1. CreateSwap(t, from, s.db, ps, want, None)
    BY <1>6
  <2>2. want \in Int \cup {None}
    BY <1>3 DEF want
  <2> HIDE DEF from
  <2>3. SwapBegun(t, from)
    BY <1>2, <1>5, <2>1, <2>2, CreateSwapDoes
  <2> QED BY <2>3 DEF from
<1>7. CASE /\ db' = s.db
           /\ Goto(t, [base EXCEPT !.at = "write", !.id = q, !.held = ps])
           /\ random' = random
  BY <1>2, <1>5, <1>7
<1> QED BY <1>4, <1>6, <1>7

\* The rest of the entries waits while one is swapped.
LEMMA BeginEntryDoes ==
    ASSUME TypeOK, NEW t \in Tasks, BeginEntry(t)
    PROVE  SwapBegun(t, [task[t] EXCEPT !.rest = Tail(@)])
<1> DEFINE rest == task[t].rest
           ps == Head(rest)
           base == [task[t] EXCEPT !.rest = Tail(@)]
<1>1. rest \in Seq(Purses) /\ rest # <<>>
  BY DEF BeginEntry, Done, TypeOK, Control
<1>2. PICK info \in MintInfos :
        CreateSwap(t, base, EnsureMint(db, info).db, ps, Amount(ps), None)
  BY DEF BeginEntry
<1> HIDE DEF rest
<1>3. ps \in Purses
  BY <1>1
<1> HIDE DEF ps, base
<1>4. Amount(ps) \in Int \cup {None}
  BY <1>3, AmountType
<1>5. Refreshed(store, db, EnsureMint(db, info).db)
  BY EnsureMintType DEF TypeOK, Sound
<1>6. SwapBegun(t, base)
  BY <1>2, <1>3, <1>4, <1>5, CreateSwapDoes
<1> QED BY <1>6 DEF base

-----------------------------------------------------------------------------
(* The requests, and what follows them *)

\* What it selected goes into the request with blanks for the change.
LEMMA BeginMeltDoes ==
    ASSUME TypeOK, NEW t \in Tasks, BeginMelt(t)
    PROVE  /\ Refreshed(store, db, db')
           /\ \E k \in ToSet(Chain), outs \in Seq(Outputs) :
                Goto(t, [Idle EXCEPT !.op = "melt", !.at = "post_melt", !.id = task[t].id,
                                     !.k = k, !.ins = task[t].held, !.outs = outs])
<1> DEFINE a == ActiveMintKeyset(db)
           outs == FromXprivBlank(a.id, NextIndex(a.db, a.id), FeeReserve)
<1>1. /\ db' = a.db
      /\ Goto(t, [Idle EXCEPT !.op = "melt", !.at = "post_melt", !.id = task[t].id,
                              !.k = a.id, !.ins = task[t].held, !.outs = outs])
  BY DEF BeginMelt
<1>2. Refreshed(store, db, a.db) /\ a.id \in ToSet(Chain)
  BY ActiveKeysetType DEF TypeOK, Sound
<1> HIDE DEF a
<1>3. NextIndex(a.db, a.id) \in Nat
  BY <1>2, NextIndexType DEF Refreshed, TypeOK
<1>4. outs \in Seq(Outputs)
  BY <1>2, <1>3, BlanksType
<1> HIDE DEF outs
<1> QED BY <1>1, <1>2, <1>4

\* The mint signs the outputs of a mint it accepts.
LEMMA PostMintDoes ==
    ASSUME TypeOK, NEW t \in Tasks, PostMint(t)
    PROVE  /\ SignedOK(signed')
           /\ \/ /\ DOMAIN signed' = DOMAIN signed \cup Secrets(ToSet(task[t].outs))
                 /\ quote' = [quote EXCEPT ![task[t].id] = "issued"]
                 /\ Goto(t, [task[t] EXCEPT !.at = "answered"])
              \/ End(t) /\ signed' = signed /\ quote' = quote
<1>1. task[t] \in TaskStates /\ SignedOK(signed)
  BY DEF TypeOK
<1> DEFINE outs == task[t].outs
           k == task[t].k
<1>2. outs \in Seq(Outputs)
  BY <1>1 DEF TaskStates, OutputLists
<1>3. CASE /\ signed' = SignAll(signed, outs, k)
           /\ quote' = [quote EXCEPT ![task[t].id] = "issued"]
           /\ Goto(t, [task[t] EXCEPT !.at = "answered"])
  <2> HIDE DEF outs, k
  <2>1. SignedOK(signed') /\ DOMAIN signed' = DOMAIN signed \cup Secrets(ToSet(outs))
    BY <1>1, <1>2, <1>3, SignAllType
  <2> QED BY <1>3, <2>1 DEF outs
<1>4. CASE End(t) /\ signed' = signed /\ quote' = quote
  BY <1>1, <1>4
<1> QED BY <1>3, <1>4 DEF PostMint

\* The mint spends the inputs of a swap it verified, and signs unless the
\* keyset is not the active one.
LEMMA PostSwapDoes ==
    ASSUME TypeOK, NEW t \in Tasks, PostSwap(t)
    PROVE  /\ SignedOK(signed')
           /\ \/ /\ DOMAIN signed' = DOMAIN signed \cup Secrets(ToSet(task[t].outs))
                 /\ spent' = spent \cup Secrets(task[t].ins)
                 /\ Goto(t, [task[t] EXCEPT !.at = "answered"]) /\ adrift' = adrift
              \/ /\ End(t) /\ signed' = signed /\ spent \subseteq spent'
                 /\ adrift' = adrift \cup AtStake(t) \cup (spent' \ spent)
<1>1. task[t] \in TaskStates /\ SignedOK(signed)
  BY DEF TypeOK
<1> DEFINE outs == task[t].outs
           k == task[t].k
<1>2. outs \in Seq(Outputs)
  BY <1>1 DEF TaskStates, OutputLists
<1>3. CASE /\ spent' = spent \cup Secrets(task[t].ins)
           /\ signed' = SignAll(signed, outs, k)
           /\ Goto(t, [task[t] EXCEPT !.at = "answered"]) /\ adrift' = adrift
  <2> HIDE DEF outs, k
  <2>1. SignedOK(signed') /\ DOMAIN signed' = DOMAIN signed \cup Secrets(ToSet(outs))
    BY <1>1, <1>2, <1>3, SignAllType
  <2> QED BY <1>3, <2>1 DEF outs
<1>4. CASE /\ End(t) /\ signed' = signed /\ spent \subseteq spent'
           /\ adrift' = adrift \cup AtStake(t) \cup (spent' \ spent)
  BY <1>1, <1>4
<1> QED BY <1>3, <1>4 DEF PostSwap

\* The mint spends the inputs of a melt and signs as many blanks as it needs.
LEMMA PostMeltDoes ==
    ASSUME TypeOK, NEW t \in Tasks, PostMelt(t)
    PROVE  \/ /\ End(t) /\ signed' = signed /\ spent' = spent /\ quote' = quote
           \/ \E change \in Seq(Outputs) :
                /\ SignedOK(signed')
                /\ DOMAIN signed' = DOMAIN signed \cup Secrets(ToSet(change))
                /\ spent' = spent \cup Secrets(task[t].ins)
                /\ quote' = [quote EXCEPT ![task[t].id] = "issued"]
                /\ Goto(t, [task[t] EXCEPT !.at = "melted", !.outs = change])
<1> DEFINE now == task[t]
           Change(cost) ==
             LET amounts == Split(Amount(now.ins) - cost)
             IN  [i \in 1..Min({Len(amounts), Len(now.outs)}) |->
                     [now.outs[i] EXCEPT !.amount = amounts[i]]]
<1>1. now \in TaskStates /\ SignedOK(signed)
  BY DEF TypeOK
<1>2. CASE End(t) /\ signed' = signed /\ spent' = spent /\ quote' = quote
  BY <1>2
<1>3. ASSUME NEW cost, signed' = SignAll(signed, Change(cost), now.k),
             Goto(t, [now EXCEPT !.at = "melted", !.outs = Change(cost)]),
             spent' = spent \cup Secrets(now.ins), quote' = [quote EXCEPT ![now.id] = "issued"]
      PROVE  \E change \in Seq(Outputs) :
                /\ SignedOK(signed')
                /\ DOMAIN signed' = DOMAIN signed \cup Secrets(ToSet(change))
                /\ spent' = spent \cup Secrets(now.ins)
                /\ quote' = [quote EXCEPT ![now.id] = "issued"]
                /\ Goto(t, [now EXCEPT !.at = "melted", !.outs = change])
  <2> DEFINE amounts == Split(Amount(now.ins) - cost)
             outs == now.outs
             ends == {Len(amounts), Len(outs)}
             n == Min(ends)
             change == [i \in 1..n |-> [outs[i] EXCEPT !.amount = amounts[i]]]
             k == now.k
  <2>1. outs \in Seq(Outputs)
    BY <1>1 DEF TaskStates, OutputLists
  <2>2. amounts \in Seq(Nat)
    BY SplitType, CoinsAreNumbers
  <2>3. Change(cost) = change
    OBVIOUS
  <2> HIDE DEF Change, outs, amounts
  <2>4. n \in Nat /\ n <= Len(amounts) /\ n <= Len(outs)
    <3> DEFINE a == Len(amounts)
               b == Len(outs)
    <3>1. a \in Nat /\ b \in Nat
      BY <2>1, <2>2
    <3>2. n = CHOOSE x \in {a, b} : \A y \in {a, b} : x <= y
      BY DEF Min
    <3> HIDE DEF n, a, b
    <3>3. \E x \in {a, b} : \A y \in {a, b} : x <= y
      BY <3>1
    <3>4. n \in {a, b} /\ \A y \in {a, b} : n <= y
      BY <3>2, <3>3
    <3> QED BY <3>1, <3>4 DEF a, b
  <2> HIDE DEF n
  <2>5. \A i \in 1..n : [outs[i] EXCEPT !.amount = amounts[i]] \in Outputs
    <3> SUFFICES ASSUME NEW i \in 1..n PROVE [outs[i] EXCEPT !.amount = amounts[i]] \in Outputs
      OBVIOUS
    <3>1. outs[i] \in Outputs /\ amounts[i] \in Nat
      BY <2>1, <2>2, <2>4
    <3> QED BY <3>1 DEF Outputs
  <2>6. change \in Seq(Outputs)
    <3>1. change \in [1..n -> Outputs]
      BY <2>5
    <3> HIDE DEF change
    <3> QED BY <2>4, <3>1
  <2> HIDE DEF change, k
  <2>7. signed' = SignAll(signed, change, k)
    BY <1>3, <2>3 DEF k
  <2>8. SignedOK(signed') /\ DOMAIN signed' = DOMAIN signed \cup Secrets(ToSet(change))
    BY <1>1, <2>6, <2>7, SignAllType
  <2> QED BY <1>3, <2>3, <2>6, <2>8
<1>4. \/ \E cost : /\ signed' = SignAll(signed, Change(cost), now.k)
                   /\ Goto(t, [now EXCEPT !.at = "melted", !.outs = Change(cost)])
                   /\ spent' = spent \cup Secrets(now.ins)
                   /\ quote' = [quote EXCEPT ![now.id] = "issued"]
      \/ End(t) /\ signed' = signed /\ spent' = spent /\ quote' = quote
  BY DEF PostMelt
<1> QED BY <1>2, <1>3, <1>4

\* What is received is entries of a token, of this wallet or another.
LEMMA ReceiveDoes ==
    ASSUME TypeOK, NEW t \in Tasks, Receive(t)
    PROVE  \E rest \in Seq(Purses) :
             Goto(t, [Idle EXCEPT !.op = "receive", !.at = "write", !.next = "entry", !.rest = rest])
<1>1. PICK entries \in {token.entries : token \in tokens} \cup Foreign :
        Goto(t, [Idle EXCEPT !.op = "receive", !.at = "write", !.next = "entry", !.rest = entries])
  BY DEF Receive
<1>2. Foreign \subseteq Seq(Purses)
  <2>1. SUBSET ForeignCoins \subseteq Purses
    BY ForeignAssumption, FS_Subset DEF Purses
  <2>2. \A s \in Seq(SUBSET ForeignCoins) : s \in Seq(Purses)
    <3> SUFFICES ASSUME NEW s \in Seq(SUBSET ForeignCoins) PROVE s \in Seq(Purses)
      OBVIOUS
    <3>1. \A i \in 1..Len(s) : s[i] \in Purses
      BY <2>1
    <3> QED BY <3>1
  <2> QED BY <2>2, ForeignAssumption
<1>3. entries \in Seq(Purses)
  BY <1>2 DEF TypeOK
<1> QED BY <1>1, <1>3

\* The coins of an entry join those held.
LEMMA AnsweredReceiveDoes ==
    ASSUME TypeOK, NEW t \in Tasks, AnsweredReceive(t)
    PROVE  \E held \in OwnPurses, todo \in Seq(Calls) :
             /\ Goto(t, [task[t] EXCEPT !.at = "write", !.ins = {}, !.outs = <<>>, !.held = held,
                                        !.todo = todo])
             /\ Secrets(held) = Secrets(task[t].held) \cup Secrets(ToSet(task[t].outs))
             /\ \A c \in ToSet(todo) : c.call = "increment_keyset_counter"
<1> DEFINE now == task[t]
           proofs == ConstructProofs(now.outs, now.k, now.k)
           held == now.held \cup proofs
           todo == Increment(now.k, Len(now.outs))
<1>1. Goto(t, [now EXCEPT !.at = "write", !.ins = {}, !.outs = <<>>, !.held = held, !.todo = todo])
  BY DEF AnsweredReceive
<1>2. now \in TaskStates /\ Control(now) /\ now.at = "answered"
  BY DEF TypeOK, AnsweredReceive
<1>3. now.outs \in Seq(Outputs) /\ now.k \in ToSet(Chain) /\ now.held \in OwnPurses
  BY <1>2 DEF TaskStates, OutputLists, Control
<1> HIDE DEF now
<1>4. proofs \in OwnPurses /\ Secrets(proofs) = Secrets(ToSet(now.outs))
  BY <1>3, ConstructedType
<1> HIDE DEF proofs
<1>5. held \in OwnPurses
  BY <1>3, <1>4, JoinedPurses
<1>6. Secrets(held) = Secrets(now.held) \cup Secrets(ToSet(now.outs))
  BY <1>4 DEF Secrets
<1>7. todo \in Seq(Calls) /\ \A c \in ToSet(todo) : c.call = "increment_keyset_counter"
  BY <1>3, IncrementCalls
<1> HIDE DEF held, todo
<1> QED BY <1>1, <1>5, <1>6, <1>7 DEF now

\* After the last entry all that was received is written.
LEMMA StoreReceivedDoes ==
    ASSUME TypeOK, NEW t \in Tasks, StoreReceived(t)
    PROVE  \E todo \in Seq(Calls) :
             /\ Goto(t, [task[t] EXCEPT !.next = "finish", !.todo = todo])
             /\ \A c \in ToSet(todo) : c.call = "add_proofs"
             /\ \A s \in Secrets(task[t].held) : Adds(ToSet(todo), s)
<1> DEFINE held == task[t].held
           todo == Adding(held, "Unspent")
<1>1. Goto(t, [task[t] EXCEPT !.next = "finish", !.todo = todo])
  BY DEF StoreReceived
<1>2. held \in OwnPurses
  BY DEF TypeOK, TaskStates
<1> HIDE DEF held
<1>3. /\ todo \in Seq(Calls) /\ \A c \in ToSet(todo) : c.call = "add_proofs"
      /\ \A s \in Secrets(held) : Adds(ToSet(todo), s)
  BY <1>2, AddingCalls DEF States
<1> HIDE DEF todo
<1> QED BY <1>1, <1>3 DEF held

-----------------------------------------------------------------------------
(* Restoring, checking and writing *)

\* Wallet::restore walks the keysets of the mint.
LEMMA RestoreDoes ==
    ASSUME TypeOK, NEW t \in Tasks, Restore(t)
    PROVE  /\ Refreshed(store, db, db')
           /\ \E rest \in Seq(ToSet(Chain)) :
                Goto(t, [Idle EXCEPT !.op = "restore", !.at = "batch", !.rest = rest])
<1>1. PICK info \in MintInfos :
        db' = AddMintKeysets(store, EnsureMint(db, info).db, Url, MintKeysets).db
  BY DEF Restore
<1> DEFINE d == EnsureMint(db, info).db
<1>2. store \in WalletStores /\ Refreshed(store, db, d)
  BY EnsureMintType DEF TypeOK, Sound
<1>3. db' = AddMintKeysets(store, d, Url, MintKeysets).db
  BY <1>1
<1> HIDE DEF d
<1>4. MintKeysets \in Seq(KeysetRows)
  BY MintKeysetsType DEF TypeOK
<1> HIDE DEF MintKeysets
<1>5. Refreshed(store, d, db')
  BY <1>2, <1>3, <1>4, KeysetsWritten DEF Refreshed
<1>6. Refreshed(store, db, db')
  BY <1>2, <1>5, RefreshedTwice
<1> DEFINE rest == SubSeq(Chain, 1, active)
<1>7. rest \in Seq(ToSet(Chain))
  BY WalletAssumption DEF TypeOK
<1>8. Goto(t, [Idle EXCEPT !.op = "restore", !.at = "batch", !.rest = rest])
  BY DEF Restore
<1> HIDE DEF rest
<1> QED BY <1>6, <1>7, <1>8

\* The signatures of a batch are outputs of this wallet; without one the next
\* batch or keyset follows.
LEMMA RestoreBatchDoes ==
    ASSUME TypeOK, NEW t \in Tasks, RestoreBatch(t)
    PROVE  \/ \E k \in ToSet(Chain), outs \in Seq(Outputs), todo \in Seq(Calls) :
                /\ Goto(t, [task[t] EXCEPT !.at = "write", !.k = k, !.outs = outs,
                                           !.next = "state", !.todo = todo])
                /\ \A c \in ToSet(todo) : c.call = "increment_keyset_counter"
           \/ Goto(t, [task[t] EXCEPT !.from = @ + BatchSize, !.empty = @ + 1])
           \/ Goto(t, [task[t] EXCEPT !.rest = Tail(@), !.from = 0, !.empty = 0])
<1> DEFINE now == task[t]
           k == Head(now.rest)
           found == {s \in {<<k, i>> : i \in now.from..(now.from + BatchSize)} : s \in DOMAIN signed}
           made == {[secret |-> s, amount |-> signed[s].amount] : s \in found}
           outs == SetToSeq(made)
           todo == Increment(k, Len(outs))
<1>1. \/ Goto(t, [now EXCEPT !.at = "write", !.k = k, !.outs = outs, !.next = "state", !.todo = todo])
      \/ Goto(t, [now EXCEPT !.from = @ + BatchSize, !.empty = @ + 1])
      \/ Goto(t, [now EXCEPT !.rest = Tail(@), !.from = 0, !.empty = 0])
  BY DEF RestoreBatch
<1>2. now.rest \in Seq(ToSet(Chain)) /\ now.rest # <<>> /\ now.from \in Nat
  BY DEF RestoreBatch, TypeOK, TaskStates, Control
<1> HIDE DEF now
<1>3. k \in ToSet(Chain)
  BY <1>2
<1> HIDE DEF k
<1>4. IsFiniteSet(found)
  <2> DEFINE from == now.from
             to == now.from + BatchSize
             all == {<<k, i>> : i \in from..to}
             f == [i \in from..to |-> <<k, i>>]
  <2>1. IsFiniteSet(from..to)
    BY <1>2, WalletAssumption, FS_Interval
  <2>2. f \in Surjection(from..to, all)
    BY DEF Surjection
  <2> HIDE DEF f, all, from, to
  <2>3. IsFiniteSet(all)
    BY <2>1, <2>2, FS_Surjection
  <2>4. found \subseteq all
    BY DEF all, from, to
  <2> QED BY <2>3, <2>4, FS_Subset
<1>5. IsFiniteSet(made) /\ made \subseteq Outputs
  <2> DEFINE f == [s \in found |-> [secret |-> s, amount |-> signed[s].amount]]
  <2>1. f \in Surjection(found, made)
    BY DEF Surjection
  <2>2. \A s \in found : s \in OwnSecrets /\ signed[s].amount \in Nat
    <3> SUFFICES ASSUME NEW s \in found PROVE s \in OwnSecrets /\ signed[s].amount \in Nat
      OBVIOUS
    <3>1. PICK i \in now.from..(now.from + BatchSize) : s = <<k, i>>
      OBVIOUS
    <3>2. i \in Nat
      BY <1>2, WalletAssumption
    <3>3. s \in DOMAIN signed /\ SignedOK(signed)
      BY DEF TypeOK
    <3> QED BY <1>3, <3>1, <3>2, <3>3, SecretsMade DEF SignedOK
  <2> HIDE DEF f, found
  <2>3. made \subseteq Outputs
    BY <2>2 DEF Outputs
  <2> HIDE DEF made
  <2>4. IsFiniteSet(made)
    BY <1>4, <2>1, FS_Surjection
  <2> QED BY <2>3, <2>4
<1> HIDE DEF found, made
<1>6. outs \in Seq(Outputs) /\ Len(outs) \in Nat
  <2>1. outs \in Seq(made)
    BY <1>5, InSomeOrder
  <2> HIDE DEF outs
  <2>2. \A i \in 1..Len(outs) : outs[i] \in Outputs
    BY <1>5, <2>1
  <2> QED BY <2>1, <2>2
<1> HIDE DEF outs
<1>7. todo \in Seq(Calls) /\ \A c \in ToSet(todo) : c.call = "increment_keyset_counter"
  BY <1>3, <1>6, IncrementCalls
<1> HIDE DEF todo
<1> QED BY <1>1, <1>3, <1>6, <1>7 DEF now

\* What the mint does not call spent is written.
LEMMA RestoreUnspentDoes ==
    ASSUME TypeOK, NEW t \in Tasks, RestoreUnspent(t)
    PROVE  \E todo \in Seq(Calls) :
             /\ Goto(t, [task[t] EXCEPT !.todo = todo, !.next = "batch"])
             /\ \A c \in ToSet(todo) : c.call = "add_proofs"
             /\ \A s \in Secrets(ToSet(task[t].outs)) : s \in spent \/ Adds(ToSet(todo), s)
             /\ \A s \in adrift : s \in adrift' \/ s \in Secrets(ToSet(task[t].outs))
<1> DEFINE now == task[t]
           proofs == ConstructProofs(now.outs, now.k, now.k)
           unspent == {p \in proofs : p.secret \notin spent}
           todo == Adding(unspent, "Unspent")
<1>1. /\ Goto(t, [now EXCEPT !.todo = todo, !.next = "batch"])
      /\ adrift' = (adrift \ Secrets(unspent)) \cup (Secrets(unspent) \cap TokenSecrets)
  BY DEF RestoreUnspent
<1>2. now.outs \in Seq(Outputs) /\ now.k \in ToSet(Chain)
  BY DEF TypeOK, TaskStates, OutputLists, Control, RestoreUnspent, Done
<1> HIDE DEF now
<1>3. proofs \in OwnPurses /\ Secrets(proofs) = Secrets(ToSet(now.outs))
  BY <1>2, ConstructedType
<1> HIDE DEF proofs
<1>4. unspent \in OwnPurses /\ Secrets(unspent) \subseteq Secrets(proofs)
  BY <1>3, PartOfPurse DEF Secrets
<1>5. \A s \in Secrets(proofs) : s \in spent \/ s \in Secrets(unspent)
  BY DEF Secrets
<1> HIDE DEF unspent
<1>6. /\ todo \in Seq(Calls) /\ \A c \in ToSet(todo) : c.call = "add_proofs"
      /\ \A s \in Secrets(unspent) : Adds(ToSet(todo), s)
  BY <1>4, AddingCalls DEF States
<1> HIDE DEF todo
<1>7. \A s \in Secrets(ToSet(now.outs)) : s \in spent \/ Adds(ToSet(todo), s)
  BY <1>3, <1>5, <1>6
<1>8. \A s \in adrift : s \in adrift' \/ s \in Secrets(ToSet(now.outs))
  BY <1>1, <1>3, <1>4
<1> QED BY <1>1, <1>6, <1>7, <1>8 DEF now

\* What a check of the pending proofs removes is spent.
LEMMA CheckPendingDoes ==
    ASSUME TypeOK, NEW t \in Tasks, CheckPending(t)
    PROVE  \E todo \in Seq(Calls) :
             /\ Goto(t, [Idle EXCEPT !.op = "pending", !.at = "write", !.todo = todo])
             /\ \A c \in ToSet(todo) : c.call = "remove_proofs"
             /\ \A s : Removes(ToSet(todo), s) => s \in spent
<1> DEFINE all == Stored(db, {"Pending", "Reserved"}, None)
           gone == {p \in all : p.secret \in spent}
           todo == Removing(gone)
<1>1. Goto(t, [Idle EXCEPT !.op = "pending", !.at = "write", !.todo = todo])
  BY DEF CheckPending
<1>2. all \in OwnPurses
  BY StoredType DEF TypeOK, Sound
<1> HIDE DEF all
<1>3. gone \in Purses /\ \A p \in gone : p.secret \in spent
  BY <1>2, PartOfPurse, OwnPursesArePurses
<1> HIDE DEF gone
<1>4. /\ todo \in Seq(Calls)
      /\ \A c \in ToSet(todo) : c.call = "remove_proofs" /\ ToSet(c.x) \subseteq gone
  BY <1>3, RemovingCalls
<1> HIDE DEF todo
<1>5. \A s : Removes(ToSet(todo), s) => s \in spent
  BY <1>3, <1>4 DEF Removes, Secrets
<1> QED BY <1>1, <1>4, <1>5

\* What one call of the store does.
Performed(d, c, e) ==
    CASE c.call = "add_proofs" -> CoinsPut(store, d, e, c.x)
      [] c.call = "remove_proofs" -> CoinsGone(store, d, e, c.x)
      [] c.call = "set_proof_state" -> CoinMarked(store, d, e, c.x, c.y)
      [] c.call = "remove_mint_quote" -> QuoteGone(store, d, e, c.x)
      [] OTHER -> Sound(store, e) /\ Coins(store, e) = Coins(store, d)
                  /\ Quotes(store, e) = Quotes(store, d)

\* Every call of the database does what its kind says, and only
\* set_proof_state can fail.
LEMMA PerformDoes ==
    ASSUME store \in WalletStores, NEW d, Sound(store, d), NEW c \in Calls
    PROVE  /\ Performed(d, c, Perform(d, c).db)
           /\ c.call # "set_proof_state" => Perform(d, c).ok
<1>1. CASE c.call = "add_proofs"
  <2>1. c.x \in Seq(CoinRows)
    BY <1>1 DEF Calls
  <2>2. Perform(d, c) = AddProofs(store, d, c.x)
    BY <1>1 DEF Perform
  <2>3. AddProofs(store, d, c.x).ok /\ CoinsPut(store, d, AddProofs(store, d, c.x).db, c.x)
    BY <2>1, CoinsWrites
  <2> QED BY <1>1, <2>2, <2>3 DEF Performed
<1>2. CASE c.call = "remove_proofs"
  <2>1. Perform(d, c) = RemoveProofs(store, d, c.x)
    BY <1>2 DEF Perform
  <2>2. RemoveProofs(store, d, c.x).ok /\ CoinsGone(store, d, RemoveProofs(store, d, c.x).db, c.x)
    BY CoinsRemoves
  <2> QED BY <1>2, <2>1, <2>2 DEF Performed
<1>3. CASE c.call = "set_proof_state"
  <2>1. Perform(d, c) = SetProofState(store, d, c.x, c.y) /\ c.y \in States
    BY <1>3 DEF Perform, Calls
  <2>2. CoinMarked(store, d, SetProofState(store, d, c.x, c.y).db, c.x, c.y)
    BY <2>1, CoinsMarked
  <2> QED BY <1>3, <2>1, <2>2 DEF Performed
<1>4. CASE c.call = "increment_keyset_counter"
  <2>1. Perform(d, c) = IncrementKeysetCounter(store, d, c.x, c.y) /\ c.y \in Nat
    BY <1>4 DEF Perform, Calls
  <2> QED BY <1>4, <2>1, CounterWrites DEF Performed
<1>5. CASE c.call = "remove_mint_quote"
  <2>1. Perform(d, c) = RemoveMintQuote(store, d, c.x)
    BY <1>5 DEF Perform
  <2>2. RemoveMintQuote(store, d, c.x).ok /\ QuoteGone(store, d, RemoveMintQuote(store, d, c.x).db, c.x)
    BY QuoteRemoves
  <2> QED BY <1>5, <2>1, <2>2 DEF Performed
<1>6. CASE c.call = "remove_melt_quote"
  <2>1. Perform(d, c) = RemoveMeltQuote(store, d, c.x)
    BY <1>6 DEF Perform
  <2> QED BY <1>6, <2>1, MeltRemoves DEF Performed
<1> QED BY <1>1, <1>2, <1>3, <1>4, <1>5, <1>6 DEF Calls

\* The next write of a task, and what is left of its list.
LEMMA WriteDoes ==
    ASSUME TypeOK, NEW t \in Tasks, Write(t)
    PROVE  /\ Sound(store, db')
           /\ \E c \in ToSet(task[t].todo), todo \in Seq(Calls) :
                /\ c \in Calls /\ Performed(db, c, db')
                /\ ToSet(task[t].todo) = {c} \cup ToSet(todo)
                /\ \/ Goto(t, [task[t] EXCEPT !.todo = todo]) /\ adrift' = adrift
                   \/ Fail(t)
<1> DEFINE old == task[t].todo
           c == Head(old)
           todo == Tail(old)
           e == Perform(db, c).db
<1>1. old \in Seq(Calls) /\ old # <<>>
  BY DEF TypeOK, TaskStates, CallLists, Write
<1>2. db' = e
  BY DEF Write
<1>3. \/ Goto(t, [task[t] EXCEPT !.todo = Tail(@)]) /\ adrift' = adrift
      \/ Fail(t)
  BY DEF Write
<1>4. \/ Goto(t, [task[t] EXCEPT !.todo = todo]) /\ adrift' = adrift
      \/ Fail(t)
  BY <1>3
<1> HIDE DEF old
<1>5. c \in ToSet(old) /\ c \in Calls /\ todo \in Seq(Calls) /\ ToSet(old) = {c} \cup ToSet(todo)
  BY <1>1, Elements
<1> HIDE DEF c, todo
<1>6. Performed(db, c, e)
  BY <1>5, PerformDoes DEF TypeOK
<1> HIDE DEF e
<1>7. Sound(store, e)
  <2>1. c.call \in {"add_proofs", "remove_proofs", "set_proof_state", "increment_keyset_counter",
                    "remove_mint_quote", "remove_melt_quote"}
    BY <1>5 DEF Calls
  <2> QED BY <1>6, <2>1 DEF Performed, CoinsPut, CoinsGone, CoinMarked, QuoteGone
<1> QED BY <1>2, <1>4, <1>5, <1>6, <1>7 DEF old

-----------------------------------------------------------------------------
(* Every state is typed *)

\* A step that moves one task and leaves the mint alone.
LEMMA QuietType ==
    ASSUME TypeOK, NEW t \in Tasks, NEW x \in TaskStates, Control(x), Goto(t, x),
           Sound(store, db'), random' \in Nat, OnlyTask
    PROVE  TypeOK'
<1>1. /\ store' = store /\ SignedOK(signed')
      /\ quote' \in [MintQuotes \cup MeltQuotes \cup Notes -> QuoteStates]
      /\ UNCHANGED <<active, clock>> /\ \A token \in tokens' : token.entries \in Seq(Purses)
  BY DEF OnlyTask, mintVars, TypeOK
<1> QED BY <1>1, MovedType

\* An operation that ends leaves an idle task.
LEMMA QuietEndType ==
    ASSUME TypeOK, NEW t \in Tasks, End(t), Sound(store, db'), random' \in Nat, OnlyTask
    PROVE  TypeOK'
BY IdleType, QuietType DEF End

\* A step that moves no task.
LEMMA StillType ==
    ASSUME TypeOK, UNCHANGED <<store, task, random>>, Sound(store, db'), SignedOK(signed'),
           quote' \in [MintQuotes \cup MeltQuotes \cup Notes -> QuoteStates],
           active' \in 1..Len(Chain), clock' \in Nat,
           \A token \in tokens' : token.entries \in Seq(Purses)
    PROVE  TypeOK'
BY DEF TypeOK

\* An operation that can go on with a swap.
Ready(x) ==
    /\ x \in TaskStates /\ x.op \in {"swap", "send", "melt", "receive"}
    /\ x.op = "melt" => x.id \in MeltQuotes
    /\ x.op = "receive" => x.next = "entry"
    /\ x.next = "entry" => x.op = "receive" /\ x.rest \in Seq(Purses)
    /\ x.next \notin {"state", "batch"}
    /\ x.next = "melt" => x.op = "melt"
    /\ x.next = "hand" => x.op = "send"

\* One that begins a swap leaves a task at its request.
LEMMA SwapBegunType ==
    ASSUME TypeOK, NEW t \in Tasks, NEW base, Ready(base), SwapBegun(t, base), OnlyTask
    PROVE  TypeOK'
<1>1. PICK k \in ToSet(Chain), outs \in Seq(Outputs), ins \in Purses, want \in Int \cup {None},
           cond \in Locks \cup {None} :
        Goto(t, [base EXCEPT !.at = "post", !.k = k, !.ins = ins, !.want = want,
                             !.cond = cond, !.outs = outs])
  BY DEF SwapBegun
<1> DEFINE x == [base EXCEPT !.at = "post", !.k = k, !.ins = ins, !.want = want,
                             !.cond = cond, !.outs = outs]
<1>2. x \in TaskStates
  <2>1. "post" \in Places /\ k \in KeysetOrNone /\ want \in WantOrNone /\ cond \in LockOrNone
        /\ outs \in OutputLists
    BY DEF Places, KeysetOrNone, WantOrNone, LockOrNone, OutputLists
  <2> QED BY <2>1 DEF Ready, TaskStates
<1>3. x.at = "post" /\ x.k = k /\ x.op = base.op /\ x.id = base.id /\ x.next = base.next /\ x.rest = base.rest
  BY DEF Ready, TaskStates
<1>4. Goto(t, x)
  BY <1>1
<1> HIDE DEF x
<1>5. Control(x)
  BY <1>3 DEF Ready, Control
<1>6. Sound(store, db') /\ random' \in Nat
  BY RefreshedSound DEF SwapBegun, TypeOK
<1> QED BY <1>2, <1>4, <1>5, <1>6, QuietType

\* The operations that store quotes and keysets only.
LEMMA MintQuoteType ==
    ASSUME TypeOK, NEW t \in Tasks, MintQuote(t) \/ MeltQuote(t) \/ MeltQuoteStatus(t)
                                    \/ AddMintCalled(t) \/ RefreshMintKeys(t)
    PROVE  TypeOK'
<1>1. CASE MintQuote(t)
  <2>1. Sound(store, db') /\ quote' \in [MintQuotes \cup MeltQuotes \cup Notes -> QuoteStates]
    BY <1>1, MintQuoteDoes DEF QuotePut, TypeOK, QuoteStates
  <2> QED BY <1>1, <2>1, StillType DEF MintQuote, TypeOK
<1>2. CASE MeltQuote(t)
  <2>1. Sound(store, db') /\ quote' \in [MintQuotes \cup MeltQuotes \cup Notes -> QuoteStates]
    BY <1>2, MeltQuoteDoes DEF TypeOK, QuoteStates
  <2> QED BY <1>2, <2>1, StillType DEF MeltQuote, TypeOK
<1>3. CASE MeltQuoteStatus(t)
  BY <1>3, MeltQuoteStatusDoes, StillType DEF MeltQuoteStatus, OnlyTask, mintVars, TypeOK
<1>4. CASE AddMintCalled(t)
  BY <1>4, AddMintDoes, RefreshedSound, StillType DEF AddMintCalled, OnlyTask, mintVars, TypeOK
<1>5. CASE RefreshMintKeys(t)
  BY <1>5, AddMintDoes, RefreshedSound, StillType DEF RefreshMintKeys, OnlyTask, mintVars, TypeOK
<1> QED BY <1>1, <1>2, <1>3, <1>4, <1>5

\* A mint request on its way.
LEMMA IssueType ==
    ASSUME TypeOK, NEW t \in Tasks, Refreshed(store, db, db'), random' \in Nat, OnlyTask,
           NEW src \in MintQuotes \cup Notes, NEW cond \in Locks \cup {None}, NEW k \in ToSet(Chain),
           NEW outs \in Seq(Outputs),
           Goto(t, [Idle EXCEPT !.op = "mint", !.at = "post", !.id = src, !.k = k,
                                !.cond = cond, !.outs = outs])
    PROVE  TypeOK'
<1> DEFINE x == [Idle EXCEPT !.op = "mint", !.at = "post", !.id = src, !.k = k,
                             !.cond = cond, !.outs = outs]
<1>1. x \in TaskStates
  <2>1. Idle \in TaskStates
    BY IdleType
  <2>2. /\ src \in Subjects /\ cond \in LockOrNone /\ k \in KeysetOrNone /\ outs \in OutputLists
        /\ "mint" \in OpNames /\ "post" \in Places
    BY DEF Subjects, LockOrNone, KeysetOrNone, OutputLists, OpNames, Places
  <2> QED BY <2>1, <2>2 DEF TaskStates
<1>2. x.op = "mint" /\ x.at = "post" /\ x.id = src /\ x.k = k /\ x.ins = {} /\ x.next = "finish"
  BY DEF Idle
<1>3. Goto(t, x)
  OBVIOUS
<1> HIDE DEF x
<1>4. Control(x)
  BY <1>2 DEF Control
<1>5. Sound(store, db')
  BY RefreshedSound DEF TypeOK
<1> QED BY <1>1, <1>3, <1>4, <1>5, QuietType

\* Check keeps the types.
LEMMA CheckType ==
    ASSUME TypeOK, NEW t \in Tasks, CheckMintQuote(t) \/ CheckedUnpaid(t) \/ CheckedPaid(t) \/ Mint(t)
    PROVE  TypeOK'
<1>1. CASE CheckMintQuote(t)
  <2>1. PICK q \in MintQuotes, row \in MintQuoteRows :
          /\ quote[q] \in {"unpaid", "paid"} /\ QuotePut(store, db, db', row)
          /\ Goto(t, [Idle EXCEPT !.op = "check", !.at = quote[q], !.id = q, !.expiry = row.expiry])
    BY <1>1, CheckMintQuoteDoes
  <2> DEFINE x == [Idle EXCEPT !.op = "check", !.at = quote[q], !.id = q, !.expiry = row.expiry]
  <2>2. x \in TaskStates
    <3>1. Idle \in TaskStates
      BY IdleType
    <3>2. row.expiry \in Nat
      BY DEF MintQuoteRows
    <3>3. q \in Subjects /\ "check" \in OpNames /\ quote[q] \in Places
      BY <2>1 DEF Subjects, OpNames, Places
    <3> QED BY <3>1, <3>2, <3>3 DEF TaskStates
  <2>3. x.op = "check" /\ x.at \in {"unpaid", "paid"} /\ x.id = q /\ x.next = "finish"
    BY <2>1 DEF Idle
  <2>4. Goto(t, x)
    BY <2>1
  <2> HIDE DEF x
  <2>5. Control(x)
    BY <2>3 DEF Control
  <2>6. Sound(store, db') /\ random' \in Nat /\ OnlyTask
    BY <1>1, <2>1 DEF QuotePut, CheckMintQuote, TypeOK
  <2> QED BY <2>2, <2>4, <2>5, <2>6, QuietType
<1>2. CASE CheckedUnpaid(t)
  <2>1. Sound(store, db')
    BY <1>2, CheckedUnpaidDoes
  <2> QED BY <1>2, <2>1, QuietEndType DEF CheckedUnpaid, TypeOK
<1>3. CASE CheckedPaid(t)
  <2>1. OnlyTask
    BY <1>3 DEF CheckedPaid
  <2>2. /\ Refreshed(store, db, db') /\ random' \in Nat
        /\ \/ End(t)
           \/ \E src \in MintQuotes, k \in ToSet(Chain), outs \in Seq(Outputs) :
                Goto(t, [Idle EXCEPT !.op = "mint", !.at = "post", !.id = src, !.k = k,
                                     !.cond = None, !.outs = outs])
    BY <1>3, CheckedPaidDoes
  <2>3. CASE End(t)
    BY <2>1, <2>2, <2>3, QuietEndType, RefreshedSound DEF TypeOK
  <2>4. ASSUME NEW src \in MintQuotes, NEW k \in ToSet(Chain), NEW outs \in Seq(Outputs),
               Goto(t, [Idle EXCEPT !.op = "mint", !.at = "post", !.id = src, !.k = k,
                                    !.cond = None, !.outs = outs])
        PROVE  TypeOK'
    <3>1. src \in MintQuotes \cup Notes /\ None \in Locks \cup {None}
      OBVIOUS
    <3> QED BY <2>1, <2>2, <2>4, <3>1, IssueType
  <2> QED BY <2>2, <2>3, <2>4
<1>4. CASE Mint(t)
  <2>1. OnlyTask
    BY <1>4 DEF Mint
  <2>2. /\ Refreshed(store, db, db') /\ random' \in Nat
        /\ \E src \in MintQuotes \cup Notes, cond \in Locks \cup {None}, k \in ToSet(Chain),
              outs \in Seq(Outputs) :
             Goto(t, [Idle EXCEPT !.op = "mint", !.at = "post", !.id = src, !.k = k,
                                  !.cond = cond, !.outs = outs])
    BY <1>4, MintDoes
  <2> QED BY <2>1, <2>2, IssueType
<1> QED BY <1>1, <1>2, <1>3, <1>4

\* The task goes on from where it stands.
LEMMA NowType ==
    ASSUME TypeOK, NEW t \in Tasks
    PROVE  task[t] \in TaskStates /\ Control(task[t])
BY DEF TypeOK

\* PostMint keeps the types.
LEMMA PostMintType ==
    ASSUME TypeOK, NEW t \in Tasks, PostMint(t)
    PROVE  TypeOK'
<1> DEFINE now == task[t]
           x == [now EXCEPT !.at = "answered"]
<1>1. now \in TaskStates /\ Control(now) /\ now.op = "mint" /\ now.at = "post"
  BY NowType DEF PostMint
<1>2. /\ UNCHANGED <<store, active, clock>> /\ Sound(store, db') /\ random' \in Nat
      /\ \A token \in tokens' : token.entries \in Seq(Purses)
  BY DEF PostMint, TypeOK
<1>3. /\ SignedOK(signed')
      /\ \/ quote' = [quote EXCEPT ![now.id] = "issued"] /\ Goto(t, x)
         \/ End(t) /\ quote' = quote
  BY PostMintDoes
<1>4. quote' \in [MintQuotes \cup MeltQuotes \cup Notes -> QuoteStates]
  BY <1>3 DEF TypeOK, QuoteStates
<1> HIDE DEF now
<1>5. x \in TaskStates
  <2>1. "answered" \in Places
    BY DEF Places
  <2> QED BY <1>1, <2>1 DEF TaskStates
<1>6. Control(x)
  <2>1. /\ x.op = "mint" /\ x.at = "answered" /\ x.k = now.k /\ x.id = now.id /\ x.next = now.next
        /\ x.rest = now.rest /\ x.ins = now.ins
    BY <1>1 DEF TaskStates
  <2> HIDE DEF x
  <2> QED BY <1>1, <2>1 DEF Control
<1> HIDE DEF x
<1>7. CASE Goto(t, x)
  BY <1>2, <1>3, <1>4, <1>5, <1>6, <1>7, MovedType
<1>8. CASE End(t)
  BY <1>2, <1>3, <1>4, <1>8, EndType
<1> QED BY <1>3, <1>7, <1>8

\* A step that moves one task, the store and the history.
LEMMA KeptType ==
    ASSUME TypeOK, NEW t \in Tasks, NEW x \in TaskStates, Control(x), Goto(t, x),
           Sound(store, db'), random' \in Nat, UNCHANGED <<store, mintVars, clock, tokens>>
    PROVE  TypeOK'
<1>1. /\ store' = store /\ SignedOK(signed')
      /\ quote' \in [MintQuotes \cup MeltQuotes \cup Notes -> QuoteStates]
      /\ UNCHANGED <<active, clock>> /\ \A token \in tokens' : token.entries \in Seq(Purses)
  BY DEF mintVars, TypeOK
<1> QED BY <1>1, MovedType

\* An answer that leaves writes to make.
LEMMA WritingState ==
    ASSUME NEW now \in TaskStates, Control(now), now.op \in {"mint", "swap", "send", "melt"},
           NEW held \in OwnPurses, NEW todo \in Seq(Calls)
    PROVE  /\ [now EXCEPT !.at = "write", !.held = held, !.todo = todo] \in TaskStates
           /\ Control([now EXCEPT !.at = "write", !.held = held, !.todo = todo])
<1> DEFINE x == [now EXCEPT !.at = "write", !.held = held, !.todo = todo]
<1>1. x \in TaskStates
  <2>1. "write" \in Places /\ todo \in CallLists
    BY DEF Places, CallLists
  <2> QED BY <2>1 DEF TaskStates
<1>2. /\ x.op = now.op /\ x.at = "write" /\ x.id = now.id /\ x.k = now.k /\ x.next = now.next
      /\ x.rest = now.rest /\ x.ins = now.ins
  BY DEF TaskStates
<1> HIDE DEF x
<1>3. Control(x)
  BY <1>2 DEF Control
<1> QED BY <1>1, <1>3 DEF x

\* A write that keeps what is held.
LEMMA WritingSame ==
    ASSUME NEW now \in TaskStates, NEW todo
    PROVE  [now EXCEPT !.at = "write", !.todo = todo]
               = [now EXCEPT !.at = "write", !.held = now.held, !.todo = todo]
BY DEF TaskStates

\* AnsweredMint keeps the types.
LEMMA AnsweredMintType ==
    ASSUME TypeOK, NEW t \in Tasks, AnsweredMint(t)
    PROVE  TypeOK'
<1>1. PICK todo \in Seq(Calls) : Goto(t, [task[t] EXCEPT !.at = "write", !.todo = todo])
  BY AnsweredMintDoes
<1>2. task[t] \in TaskStates /\ Control(task[t]) /\ task[t].op = "mint" /\ task[t].held \in OwnPurses
  BY NowType DEF AnsweredMint, TaskStates
<1> DEFINE now == task[t]
           x == [now EXCEPT !.at = "write", !.held = now.held, !.todo = todo]
<1>3. Goto(t, x)
  BY <1>1, <1>2, WritingSame
<1>4. x \in TaskStates /\ Control(x)
  <2> HIDE DEF now
  <2> QED BY <1>2, WritingState DEF now
<1> HIDE DEF x
<1>5. Sound(store, db') /\ random' \in Nat /\ OnlyTask
  BY DEF AnsweredMint, TypeOK
<1> QED BY <1>3, <1>4, <1>5, QuietType

\* AnsweredSwap keeps the types.
LEMMA AnsweredSwapType ==
    ASSUME TypeOK, NEW t \in Tasks, AnsweredSwap(t)
    PROVE  TypeOK'
<1>1. PICK todo \in Seq(Calls), held \in OwnPurses :
        Goto(t, [task[t] EXCEPT !.at = "write", !.held = held, !.todo = todo])
  BY AnsweredSwapDoes
<1>2. task[t] \in TaskStates /\ Control(task[t]) /\ task[t].op \in {"swap", "send", "melt"}
  BY NowType DEF AnsweredSwap
<1> DEFINE now == task[t]
           x == [now EXCEPT !.at = "write", !.held = held, !.todo = todo]
<1>3. Goto(t, x)
  BY <1>1
<1>4. x \in TaskStates /\ Control(x)
  <2> HIDE DEF now
  <2> QED BY <1>2, WritingState DEF now
<1> HIDE DEF x
<1>5. Sound(store, db')
  BY AnsweredSwapDoes, RefreshedSound DEF TypeOK
<1>6. random' \in Nat /\ UNCHANGED <<store, mintVars, clock, tokens>>
  BY DEF AnsweredSwap, TypeOK
<1> QED BY <1>3, <1>4, <1>5, <1>6, KeptType

\* AnsweredMelt keeps the types.
LEMMA AnsweredMeltType ==
    ASSUME TypeOK, NEW t \in Tasks, AnsweredMelt(t)
    PROVE  TypeOK'
<1>1. PICK todo \in Seq(Calls) : Goto(t, [task[t] EXCEPT !.at = "write", !.todo = todo])
  BY AnsweredMeltDoes
<1>2. task[t] \in TaskStates /\ Control(task[t]) /\ task[t].op = "melt" /\ task[t].held \in OwnPurses
  BY NowType DEF AnsweredMelt, TaskStates, Control
<1> DEFINE now == task[t]
           x == [now EXCEPT !.at = "write", !.held = now.held, !.todo = todo]
<1>3. Goto(t, x)
  BY <1>1, <1>2, WritingSame
<1>4. x \in TaskStates /\ Control(x)
  <2> HIDE DEF now
  <2> QED BY <1>2, WritingState DEF now
<1> HIDE DEF x
<1>5. Sound(store, db')
  BY AnsweredMeltDoes, RefreshedSound DEF TypeOK
<1>6. random' \in Nat /\ UNCHANGED <<store, mintVars, clock, tokens>>
  BY DEF AnsweredMelt, TypeOK
<1> QED BY <1>3, <1>4, <1>5, <1>6, KeptType

\* The operations that begin with a swap are ready for one.
LEMMA SwapType ==
    ASSUME TypeOK, NEW t \in Tasks, Swap(t)
    PROVE  TypeOK'
<1> DEFINE base == [Idle EXCEPT !.op = "swap"]
<1>1. base \in TaskStates
  <2>1. Idle \in TaskStates /\ "swap" \in OpNames
    BY IdleType DEF OpNames
  <2> QED BY <2>1 DEF TaskStates
<1>2. base.op = "swap" /\ base.next = "finish"
  BY DEF Idle
<1>3. SwapBegun(t, base) /\ OnlyTask
  BY SwapDoes DEF Swap
<1> HIDE DEF base
<1>4. Ready(base)
  BY <1>1, <1>2 DEF Ready
<1> QED BY <1>3, <1>4, SwapBegunType

\* Send keeps the types.
LEMMA SendType ==
    ASSUME TypeOK, NEW t \in Tasks, Send(t)
    PROVE  TypeOK'
<1>0. OnlyTask
  BY DEF Send
<1>1. ASSUME NEW locked \in OwnPurses,
             SwapBegun(t, [Idle EXCEPT !.op = "send", !.next = "hand", !.held = locked])
      PROVE  TypeOK'
  <2> DEFINE base == [Idle EXCEPT !.op = "send", !.next = "hand", !.held = locked]
  <2>1. base \in TaskStates
    <3>1. Idle \in TaskStates /\ "send" \in OpNames /\ "hand" \in Nexts
      BY IdleType DEF OpNames, Nexts
    <3> QED BY <3>1 DEF TaskStates
  <2>2. base.op = "send" /\ base.next = "hand"
    BY DEF Idle
  <2>3. SwapBegun(t, base)
    BY <1>1
  <2> HIDE DEF base
  <2>4. Ready(base)
    BY <2>1, <2>2 DEF Ready
  <2> QED BY <1>0, <2>3, <2>4, SwapBegunType
<1>2. ASSUME NEW ps \in OwnPurses, Goto(t, Handing(ps)), Refreshed(store, db, db'), random' = random
      PROVE  TypeOK'
  <2> DEFINE x == Handing(ps)
             todo == Setting(ps, "Reserved")
  <2>1. todo \in Seq(Calls)
    BY OwnPursesArePurses, SettingCalls DEF States
  <2>2. x = [Idle EXCEPT !.op = "send", !.next = "hand", !.at = "write", !.held = ps, !.todo = todo]
    BY DEF Handing
  <2> HIDE DEF todo, x
  <2>3. x \in TaskStates
    <3>1. /\ Idle \in TaskStates /\ "send" \in OpNames /\ "hand" \in Nexts /\ "write" \in Places
          /\ todo \in CallLists
      BY <2>1, IdleType DEF OpNames, Nexts, Places, CallLists
    <3> QED BY <2>2, <3>1 DEF TaskStates
  <2>4. x.op = "send" /\ x.next = "hand" /\ x.at = "write"
    BY <2>2 DEF Idle
  <2>5. Control(x)
    BY <2>4 DEF Control
  <2>6. Goto(t, x) /\ Sound(store, db') /\ random' \in Nat
    BY <1>2, RefreshedSound DEF x, TypeOK
  <2> QED BY <1>0, <2>3, <2>5, <2>6, QuietType
<1> QED BY <1>1, <1>2, SendDoes

\* Melt keeps the types.
LEMMA MeltType ==
    ASSUME TypeOK, NEW t \in Tasks, Melt(t)
    PROVE  TypeOK'
<1>0. OnlyTask
  BY DEF Melt
<1>1. ASSUME NEW q \in MeltQuotes, SwapBegun(t, [Idle EXCEPT !.op = "melt", !.next = "melt", !.id = q])
      PROVE  TypeOK'
  <2> DEFINE base == [Idle EXCEPT !.op = "melt", !.next = "melt", !.id = q]
  <2>1. base \in TaskStates
    <3>1. Idle \in TaskStates /\ "melt" \in OpNames /\ "melt" \in Nexts /\ q \in Subjects
      BY IdleType DEF OpNames, Nexts, Subjects
    <3> QED BY <3>1 DEF TaskStates
  <2>2. base.op = "melt" /\ base.next = "melt" /\ base.id = q
    BY DEF Idle
  <2>3. SwapBegun(t, base)
    BY <1>1
  <2> HIDE DEF base
  <2>4. Ready(base)
    BY <2>1, <2>2 DEF Ready
  <2> QED BY <1>0, <2>3, <2>4, SwapBegunType
<1>2. ASSUME NEW q \in MeltQuotes, NEW ps \in OwnPurses, Refreshed(store, db, db'), random' = random,
             Goto(t, [Idle EXCEPT !.op = "melt", !.next = "melt", !.at = "write", !.id = q, !.held = ps])
      PROVE  TypeOK'
  <2> DEFINE x == [Idle EXCEPT !.op = "melt", !.next = "melt", !.at = "write", !.id = q, !.held = ps]
  <2>1. x \in TaskStates
    <3>1. /\ Idle \in TaskStates /\ "melt" \in OpNames /\ "melt" \in Nexts /\ "write" \in Places
          /\ q \in Subjects
      BY IdleType DEF OpNames, Nexts, Places, Subjects
    <3> QED BY <3>1 DEF TaskStates
  <2>2. x.op = "melt" /\ x.next = "melt" /\ x.at = "write" /\ x.id = q
    BY DEF Idle
  <2>3. Goto(t, x) /\ Sound(store, db') /\ random' \in Nat
    BY <1>2, RefreshedSound DEF TypeOK
  <2> HIDE DEF x
  <2>4. Control(x)
    BY <2>2 DEF Control
  <2> QED BY <1>0, <2>1, <2>3, <2>4, QuietType
<1> QED BY <1>1, <1>2, MeltDoes

\* BeginMelt keeps the types.
LEMMA BeginMeltType ==
    ASSUME TypeOK, NEW t \in Tasks, BeginMelt(t)
    PROVE  TypeOK'
<1> DEFINE now == task[t]
<1>1. now \in TaskStates /\ Control(now) /\ now.next = "melt"
  BY NowType DEF BeginMelt, Done
<1>2. now.id \in MeltQuotes /\ now.held \in Purses
  BY <1>1, OwnPursesArePurses DEF Control, TaskStates
<1>3. PICK k \in ToSet(Chain), outs \in Seq(Outputs) :
        Goto(t, [Idle EXCEPT !.op = "melt", !.at = "post_melt", !.id = now.id, !.k = k,
                             !.ins = now.held, !.outs = outs])
  BY BeginMeltDoes
<1> DEFINE x == [Idle EXCEPT !.op = "melt", !.at = "post_melt", !.id = now.id, !.k = k,
                             !.ins = now.held, !.outs = outs]
<1>4. Goto(t, x)
  BY <1>3
<1> HIDE DEF now
<1>5. x \in TaskStates
  <2>1. /\ Idle \in TaskStates /\ "melt" \in OpNames /\ "post_melt" \in Places /\ now.id \in Subjects
        /\ k \in KeysetOrNone /\ outs \in OutputLists
    BY <1>2, IdleType DEF OpNames, Places, Subjects, KeysetOrNone, OutputLists
  <2> QED BY <1>2, <2>1 DEF TaskStates
<1>6. x.op = "melt" /\ x.at = "post_melt" /\ x.id = now.id /\ x.k = k /\ x.next = "finish"
  BY DEF Idle
<1> HIDE DEF x
<1>7. Control(x)
  BY <1>2, <1>6 DEF Control
<1>8. Sound(store, db') /\ random' \in Nat /\ OnlyTask
  BY BeginMeltDoes, RefreshedSound DEF BeginMelt, TypeOK
<1> QED BY <1>4, <1>5, <1>7, <1>8, QuietType

\* PostSwap keeps the types.
LEMMA PostSwapType ==
    ASSUME TypeOK, NEW t \in Tasks, PostSwap(t)
    PROVE  TypeOK'
<1> DEFINE now == task[t]
           x == [now EXCEPT !.at = "answered"]
<1>1. now \in TaskStates /\ Control(now) /\ now.at = "post"
  BY NowType DEF PostSwap
<1>2. /\ UNCHANGED <<store, active, clock, quote>> /\ Sound(store, db') /\ random' \in Nat
      /\ \A token \in tokens' : token.entries \in Seq(Purses)
  BY DEF PostSwap, TypeOK
<1>3. SignedOK(signed') /\ (Goto(t, x) \/ End(t))
  BY PostSwapDoes
<1>4. quote' \in [MintQuotes \cup MeltQuotes \cup Notes -> QuoteStates]
  BY <1>2 DEF TypeOK
<1> HIDE DEF now
<1>5. x \in TaskStates
  <2>1. "answered" \in Places
    BY DEF Places
  <2> QED BY <1>1, <2>1 DEF TaskStates
<1>6. Control(x)
  <2>1. /\ x.op = now.op /\ x.at = "answered" /\ x.k = now.k /\ x.id = now.id /\ x.next = now.next
        /\ x.rest = now.rest /\ x.ins = now.ins
    BY <1>1 DEF TaskStates
  <2> HIDE DEF x
  <2> QED BY <1>1, <2>1 DEF Control
<1> HIDE DEF x
<1>7. CASE Goto(t, x)
  BY <1>2, <1>3, <1>4, <1>5, <1>6, <1>7, MovedType
<1>8. CASE End(t)
  BY <1>2, <1>3, <1>4, <1>8, EndType
<1> QED BY <1>3, <1>7, <1>8

\* PostMelt keeps the types.
LEMMA PostMeltType ==
    ASSUME TypeOK, NEW t \in Tasks, PostMelt(t)
    PROVE  TypeOK'
<1> DEFINE now == task[t]
<1>1. now \in TaskStates /\ Control(now) /\ now.op = "melt" /\ now.at = "post_melt"
  BY NowType DEF PostMelt
<1>2. /\ UNCHANGED <<store, active, clock>> /\ Sound(store, db') /\ random' \in Nat
      /\ \A token \in tokens' : token.entries \in Seq(Purses)
  BY DEF PostMelt, TypeOK
<1>3. CASE End(t) /\ signed' = signed /\ quote' = quote
  <2>1. SignedOK(signed') /\ quote' \in [MintQuotes \cup MeltQuotes \cup Notes -> QuoteStates]
    BY <1>3 DEF TypeOK
  <2> QED BY <1>2, <1>3, <2>1, EndType
<1>4. ASSUME NEW change \in Seq(Outputs), SignedOK(signed'),
             quote' = [quote EXCEPT ![now.id] = "issued"],
             Goto(t, [now EXCEPT !.at = "melted", !.outs = change])
      PROVE  TypeOK'
  <2> DEFINE x == [now EXCEPT !.at = "melted", !.outs = change]
  <2>1. quote' \in [MintQuotes \cup MeltQuotes \cup Notes -> QuoteStates]
    BY <1>4 DEF TypeOK, QuoteStates
  <2> HIDE DEF now
  <2>2. x \in TaskStates
    <3>1. "melted" \in Places /\ change \in OutputLists
      BY DEF Places, OutputLists
    <3> QED BY <1>1, <3>1 DEF TaskStates
  <2>3. /\ x.op = "melt" /\ x.at = "melted" /\ x.k = now.k /\ x.id = now.id /\ x.next = now.next
        /\ x.rest = now.rest /\ x.ins = now.ins
    BY <1>1 DEF TaskStates
  <2>4. Goto(t, x)
    BY <1>4
  <2> HIDE DEF x
  <2>5. Control(x)
    BY <1>1, <2>3 DEF Control
  <2> QED BY <1>2, <1>4, <2>1, <2>2, <2>4, <2>5, MovedType
<1> QED BY <1>3, <1>4, PostMeltDoes

\* Receive keeps the types.
LEMMA ReceiveType ==
    ASSUME TypeOK, NEW t \in Tasks, Receive(t)
    PROVE  TypeOK'
<1>1. PICK rest \in Seq(Purses) :
        Goto(t, [Idle EXCEPT !.op = "receive", !.at = "write", !.next = "entry", !.rest = rest])
  BY ReceiveDoes
<1> DEFINE x == [Idle EXCEPT !.op = "receive", !.at = "write", !.next = "entry", !.rest = rest]
<1>2. x \in TaskStates
  <2>1. /\ Idle \in TaskStates /\ "receive" \in OpNames /\ "write" \in Places /\ "entry" \in Nexts
        /\ rest \in Remainders
    BY IdleType DEF OpNames, Places, Nexts, Remainders
  <2> QED BY <2>1 DEF TaskStates
<1>3. /\ x.op = "receive" /\ x.at = "write" /\ x.next = "entry" /\ x.rest = rest /\ x.outs = <<>>
      /\ x.ins = {}
  BY DEF Idle
<1>4. Goto(t, x)
  BY <1>1
<1> HIDE DEF x
<1>5. Control(x)
  BY <1>3 DEF Control
<1>6. Sound(store, db') /\ random' \in Nat /\ OnlyTask
  BY DEF Receive, TypeOK
<1> QED BY <1>2, <1>4, <1>5, <1>6, QuietType

\* BeginEntry keeps the types.
LEMMA BeginEntryType ==
    ASSUME TypeOK, NEW t \in Tasks, BeginEntry(t)
    PROVE  TypeOK'
<1> DEFINE now == task[t]
           base == [now EXCEPT !.rest = Tail(@)]
<1>1. now \in TaskStates /\ Control(now) /\ now.next = "entry" /\ now.rest # <<>>
  BY NowType DEF BeginEntry, Done
<1>2. SwapBegun(t, base) /\ OnlyTask
  BY BeginEntryDoes DEF BeginEntry
<1> HIDE DEF now
<1>3. now.op = "receive" /\ now.rest \in Seq(Purses) /\ Tail(now.rest) \in Seq(Purses)
  BY <1>1 DEF Control
<1>4. base \in TaskStates
  <2>1. Tail(now.rest) \in Remainders
    BY <1>3 DEF Remainders
  <2> QED BY <1>1, <2>1 DEF TaskStates
<1>5. base.op = "receive" /\ base.next = "entry" /\ base.rest = Tail(now.rest)
  BY <1>1, <1>3 DEF TaskStates
<1> HIDE DEF base
<1>6. Ready(base)
  BY <1>3, <1>4, <1>5 DEF Ready
<1> QED BY <1>2, <1>6, SwapBegunType

\* AnsweredReceive keeps the types.
LEMMA AnsweredReceiveType ==
    ASSUME TypeOK, NEW t \in Tasks, AnsweredReceive(t)
    PROVE  TypeOK'
<1> DEFINE now == task[t]
<1>1. now \in TaskStates /\ Control(now) /\ now.op = "receive"
  BY NowType DEF AnsweredReceive
<1>2. PICK held \in OwnPurses, todo \in Seq(Calls) :
        Goto(t, [now EXCEPT !.at = "write", !.ins = {}, !.outs = <<>>, !.held = held, !.todo = todo])
  BY AnsweredReceiveDoes
<1> DEFINE x == [now EXCEPT !.at = "write", !.ins = {}, !.outs = <<>>, !.held = held, !.todo = todo]
<1>3. Goto(t, x)
  BY <1>2
<1> HIDE DEF now
<1>4. x \in TaskStates
  <2>1. "write" \in Places /\ {} \in Purses /\ <<>> \in OutputLists /\ todo \in CallLists
    BY FS_EmptySet DEF Places, Purses, OutputLists, CallLists
  <2> QED BY <1>1, <2>1 DEF TaskStates
<1>5. /\ x.op = "receive" /\ x.at = "write" /\ x.next = now.next /\ x.rest = now.rest
      /\ x.outs = <<>> /\ x.ins = {}
  BY <1>1 DEF TaskStates
<1> HIDE DEF x
<1>6. Control(x)
  BY <1>1, <1>5 DEF Control
<1>7. Sound(store, db') /\ random' \in Nat /\ OnlyTask
  BY DEF AnsweredReceive, TypeOK
<1> QED BY <1>3, <1>4, <1>6, <1>7, QuietType

\* StoreReceived keeps the types.
LEMMA StoreReceivedType ==
    ASSUME TypeOK, NEW t \in Tasks, StoreReceived(t)
    PROVE  TypeOK'
<1> DEFINE now == task[t]
<1>1. now \in TaskStates /\ Control(now) /\ now.next = "entry" /\ now.at = "write"
  BY NowType DEF StoreReceived, Done
<1>2. PICK todo \in Seq(Calls) : Goto(t, [now EXCEPT !.next = "finish", !.todo = todo])
  BY StoreReceivedDoes
<1> DEFINE x == [now EXCEPT !.next = "finish", !.todo = todo]
<1>3. Goto(t, x)
  BY <1>2
<1> HIDE DEF now
<1>4. x \in TaskStates
  <2>1. "finish" \in Nexts /\ todo \in CallLists
    BY DEF Nexts, CallLists
  <2> QED BY <1>1, <2>1 DEF TaskStates
<1>5. /\ x.op = now.op /\ x.at = now.at /\ x.next = "finish" /\ x.rest = now.rest /\ x.outs = now.outs
      /\ x.ins = now.ins /\ x.id = now.id /\ x.k = now.k
  BY <1>1 DEF TaskStates
<1> HIDE DEF x
<1>6. Control(x)
  BY <1>1, <1>5 DEF Control
<1>7. Sound(store, db') /\ random' \in Nat /\ OnlyTask
  BY DEF StoreReceived, TypeOK
<1> QED BY <1>3, <1>4, <1>6, <1>7, QuietType

\* Restore keeps the types.
LEMMA RestoreType ==
    ASSUME TypeOK, NEW t \in Tasks, Restore(t)
    PROVE  TypeOK'
<1>1. PICK rest \in Seq(ToSet(Chain)) :
        Goto(t, [Idle EXCEPT !.op = "restore", !.at = "batch", !.rest = rest])
  BY RestoreDoes
<1> DEFINE x == [Idle EXCEPT !.op = "restore", !.at = "batch", !.rest = rest]
<1>2. x \in TaskStates
  <2>1. Idle \in TaskStates /\ "restore" \in OpNames /\ "batch" \in Places /\ rest \in Remainders
    BY IdleType DEF OpNames, Places, Remainders
  <2> QED BY <2>1 DEF TaskStates
<1>3. x.op = "restore" /\ x.at = "batch" /\ x.next = "finish" /\ x.rest = rest /\ x.ins = {}
  BY DEF Idle
<1>4. Goto(t, x)
  BY <1>1
<1> HIDE DEF x
<1>5. Control(x)
  BY <1>3 DEF Control
<1>6. Sound(store, db') /\ random' \in Nat /\ OnlyTask
  BY RestoreDoes, RefreshedSound DEF Restore, TypeOK
<1> QED BY <1>2, <1>4, <1>5, <1>6, QuietType

\* RestoreBatch keeps the types.
LEMMA RestoreBatchType ==
    ASSUME TypeOK, NEW t \in Tasks, RestoreBatch(t)
    PROVE  TypeOK'
<1> DEFINE now == task[t]
<1>1. now \in TaskStates /\ Control(now) /\ now.at = "batch" /\ now.rest # <<>>
  BY NowType DEF RestoreBatch
<1>2. \/ \E k \in ToSet(Chain), outs \in Seq(Outputs), todo \in Seq(Calls) :
           Goto(t, [now EXCEPT !.at = "write", !.k = k, !.outs = outs, !.next = "state", !.todo = todo])
      \/ Goto(t, [now EXCEPT !.from = @ + BatchSize, !.empty = @ + 1])
      \/ Goto(t, [now EXCEPT !.rest = Tail(@), !.from = 0, !.empty = 0])
  BY RestoreBatchDoes
<1>3. Sound(store, db') /\ random' \in Nat /\ OnlyTask
  BY DEF RestoreBatch, TypeOK
<1> HIDE DEF now
<1>4. now.op = "restore" /\ now.rest \in Seq(ToSet(Chain)) /\ now.ins = {}
  BY <1>1 DEF Control
<1>5. ASSUME NEW k \in ToSet(Chain), NEW outs \in Seq(Outputs), NEW todo \in Seq(Calls),
             Goto(t, [now EXCEPT !.at = "write", !.k = k, !.outs = outs, !.next = "state", !.todo = todo])
      PROVE  TypeOK'
  <2> DEFINE x == [now EXCEPT !.at = "write", !.k = k, !.outs = outs, !.next = "state", !.todo = todo]
  <2>1. x \in TaskStates
    <3>1. "write" \in Places /\ k \in KeysetOrNone /\ outs \in OutputLists /\ "state" \in Nexts /\ todo \in CallLists
      BY DEF Places, KeysetOrNone, OutputLists, Nexts, CallLists
    <3> QED BY <1>1, <3>1 DEF TaskStates
  <2>2. /\ x.op = "restore" /\ x.at = "write" /\ x.next = "state" /\ x.rest = now.rest /\ x.ins = {}
        /\ x.k = k
    BY <1>1, <1>4 DEF TaskStates
  <2>3. Goto(t, x)
    BY <1>5
  <2> HIDE DEF x
  <2>4. Control(x)
    BY <1>4, <2>2 DEF Control
  <2> QED BY <1>3, <2>1, <2>3, <2>4, QuietType
<1>6. CASE Goto(t, [now EXCEPT !.from = @ + BatchSize, !.empty = @ + 1])
  <2> DEFINE x == [now EXCEPT !.from = @ + BatchSize, !.empty = @ + 1]
  <2>1. x \in TaskStates
    <3>1. now.from + BatchSize \in Nat /\ now.empty + 1 \in Nat
      BY <1>1, WalletAssumption DEF TaskStates
    <3> QED BY <1>1, <3>1 DEF TaskStates
  <2>2. /\ x.op = now.op /\ x.at = now.at /\ x.next = now.next /\ x.rest = now.rest /\ x.outs = now.outs
        /\ x.ins = now.ins /\ x.id = now.id /\ x.k = now.k
    BY <1>1 DEF TaskStates
  <2>3. Goto(t, x)
    BY <1>6
  <2> HIDE DEF x
  <2>4. Control(x)
    BY <1>1, <1>4, <2>2 DEF Control
  <2> QED BY <1>3, <2>1, <2>3, <2>4, QuietType
<1>7. CASE Goto(t, [now EXCEPT !.rest = Tail(@), !.from = 0, !.empty = 0])
  <2> DEFINE x == [now EXCEPT !.rest = Tail(@), !.from = 0, !.empty = 0]
  <2>0. Tail(now.rest) \in Seq(ToSet(Chain))
    BY <1>1, <1>4
  <2>1. x \in TaskStates
    <3>1. Tail(now.rest) \in Remainders
      BY <2>0 DEF Remainders
    <3> QED BY <1>1, <3>1 DEF TaskStates
  <2>2. /\ x.op = now.op /\ x.at = now.at /\ x.next = now.next /\ x.rest = Tail(now.rest)
        /\ x.outs = now.outs /\ x.ins = now.ins /\ x.id = now.id /\ x.k = now.k
    BY <1>1 DEF TaskStates
  <2>3. Goto(t, x)
    BY <1>7
  <2> HIDE DEF x
  <2>4. Control(x)
    BY <1>1, <1>4, <2>0, <2>2 DEF Control
  <2> QED BY <1>3, <2>1, <2>3, <2>4, QuietType
<1> QED BY <1>2, <1>5, <1>6, <1>7

\* RestoreUnspent keeps the types.
LEMMA RestoreUnspentType ==
    ASSUME TypeOK, NEW t \in Tasks, RestoreUnspent(t)
    PROVE  TypeOK'
<1> DEFINE now == task[t]
<1>1. now \in TaskStates /\ Control(now) /\ now.next = "state" /\ now.at = "write"
  BY NowType DEF RestoreUnspent, Done
<1>2. PICK todo \in Seq(Calls) : Goto(t, [now EXCEPT !.todo = todo, !.next = "batch"])
  BY RestoreUnspentDoes
<1> DEFINE x == [now EXCEPT !.todo = todo, !.next = "batch"]
<1>3. Goto(t, x)
  BY <1>2
<1> HIDE DEF now
<1>4. x \in TaskStates
  <2>1. "batch" \in Nexts /\ todo \in CallLists
    BY DEF Nexts, CallLists
  <2> QED BY <1>1, <2>1 DEF TaskStates
<1>5. /\ x.op = now.op /\ x.at = now.at /\ x.next = "batch" /\ x.rest = now.rest /\ x.outs = now.outs
      /\ x.ins = now.ins /\ x.id = now.id /\ x.k = now.k
  BY <1>1 DEF TaskStates
<1> HIDE DEF x
<1>6. Control(x)
  BY <1>1, <1>5 DEF Control
<1>7. Sound(store, db') /\ random' \in Nat /\ UNCHANGED <<store, mintVars, clock, tokens>>
  BY DEF RestoreUnspent, TypeOK
<1> QED BY <1>3, <1>4, <1>6, <1>7, KeptType

\* RestoreNextBatch keeps the types.
LEMMA RestoreNextBatchType ==
    ASSUME TypeOK, NEW t \in Tasks, RestoreNextBatch(t)
    PROVE  TypeOK'
<1> DEFINE now == task[t]
           x == [now EXCEPT !.at = "batch", !.outs = <<>>, !.from = @ + BatchSize, !.empty = 0]
<1>1. now \in TaskStates /\ Control(now) /\ now.next = "batch" /\ now.at = "write"
  BY NowType DEF RestoreNextBatch, Done
<1>2. Goto(t, x)
  BY DEF RestoreNextBatch
<1> HIDE DEF now
<1>3. x \in TaskStates
  <2>1. "batch" \in Places /\ <<>> \in OutputLists /\ now.from + BatchSize \in Nat
    BY <1>1, WalletAssumption DEF Places, OutputLists, TaskStates
  <2> QED BY <1>1, <2>1 DEF TaskStates
<1>4. /\ x.op = now.op /\ x.at = "batch" /\ x.next = now.next /\ x.rest = now.rest
      /\ x.ins = now.ins /\ x.id = now.id /\ x.k = now.k
  BY <1>1 DEF TaskStates
<1> HIDE DEF x
<1>5. Control(x)
  BY <1>1, <1>4 DEF Control
<1>6. Sound(store, db') /\ random' \in Nat /\ OnlyTask
  BY DEF RestoreNextBatch, TypeOK
<1> QED BY <1>2, <1>3, <1>5, <1>6, QuietType

\* CheckPending keeps the types.
LEMMA CheckPendingType ==
    ASSUME TypeOK, NEW t \in Tasks, CheckPending(t)
    PROVE  TypeOK'
<1>1. PICK todo \in Seq(Calls) : Goto(t, [Idle EXCEPT !.op = "pending", !.at = "write", !.todo = todo])
  BY CheckPendingDoes
<1> DEFINE x == [Idle EXCEPT !.op = "pending", !.at = "write", !.todo = todo]
<1>2. x \in TaskStates
  <2>1. Idle \in TaskStates /\ "pending" \in OpNames /\ "write" \in Places /\ todo \in CallLists
    BY IdleType DEF OpNames, Places, CallLists
  <2> QED BY <2>1 DEF TaskStates
<1>3. x.op = "pending" /\ x.at = "write" /\ x.next = "finish"
  BY DEF Idle
<1>4. Goto(t, x)
  BY <1>1
<1> HIDE DEF x
<1>5. Control(x)
  BY <1>3 DEF Control
<1>6. Sound(store, db') /\ random' \in Nat /\ OnlyTask
  BY DEF CheckPending, TypeOK
<1> QED BY <1>2, <1>4, <1>5, <1>6, QuietType

\* Write keeps the types.
LEMMA WriteType ==
    ASSUME TypeOK, NEW t \in Tasks, Write(t)
    PROVE  TypeOK'
<1> DEFINE now == task[t]
<1>1. now \in TaskStates /\ Control(now) /\ now.at = "write" /\ now.todo # <<>>
  BY NowType DEF Write
<1>2. Sound(store, db') /\ random' \in Nat /\ UNCHANGED <<store, mintVars, clock, tokens>>
  BY WriteDoes DEF Write, TypeOK
<1>3. \/ \E todo \in Seq(Calls) : Goto(t, [now EXCEPT !.todo = todo])
      \/ Fail(t)
  BY WriteDoes
<1> HIDE DEF now
<1>4. ASSUME NEW todo \in Seq(Calls), Goto(t, [now EXCEPT !.todo = todo])
      PROVE  TypeOK'
  <2> DEFINE x == [now EXCEPT !.todo = todo]
  <2>1. x \in TaskStates
    <3>1. todo \in CallLists
      BY DEF CallLists
    <3> QED BY <1>1, <3>1 DEF TaskStates
  <2>2. /\ x.op = now.op /\ x.at = now.at /\ x.next = now.next /\ x.rest = now.rest
        /\ x.outs = now.outs /\ x.ins = now.ins /\ x.id = now.id /\ x.k = now.k
    BY <1>1 DEF TaskStates
  <2>3. Goto(t, x)
    BY <1>4
  <2> HIDE DEF x
  <2>4. now.op # "idle"
    BY <1>1 DEF Control, Idle
  <2>5. Control(x)
    BY <1>1, <2>2, <2>4 DEF Control
  <2> QED BY <1>2, <2>1, <2>3, <2>5, KeptType
<1>5. CASE Fail(t)
  <2>1. Goto(t, Idle)
    BY <1>5 DEF Fail, End
  <2> QED BY <1>2, <2>1, IdleType, KeptType
<1> QED BY <1>3, <1>4, <1>5

\* The steps that end an operation, and those of others.
LEMMA EndingType ==
    ASSUME TypeOK, NEW t \in Tasks, Finish(t) \/ RestoreEnd(t) \/ HandOut(t) \/ Stop(t)
    PROVE  TypeOK'
<1>1. CASE Finish(t) \/ RestoreEnd(t)
  BY <1>1, QuietEndType DEF Finish, RestoreEnd, TypeOK
<1>2. CASE HandOut(t)
  <2>1. task[t].held \in Purses
    BY OwnPursesArePurses DEF TypeOK, TaskStates
  <2>2. \A token \in tokens' : token.entries \in Seq(Purses)
    <3>1. <<task[t].held>> \in Seq(Purses)
      BY <2>1
    <3>2. tokens' = tokens \cup {[by |-> t, entries |-> <<task[t].held>>]}
      BY <1>2 DEF HandOut
    <3> DEFINE made == [by |-> t, entries |-> <<task[t].held>>]
    <3>3. made.entries \in Seq(Purses) /\ tokens' = tokens \cup {made}
      BY <3>1, <3>2
    <3>4. \A token \in tokens : token.entries \in Seq(Purses)
      BY DEF TypeOK
    <3> HIDE DEF made
    <3> QED BY <3>3, <3>4
  <2>3. /\ UNCHANGED <<store, active, clock, signed, quote, random, db>> /\ End(t)
    BY <1>2 DEF HandOut, mintVars
  <2> QED BY <2>2, <2>3, EndType DEF TypeOK
<1>3. CASE Stop(t)
  <2>1. Goto(t, Idle) /\ Sound(store, db') /\ random' \in Nat
        /\ UNCHANGED <<store, mintVars, clock, tokens>>
    BY <1>3 DEF Stop, Fail, End, TypeOK
  <2> QED BY <2>1, IdleType, KeptType
<1> QED BY <1>1, <1>2, <1>3

\* What happens around the wallet.
LEMMA OutsideType ==
    ASSUME TypeOK,
           Crash \/ Rotate \/ QuotesExpire \/ (\E q \in MintQuotes : PayMintQuote(q))
           \/ (\E token \in tokens : Redeem(token))
    PROVE  TypeOK'
<1>1. CASE Crash
  <2>1. Sound(store, db')
    BY <1>1, NewIsSound DEF Crash, TypeOK
  <2>2. task' \in [Tasks -> TaskStates] /\ \A t \in Tasks : Control(task'[t])
    BY <1>1, IdleType DEF Crash
  <2>3. UNCHANGED <<store, random, signed, quote, active, clock, tokens>>
    BY <1>1 DEF Crash, mintVars
  <2> QED BY <2>1, <2>2, <2>3 DEF TypeOK
<1>2. CASE Rotate
  <2>1. active' \in 1..Len(Chain)
    BY <1>2, WalletAssumption DEF Rotate, TypeOK
  <2> QED BY <1>2, <2>1, StillType DEF Rotate, TypeOK
<1>3. CASE QuotesExpire
  BY <1>3, StillType DEF QuotesExpire, mintVars, Late, TypeOK
<1>4. CASE \E q \in MintQuotes : PayMintQuote(q)
  <2>1. quote' \in [MintQuotes \cup MeltQuotes \cup Notes -> QuoteStates]
    BY <1>4 DEF PayMintQuote, QuoteStates, TypeOK
  <2> QED BY <1>4, <2>1, StillType DEF PayMintQuote, TypeOK
<1>5. CASE \E token \in tokens : Redeem(token)
  BY <1>5, StillType DEF Redeem, TypeOK
<1> QED BY <1>1, <1>2, <1>3, <1>4, <1>5

\* At first every task is idle and the store is new.
LEMMA InitType == Init => TypeOK
<1> SUFFICES ASSUME Init PROVE TypeOK
  OBVIOUS
<1>1. store \in WalletStores /\ Sound(store, db)
  BY NewIsSound, WalletAssumption DEF Init
<1>2. task \in [Tasks -> TaskStates] /\ \A t \in Tasks : Control(task[t])
  BY IdleType DEF Init
<1>3. SignedOK(signed)
  <2> SUFFICES ASSUME NEW s \in {p.secret : p \in ForeignCoins} PROVE signed[s].amount \in Nat
    BY DEF Init, SignedOK
  <2> DEFINE p == CHOOSE q \in ForeignCoins : q.secret = s
  <2>1. p \in ForeignCoins
    OBVIOUS
  <2>2. signed[s] = [amount |-> p.amount, keyset_id |-> p.keyset_id]
    BY DEF Init
  <2> HIDE DEF p
  <2>3. p.amount \in Nat
    BY <2>1, ForeignAssumption
  <2> QED BY <2>2, <2>3
<1>4. quote \in [MintQuotes \cup MeltQuotes \cup Notes -> QuoteStates]
  BY DEF Init, QuoteStates
<1>5. active \in 1..Len(Chain) /\ random \in Nat /\ clock \in Nat /\ tokens = {}
  BY WalletAssumption DEF Init
<1> QED BY <1>1, <1>2, <1>3, <1>4, <1>5 DEF TypeOK

\* So every step of a task keeps the types,
LEMMA TaskStepType ==
    ASSUME TypeOK, NEW t \in Tasks, TaskStep(t)
    PROVE  TypeOK'
<1>1. CASE MintQuote(t) \/ MeltQuote(t) \/ MeltQuoteStatus(t) \/ AddMintCalled(t) \/ RefreshMintKeys(t)
  BY <1>1, MintQuoteType
<1>2. CASE CheckMintQuote(t) \/ CheckedUnpaid(t) \/ CheckedPaid(t) \/ Mint(t)
  BY <1>2, CheckType
<1>3. CASE PostMint(t) \/ AnsweredMint(t)
  BY <1>3, PostMintType, AnsweredMintType
<1>4. CASE Swap(t) \/ PostSwap(t) \/ AnsweredSwap(t)
  BY <1>4, SwapType, PostSwapType, AnsweredSwapType
<1>5. CASE Send(t) \/ Melt(t) \/ BeginMelt(t) \/ PostMelt(t) \/ AnsweredMelt(t)
  BY <1>5, SendType, MeltType, BeginMeltType, PostMeltType, AnsweredMeltType
<1>6. CASE Receive(t) \/ BeginEntry(t) \/ AnsweredReceive(t) \/ StoreReceived(t)
  BY <1>6, ReceiveType, BeginEntryType, AnsweredReceiveType, StoreReceivedType
<1>7. CASE Restore(t) \/ RestoreBatch(t) \/ RestoreUnspent(t) \/ RestoreNextBatch(t)
  BY <1>7, RestoreType, RestoreBatchType, RestoreUnspentType, RestoreNextBatchType
<1>8. CASE CheckPending(t) \/ Write(t)
  BY <1>8, CheckPendingType, WriteType
<1>9. CASE Finish(t) \/ RestoreEnd(t) \/ HandOut(t) \/ Stop(t)
  BY <1>9, EndingType
<1> QED BY <1>1, <1>2, <1>3, <1>4, <1>5, <1>6, <1>7, <1>8, <1>9 DEF TaskStep

\* and every step of the system.
LEMMA StepType ==
    ASSUME TypeOK, [Next]_vars
    PROVE  TypeOK'
<1>1. CASE \E t \in Tasks : TaskStep(t)
  BY <1>1, TaskStepType
<1>2. CASE Crash \/ Rotate \/ QuotesExpire \/ (\E q \in MintQuotes : PayMintQuote(q))
           \/ (\E token \in tokens : Redeem(token))
  BY <1>2, OutsideType
<1>3. CASE UNCHANGED vars
  BY <1>3 DEF vars, mintVars, TypeOK
<1> QED BY <1>1, <1>2, <1>3 DEF Next

\* Every operation of the wallet stands where its code can be, with proofs,
\* outputs and writes of the right kind, and every row of the store is one of
\* this mint: what is read back can be used by any operation.
THEOREM WalletTyped == Spec => []TypeOK
BY InitType, StepType, PTL DEF Spec
=============================================================================
