---------------------------- MODULE StoresProofs ----------------------------
(***************************************************************************)
(* Proofs that the stores answer alike: for any mints, proofs, quotes and  *)
(* keysets, and any number of calls.                                       *)
(***************************************************************************)
EXTENDS Stores, FiniteSetTheorems, TLAPS

-----------------------------------------------------------------------------
(* Tables *)

IsTable(t) == t = [k \in DOMAIN t |-> t[k]]

\* Of some positions in a list one is the last.
LEMMA LastPosition ==
    ASSUME NEW n \in Nat, NEW T, T \subseteq 1..n, T # {}
    PROVE  \E i \in T : \A j \in T : j <= i
<1> DEFINE C == {i..n : i \in T}
<1>1. IsFiniteSet(1..n)
  BY FS_Interval
<1>2. C \subseteq SUBSET (1..n) /\ C # {}
  <2>1. \A i \in T : i..n \subseteq 1..n
    OBVIOUS
  <2>2. C # {}
    OBVIOUS
  <2> QED BY <2>1, <2>2
<1>3. IsWellFoundedOn(StrictSubsetOrdering(1..n), SUBSET (1..n))
  BY <1>1, FS_FiniteSubsetsOfFinite, FS_StrictSubsetOrderingWellFounded
<1> HIDE DEF C
<1>4. PICK x \in C : \A y \in C : ~(<<y, x>> \in StrictSubsetOrdering(1..n))
  BY <1>2, <1>3, WFMin
<1>5. PICK i \in T : x = i..n
  BY DEF C
<1>6. ASSUME NEW j \in T, ~(j <= i) PROVE FALSE
  <2>1. j..n \in C /\ j..n \subseteq i..n /\ i \in i..n /\ i \notin j..n
    BY <1>6 DEF C
  <2> QED BY <1>2, <1>4, <1>5, <2>1 DEF StrictSubsetOrdering
<1> QED BY <1>6

\* The rows that a list of proofs leaves in a table are its own or were there.
LEMMA ProofsUpserted ==
    ASSUME NEW t, NEW n \in Nat, NEW infos, DOMAIN infos = 1..n,
           \A i \in 1..n : infos[i] \in ProofRows,
           \A y \in DOMAIN t : t[y] \in ProofRows
    PROVE  /\ IsTable(UpsertAll(t, infos, YOf))
           /\ \A y \in DOMAIN UpsertAll(t, infos, YOf) : UpsertAll(t, infos, YOf)[y] \in ProofRows
<1> DEFINE u == UpsertAll(t, infos, YOf)
           At(k) == {i \in DOMAIN infos : YOf(infos[i]) = k}
           LastAt(k) == CHOOSE i \in At(k) : \A j \in At(k) : j <= i
<1>1. u = [k \in DOMAIN t \cup {YOf(infos[i]) : i \in DOMAIN infos} |->
             IF At(k) = {} THEN t[k] ELSE infos[LastAt(k)]]
  BY DEF UpsertAll
<1>2. ASSUME NEW k, At(k) # {} PROVE LastAt(k) \in 1..n
  <2>1. At(k) \subseteq 1..n
    OBVIOUS
  <2> HIDE DEF At
  <2>2. \E i \in At(k) : \A j \in At(k) : j <= i
    BY <1>2, <2>1, LastPosition
  <2> QED BY <2>1, <2>2
<1>3. \A k \in DOMAIN u : At(k) = {} => k \in DOMAIN t
  BY <1>1
<1> HIDE DEF At, LastAt, u
<1>4. \A k \in DOMAIN u : u[k] \in ProofRows
  BY <1>1, <1>2, <1>3
<1> QED BY <1>1, <1>4 DEF IsTable, u

-----------------------------------------------------------------------------
(* Each store has the operators of Tables as its own; they are the same. *)

\* Those of the wallet in redb.
LEMMA RedbSame ==
    /\ Redb!NoRows = NoRows /\ \A t, k : Redb!Lookup(t, k) = Lookup(t, k)
    /\ \A t, k, row : Redb!Upsert(t, k, row) = Upsert(t, k, row)
    /\ \A t, ks : Redb!Without(t, ks) = Without(t, ks)
    /\ \A t : Redb!Rows(t) = Rows(t)
    /\ \A db : Redb!Ok(db) = Ok(db)
    /\ \A db : Redb!Error(db) = Error(db)
BY DEF Redb!NoRows, NoRows, Redb!Lookup, Lookup, Redb!Upsert, Upsert, Redb!Without, Without,
   Redb!Restrict, Restrict, Redb!Rows, Rows, Redb!Ok, Ok, Redb!Error, Error

\* Those of the wallet in SQLite.
LEMMA SqliteSame ==
    /\ Sqlite!NoRows = NoRows /\ \A t, k : Sqlite!Lookup(t, k) = Lookup(t, k)
    /\ \A t, k, row : Sqlite!Upsert(t, k, row) = Upsert(t, k, row)
    /\ \A t, ks : Sqlite!Without(t, ks) = Without(t, ks)
    /\ \A t : Sqlite!Rows(t) = Rows(t)
    /\ \A db : Sqlite!Ok(db) = Ok(db)
    /\ \A db : Sqlite!Error(db) = Error(db)
BY DEF Sqlite!NoRows, NoRows, Sqlite!Lookup, Lookup, Sqlite!Upsert, Upsert, Sqlite!Without, Without,
   Sqlite!Restrict, Restrict, Sqlite!Rows, Rows, Sqlite!Ok, Ok, Sqlite!Error, Error

\* Those of the wallet in IndexedDB.
LEMMA RexieSame ==
    /\ Rexie!NoRows = NoRows /\ \A t, k : Rexie!Lookup(t, k) = Lookup(t, k)
    /\ \A t, k, row : Rexie!Upsert(t, k, row) = Upsert(t, k, row)
    /\ \A t, ks : Rexie!Without(t, ks) = Without(t, ks)
    /\ \A t : Rexie!Rows(t) = Rows(t)
    /\ \A db : Rexie!Ok(db) = Ok(db)
    /\ \A db : Rexie!Error(db) = Error(db)
BY DEF Rexie!NoRows, NoRows, Rexie!Lookup, Lookup, Rexie!Upsert, Upsert, Rexie!Without, Without,
   Rexie!Restrict, Restrict, Rexie!Rows, Rows, Rexie!Ok, Ok, Rexie!Error, Error

\* Those of the wallet in memory.
LEMMA MemorySame ==
    /\ Memory!NoRows = NoRows /\ \A t, k : Memory!Lookup(t, k) = Lookup(t, k)
    /\ \A t, k, row : Memory!Upsert(t, k, row) = Upsert(t, k, row)
    /\ \A t, ks : Memory!Without(t, ks) = Without(t, ks)
    /\ \A t : Memory!Rows(t) = Rows(t)
    /\ \A db : Memory!Ok(db) = Ok(db)
    /\ \A db : Memory!Error(db) = Error(db)
BY DEF Memory!NoRows, NoRows, Memory!Lookup, Lookup, Memory!Upsert, Upsert, Memory!Without, Without,
   Memory!Restrict, Restrict, Memory!Rows, Rows, Memory!Ok, Ok, Memory!Error, Error

\* Those of the mint in redb.
LEMMA MintRedbSame ==
    /\ MintRedb!NoRows = NoRows /\ \A t, k : MintRedb!Lookup(t, k) = Lookup(t, k)
    /\ \A t, k, row : MintRedb!Upsert(t, k, row) = Upsert(t, k, row)
    /\ \A t, ks : MintRedb!Without(t, ks) = Without(t, ks)
    /\ \A t : MintRedb!Rows(t) = Rows(t)
    /\ \A db : MintRedb!Ok(db) = Ok(db)
    /\ \A db : MintRedb!Error(db) = Error(db)
BY DEF MintRedb!NoRows, NoRows, MintRedb!Lookup, Lookup, MintRedb!Upsert, Upsert, MintRedb!Without, Without,
   MintRedb!Restrict, Restrict, MintRedb!Rows, Rows, MintRedb!Ok, Ok, MintRedb!Error, Error

\* Those of the mint in SQLite.
LEMMA MintSqliteSame ==
    /\ MintSqlite!NoRows = NoRows /\ \A t, k : MintSqlite!Lookup(t, k) = Lookup(t, k)
    /\ \A t, k, row : MintSqlite!Upsert(t, k, row) = Upsert(t, k, row)
    /\ \A t, ks : MintSqlite!Without(t, ks) = Without(t, ks)
    /\ \A t : MintSqlite!Rows(t) = Rows(t)
    /\ \A db : MintSqlite!Ok(db) = Ok(db)
    /\ \A db : MintSqlite!Error(db) = Error(db)
BY DEF MintSqlite!NoRows, NoRows, MintSqlite!Lookup, Lookup, MintSqlite!Upsert, Upsert, MintSqlite!Without, Without,
   MintSqlite!Restrict, Restrict, MintSqlite!Rows, Rows, MintSqlite!Ok, Ok, MintSqlite!Error, Error

\* Those of the mint in memory.
LEMMA MintMemorySame ==
    /\ MintMemory!NoRows = NoRows /\ \A t, k : MintMemory!Lookup(t, k) = Lookup(t, k)
    /\ \A t, k, row : MintMemory!Upsert(t, k, row) = Upsert(t, k, row)
    /\ \A t, ks : MintMemory!Without(t, ks) = Without(t, ks)
    /\ \A t : MintMemory!Rows(t) = Rows(t)
    /\ \A db : MintMemory!Ok(db) = Ok(db)
    /\ \A db : MintMemory!Error(db) = Error(db)
BY DEF MintMemory!NoRows, NoRows, MintMemory!Lookup, Lookup, MintMemory!Upsert, Upsert, MintMemory!Without, Without,
   MintMemory!Restrict, Restrict, MintMemory!Rows, Rows, MintMemory!Ok, Ok, MintMemory!Error, Error

-----------------------------------------------------------------------------
(* The invariant *)

RedbTables == {"mints", "mint_keysets", "keysets", "mint_quotes", "melt_quotes",
               "mint_keys", "proofs", "keyset_counter", "nostr"}

\* Which tables there are.
Shape ==
    /\ DOMAIN wallet["redb"] = RedbTables
    /\ DOMAIN wallet["memory"] = RedbTables
    /\ DOMAIN wallet["rexie"] = RedbTables \ {"nostr"}
    /\ DOMAIN wallet["sqlite"] = {"mint", "keyset", "mint_quote", "melt_quote", "key", "proof",
                                  "nostr_last_checked"}

\* The four wallets have the same proofs.
ProofsAlike ==
    LET t == wallet["redb"].proofs
    IN  /\ wallet["sqlite"].proof = t /\ wallet["rexie"].proofs = t /\ wallet["memory"].proofs = t
        /\ IsTable(t) /\ \A y \in DOMAIN t : t[y] \in ProofRows

QuotesAlike ==
    /\ wallet["sqlite"].mint_quote = wallet["redb"].mint_quotes
    /\ wallet["rexie"].mint_quotes = wallet["redb"].mint_quotes
    /\ wallet["memory"].mint_quotes = wallet["redb"].mint_quotes
    /\ wallet["sqlite"].melt_quote = wallet["redb"].melt_quotes
    /\ wallet["rexie"].melt_quotes = wallet["redb"].melt_quotes
    /\ wallet["memory"].melt_quotes = wallet["redb"].melt_quotes

KeysAlike ==
    /\ wallet["sqlite"].key = wallet["redb"].mint_keys
    /\ wallet["rexie"].mint_keys = wallet["redb"].mint_keys
    /\ wallet["memory"].mint_keys = wallet["redb"].mint_keys
    /\ wallet["sqlite"].nostr_last_checked = wallet["redb"].nostr
    /\ wallet["memory"].nostr = wallet["redb"].nostr

Count(t, id) == IF id \in DOMAIN t THEN t[id] ELSE 0

\* The counters of three are the same, and SQLite's are behind.
CountersInv ==
    LET t == wallet["redb"].keyset_counter
    IN  /\ wallet["rexie"].keyset_counter = t /\ wallet["memory"].keyset_counter = t
        /\ \A id \in DOMAIN t : t[id] \in Nat
        /\ \A id \in DOMAIN wallet["sqlite"].keyset :
             /\ wallet["sqlite"].keyset[id].counter \in Nat
             /\ wallet["sqlite"].keyset[id].counter <= Count(t, id)

Info(id) == [id : {id}, unit : {"sat"}, active : BOOLEAN]

\* What is cached was reported last, and belongs to its mint.
CacheInv ==
    /\ wallet["redb"].keysets = NoRows
    /\ \A url \in DOMAIN wallet["rexie"].mint_keysets : wallet["rexie"].mint_keysets[url] = None
    /\ wallet["memory"].keysets = latest /\ IsTable(latest)
    /\ \A url \in DOMAIN wallet["memory"].mint_keysets :
         wallet["memory"].mint_keysets[url] \subseteq {id \in Ids : MintOf[id] = url}
    /\ \A id \in DOMAIN latest : id \in Ids /\ latest[id] \in Info(id)
    /\ \A id \in DOMAIN wallet["sqlite"].keyset :
         /\ id \in DOMAIN latest
         /\ wallet["sqlite"].keyset[id] \in
              [mint_url : {MintOf[id]}, id : {id}, unit : {"sat"}, active : {latest[id].active}, counter : Nat]
         /\ MintOf[id] \in DOMAIN wallet["sqlite"].mint

WalletInv == Shape /\ ProofsAlike /\ QuotesAlike /\ KeysAlike /\ CountersInv /\ CacheInv

MintShape ==
    /\ DOMAIN R = {"active_keysets", "keysets", "mint_quotes", "melt_quotes", "spent_proofs",
                   "pending_proofs", "blinded_signatures"}
    /\ DOMAIN M = DOMAIN R
    /\ DOMAIN S = {"keyset", "mint_quote", "melt_quote", "proof", "blind_signature"}

\* The three mints have the same proofs spent and the same messages signed.
SpentAlike ==
    /\ M.spent_proofs = R.spent_proofs
    /\ DOMAIN S.proof = DOMAIN R.spent_proofs
    /\ \A y \in DOMAIN R.spent_proofs :
         R.spent_proofs[y] = Proof(y) /\ S.proof[y] = [proof |-> Proof(y), state |-> "SPENT"]

SignedAlike ==
    /\ DOMAIN S.blind_signature = DOMAIN R.blinded_signatures
    /\ DOMAIN M.blinded_signatures = DOMAIN R.blinded_signatures
    /\ \A y \in DOMAIN R.blinded_signatures :
         {R.blinded_signatures[y], S.blind_signature[y], M.blinded_signatures[y]} \subseteq Ids

MintQuotesAlike ==
    /\ S.mint_quote = R.mint_quotes /\ M.mint_quotes = R.mint_quotes
    /\ S.melt_quote = R.melt_quotes /\ M.melt_quotes = R.melt_quotes
    /\ M.active_keysets = R.active_keysets

MintInv == MintShape /\ SpentAlike /\ SignedAlike /\ MintQuotesAlike

StoresInv == WalletInv /\ MintInv

-----------------------------------------------------------------------------
(* It holds at the start, and has the properties for consequences *)

\* Empty stores agree.
LEMMA InitStores == Init => StoresInv
<1> SUFFICES ASSUME Init PROVE StoresInv
  OBVIOUS
<1>1. DOMAIN NoRows = {} /\ IsTable(NoRows)
  BY DEF NoRows, IsTable
<1>2. /\ wallet["redb"] = Redb!New /\ wallet["sqlite"] = Sqlite!New
      /\ wallet["rexie"] = Rexie!New /\ wallet["memory"] = Memory!New
  BY DEF Init, New, Of, WalletStores
<1>3. R = MintRedb!New /\ S = MintSqlite!New /\ M = MintMemory!New /\ latest = NoRows
  BY DEF Init, R, S, M
<1> HIDE DEF NoRows
<1> USE RedbSame, SqliteSame, RexieSame, MemorySame, MintRedbSame, MintSqliteSame, MintMemorySame
<1>4. Shape
  BY <1>2 DEF Shape, RedbTables, Redb!New, Sqlite!New, Rexie!New, Memory!New
<1>5. ProofsAlike
  BY <1>1, <1>2 DEF ProofsAlike, Redb!New, Sqlite!New, Rexie!New, Memory!New
<1>6. QuotesAlike /\ KeysAlike
  BY <1>2 DEF QuotesAlike, KeysAlike, Redb!New, Sqlite!New, Rexie!New, Memory!New
<1>7. CountersInv
  BY <1>1, <1>2 DEF CountersInv, Redb!New, Sqlite!New, Rexie!New, Memory!New
<1>8. CacheInv
  BY <1>1, <1>2, <1>3 DEF CacheInv, Redb!New, Sqlite!New, Rexie!New, Memory!New
<1>9. MintShape
  BY <1>3 DEF MintShape, MintRedb!New, MintSqlite!New, MintMemory!New
<1>10. SpentAlike /\ SignedAlike /\ MintQuotesAlike
  BY <1>1, <1>3 DEF SpentAlike, SignedAlike, MintQuotesAlike,
     MintRedb!New, MintSqlite!New, MintMemory!New
<1> QED BY <1>4, <1>5, <1>6, <1>7, <1>8, <1>9, <1>10 DEF StoresInv, WalletInv, MintInv

\* The proofs a store lists are those of its table.
LEMMA Listed ==
    /\ \A db, u, t, st, c : Redb!GetProofs(db, u, t, st, c) = Matching(db.proofs, u, t, st, c)
    /\ \A db, u, t, st, c : Rexie!GetProofs(db, u, t, st, c) = Matching(db.proofs, u, t, st, c)
    /\ \A db, u, t, st, c : Memory!GetProofs(db, u, t, st, c) = Matching(db.proofs, u, t, st, c)
    /\ \A db, u, t, st, c :
         Sqlite!GetProofs(db, u, t, st, c) =
             Matching([y \in DOMAIN db.proof |-> Sqlite!ReadProofInfo(db.proof[y])], u, t, st, c)
<1> USE DEF Matching, NoneIfEmpty, MatchesConditions, Rows
<1>1. \A db, u, t, st, c : Redb!GetProofs(db, u, t, st, c) = Matching(db.proofs, u, t, st, c)
  BY DEF Redb!GetProofs, Redb!Matching, Redb!NoneIfEmpty, Redb!MatchesConditions, Redb!Rows
<1>2. \A db, u, t, st, c : Rexie!GetProofs(db, u, t, st, c) = Matching(db.proofs, u, t, st, c)
  BY DEF Rexie!GetProofs, Rexie!Matching, Rexie!NoneIfEmpty, Rexie!MatchesConditions, Rexie!Rows
<1>3. \A db, u, t, st, c : Memory!GetProofs(db, u, t, st, c) = Matching(db.proofs, u, t, st, c)
  BY DEF Memory!GetProofs, Memory!Matching, Memory!NoneIfEmpty, Memory!MatchesConditions, Memory!Rows
<1>4. \A db, u, t, st, c :
         Sqlite!GetProofs(db, u, t, st, c) =
             Matching([y \in DOMAIN db.proof |-> Sqlite!ReadProofInfo(db.proof[y])], u, t, st, c)
  BY DEF Sqlite!GetProofs, Sqlite!Matching, Sqlite!NoneIfEmpty, Sqlite!MatchesConditions, Sqlite!Rows
<1> HIDE DEF Matching, NoneIfEmpty, MatchesConditions, Rows
<1> QED BY <1>1, <1>2, <1>3, <1>4

\* A row without its DLEQ proof matches what the row matches, and differs in
\* nothing else.
LEMMA ReadRow ==
    ASSUME NEW row \in ProofRows
    PROVE  LET bare == Sqlite!ReadProofInfo(row)
           IN  /\ \A u, t, st, c : MatchesConditions(bare, u, t, st, c) <=> MatchesConditions(row, u, t, st, c)
               /\ bare = [row EXCEPT !.proof.dleq = None]
               /\ [bare EXCEPT !.proof.dleq = None] = bare
<1> DEFINE bare == Sqlite!ReadProofInfo(row)
<1>1. PICK y \in Ys, url \in Urls, state \in States :
             row = ProofInfo(Proof(y), url, state, "sat", Condition(y))
  BY DEF ProofRows
<1>2. bare = [row EXCEPT !.proof = [secret |-> y, dleq |-> None]]
  BY <1>1 DEF Sqlite!ReadProofInfo, ProofInfo, Proof
<1>3. bare = [row EXCEPT !.proof.dleq = None]
  BY DEF Sqlite!ReadProofInfo
<1>4. /\ bare = [proof |-> [secret |-> y, dleq |-> None], y |-> y, mint_url |-> url, state |-> state,
                  spending_condition |-> Condition(y), unit |-> "sat"]
      /\ row = [proof |-> [secret |-> y, dleq |-> "dleq"], y |-> y, mint_url |-> url, state |-> state,
                  spending_condition |-> Condition(y), unit |-> "sat"]
  BY <1>1, <1>2 DEF ProofInfo, Proof
<1> HIDE DEF bare
<1>5. [bare EXCEPT !.proof.dleq = None] = bare
  BY <1>4
<1>6. \A u, t, st, c : MatchesConditions(bare, u, t, st, c) <=> MatchesConditions(row, u, t, st, c)
  BY <1>4 DEF MatchesConditions
<1> QED BY <1>3, <1>5, <1>6 DEF bare

\* The same proofs give the same answers to a filter.
LEMMA AnswersAgree ==
    ASSUME ProofsAlike, NEW s \in WalletStores, NEW f \in Filters
    PROVE  Answer(s, f) = Answer("redb", f)
<1> DEFINE t == wallet["redb"].proofs
           bare == [y \in DOMAIN t |-> Sqlite!ReadProofInfo(t[y])]
           Fits(row) == MatchesConditions(row, f.url, f.unit, f.state, f.conds)
           rows == {row \in Rows(t) : Fits(row)}
           Bared(i) == [i EXCEPT !.proof.dleq = None]
           Strip(set) == {Bared(i) : i \in set}
<1>1. /\ \A y \in DOMAIN t : t[y] \in ProofRows
      /\ wallet["sqlite"].proof = t /\ wallet["rexie"].proofs = t /\ wallet["memory"].proofs = t
  BY DEF ProofsAlike
<1>2. Rows(t) \subseteq ProofRows
  BY <1>1 DEF Rows
<1>3. GetProofs("redb", wallet["redb"], f.url, f.unit, f.state, f.conds) = NoneIfEmpty(rows)
  BY Listed DEF GetProofs, Of, Matching
<1>4. CASE s \in {"redb", "rexie", "memory"}
  <2>1. GetProofs(s, wallet[s], f.url, f.unit, f.state, f.conds) = NoneIfEmpty(rows)
    BY <1>1, <1>4, Listed DEF GetProofs, Of, Matching
  <2> QED BY <1>3, <2>1 DEF Answer
<1>5. CASE s = "sqlite"
  <2> DEFINE bares == {row \in Rows(bare) : Fits(row)}
  <2>1. GetProofs(s, wallet[s], f.url, f.unit, f.state, f.conds) = NoneIfEmpty(bares)
    BY <1>1, <1>5, Listed DEF GetProofs, Of, Matching
  <2>2. Rows(bare) = {Sqlite!ReadProofInfo(row) : row \in Rows(t)}
    BY DEF Rows
  <2>3. bares = {Sqlite!ReadProofInfo(row) : row \in rows}
    BY <1>2, <2>2, ReadRow
  <2>4. Strip(bares) = Strip(rows)
    <3>1. \A row \in rows : Bared(Sqlite!ReadProofInfo(row)) = Bared(row)
      BY <1>2, ReadRow
    <3> HIDE DEF rows, bares, Bared
    <3> QED BY <2>3, <3>1
  <2>5. rows # None /\ bares # None
    BY <1>2, <2>3, StoresAssumption DEF StoresAssumption
  <2> HIDE DEF bares, rows, bare, t
  <2>6. Answer("redb", f) = Strip(rows)
    BY <1>3, <2>5 DEF Answer, NoneIfEmpty
  <2>7. Answer(s, f) = Strip(bares)
    BY <2>1, <2>5 DEF Answer, NoneIfEmpty
  <2> QED BY <2>4, <2>6, <2>7
<1> QED BY <1>4, <1>5 DEF WalletStores

\* The invariant gives the agreement of the wallets,
LEMMA InvAgree == WalletInv => WalletStoresAgree
<1> SUFFICES ASSUME WalletInv, NEW s \in WalletStores
             PROVE  /\ \A f \in Filters : Answer(s, f) = Answer("redb", f)
                    /\ GetMintQuotes(s, wallet[s]) = GetMintQuotes("redb", wallet["redb"])
                    /\ \A q \in QuoteIds :
                         /\ GetMintQuote(s, wallet[s], q) = GetMintQuote("redb", wallet["redb"], q)
                         /\ GetMeltQuote(s, wallet[s], q) = GetMeltQuote("redb", wallet["redb"], q)
                    /\ \A id \in Ids : GetKeys(s, wallet[s], id) = GetKeys("redb", wallet["redb"], id)
                    /\ s \in NostrStores => \A key \in Ids :
                         GetNostrLastChecked(s, wallet[s], key)
                             = GetNostrLastChecked("redb", wallet["redb"], key)
  BY DEF WalletStoresAgree
<1> USE RedbSame, SqliteSame, RexieSame, MemorySame
<1>1. \A f \in Filters : Answer(s, f) = Answer("redb", f)
  BY AnswersAgree DEF WalletInv
<1>2. GetMintQuotes(s, wallet[s]) = GetMintQuotes("redb", wallet["redb"])
  BY DEF WalletInv, QuotesAlike, GetMintQuotes, Of, WalletStores, Redb!GetMintQuotes,
     Sqlite!GetMintQuotes, Rexie!GetMintQuotes, Memory!GetMintQuotes
<1>3. \A q : GetMintQuote(s, wallet[s], q) = GetMintQuote("redb", wallet["redb"], q)
  BY DEF WalletInv, QuotesAlike, GetMintQuote, Of, WalletStores, Redb!GetMintQuote,
     Sqlite!GetMintQuote, Rexie!GetMintQuote, Memory!GetMintQuote
<1>4. \A q : GetMeltQuote(s, wallet[s], q) = GetMeltQuote("redb", wallet["redb"], q)
  BY DEF WalletInv, QuotesAlike, GetMeltQuote, Of, WalletStores, Redb!GetMeltQuote,
     Sqlite!GetMeltQuote, Rexie!GetMeltQuote, Memory!GetMeltQuote
<1>5. \A id : GetKeys(s, wallet[s], id) = GetKeys("redb", wallet["redb"], id)
  BY DEF WalletInv, KeysAlike, GetKeys, Of, WalletStores, Redb!GetKeys,
     Sqlite!GetKeys, Rexie!GetKeys, Memory!GetKeys
<1>6. s \in NostrStores => \A key : GetNostrLastChecked(s, wallet[s], key)
                                       = GetNostrLastChecked("redb", wallet["redb"], key)
  BY DEF WalletInv, KeysAlike, GetNostrLastChecked, Of, WalletStores, NostrStores,
     Redb!GetNostrLastChecked, Sqlite!GetNostrLastChecked, Memory!GetNostrLastChecked
<1> QED BY <1>1, <1>2, <1>3, <1>4, <1>5, <1>6

\* the order of their counters
LEMMA InvCounters == WalletInv => CountersAgree
<1> SUFFICES ASSUME WalletInv, NEW id \in Ids
             PROVE  /\ \A s \in WalletStores \ {"sqlite"} : CountOf(s, id) = CountOf("redb", id)
                    /\ CountOf("sqlite", id) <= CountOf("redb", id)
  BY DEF CountersAgree
<1> DEFINE t == wallet["redb"].keyset_counter
           k == wallet["sqlite"].keyset
<1> USE RedbSame, SqliteSame, RexieSame, MemorySame, StoresAssumption DEF StoresAssumption
<1>1. \A s \in WalletStores \ {"sqlite"} : GetKeysetCounter(s, wallet[s], id) = Lookup(t, id)
  BY DEF WalletInv, CountersInv, GetKeysetCounter, Of, WalletStores,
     Redb!GetKeysetCounter, Rexie!GetKeysetCounter, Memory!GetKeysetCounter
<1>2. \A s \in WalletStores \ {"sqlite"} : CountOf(s, id) = Count(t, id)
  BY <1>1 DEF CountOf, Count, Lookup, WalletInv, CountersInv
<1>3. CountOf("sqlite", id) = IF id \in DOMAIN k THEN k[id].counter ELSE 0
  BY DEF CountOf, GetKeysetCounter, Of, Sqlite!GetKeysetCounter, WalletInv, CountersInv
<1>4. CountOf("sqlite", id) <= Count(t, id)
  BY <1>3 DEF WalletInv, CountersInv, Count
<1> QED BY <1>2, <1>4 DEF WalletStores

\* and the latest keysets in the cache.
LEMMA InvCache == WalletInv => CacheIsLatest
<1> SUFFICES ASSUME WalletInv, NEW s \in WalletStores, NEW url \in Urls,
                    GetMintKeysets(s, wallet[s], url) # None
             PROVE  LET cached == GetMintKeysets(s, wallet[s], url)
                    IN  /\ s \in {"sqlite", "memory"}
                        /\ \A k \in cached : MintOf[k.id] = url /\ k = latest[k.id]
                        /\ \A id \in {k.id : k \in cached} :
                             GetKeysetById(s, wallet[s], id) = latest[id]
  BY DEF CacheIsLatest
<1> DEFINE cached == GetMintKeysets(s, wallet[s], url)
<1> USE RedbSame, SqliteSame, RexieSame, MemorySame
<1>1. s # "redb"
  BY DEF WalletInv, CacheInv, GetMintKeysets, Of, Redb!GetMintKeysets, NoRows, Redb!NoneIfEmpty
<1>2. s # "rexie"
  BY DEF WalletInv, CacheInv, GetMintKeysets, Of, Rexie!GetMintKeysets, Lookup
<1>3. CASE s = "memory"
  <2>1. /\ url \in DOMAIN wallet["memory"].mint_keysets
        /\ cached = {latest[id] : id \in wallet["memory"].mint_keysets[url] \cap DOMAIN latest}
    BY <1>3 DEF WalletInv, CacheInv, GetMintKeysets, Of, Memory!GetMintKeysets
  <2>2. \A k \in cached : k.id \in DOMAIN latest /\ MintOf[k.id] = url /\ k = latest[k.id]
    BY <2>1 DEF WalletInv, CacheInv, Info
  <2>3. \A id \in DOMAIN latest : GetKeysetById(s, wallet[s], id) = latest[id]
    BY <1>3 DEF WalletInv, CacheInv, GetKeysetById, Of, Memory!GetKeysetById, Lookup
  <2> QED BY <1>3, <2>2, <2>3
<1>4. CASE s = "sqlite"
  <2> DEFINE t == wallet["sqlite"].keyset
  <2>1. cached = {Sqlite!ReadKeyset(t[id]) : id \in {i \in DOMAIN t : t[i].mint_url = url}}
    BY <1>4 DEF GetMintKeysets, Of, Sqlite!GetMintKeysets, Sqlite!NoneIfEmpty, Sqlite!KeysetsOf
  <2>2. \A id \in DOMAIN t : Sqlite!ReadKeyset(t[id]) = latest[id] /\ latest[id].id = id /\ t[id].mint_url = MintOf[id]
    BY DEF WalletInv, CacheInv, Info, Sqlite!ReadKeyset
  <2>3. \A id \in DOMAIN t : GetKeysetById(s, wallet[s], id) = latest[id]
    BY <1>4, <2>2 DEF GetKeysetById, Of, Sqlite!GetKeysetById
  <2>4. \A k \in cached : k.id \in DOMAIN t /\ MintOf[k.id] = url /\ k = latest[k.id]
    BY <2>1, <2>2
  <2> QED BY <1>4, <2>3, <2>4
<1> QED BY <1>1, <1>2, <1>3, <1>4 DEF WalletStores

\* A proof that is spent in one mint's store is spent in each.
LEMMA SpentIsKnown ==
    ASSUME MintInv
    PROVE  \A s \in MintStores, y \in Ys : SpentIn(s, y) = Lookup(R.spent_proofs, y)
<1> USE MintRedbSame, MintSqliteSame, MintMemorySame
<1>1. \A y : MintRedb!GetSpentProofByY(R, y) = Lookup(R.spent_proofs, y)
  BY DEF MintRedb!GetSpentProofByY
<1>2. \A y : MintMemory!GetSpentProofByY(M, y) = Lookup(R.spent_proofs, y)
  BY DEF MintMemory!GetSpentProofByY, MintInv, SpentAlike
<1>3. \A y : MintSqlite!GetSpentProofByY(S, y) = Lookup(R.spent_proofs, y)
  <2> SUFFICES ASSUME NEW y PROVE MintSqlite!InState(S, y, "SPENT") = Lookup(R.spent_proofs, y)
    BY DEF MintSqlite!GetSpentProofByY
  <2>1. y \in DOMAIN S.proof <=> y \in DOMAIN R.spent_proofs
    BY DEF MintInv, SpentAlike
  <2>2. CASE y \in DOMAIN R.spent_proofs
    <3>1. S.proof[y].state = "SPENT" /\ S.proof[y].proof = R.spent_proofs[y]
      <4>1. S.proof[y] = [proof |-> Proof(y), state |-> "SPENT"] /\ R.spent_proofs[y] = Proof(y)
        BY <2>2, Zenon DEF MintInv, SpentAlike
      <4> QED BY <4>1
    <3> QED BY <2>1, <2>2, <3>1 DEF MintSqlite!InState, Lookup
  <2> QED BY <2>1, <2>2 DEF MintSqlite!InState, Lookup
<1> QED BY <1>1, <1>2, <1>3 DEF SpentIn, MintStores

\* The mints' invariant gives their agreement.
LEMMA InvMints == MintInv => MintStoresAgree
<1> SUFFICES ASSUME MintInv PROVE MintStoresAgree
  OBVIOUS
<1> USE MintRedbSame, MintSqliteSame, MintMemorySame
<1>1. \A s \in MintStores, y \in Ys : SpentIn(s, y) = Lookup(R.spent_proofs, y)
  BY SpentIsKnown
<1>2. \A s \in MintStores, y \in Ys : SignedIn(s, y) = None <=> y \notin DOMAIN R.blinded_signatures
  BY StoresAssumption DEF StoresAssumption, MintInv, SignedAlike, SignedIn, MintStores, Lookup,
     MintRedb!GetBlindedSignature, MintSqlite!GetBlindedSignature, MintMemory!GetBlindedSignature
<1>3. /\ \A s \in MintStores, y \in Ys : SpentIn(s, y) = SpentIn("redb", y)
      /\ \A s \in MintStores, y \in Ys : SignedIn(s, y) = None <=> SignedIn("redb", y) = None
  BY <1>1, <1>2 DEF MintStores
<1>4. /\ MintRedb!GetMintQuotes(R) = MintSqlite!GetMintQuotes(S)
      /\ MintRedb!GetMintQuotes(R) = MintMemory!GetMintQuotes(M)
      /\ MintRedb!GetMintQuoteByRequest(R, "invoice") = MintSqlite!GetMintQuoteByRequest(S, "invoice")
  BY DEF MintInv, MintQuotesAlike, MintRedb!GetMintQuotes, MintSqlite!GetMintQuotes,
     MintMemory!GetMintQuotes, MintRedb!GetMintQuoteByRequest, MintSqlite!GetMintQuoteByRequest
<1>5. /\ MintRedb!GetMeltQuotes(R) = MintSqlite!GetMeltQuotes(S)
      /\ MintRedb!GetMeltQuotes(R) = MintMemory!GetMeltQuotes(M)
      /\ MintRedb!GetActiveKeysets(R) = MintMemory!GetActiveKeysets(M)
  BY DEF MintInv, MintQuotesAlike, MintRedb!GetMeltQuotes, MintSqlite!GetMeltQuotes,
     MintMemory!GetMeltQuotes, MintRedb!GetActiveKeysets, MintMemory!GetActiveKeysets
<1> QED BY <1>3, <1>4, <1>5 DEF MintStoresAgree

-----------------------------------------------------------------------------
(* A call that changes one table of each wallet keeps the rest *)

\* Each store writes lists of rows the same way too.
LEMMA ListsUpserted ==
    /\ \A t, rows : Redb!UpsertAll(t, rows, Redb!YOf) = UpsertAll(t, rows, YOf)
    /\ \A t, rows : Sqlite!UpsertAll(t, rows, Sqlite!YOf) = UpsertAll(t, rows, YOf)
    /\ \A t, rows : Rexie!UpsertAll(t, rows, Rexie!YOf) = UpsertAll(t, rows, YOf)
    /\ \A t, rows : Memory!UpsertAll(t, rows, Memory!YOf) = UpsertAll(t, rows, YOf)
    /\ \A t, rows : Memory!UpsertAll(t, rows, Memory!IdOf) = UpsertAll(t, rows, IdOf)
    /\ \A t, rows : Sqlite!UpsertAll(t, rows, Sqlite!IdOf) = UpsertAll(t, rows, IdOf)
BY DEF UpsertAll, YOf, IdOf, Redb!UpsertAll, Redb!YOf, Sqlite!UpsertAll, Sqlite!YOf, Rexie!UpsertAll,
   Rexie!YOf, Memory!UpsertAll, Memory!YOf, Memory!IdOf, Sqlite!IdOf

\* No table changes.
LEMMA WalletsStand ==
    ASSUME WalletInv, latest' = latest, \A s \in WalletStores : wallet'[s] = wallet[s]
    PROVE  WalletInv'
<1>1. /\ wallet'["redb"] = wallet["redb"] /\ wallet'["sqlite"] = wallet["sqlite"]
      /\ wallet'["rexie"] = wallet["rexie"] /\ wallet'["memory"] = wallet["memory"]
  BY DEF WalletStores
<1> QED BY <1>1 DEF WalletInv, Shape, ProofsAlike, QuotesAlike, KeysAlike, CountersInv, CacheInv

\* The proofs change in all four.
LEMMA ProofsMove ==
    ASSUME WalletInv, latest' = latest, NEW u, IsTable(u), \A y \in DOMAIN u : u[y] \in ProofRows,
           wallet'["redb"] = [wallet["redb"] EXCEPT !.proofs = u],
           wallet'["sqlite"] = [wallet["sqlite"] EXCEPT !.proof = u],
           wallet'["rexie"] = [wallet["rexie"] EXCEPT !.proofs = u],
           wallet'["memory"] = [wallet["memory"] EXCEPT !.proofs = u]
    PROVE  WalletInv'
<1> USE DEF WalletInv, Shape, RedbTables
<1>1. Shape' /\ ProofsAlike'
  BY DEF ProofsAlike
<1>2. QuotesAlike' /\ KeysAlike'
  BY DEF QuotesAlike, KeysAlike
<1>3. CountersInv'
  BY DEF CountersInv
<1>4. CacheInv'
  BY DEF CacheInv
<1> QED BY <1>1, <1>2, <1>3, <1>4

\* The mint quotes change in all four.
LEMMA MintQuotesMove ==
    ASSUME WalletInv, latest' = latest, NEW u,
           wallet'["redb"] = [wallet["redb"] EXCEPT !.mint_quotes = u],
           wallet'["sqlite"] = [wallet["sqlite"] EXCEPT !.mint_quote = u],
           wallet'["rexie"] = [wallet["rexie"] EXCEPT !.mint_quotes = u],
           wallet'["memory"] = [wallet["memory"] EXCEPT !.mint_quotes = u]
    PROVE  WalletInv'
<1> USE DEF WalletInv, Shape, RedbTables
<1>1. Shape' /\ ProofsAlike'
  BY DEF ProofsAlike
<1>2. QuotesAlike' /\ KeysAlike'
  BY DEF QuotesAlike, KeysAlike
<1>3. CountersInv'
  BY DEF CountersInv
<1>4. CacheInv'
  BY DEF CacheInv
<1> QED BY <1>1, <1>2, <1>3, <1>4

\* The melt quotes change in all four.
LEMMA MeltQuotesMove ==
    ASSUME WalletInv, latest' = latest, NEW u,
           wallet'["redb"] = [wallet["redb"] EXCEPT !.melt_quotes = u],
           wallet'["sqlite"] = [wallet["sqlite"] EXCEPT !.melt_quote = u],
           wallet'["rexie"] = [wallet["rexie"] EXCEPT !.melt_quotes = u],
           wallet'["memory"] = [wallet["memory"] EXCEPT !.melt_quotes = u]
    PROVE  WalletInv'
<1> USE DEF WalletInv, Shape, RedbTables
<1>1. Shape' /\ ProofsAlike'
  BY DEF ProofsAlike
<1>2. QuotesAlike' /\ KeysAlike'
  BY DEF QuotesAlike, KeysAlike
<1>3. CountersInv'
  BY DEF CountersInv
<1>4. CacheInv'
  BY DEF CacheInv
<1> QED BY <1>1, <1>2, <1>3, <1>4

\* The keys change in all four.
LEMMA KeysMove ==
    ASSUME WalletInv, latest' = latest, NEW u,
           wallet'["redb"] = [wallet["redb"] EXCEPT !.mint_keys = u],
           wallet'["sqlite"] = [wallet["sqlite"] EXCEPT !.key = u],
           wallet'["rexie"] = [wallet["rexie"] EXCEPT !.mint_keys = u],
           wallet'["memory"] = [wallet["memory"] EXCEPT !.mint_keys = u]
    PROVE  WalletInv'
<1> USE DEF WalletInv, Shape, RedbTables
<1>1. Shape' /\ ProofsAlike'
  BY DEF ProofsAlike
<1>2. QuotesAlike' /\ KeysAlike'
  BY DEF QuotesAlike, KeysAlike
<1>3. CountersInv'
  BY DEF CountersInv
<1>4. CacheInv'
  BY DEF CacheInv
<1> QED BY <1>1, <1>2, <1>3, <1>4

\* The time of the last check changes where it is kept.
LEMMA NostrMoves ==
    ASSUME WalletInv, latest' = latest, NEW u,
           wallet'["redb"] = [wallet["redb"] EXCEPT !.nostr = u],
           wallet'["sqlite"] = [wallet["sqlite"] EXCEPT !.nostr_last_checked = u],
           wallet'["rexie"] = wallet["rexie"],
           wallet'["memory"] = [wallet["memory"] EXCEPT !.nostr = u]
    PROVE  WalletInv'
<1> USE DEF WalletInv, Shape, RedbTables
<1>1. Shape' /\ ProofsAlike'
  BY DEF ProofsAlike
<1>2. QuotesAlike' /\ KeysAlike'
  BY DEF QuotesAlike, KeysAlike
<1>3. CountersInv'
  BY DEF CountersInv
<1>4. CacheInv'
  BY DEF CacheInv
<1> QED BY <1>1, <1>2, <1>3, <1>4

-----------------------------------------------------------------------------
(* The calls to the wallets *)

\* The calls that write proofs.
LEMMA StepProofs ==
    ASSUME WalletInv, ProofCalls
    PROVE  WalletInv' /\ UNCHANGED mint
<1> DEFINE t == wallet["redb"].proofs
<1> USE RedbSame, SqliteSame, RexieSame, MemorySame, ListsUpserted
<1>1. /\ wallet["sqlite"].proof = t /\ wallet["rexie"].proofs = t /\ wallet["memory"].proofs = t
      /\ IsTable(t) /\ \A y \in DOMAIN t : t[y] \in ProofRows
  BY DEF WalletInv, ProofsAlike
<1>2. latest' = latest /\ UNCHANGED mint
  BY DEF ProofCalls, OnWallets
<1>3. ASSUME NEW infos, NEW n \in Nat, DOMAIN infos = 1..n, \A i \in 1..n : infos[i] \in ProofRows,
             wallet' = [s \in WalletStores |-> AddProofs(s, wallet[s], infos).db]
      PROVE  WalletInv'
  <2> DEFINE u == UpsertAll(t, infos, YOf)
  <2>1. IsTable(u) /\ \A y \in DOMAIN u : u[y] \in ProofRows
    BY <1>1, <1>3, ProofsUpserted
  <2>2. /\ wallet'["redb"] = [wallet["redb"] EXCEPT !.proofs = u]
        /\ wallet'["sqlite"] = [wallet["sqlite"] EXCEPT !.proof = u]
        /\ wallet'["rexie"] = [wallet["rexie"] EXCEPT !.proofs = u]
        /\ wallet'["memory"] = [wallet["memory"] EXCEPT !.proofs = u]
    BY <1>1, <1>3 DEF AddProofs, Of, WalletStores, Ok,
       Redb!AddProofs, Sqlite!AddProofs, Rexie!AddProofs, Memory!AddProofs
  <2> HIDE DEF u
  <2> QED BY <1>2, <2>1, <2>2, ProofsMove
<1>4. ASSUME NEW y \in Ys, NEW state \in States,
             wallet' = [s \in WalletStores |-> SetProofState(s, wallet[s], y, state).db]
      PROVE  WalletInv'
  <2>1. CASE y \notin DOMAIN t
    <3>1. \A s \in WalletStores : wallet'[s] = wallet[s]
      BY <1>1, <1>4, <2>1 DEF SetProofState, Of, WalletStores, Ok, Error, Lookup,
         Redb!SetProofState, Sqlite!SetProofState, Rexie!SetProofState, Memory!SetProofState,
         Memory!WriteProofState, Memory!ReadProof
    <3> QED BY <1>2, <3>1, WalletsStand
  <2>2. CASE y \in DOMAIN t
    <3> DEFINE u == [t EXCEPT ![y].state = state]
    <3>1. t[y] # None
      BY <1>1, <2>2, StoresAssumption DEF StoresAssumption
    <3>2. u = Upsert(t, y, [t[y] EXCEPT !.state = state])
      BY <1>1, <2>2 DEF Upsert, IsTable
    <3>3. /\ wallet'["redb"] = [wallet["redb"] EXCEPT !.proofs[y].state = state]
          /\ wallet'["sqlite"] = [wallet["sqlite"] EXCEPT !.proof[y].state = state]
          /\ wallet'["rexie"] = [wallet["rexie"] EXCEPT !.proofs[y].state = state]
      BY <1>1, <1>4, <2>2 DEF SetProofState, Of, WalletStores, Ok,
         Redb!SetProofState, Sqlite!SetProofState, Rexie!SetProofState
    <3>4. wallet'["memory"] = [wallet["memory"] EXCEPT !.proofs = Upsert(t, y, [t[y] EXCEPT !.state = state])]
      BY <1>1, <1>4, <2>2, <3>1 DEF SetProofState, Of, WalletStores, Ok, Lookup,
         Memory!SetProofState, Memory!WriteProofState, Memory!ReadProof
    <3>5. /\ wallet'["redb"] = [wallet["redb"] EXCEPT !.proofs = u]
          /\ wallet'["sqlite"] = [wallet["sqlite"] EXCEPT !.proof = u]
          /\ wallet'["rexie"] = [wallet["rexie"] EXCEPT !.proofs = u]
          /\ wallet'["memory"] = [wallet["memory"] EXCEPT !.proofs = u]
      BY <1>1, <3>2, <3>3, <3>4
    <3>6. [t[y] EXCEPT !.state = state] \in ProofRows
      BY <1>1, <2>2 DEF ProofRows, ProofInfo
    <3>7. IsTable(u) /\ \A z \in DOMAIN u : u[z] \in ProofRows
      BY <1>1, <3>6 DEF IsTable
    <3> HIDE DEF u
    <3> QED BY <1>2, <3>5, <3>7, ProofsMove
  <2> QED BY <2>1, <2>2
<1>5. ASSUME NEW proofs, wallet' = [s \in WalletStores |-> RemoveProofs(s, wallet[s], proofs).db]
      PROVE  WalletInv'
  <2> DEFINE u == Without(t, {p.secret : p \in ToSet(proofs)})
  <2>1. IsTable(u) /\ \A y \in DOMAIN u : u[y] \in ProofRows
    BY <1>1 DEF Without, Restrict, IsTable
  <2>2. /\ wallet'["redb"] = [wallet["redb"] EXCEPT !.proofs = u]
        /\ wallet'["sqlite"] = [wallet["sqlite"] EXCEPT !.proof = u]
        /\ wallet'["rexie"] = [wallet["rexie"] EXCEPT !.proofs = u]
        /\ wallet'["memory"] = [wallet["memory"] EXCEPT !.proofs = u]
    BY <1>1, <1>5 DEF RemoveProofs, Of, WalletStores, Ok, ToSet,
       Redb!RemoveProofs, Sqlite!RemoveProofs, Rexie!RemoveProofs, Memory!RemoveProofs,
       Redb!ToSet, Sqlite!ToSet, Rexie!ToSet, Memory!ToSet
  <2> HIDE DEF u
  <2> QED BY <1>2, <2>1, <2>2, ProofsMove
<1>6. ASSUME NEW y \in Ys, NEW url \in Urls, NEW state \in States
      PROVE  ProofInfo(Proof(y), url, state, "sat", Condition(y)) \in ProofRows
  BY DEF ProofRows
<1>7. ASSUME NEW y \in Ys, NEW url \in Urls, NEW state \in States,
             wallet' = [s \in WalletStores |-> AddProofs(s, wallet[s],
                           <<ProofInfo(Proof(y), url, state, "sat", Condition(y))>>).db]
      PROVE  WalletInv'
  <2> DEFINE infos == <<ProofInfo(Proof(y), url, state, "sat", Condition(y))>>
  <2>1. DOMAIN infos = 1..1 /\ \A i \in 1..1 : infos[i] \in ProofRows
    BY <1>6
  <2>2. wallet' = [s \in WalletStores |-> AddProofs(s, wallet[s], infos).db]
    BY <1>7
  <2> HIDE DEF infos
  <2> QED BY <1>3, <2>1, <2>2
<1>8. ASSUME NEW y \in Ys, NEW z \in Ys, NEW url \in Urls,
             wallet' = [s \in WalletStores |-> AddProofs(s, wallet[s],
                           <<ProofInfo(Proof(y), url, "Unspent", "sat", Condition(y)),
                             ProofInfo(Proof(z), url, "Reserved", "sat", Condition(z))>>).db]
      PROVE  WalletInv'
  <2> DEFINE infos == <<ProofInfo(Proof(y), url, "Unspent", "sat", Condition(y)),
                        ProofInfo(Proof(z), url, "Reserved", "sat", Condition(z))>>
  <2>1. DOMAIN infos = 1..2 /\ \A i \in 1..2 : infos[i] \in ProofRows
    BY <1>6 DEF States
  <2>2. wallet' = [s \in WalletStores |-> AddProofs(s, wallet[s], infos).db]
    BY <1>8
  <2> HIDE DEF infos
  <2> QED BY <1>3, <2>1, <2>2
<1> QED BY <1>2, <1>4, <1>5, <1>7, <1>8 DEF ProofCalls, OnWallets

\* The calls that write quotes.
LEMMA StepQuotes ==
    ASSUME WalletInv, QuoteCalls
    PROVE  WalletInv' /\ UNCHANGED mint
<1> USE RedbSame, SqliteSame, RexieSame, MemorySame
<1>1. QuotesAlike
  BY DEF WalletInv
<1>2. latest' = latest /\ UNCHANGED mint
  BY DEF QuoteCalls, OnWallets
<1> USE DEF QuotesAlike
<1>3. ASSUME NEW quote, wallet' = [s \in WalletStores |-> AddMintQuote(s, wallet[s], quote).db]
      PROVE  WalletInv'
  <2> DEFINE u == Upsert(wallet["redb"].mint_quotes, quote.id, quote)
  <2>1. /\ wallet'["redb"] = [wallet["redb"] EXCEPT !.mint_quotes = u]
        /\ wallet'["sqlite"] = [wallet["sqlite"] EXCEPT !.mint_quote = u]
        /\ wallet'["rexie"] = [wallet["rexie"] EXCEPT !.mint_quotes = u]
        /\ wallet'["memory"] = [wallet["memory"] EXCEPT !.mint_quotes = u]
    BY <1>1, <1>3 DEF AddMintQuote, Of, WalletStores, Ok, 
       Redb!AddMintQuote, Sqlite!AddMintQuote, Rexie!AddMintQuote, Memory!AddMintQuote
  <2> HIDE DEF u
  <2> QED BY <1>2, <2>1, MintQuotesMove
<1>4. ASSUME NEW quote, wallet' = [s \in WalletStores |-> AddMeltQuote(s, wallet[s], quote).db]
      PROVE  WalletInv'
  <2> DEFINE u == Upsert(wallet["redb"].melt_quotes, quote.id, quote)
  <2>1. /\ wallet'["redb"] = [wallet["redb"] EXCEPT !.melt_quotes = u]
        /\ wallet'["sqlite"] = [wallet["sqlite"] EXCEPT !.melt_quote = u]
        /\ wallet'["rexie"] = [wallet["rexie"] EXCEPT !.melt_quotes = u]
        /\ wallet'["memory"] = [wallet["memory"] EXCEPT !.melt_quotes = u]
    BY <1>1, <1>4 DEF AddMeltQuote, Of, WalletStores, Ok, 
       Redb!AddMeltQuote, Sqlite!AddMeltQuote, Rexie!AddMeltQuote, Memory!AddMeltQuote
  <2> HIDE DEF u
  <2> QED BY <1>2, <2>1, MeltQuotesMove
<1>5. ASSUME NEW q, wallet' = [s \in WalletStores |-> RemoveMintQuote(s, wallet[s], q).db]
      PROVE  WalletInv'
  <2> DEFINE u == Without(wallet["redb"].mint_quotes, {q})
  <2>1. /\ wallet'["redb"] = [wallet["redb"] EXCEPT !.mint_quotes = u]
        /\ wallet'["sqlite"] = [wallet["sqlite"] EXCEPT !.mint_quote = u]
        /\ wallet'["rexie"] = [wallet["rexie"] EXCEPT !.mint_quotes = u]
        /\ wallet'["memory"] = [wallet["memory"] EXCEPT !.mint_quotes = u]
    BY <1>1, <1>5 DEF RemoveMintQuote, Of, WalletStores, Ok, 
       Redb!RemoveMintQuote, Sqlite!RemoveMintQuote, Rexie!RemoveMintQuote, Memory!RemoveMintQuote
  <2> HIDE DEF u
  <2> QED BY <1>2, <2>1, MintQuotesMove
<1>6. ASSUME NEW q, wallet' = [s \in WalletStores |-> RemoveMeltQuote(s, wallet[s], q).db]
      PROVE  WalletInv'
  <2> DEFINE u == Without(wallet["redb"].melt_quotes, {q})
  <2>1. /\ wallet'["redb"] = [wallet["redb"] EXCEPT !.melt_quotes = u]
        /\ wallet'["sqlite"] = [wallet["sqlite"] EXCEPT !.melt_quote = u]
        /\ wallet'["rexie"] = [wallet["rexie"] EXCEPT !.melt_quotes = u]
        /\ wallet'["memory"] = [wallet["memory"] EXCEPT !.melt_quotes = u]
    BY <1>1, <1>6 DEF RemoveMeltQuote, Of, WalletStores, Ok, 
       Redb!RemoveMeltQuote, Sqlite!RemoveMeltQuote, Rexie!RemoveMeltQuote, Memory!RemoveMeltQuote
  <2> HIDE DEF u
  <2> QED BY <1>2, <2>1, MeltQuotesMove
<1> QED BY <1>2, <1>3, <1>4, <1>5, <1>6 DEF QuoteCalls, OnWallets

\* The calls that write keys, and the time of the last check.
LEMMA StepKeys ==
    ASSUME WalletInv, KeyCalls
    PROVE  WalletInv' /\ UNCHANGED mint
<1> USE RedbSame, SqliteSame, RexieSame, MemorySame
<1>1. KeysAlike
  BY DEF WalletInv
<1>2. latest' = latest /\ UNCHANGED mint
  BY DEF KeyCalls, OnWallets
<1> USE DEF KeysAlike
<1>3. ASSUME NEW keys, wallet' = [s \in WalletStores |-> AddKeys(s, wallet[s], keys).db]
      PROVE  WalletInv'
  <2> DEFINE u == Upsert(wallet["redb"].mint_keys, keys.id, keys)
  <2>1. /\ wallet'["redb"] = [wallet["redb"] EXCEPT !.mint_keys = u]
        /\ wallet'["sqlite"] = [wallet["sqlite"] EXCEPT !.key = u]
        /\ wallet'["rexie"] = [wallet["rexie"] EXCEPT !.mint_keys = u]
        /\ wallet'["memory"] = [wallet["memory"] EXCEPT !.mint_keys = u]
    BY <1>1, <1>3 DEF AddKeys, Of, WalletStores, Ok, 
       Redb!AddKeys, Sqlite!AddKeys, Rexie!AddKeys, Memory!AddKeys
  <2> HIDE DEF u
  <2> QED BY <1>2, <2>1, KeysMove
<1>4. ASSUME NEW id, wallet' = [s \in WalletStores |-> RemoveKeys(s, wallet[s], id).db]
      PROVE  WalletInv'
  <2> DEFINE u == Without(wallet["redb"].mint_keys, {id})
  <2>1. /\ wallet'["redb"] = [wallet["redb"] EXCEPT !.mint_keys = u]
        /\ wallet'["sqlite"] = [wallet["sqlite"] EXCEPT !.key = u]
        /\ wallet'["rexie"] = [wallet["rexie"] EXCEPT !.mint_keys = u]
        /\ wallet'["memory"] = [wallet["memory"] EXCEPT !.mint_keys = u]
    BY <1>1, <1>4 DEF RemoveKeys, Of, WalletStores, Ok, 
       Redb!RemoveKeys, Sqlite!RemoveKeys, Rexie!RemoveKeys, Memory!RemoveKeys
  <2> HIDE DEF u
  <2> QED BY <1>2, <2>1, KeysMove
<1>5. ASSUME NEW id, NEW time,
             wallet' = [s \in WalletStores |-> AddNostrLastChecked(s, wallet[s], id, time).db]
      PROVE  WalletInv'
  <2> DEFINE u == Upsert(wallet["redb"].nostr, id, time)
  <2>1. /\ wallet'["redb"] = [wallet["redb"] EXCEPT !.nostr = u]
        /\ wallet'["sqlite"] = [wallet["sqlite"] EXCEPT !.nostr_last_checked = u]
        /\ wallet'["rexie"] = wallet["rexie"]
        /\ wallet'["memory"] = [wallet["memory"] EXCEPT !.nostr = u]
    BY <1>1, <1>5 DEF AddNostrLastChecked, Of, WalletStores, Ok, Redb!AddNostrLastChecked,
       Sqlite!AddNostrLastChecked, Memory!AddNostrLastChecked
  <2> HIDE DEF u
  <2> QED BY <1>2, <2>1, NostrMoves
<1>6. PICK id \in Ids :
         \/ wallet' = [s \in WalletStores |-> AddKeys(s, wallet[s], [id |-> id]).db]
         \/ wallet' = [s \in WalletStores |-> RemoveKeys(s, wallet[s], id).db]
         \/ \E time \in 1..2 :
              wallet' = [s \in WalletStores |-> AddNostrLastChecked(s, wallet[s], id, time).db]
  BY DEF KeyCalls, OnWallets
<1> QED BY <1>2, <1>3, <1>4, <1>5, <1>6

Reported(table, rows) == UpsertAll(table, rows, IdOf)
Named(rows, n) == {rows[i].id : i \in 1..n}
LastOf(rows, n, k, i) == rows[i].id = k /\ \A j \in 1..n : rows[j].id = k => j <= i
LastRows(u, rows, n) == \A k \in Named(rows, n) : \E i \in 1..n : LastOf(rows, n, k, i) /\ u[k] = rows[i]

\* Reporting keysets leaves a row for each that was there or is reported: the
\* one that was there, or of those reported the last.
LEMMA ReportedKeys ==
    ASSUME NEW t, NEW n \in Nat, NEW rows, DOMAIN rows = 1..n
    PROVE  DOMAIN Reported(t, rows) = DOMAIN t \cup Named(rows, n)
BY DEF Reported, Named, UpsertAll, IdOf

\* What a mint reported makes a table.
LEMMA ReportedIsTable ==
    ASSUME NEW t, NEW n \in Nat, NEW rows, DOMAIN rows = 1..n
    PROVE  IsTable(Reported(t, rows))
BY DEF Reported, UpsertAll, IsTable

\* A keyset it named has the last row it gave for it.
LEMMA ReportedRow ==
    ASSUME NEW t, NEW n \in Nat, NEW rows, DOMAIN rows = 1..n
    PROVE  LastRows(Reported(t, rows), rows, n)
<1> SUFFICES ASSUME NEW k \in Named(rows, n)
             PROVE  \E i \in 1..n : LastOf(rows, n, k, i) /\ Reported(t, rows)[k] = rows[i]
  BY DEF LastRows
<1> DEFINE At(x) == {i \in 1..n : rows[i].id = x}
           LastAt(x) == CHOOSE i \in At(x) : \A j \in At(x) : j <= i
           u == Reported(t, rows)
<1>1. u = [x \in DOMAIN t \cup Named(rows, n) |-> IF At(x) = {} THEN t[x] ELSE rows[LastAt(x)]]
  BY DEF Reported, Named, UpsertAll, IdOf
<1>2. At(k) # {} /\ At(k) \subseteq 1..n
  BY DEF Named
<1>3. LastAt(k) \in At(k) /\ \A j \in At(k) : j <= LastAt(k)
  <2> HIDE DEF At
  <2>1. \E i \in At(k) : \A j \in At(k) : j <= i
    BY <1>2, LastPosition
  <2> QED BY <2>1
<1> HIDE DEF LastAt
<1>4. u[k] = rows[LastAt(k)]
  BY <1>1, <1>2
<1> QED BY <1>3, <1>4 DEF LastOf

\* Those it did not name keep their rows.
LEMMA ReportedOthers ==
    ASSUME NEW t, NEW n \in Nat, NEW rows, DOMAIN rows = 1..n
    PROVE  \A k \in DOMAIN t \ Named(rows, n) : Reported(t, rows)[k] = t[k]
BY DEF Reported, Named, UpsertAll, IdOf

\* What the wallets hold but their mints, keysets and counters.
Held == {"proofs", "mint_quotes", "melt_quotes", "mint_keys"}
HeldBySqlite == {"proof", "mint_quote", "melt_quote", "key", "nostr_last_checked"}

\* With those unchanged, the wallets agree on them as before.
LEMMA HeldStands ==
    ASSUME WalletInv,
           \A f \in Held \cup {"nostr"} : wallet'["redb"][f] = wallet["redb"][f],
           \A f \in Held \cup {"nostr"} : wallet'["memory"][f] = wallet["memory"][f],
           \A f \in Held : wallet'["rexie"][f] = wallet["rexie"][f],
           \A f \in HeldBySqlite : wallet'["sqlite"][f] = wallet["sqlite"][f]
    PROVE  ProofsAlike' /\ QuotesAlike' /\ KeysAlike'
<1>1. /\ wallet'["redb"].proofs = wallet["redb"].proofs
      /\ wallet'["memory"].proofs = wallet["memory"].proofs
      /\ wallet'["rexie"].proofs = wallet["rexie"].proofs
      /\ wallet'["sqlite"].proof = wallet["sqlite"].proof
  BY DEF Held, HeldBySqlite
<1>2. /\ wallet'["redb"].mint_quotes = wallet["redb"].mint_quotes
      /\ wallet'["memory"].mint_quotes = wallet["memory"].mint_quotes
      /\ wallet'["rexie"].mint_quotes = wallet["rexie"].mint_quotes
      /\ wallet'["sqlite"].mint_quote = wallet["sqlite"].mint_quote
  BY DEF Held, HeldBySqlite
<1>3. /\ wallet'["redb"].melt_quotes = wallet["redb"].melt_quotes
      /\ wallet'["memory"].melt_quotes = wallet["memory"].melt_quotes
      /\ wallet'["rexie"].melt_quotes = wallet["rexie"].melt_quotes
      /\ wallet'["sqlite"].melt_quote = wallet["sqlite"].melt_quote
  BY DEF Held, HeldBySqlite
<1>4. /\ wallet'["redb"].mint_keys = wallet["redb"].mint_keys
      /\ wallet'["memory"].mint_keys = wallet["memory"].mint_keys
      /\ wallet'["rexie"].mint_keys = wallet["rexie"].mint_keys
      /\ wallet'["sqlite"].key = wallet["sqlite"].key
  BY DEF Held, HeldBySqlite
<1>5. /\ wallet'["redb"].nostr = wallet["redb"].nostr
      /\ wallet'["memory"].nostr = wallet["memory"].nostr
      /\ wallet'["sqlite"].nostr_last_checked = wallet["sqlite"].nostr_last_checked
  BY DEF Held, HeldBySqlite
<1>6. ProofsAlike'
  BY <1>1 DEF WalletInv, ProofsAlike
<1>7. QuotesAlike'
  BY <1>2, <1>3 DEF WalletInv, QuotesAlike
<1>8. KeysAlike'
  BY <1>4, <1>5 DEF WalletInv, KeysAlike
<1> QED BY <1>6, <1>7, <1>8

\* Writing a mint, on whose row the keysets of SQLite depend.
LEMMA StepMint ==
    ASSUME WalletInv, latest' = latest, NEW url, NEW info,
           wallet' = [s \in WalletStores |-> AddMint(s, wallet[s], url, info).db]
    PROVE  WalletInv'
<1> USE RedbSame, SqliteSame, RexieSame, MemorySame
<1> DEFINE t == wallet["sqlite"].keyset
           m == wallet["sqlite"].mint
<1>1. /\ \E u : wallet'["redb"] = [wallet["redb"] EXCEPT !.mints = u]
      /\ \E u : wallet'["rexie"] = [wallet["rexie"] EXCEPT !.mints = u]
      /\ \E u : wallet'["memory"] = [wallet["memory"] EXCEPT !.mints = u]
      /\ wallet'["sqlite"] = [wallet["sqlite"] EXCEPT
            !.mint = Upsert(m, url, info),
            !.keyset = IF url \in DOMAIN m THEN Without(t, Sqlite!KeysetsOf(wallet["sqlite"], url)) ELSE t]
  BY DEF AddMint, Of, WalletStores, Ok, Redb!AddMint, Sqlite!AddMint, Rexie!AddMint, Memory!AddMint
<1>2. PICK a : wallet'["redb"] = [wallet["redb"] EXCEPT !.mints = a]
  BY <1>1
<1>3. PICK b : wallet'["rexie"] = [wallet["rexie"] EXCEPT !.mints = b]
  BY <1>1
<1>4. PICK c : wallet'["memory"] = [wallet["memory"] EXCEPT !.mints = c]
  BY <1>1
<1> DEFINE v == Upsert(m, url, info)
           u == IF url \in DOMAIN m THEN Without(t, Sqlite!KeysetsOf(wallet["sqlite"], url)) ELSE t
<1>5. wallet'["sqlite"] = [wallet["sqlite"] EXCEPT !.mint = v, !.keyset = u]
  BY <1>1
<1>6. /\ DOMAIN u \subseteq DOMAIN t /\ \A id \in DOMAIN u : u[id] = t[id]
      /\ DOMAIN m \subseteq DOMAIN v
  BY DEF Without, Restrict, Upsert
<1> HIDE DEF u, v
<1>7. LET w == wallet["sqlite"]
      IN  /\ wallet'["sqlite"].keyset = u /\ wallet'["sqlite"].mint = v
          /\ DOMAIN wallet'["sqlite"] = DOMAIN w
          /\ \A f \in DOMAIN w \ {"mint", "keyset"} : wallet'["sqlite"][f] = w[f]
  <2> DEFINE w == wallet["sqlite"]
             x == [w EXCEPT !.mint = v]
  <2>1. "mint" \in DOMAIN w /\ "keyset" \in DOMAIN w
    BY DEF WalletInv, Shape
  <2>2. wallet'["sqlite"] = [x EXCEPT !.keyset = u]
    BY <1>5
  <2> HIDE DEF w
  <2> QED BY <2>1, <2>2 DEF w
<1>8. Shape'
  BY <1>2, <1>3, <1>4, <1>7 DEF WalletInv, Shape, RedbTables
<1>9. ProofsAlike' /\ QuotesAlike' /\ KeysAlike'
  <2>1. /\ \A f \in Held \cup {"nostr"} : wallet'["redb"][f] = wallet["redb"][f]
        /\ \A f \in Held \cup {"nostr"} : wallet'["memory"][f] = wallet["memory"][f]
    BY <1>2, <1>4 DEF WalletInv, Shape, RedbTables, Held
  <2>2. \A f \in Held : wallet'["rexie"][f] = wallet["rexie"][f]
    BY <1>3 DEF WalletInv, Shape, RedbTables, Held
  <2>3. \A f \in HeldBySqlite : wallet'["sqlite"][f] = wallet["sqlite"][f]
    BY <1>7 DEF WalletInv, Shape, HeldBySqlite
  <2> QED BY <2>1, <2>2, <2>3, HeldStands
<1> USE <1>2, <1>3, <1>4, <1>7 DEF WalletInv, Shape, RedbTables
<1>10. CountersInv'
  BY <1>6, <1>7 DEF CountersInv
<1>11. CacheInv'
  BY <1>6, <1>7 DEF CacheInv
<1> QED BY <1>8, <1>9, <1>10, <1>11

\* Counting up, which in SQLite needs the row of the keyset.
LEMMA StepCounter ==
    ASSUME WalletInv, latest' = latest, NEW id, NEW n \in Nat,
           wallet' = [s \in WalletStores |-> IncrementKeysetCounter(s, wallet[s], id, n).db]
    PROVE  WalletInv'
<1> DEFINE t == wallet["redb"].keyset_counter
           u == Upsert(t, id, Count(t, id) + n)
           k == wallet["sqlite"].keyset
<1>1. /\ wallet'["redb"] = [wallet["redb"] EXCEPT !.keyset_counter = u]
      /\ wallet'["rexie"] = [wallet["rexie"] EXCEPT !.keyset_counter = u]
      /\ wallet'["memory"] = [wallet["memory"] EXCEPT !.keyset_counter = u]
      /\ wallet'["sqlite"] = IF id \in DOMAIN k THEN [wallet["sqlite"] EXCEPT !.keyset[id].counter = @ + n]
                             ELSE wallet["sqlite"]
  BY RedbSame, SqliteSame, RexieSame, MemorySame
     DEF WalletInv, CountersInv, Count, IncrementKeysetCounter, Of, WalletStores, Ok,
     Redb!IncrementKeysetCounter, Sqlite!IncrementKeysetCounter, Rexie!IncrementKeysetCounter,
     Memory!IncrementKeysetCounter, Memory!WriteCounter, Memory!ReadCounter
<1> USE DEF WalletInv, Shape, RedbTables
<1>2. Shape' /\ ProofsAlike'
  BY <1>1 DEF ProofsAlike
<1>3. QuotesAlike' /\ KeysAlike'
  BY <1>1 DEF QuotesAlike, KeysAlike
<1>4. /\ DOMAIN u = DOMAIN t \cup {id} /\ u[id] = Count(t, id) + n
      /\ \A i \in DOMAIN t : i # id => u[i] = t[i]
      /\ \A i \in DOMAIN u : u[i] \in Nat
  BY DEF Upsert, CountersInv, Count
<1>5. \A i \in DOMAIN k :
         /\ k[i] = [mint_url |-> MintOf[i], id |-> i, unit |-> "sat",
                    active |-> latest[i].active, counter |-> k[i].counter]
         /\ k[i].counter \in Nat
  BY DEF CacheInv
<1>6. /\ DOMAIN wallet'["sqlite"].keyset = DOMAIN k
      /\ wallet'["sqlite"].mint = wallet["sqlite"].mint
      /\ \A i \in DOMAIN k : wallet'["sqlite"].keyset[i] =
             [mint_url |-> MintOf[i], id |-> i, unit |-> "sat", active |-> latest[i].active,
              counter |-> k[i].counter + (IF i = id THEN n ELSE 0)]
  <2>1. /\ DOMAIN wallet'["sqlite"].keyset = DOMAIN k
        /\ wallet'["sqlite"].mint = wallet["sqlite"].mint
        /\ \A i \in DOMAIN k : wallet'["sqlite"].keyset[i] =
               IF i = id THEN [k[i] EXCEPT !.counter = @ + n] ELSE k[i]
    BY <1>1
  <2>2. ASSUME NEW i \in DOMAIN k
        PROVE  wallet'["sqlite"].keyset[i] =
                 [mint_url |-> MintOf[i], id |-> i, unit |-> "sat", active |-> latest[i].active,
                  counter |-> k[i].counter + (IF i = id THEN n ELSE 0)]
    <3> DEFINE c == k[i].counter
               r == [mint_url |-> MintOf[i], id |-> i, unit |-> "sat",
                     active |-> latest[i].active, counter |-> c]
    <3>1. k[i] = r /\ c \in Nat
      BY <1>5
    <3>2. wallet'["sqlite"].keyset[i] = IF i = id THEN [k[i] EXCEPT !.counter = @ + n] ELSE k[i]
      BY <2>1
    <3> HIDE DEF c
    <3>3. [r EXCEPT !.counter = @ + n] =
             [mint_url |-> MintOf[i], id |-> i, unit |-> "sat", active |-> latest[i].active, counter |-> c + n]
      OBVIOUS
    <3>4. c + 0 = c
      BY <3>1
    <3> QED BY <3>1, <3>2, <3>3, <3>4 DEF c
  <2> QED BY <2>1, <2>2
<1> DEFINE Added(i) == k[i].counter + (IF i = id THEN n ELSE 0)
<1>7. ASSUME NEW i \in DOMAIN k PROVE Added(i) \in Nat
  <2>1. k[i].counter \in Nat
    BY <1>5
  <2> QED BY <2>1
<1>8. \A i \in DOMAIN k : wallet'["sqlite"].keyset[i] =
             [mint_url |-> MintOf[i], id |-> i, unit |-> "sat", active |-> latest[i].active,
              counter |-> Added(i)]
  BY <1>6
<1> HIDE DEF u, k
<1>9. CountersInv'
  <2>1. ASSUME NEW i \in DOMAIN k
        PROVE  Added(i) <= Count(u, i)
    <3>1. k[i].counter \in Nat /\ k[i].counter <= Count(t, i) /\ Count(t, i) \in Nat
      BY DEF CountersInv, Count, k
    <3>2. CASE i = id
      <4>1. Count(u, i) = Count(t, i) + n
        BY <1>4, <3>2 DEF Count
      <4> QED BY <3>1, <3>2, <4>1
    <3>3. CASE i # id
      <4>1. Count(u, i) = Count(t, i)
        BY <1>4, <3>3 DEF Count
      <4> QED BY <3>1, <3>3, <4>1
    <3> QED BY <3>2, <3>3
  <2> HIDE DEF Added
  <2>2. ASSUME NEW i \in DOMAIN k PROVE wallet'["sqlite"].keyset[i].counter = Added(i)
    <3> HIDE DEF WalletInv, Shape, RedbTables
    <3> DEFINE row == wallet'["sqlite"].keyset[i]
    <3>1. row = [mint_url |-> MintOf[i], id |-> i, unit |-> "sat", active |-> latest[i].active,
                 counter |-> Added(i)]
      BY <1>8, Zenon
    <3> HIDE DEF row
    <3>2. row.counter = Added(i)
      BY <3>1
    <3> QED BY <3>2 DEF row
  <2>3. DOMAIN wallet'["sqlite"].keyset = DOMAIN k
    BY <1>6
  <2>4. /\ wallet'["redb"].keyset_counter = u /\ wallet'["rexie"].keyset_counter = u
        /\ wallet'["memory"].keyset_counter = u
    BY <1>1
  <2> HIDE DEF Count, WalletInv, Shape, RedbTables
  <2> QED BY <1>4, <1>7, <2>1, <2>2, <2>3, <2>4 DEF CountersInv
<1>10. CacheInv'
  <2>1. ASSUME NEW i \in DOMAIN k
        PROVE  /\ wallet'["sqlite"].keyset[i] \in [mint_url : {MintOf[i]}, id : {i}, unit : {"sat"},
                                    active : {latest[i].active}, counter : Nat]
               /\ i \in DOMAIN latest /\ MintOf[i] \in DOMAIN wallet["sqlite"].mint
    <3>2. i \in DOMAIN latest /\ MintOf[i] \in DOMAIN wallet["sqlite"].mint
      BY DEF CacheInv, k
    <3> HIDE DEF Added, WalletInv, Shape, RedbTables
    <3> DEFINE row == wallet'["sqlite"].keyset[i]
    <3>3. row = [mint_url |-> MintOf[i], id |-> i, unit |-> "sat", active |-> latest[i].active,
                 counter |-> Added(i)]
      BY <1>8, Zenon
    <3> HIDE DEF row
    <3>4. row \in [mint_url : {MintOf[i]}, id : {i}, unit : {"sat"}, active : {latest[i].active}, counter : Nat]
      BY <1>7, <3>3
    <3> QED BY <3>2, <3>4 DEF row
  <2>2. /\ wallet'["redb"].keysets = wallet["redb"].keysets
        /\ wallet'["rexie"].mint_keysets = wallet["rexie"].mint_keysets
        /\ wallet'["memory"].keysets = wallet["memory"].keysets
        /\ wallet'["memory"].mint_keysets = wallet["memory"].mint_keysets
    BY <1>1
  <2> QED BY <1>6, <2>1, <2>2 DEF CacheInv
<1> QED BY <1>2, <1>3, <1>9, <1>10

\* A mint's keysets are reported, in a list.
LEMMA StepReport ==
    ASSUME WalletInv, NEW url, NEW n \in Nat, NEW infos, DOMAIN infos = 1..n, infos = <<>> <=> n = 0,
           \A i \in 1..n : /\ infos[i].id \in Ids /\ MintOf[infos[i].id] = url
                          /\ infos[i] \in Info(infos[i].id),
           latest' = UpsertAll(latest, infos, IdOf),
           wallet' = [s \in WalletStores |-> AddMintKeysets(s, wallet[s], url, infos).db]
    PROVE  WalletInv'
<1> DEFINE t == wallet["sqlite"].keyset
           m == wallet["sqlite"].mint
           known == wallet["memory"].mint_keysets
           Given == {infos[i].id : i \in 1..n}
           rows == [i \in DOMAIN infos |->
                      [mint_url |-> url, id |-> infos[i].id, unit |-> infos[i].unit,
                       active |-> infos[i].active, counter |-> 0]]
           l == UpsertAll(latest, infos, IdOf)
           u == UpsertAll(t, rows, IdOf)
<1>1. /\ \E v : wallet'["redb"] = [wallet["redb"] EXCEPT !.mint_keysets = v]
      /\ \E v, k : /\ wallet'["rexie"] = [wallet["rexie"] EXCEPT !.mint_keysets = v, !.keysets = k]
                   /\ \A w \in DOMAIN v : v[w] = None
  <2>1. \E v : wallet'["redb"] = [wallet["redb"] EXCEPT !.mint_keysets = v]
    BY RedbSame DEF AddMintKeysets, Of, WalletStores, Redb!AddMintKeysets, Ok
  <2>2. /\ wallet'["rexie"] = Rexie!AddMintKeysets(wallet["rexie"], url, infos).db
        /\ Lookup(wallet["rexie"].mint_keysets, url) = None
    BY DEF AddMintKeysets, Of, WalletStores, WalletInv, CacheInv, Lookup
  <2>3. wallet'["rexie"] = [wallet["rexie"] EXCEPT
            !.mint_keysets = Upsert(wallet["rexie"].mint_keysets, url, None),
            !.keysets = Rexie!UpsertAll(wallet["rexie"].keysets, infos, Rexie!IdOf)]
    BY <2>2, RexieSame DEF Rexie!AddMintKeysets, Ok
  <2>4. LET v == Upsert(wallet["rexie"].mint_keysets, url, None) IN \A w \in DOMAIN v : v[w] = None
    BY DEF Upsert, WalletInv, CacheInv
  <2> QED BY <2>1, <2>3, <2>4
<1>2. wallet'["memory"] =
        IF n = 0 THEN wallet["memory"]
        ELSE [wallet["memory"] EXCEPT
                !.mint_keysets = Upsert(known, url,
                    (IF url \in DOMAIN known THEN known[url] ELSE {}) \cup {k.id : k \in ToSet(infos)}),
                !.keysets = l]
  <2>1. wallet'["memory"] = Memory!AddMintKeysets(wallet["memory"], url, infos).db
    BY DEF AddMintKeysets, Of, WalletStores
  <2>2. wallet["memory"].keysets = latest
    BY DEF WalletInv, CacheInv
  <2>3. Memory!ToSet(infos) = ToSet(infos)
    BY DEF ToSet, Memory!ToSet
  <2>4. Memory!AddMintKeysets(wallet["memory"], url, infos).db =
          IF infos = <<>> THEN wallet["memory"]
          ELSE [wallet["memory"] EXCEPT
                !.mint_keysets = Upsert(known, url,
                    (IF url \in DOMAIN known THEN known[url] ELSE {}) \cup {k.id : k \in ToSet(infos)}),
                !.keysets = UpsertAll(wallet["memory"].keysets, infos, IdOf)]
    BY <2>3, MemorySame, ListsUpserted DEF Memory!AddMintKeysets, Ok
  <2> QED BY <2>1, <2>2, <2>4
<1>3. wallet'["sqlite"] =
        IF n = 0 \/ url \notin DOMAIN m THEN wallet["sqlite"]
        ELSE [wallet["sqlite"] EXCEPT !.keyset = u]
  BY SqliteSame, ListsUpserted DEF AddMintKeysets, Of, WalletStores, Sqlite!AddMintKeysets, Ok, Error
<1>4. {k.id : k \in ToSet(infos)} = Given /\ Given \subseteq {id \in Ids : MintOf[id] = url}
  BY DEF ToSet
<1>5. /\ DOMAIN l = DOMAIN latest \cup Given /\ IsTable(l)
      /\ \A k \in DOMAIN latest \ Given : l[k] = latest[k]
      /\ \A k \in Given : \E i \in 1..n : LastOf(infos, n, k, i) /\ l[k] = infos[i]
  <2>1. l = Reported(latest, infos) /\ Given = Named(infos, n)
    BY DEF Reported, Named
  <2> HIDE DEF l, Given, WalletInv
  <2>2. DOMAIN l = DOMAIN latest \cup Given /\ IsTable(l)
    BY <2>1, ReportedKeys, ReportedIsTable
  <2>3. \A k \in DOMAIN latest \ Given : l[k] = latest[k]
    <3>1. \A k \in DOMAIN latest \ Named(infos, n) : Reported(latest, infos)[k] = latest[k]
      BY ReportedOthers
    <3> QED BY <2>1, <3>1
  <2>4. \A k \in Given : \E i \in 1..n : LastOf(infos, n, k, i) /\ l[k] = infos[i]
    <3>1. LastRows(Reported(latest, infos), infos, n)
      BY ReportedRow
    <3> QED BY <2>1, <3>1 DEF LastRows
  <2> QED BY <2>2, <2>3, <2>4
<1>6. /\ DOMAIN u = DOMAIN t \cup Given
      /\ \A k \in DOMAIN t \ Given : u[k] = t[k]
      /\ \A k \in Given : \E i \in 1..n : LastOf(infos, n, k, i) /\ u[k] = rows[i]
  <2>1. DOMAIN rows = 1..n /\ \A i \in 1..n : rows[i].id = infos[i].id
    OBVIOUS
  <2>2. u = Reported(t, rows)
    BY DEF Reported
  <2> HIDE DEF rows, u
  <2>3. Given = Named(rows, n)
    BY <2>1 DEF Named
  <2> HIDE DEF Given, WalletInv
  <2>4. DOMAIN u = DOMAIN t \cup Given
    BY <2>1, <2>2, <2>3, ReportedKeys
  <2>5. \A k \in DOMAIN t \ Given : u[k] = t[k]
    BY <2>1, <2>2, <2>3, ReportedOthers
  <2>6. \A k \in Given : \E i \in 1..n : LastOf(rows, n, k, i) /\ u[k] = rows[i]
    <3>1. LastRows(Reported(t, rows), rows, n)
      BY <2>1, ReportedRow
    <3> QED BY <2>2, <2>3, <3>1 DEF LastRows
  <2>7. \A k, i : i \in 1..n /\ LastOf(rows, n, k, i) => LastOf(infos, n, k, i)
    BY <2>1 DEF LastOf
  <2> QED BY <2>4, <2>5, <2>6, <2>7
<1>7. \A i \in 1..n : rows[i] = [mint_url |-> url, id |-> infos[i].id, unit |-> infos[i].unit,
                                 active |-> infos[i].active, counter |-> 0]
  OBVIOUS
<1> HIDE DEF l, u, rows
<1>8. \A id \in DOMAIN l : id \in Ids /\ l[id] \in Info(id)
  <2>1. \A id \in DOMAIN latest : id \in Ids /\ latest[id] \in Info(id)
    BY DEF WalletInv, CacheInv
  <2>2. ASSUME NEW id \in Given PROVE id \in Ids /\ l[id] \in Info(id)
    <3>1. PICK i \in 1..n : LastOf(infos, n, id, i) /\ l[id] = infos[i]
      BY <1>5
    <3> QED BY <3>1 DEF LastOf
  <2> QED BY <1>5, <2>1, <2>2
<1>9. n = 0 => l = latest
  <2>1. n = 0 => Given = {}
    OBVIOUS
  <2>2. IsTable(latest)
    BY DEF WalletInv, CacheInv
  <2> QED BY <1>5, <2>1, <2>2 DEF IsTable
\* A row of SQLite that stands is not among the reported ones, or is replaced.
<1>10. ASSUME NEW id \in Given
       PROVE  u[id] = [mint_url |-> MintOf[id], id |-> id, unit |-> "sat", active |-> l[id].active, counter |-> 0]
  <2>1. PICK i \in 1..n : LastOf(infos, n, id, i) /\ l[id] = infos[i]
    BY <1>5
  <2>2. PICK j \in 1..n : LastOf(infos, n, id, j) /\ u[id] = rows[j]
    BY <1>6
  <2>3. i = j /\ infos[i].id = id
    BY <2>1, <2>2 DEF LastOf
  <2>4. MintOf[id] = url /\ infos[i].unit = "sat"
    BY <2>1 DEF Info
  <2> QED BY <1>7, <2>1, <2>2, <2>3, <2>4
<1>11. ASSUME NEW id \in DOMAIN t
       PROVE  /\ t[id] \in [mint_url : {MintOf[id]}, id : {id}, unit : {"sat"},
                             active : {latest[id].active}, counter : Nat]
              /\ id \in DOMAIN latest /\ MintOf[id] \in DOMAIN m
  BY DEF WalletInv, CacheInv
<1>12. PICK a : wallet'["redb"] = [wallet["redb"] EXCEPT !.mint_keysets = a]
  BY <1>1
<1>13. PICK b, c : /\ wallet'["rexie"] = [wallet["rexie"] EXCEPT !.mint_keysets = b, !.keysets = c]
                  /\ \A w \in DOMAIN b : b[w] = None
  BY <1>1
<1>14. /\ DOMAIN wallet'["memory"] = RedbTables
       /\ \A f \in RedbTables \ {"mint_keysets", "keysets"} : wallet'["memory"][f] = wallet["memory"][f]
       /\ wallet'["memory"].keysets = l
       /\ LET d == wallet'["memory"].mint_keysets
          IN  \A w \in DOMAIN d : d[w] \subseteq {id \in Ids : MintOf[id] = w}
  <2>1. \A w \in DOMAIN known : known[w] \subseteq {id \in Ids : MintOf[id] = w}
    BY DEF WalletInv, CacheInv
  <2>2. DOMAIN wallet["memory"] = RedbTables
    BY DEF WalletInv, Shape
  <2>3. CASE n = 0
    <3>1. wallet["memory"].keysets = l
      BY <1>9, <2>3 DEF WalletInv, CacheInv
    <3> QED BY <1>2, <2>1, <2>2, <2>3, <3>1
  <2>4. CASE n # 0
    <3> DEFINE e == (IF url \in DOMAIN known THEN known[url] ELSE {}) \cup Given
               d == Upsert(known, url, e)
    <3>1. e \subseteq {id \in Ids : MintOf[id] = url}
      BY <1>4, <2>1
    <3>2. \A w \in DOMAIN d : d[w] \subseteq {id \in Ids : MintOf[id] = w}
      BY <2>1, <3>1 DEF Upsert
    <3> DEFINE x == [wallet["memory"] EXCEPT !.mint_keysets = d]
    <3>3. wallet'["memory"] = [x EXCEPT !.keysets = l]
      BY <1>2, <1>4, <2>4
    <3>4. DOMAIN x = RedbTables /\ x.mint_keysets = d /\
          \A f \in RedbTables \ {"mint_keysets"} : x[f] = wallet["memory"][f]
      BY <2>2 DEF RedbTables
    <3> HIDE DEF x, d
    <3> QED BY <3>2, <3>3, <3>4 DEF RedbTables
  <2> QED BY <2>3, <2>4
<1>15. /\ DOMAIN wallet'["rexie"] = RedbTables \ {"nostr"}
       /\ \A f \in RedbTables \ {"nostr", "mint_keysets", "keysets"} : wallet'["rexie"][f] = wallet["rexie"][f]
       /\ wallet'["rexie"].mint_keysets = b
  <2> DEFINE r == [wallet["rexie"] EXCEPT !.mint_keysets = b]
  <2>1. DOMAIN wallet["rexie"] = RedbTables \ {"nostr"}
    BY DEF WalletInv, Shape
  <2>2. wallet'["rexie"] = [r EXCEPT !.keysets = c]
    BY <1>13
  <2>3. DOMAIN r = RedbTables \ {"nostr"} /\ r.mint_keysets = b /\
        \A f \in RedbTables \ {"nostr", "mint_keysets"} : r[f] = wallet["rexie"][f]
    BY <2>1 DEF RedbTables
  <2> HIDE DEF r
  <2> QED BY <2>2, <2>3 DEF RedbTables
<1>16. /\ DOMAIN wallet'["redb"] = RedbTables
       /\ \A f \in RedbTables \ {"mint_keysets"} : wallet'["redb"][f] = wallet["redb"][f]
  BY <1>12 DEF WalletInv, Shape
<1> DEFINE v == wallet'["sqlite"].keyset
<1>17. /\ DOMAIN wallet'["sqlite"] = DOMAIN wallet["sqlite"]
       /\ \A f \in DOMAIN wallet["sqlite"] \ {"keyset"} : wallet'["sqlite"][f] = wallet["sqlite"][f]
       /\ v = IF n = 0 \/ url \notin DOMAIN m THEN t ELSE u
  <2>1. "keyset" \in DOMAIN wallet["sqlite"]
    BY DEF WalletInv, Shape
  <2> QED BY <1>3, <2>1
<1>18. ASSUME NEW id \in DOMAIN v
       PROVE  /\ v[id] \in [mint_url : {MintOf[id]}, id : {id}, unit : {"sat"},
                             active : {l[id].active}, counter : Nat]
              /\ id \in DOMAIN l /\ MintOf[id] \in DOMAIN m
              /\ v[id].counter = 0 \/ (id \in DOMAIN t /\ v[id] = t[id])
  <2>1. CASE id \in Given /\ n # 0 /\ url \in DOMAIN m
    <3>1. v[id] = [mint_url |-> MintOf[id], id |-> id, unit |-> "sat", active |-> l[id].active, counter |-> 0]
      BY <1>10, <1>17, <2>1
    <3>2. MintOf[id] = url /\ id \in DOMAIN l
      BY <1>4, <1>5, <2>1
    <3> HIDE DEF v
    <3> QED BY <2>1, <3>1, <3>2
  <2>2. CASE ~(id \in Given /\ n # 0 /\ url \in DOMAIN m)
    <3>1. id \in DOMAIN t /\ v[id] = t[id]
      BY <1>6, <1>17, <2>2
    <3>2. n = 0 => Given = {}
      OBVIOUS
    <3>3. id \notin Given
      BY <1>4, <1>11, <2>2, <3>1, <3>2
    <3>4. id \in DOMAIN l /\ l[id] = latest[id]
      BY <1>5, <1>11, <3>1, <3>3
    <3> HIDE DEF v
    <3> QED BY <1>11, <3>1, <3>4
  <2> QED BY <2>1, <2>2
<1> HIDE DEF v, t, m, known
<1>19. Shape'
  BY <1>14, <1>15, <1>16, <1>17 DEF WalletInv, Shape, RedbTables
<1>20. ProofsAlike' /\ QuotesAlike' /\ KeysAlike'
  <2>1. /\ \A f \in Held \cup {"nostr"} : wallet'["redb"][f] = wallet["redb"][f]
        /\ \A f \in Held \cup {"nostr"} : wallet'["memory"][f] = wallet["memory"][f]
    BY <1>14, <1>16 DEF RedbTables, Held
  <2>2. \A f \in Held : wallet'["rexie"][f] = wallet["rexie"][f]
    BY <1>15 DEF RedbTables, Held
  <2>3. \A f \in HeldBySqlite : wallet'["sqlite"][f] = wallet["sqlite"][f]
    BY <1>17 DEF WalletInv, Shape, HeldBySqlite
  <2> QED BY <2>1, <2>2, <2>3, HeldStands
<1> USE DEF Shape, RedbTables
<1>21. CountersInv'
  <2>1. \A id \in DOMAIN v : v[id].counter \in Nat /\ v[id].counter <= Count(wallet["redb"].keyset_counter, id)
    <3>1. ASSUME NEW id \in DOMAIN v
          PROVE  v[id].counter \in Nat /\ v[id].counter <= Count(wallet["redb"].keyset_counter, id)
      <4>1. Count(wallet["redb"].keyset_counter, id) \in Nat
        BY DEF WalletInv, CountersInv, Count
      <4>2. id \in DOMAIN t => /\ t[id].counter \in Nat
                               /\ t[id].counter <= Count(wallet["redb"].keyset_counter, id)
        BY DEF WalletInv, CountersInv, t
      <4>3. v[id].counter = 0 \/ (id \in DOMAIN t /\ v[id] = t[id])
        BY <1>18
      <4> QED BY <4>1, <4>2, <4>3
    <3> QED BY <3>1
  <2>2. /\ wallet'["redb"].keyset_counter = wallet["redb"].keyset_counter
        /\ wallet'["rexie"].keyset_counter = wallet["rexie"].keyset_counter
        /\ wallet'["memory"].keyset_counter = wallet["memory"].keyset_counter
    BY <1>14, <1>15, <1>16
  <2> QED BY <2>1, <2>2 DEF WalletInv, CountersInv, v
<1>22. CacheInv'
  <2>1. latest' = l
    BY DEF l
  <2>2. wallet'["redb"].keysets = NoRows /\ wallet'["sqlite"].mint = m
    BY <1>16, <1>17 DEF WalletInv, CacheInv, m
  <2>3. \A id \in DOMAIN v :
         /\ v[id] \in [mint_url : {MintOf[id]}, id : {id}, unit : {"sat"},
                       active : {l[id].active}, counter : Nat]
         /\ id \in DOMAIN l /\ MintOf[id] \in DOMAIN m
    BY <1>18
  <2>4. v = wallet'["sqlite"].keyset
    BY DEF v
  <2>5. wallet'["memory"].keysets = latest' /\ IsTable(latest)'
    BY <1>5, <1>14, <2>1 DEF IsTable
  <2>6. \A w \in DOMAIN wallet'["rexie"].mint_keysets : wallet'["rexie"].mint_keysets[w] = None
    BY <1>13, <1>15
  <2>7. \A w \in DOMAIN wallet'["memory"].mint_keysets :
          wallet'["memory"].mint_keysets[w] \subseteq {id \in Ids : MintOf[id] = w}
    BY <1>14
  <2>8. \A id \in DOMAIN latest' : id \in Ids /\ latest'[id] \in Info(id)
    BY <1>8, <2>1
  <2>9. \A id \in DOMAIN wallet'["sqlite"].keyset :
         /\ id \in DOMAIN latest'
         /\ wallet'["sqlite"].keyset[id] \in
              [mint_url : {MintOf[id]}, id : {id}, unit : {"sat"}, active : {latest'[id].active}, counter : Nat]
         /\ MintOf[id] \in DOMAIN wallet'["sqlite"].mint
    BY <2>1, <2>2, <2>3, <2>4
  <2> QED BY <2>2, <2>5, <2>6, <2>7, <2>8, <2>9 DEF CacheInv
<1> QED BY <1>19, <1>20, <1>21, <1>22 DEF WalletInv

\* A set of keysets is given in some order.
LEMMA InSomeOrder ==
    ASSUME NEW ids \in SUBSET Ids
    PROVE  Cardinality(ids) \in Nat /\ SetToSeq(ids) \in [1..Cardinality(ids) -> ids]
<1>1. IsFiniteSet(ids)
  BY StoresAssumption, FS_Subset DEF StoresAssumption
<1>2. Cardinality(ids) \in Nat /\ \E f \in [1..Cardinality(ids) -> ids] : IsInjective(f)
  BY <1>1, FS_CardinalityType DEF ExistsBijection, Bijection, Injection, IsInjective
<1> QED BY <1>2 DEF SetToSeq

\* Writing the keysets a mint reported.
LEMMA StepKeysets ==
    ASSUME WalletInv, KeysetCalls
    PROVE  WalletInv' /\ UNCHANGED mint
<1>1. UNCHANGED mint
  BY DEF KeysetCalls, AddKeysets, OnWallets
<1>2. ASSUME NEW url \in Urls, NEW active \in [Ids -> BOOLEAN],
             NEW ids \in SUBSET {id \in Ids : MintOf[id] = url}, NEW infos,
             infos = [i \in 1..Cardinality(ids) |->
                        LET id == SetToSeq(ids)[i]
                        IN  [id |-> id, unit |-> "sat", active |-> active[id]]],
             wallet' = [s \in WalletStores |-> AddMintKeysets(s, wallet[s], url, infos).db],
             latest' = UpsertAll(latest, infos, IdOf)
      PROVE  WalletInv'
  <2> DEFINE n == Cardinality(ids)
             q == SetToSeq(ids)
  <2>1. n \in Nat /\ q \in [1..n -> ids]
    BY InSomeOrder
  <2> HIDE DEF n, q
  <2>2. infos = [i \in 1..n |-> [id |-> q[i], unit |-> "sat", active |-> active[q[i]]]]
    BY <1>2 DEF n, q
  <2>3. DOMAIN infos = 1..n /\ (infos = <<>> <=> n = 0)
    BY <2>1, <2>2
  <2>4. ASSUME NEW i \in 1..n
        PROVE  /\ infos[i].id \in Ids /\ MintOf[infos[i].id] = url
               /\ infos[i] \in Info(infos[i].id)
    <3>1. q[i] \in Ids /\ MintOf[q[i]] = url /\ active[q[i]] \in BOOLEAN
      BY <2>1
    <3>2. infos[i] = [id |-> q[i], unit |-> "sat", active |-> active[q[i]]]
      BY <2>2
    <3> QED BY <3>1, <3>2 DEF Info
  <2> HIDE DEF WalletInv
  <2>5. /\ wallet' = [s \in WalletStores |-> AddMintKeysets(s, wallet[s], url, infos).db]
        /\ latest' = UpsertAll(latest, infos, IdOf)
    BY <1>2
  <2> QED BY <2>1, <2>3, <2>4, <2>5, StepReport, Zenon
<1>3. ASSUME NEW url \in Urls, NEW active \in [Ids -> BOOLEAN],
             NEW ids \in SUBSET {id \in Ids : MintOf[id] = url},
             AddKeysets(url, [i \in 1..Cardinality(ids) |->
                LET id == SetToSeq(ids)[i]
                IN  [id |-> id, unit |-> "sat", active |-> active[id]]])
      PROVE  WalletInv'
  <2> DEFINE infos == [i \in 1..Cardinality(ids) |->
                        LET id == SetToSeq(ids)[i]
                        IN  [id |-> id, unit |-> "sat", active |-> active[id]]]
  <2>1. /\ wallet' = [s \in WalletStores |-> AddMintKeysets(s, wallet[s], url, infos).db]
        /\ latest' = UpsertAll(latest, infos, IdOf)
    BY <1>3 DEF AddKeysets, OnWallets
  <2> QED BY <1>2, <2>1
<1>4. ASSUME NEW url \in Urls, NEW info, latest' = latest,
             wallet' = [s \in WalletStores |-> AddMint(s, wallet[s], url, info).db]
      PROVE  WalletInv'
  BY <1>4, StepMint
<1>5. ASSUME NEW id \in Ids, NEW n \in 1..MaxCount, latest' = latest,
             wallet' = [s \in WalletStores |-> IncrementKeysetCounter(s, wallet[s], id, n).db]
      PROVE  WalletInv'
  <2>1. n \in Nat
    BY StoresAssumption DEF StoresAssumption
  <2> QED BY <1>5, <2>1, StepCounter
<1>6. CASE \E url \in Urls, active \in [Ids -> BOOLEAN] :
             \E ids \in SUBSET {id \in Ids : MintOf[id] = url} :
               AddKeysets(url, [i \in 1..Cardinality(ids) |->
                 LET id == SetToSeq(ids)[i]
                 IN  [id |-> id, unit |-> "sat", active |-> active[id]]])
  BY <1>3, <1>6, <1>1
<1>7. CASE /\ \/ \E url \in Urls, info \in {"info", None} :
                   wallet' = [s \in WalletStores |-> AddMint(s, wallet[s], url, info).db]
              \/ \E id \in Ids, n \in 1..MaxCount :
                   wallet' = [s \in WalletStores |-> IncrementKeysetCounter(s, wallet[s], id, n).db]
           /\ latest' = latest
  BY <1>4, <1>5, <1>7, <1>1
<1> QED BY <1>6, <1>7 DEF KeysetCalls, OnWallets

-----------------------------------------------------------------------------
(* The calls to the mints; none takes a spent proof back *)

Grows == DOMAIN R.spent_proofs \subseteq DOMAIN R'.spent_proofs

\* The calls that write spent proofs and signatures.
LEMMA StepMintProofs ==
    ASSUME MintInv, MintProofCalls
    PROVE  MintInv' /\ Grows /\ UNCHANGED <<wallet, latest>>
<1> USE MintRedbSame, MintSqliteSame, MintMemorySame
<1>1. UNCHANGED <<wallet, latest>>
  BY DEF MintProofCalls, OnMints
<1>2. PICK y \in Ys :
         \/ OnMints("mint proofs", MintRedb!AddSpentProof(R, Proof(y)),
              MintSqlite!AddSpentProof(S, Proof(y)), MintMemory!AddSpentProof(M, Proof(y)))
         \/ OnMints("mint proofs", MintRedb!AddPendingProof(R, Proof(y)),
              MintSqlite!AddPendingProof(S, Proof(y)), MintMemory!AddPendingProof(M, Proof(y)))
         \/ OnMints("mint proofs", MintRedb!RemovePendingProof(R, y),
              MintSqlite!RemovePendingProof(S, y), MintMemory!RemovePendingProof(M, y))
         \/ \E k \in Ids :
              OnMints("mint proofs", MintRedb!AddBlindedSignature(R, y, k),
                 MintSqlite!AddBlindedSignature(S, y, k), MintMemory!AddBlindedSignature(M, y, k))
  BY DEF MintProofCalls
<1>3. CASE OnMints("mint proofs", MintRedb!AddSpentProof(R, Proof(y)),
              MintSqlite!AddSpentProof(S, Proof(y)), MintMemory!AddSpentProof(M, Proof(y)))
  <2> DEFINE u == Upsert(R.spent_proofs, y, Proof(y))
             v == Upsert(S.proof, y, [proof |-> Proof(y), state |-> "SPENT"])
  <2>1. /\ R' = [R EXCEPT !.spent_proofs = u] /\ S' = [S EXCEPT !.proof = v]
        /\ M' = [M EXCEPT !.spent_proofs = u]
    BY <1>3 DEF OnMints, Ok, R, S, M, MintInv, SpentAlike, Proof,
       MintRedb!AddSpentProof, MintSqlite!AddSpentProof, MintMemory!AddSpentProof
  <2>2. /\ DOMAIN v = DOMAIN u /\ DOMAIN R.spent_proofs \subseteq DOMAIN u
        /\ \A z \in DOMAIN u : u[z] = Proof(z) /\ v[z] = [proof |-> Proof(z), state |-> "SPENT"]
    BY DEF Upsert, MintInv, SpentAlike
  <2> HIDE DEF u, v
  <2>3. MintShape' /\ SpentAlike' /\ Grows
    BY <2>1, <2>2 DEF MintInv, MintShape, SpentAlike, Grows
  <2>4. SignedAlike' /\ MintQuotesAlike'
    BY <2>1 DEF MintInv, MintShape, SignedAlike, MintQuotesAlike
  <2> QED BY <1>1, <2>3, <2>4 DEF MintInv
<1>4. CASE OnMints("mint proofs", MintRedb!AddPendingProof(R, Proof(y)),
              MintSqlite!AddPendingProof(S, Proof(y)), MintMemory!AddPendingProof(M, Proof(y)))
  <2>1. PICK u, v : /\ R' = [R EXCEPT !.pending_proofs = u] /\ S' = S
                    /\ M' = [M EXCEPT !.pending_proofs = v]
    BY <1>4 DEF OnMints, Ok, Error, R, S, M,
       MintRedb!AddPendingProof, MintSqlite!AddPendingProof, MintMemory!AddPendingProof
  <2> QED BY <1>1, <2>1 DEF MintInv, MintShape, SpentAlike, SignedAlike, MintQuotesAlike, Grows
<1>5. CASE OnMints("mint proofs", MintRedb!RemovePendingProof(R, y),
              MintSqlite!RemovePendingProof(S, y), MintMemory!RemovePendingProof(M, y))
  \* SQLite has no pending row to remove.
  <2>1. MintSqlite!InState(S, y, "PENDING") = None
    <3>1. ASSUME y \in DOMAIN S.proof PROVE S.proof[y].state # "PENDING"
      <4>1. S.proof[y] = [proof |-> Proof(y), state |-> "SPENT"]
        BY <3>1, Zenon DEF MintInv, SpentAlike
      <4> QED BY <4>1
    <3> QED BY <3>1 DEF MintSqlite!InState
  <2>2. PICK u, v : /\ R' = [R EXCEPT !.pending_proofs = u] /\ S' = S
                    /\ M' = [M EXCEPT !.pending_proofs = v]
    BY <1>5, <2>1 DEF OnMints, Ok, R, S, M,
       MintRedb!RemovePendingProof, MintSqlite!RemovePendingProof, MintMemory!RemovePendingProof
  <2> QED BY <1>1, <2>2 DEF MintInv, MintShape, SpentAlike, SignedAlike, MintQuotesAlike, Grows
<1>6. ASSUME NEW k \in Ids,
             OnMints("mint proofs", MintRedb!AddBlindedSignature(R, y, k),
                MintSqlite!AddBlindedSignature(S, y, k), MintMemory!AddBlindedSignature(M, y, k))
      PROVE  MintInv' /\ Grows
  <2> DEFINE u == Upsert(R.blinded_signatures, y, k)
             v == IF y \in DOMAIN S.blind_signature THEN S.blind_signature
                  ELSE Upsert(S.blind_signature, y, k)
             w == Upsert(M.blinded_signatures, y, k)
  <2>1. /\ R' = [R EXCEPT !.blinded_signatures = u]
        /\ S' = IF y \in DOMAIN S.blind_signature THEN S
                ELSE [S EXCEPT !.blind_signature = Upsert(S.blind_signature, y, k)]
        /\ M' = [M EXCEPT !.blinded_signatures = w]
    BY <1>6 DEF OnMints, Ok, Error, R, S, M, MintRedb!AddBlindedSignature,
       MintSqlite!AddBlindedSignature, MintMemory!AddBlindedSignature
  <2>2. /\ DOMAIN S' = DOMAIN S /\ S'.blind_signature = v
        /\ \A f \in DOMAIN S \ {"blind_signature"} : S'[f] = S[f]
    BY <2>1 DEF MintInv, MintShape
  <2>3. /\ DOMAIN v = DOMAIN u /\ DOMAIN w = DOMAIN u
        /\ \A z \in DOMAIN u : {u[z], v[z], w[z]} \subseteq Ids
    BY DEF Upsert, MintInv, SignedAlike
  <2> HIDE DEF u, v, w
  <2>4. MintShape' /\ SpentAlike' /\ Grows
    BY <2>1, <2>2 DEF MintInv, MintShape, SpentAlike, Grows
  <2>5. SignedAlike' /\ MintQuotesAlike'
    BY <2>1, <2>2, <2>3 DEF MintInv, MintShape, SignedAlike, MintQuotesAlike
  <2> QED BY <2>4, <2>5 DEF MintInv
<1> QED BY <1>1, <1>2, <1>3, <1>4, <1>5, <1>6

\* What a call that writes one table of quotes leaves.
LEMMA MintQuotesWritten ==
    ASSUME MintInv, NEW u,
           \/ /\ R' = [R EXCEPT !.mint_quotes = u] /\ S' = [S EXCEPT !.mint_quote = u]
              /\ M' = [M EXCEPT !.mint_quotes = u]
           \/ /\ R' = [R EXCEPT !.melt_quotes = u] /\ S' = [S EXCEPT !.melt_quote = u]
              /\ M' = [M EXCEPT !.melt_quotes = u]
    PROVE  MintInv' /\ Grows
<1>1. MintShape' /\ SpentAlike' /\ SignedAlike' /\ Grows
  BY DEF MintInv, MintShape, SpentAlike, SignedAlike, Grows
<1>2. MintQuotesAlike'
  BY DEF MintInv, MintShape, MintQuotesAlike
<1> QED BY <1>1, <1>2 DEF MintInv

\* The calls that write quotes.
LEMMA StepMintQuotes ==
    ASSUME MintInv, MintQuoteCalls
    PROVE  MintInv' /\ Grows /\ UNCHANGED <<wallet, latest>>
<1> USE MintRedbSame, MintSqliteSame, MintMemorySame
<1>1. UNCHANGED <<wallet, latest>>
  BY DEF MintQuoteCalls, OnMints
<1>2. /\ S.mint_quote = R.mint_quotes /\ M.mint_quotes = R.mint_quotes
      /\ S.melt_quote = R.melt_quotes /\ M.melt_quotes = R.melt_quotes
  BY DEF MintInv, MintQuotesAlike
<1>3. \A quote : OnMints("mint quotes", MintRedb!AddMintQuote(R, quote),
                    MintSqlite!AddMintQuote(S, quote), MintMemory!AddMintQuote(M, quote)) => MintInv' /\ Grows
  <2> SUFFICES ASSUME NEW quote, OnMints("mint quotes", MintRedb!AddMintQuote(R, quote),
                    MintSqlite!AddMintQuote(S, quote), MintMemory!AddMintQuote(M, quote))
               PROVE  MintInv' /\ Grows
    OBVIOUS
  <2> DEFINE u == Upsert(R.mint_quotes, quote.id, quote)
  <2>1. /\ R' = [R EXCEPT !.mint_quotes = u] /\ S' = [S EXCEPT !.mint_quote = u]
        /\ M' = [M EXCEPT !.mint_quotes = u]
    BY <1>2 DEF OnMints, Ok, R, S, M,
       MintRedb!AddMintQuote, MintSqlite!AddMintQuote, MintMemory!AddMintQuote
  <2> HIDE DEF u
  <2> QED BY <2>1, MintQuotesWritten
<1>4. \A quote : OnMints("mint quotes", MintRedb!AddMeltQuote(R, quote),
                    MintSqlite!AddMeltQuote(S, quote), MintMemory!AddMeltQuote(M, quote)) => MintInv' /\ Grows
  <2> SUFFICES ASSUME NEW quote, OnMints("mint quotes", MintRedb!AddMeltQuote(R, quote),
                    MintSqlite!AddMeltQuote(S, quote), MintMemory!AddMeltQuote(M, quote))
               PROVE  MintInv' /\ Grows
    OBVIOUS
  <2> DEFINE u == Upsert(R.melt_quotes, quote.id, quote)
  <2>1. /\ R' = [R EXCEPT !.melt_quotes = u] /\ S' = [S EXCEPT !.melt_quote = u]
        /\ M' = [M EXCEPT !.melt_quotes = u]
    BY <1>2 DEF OnMints, Ok, R, S, M,
       MintRedb!AddMeltQuote, MintSqlite!AddMeltQuote, MintMemory!AddMeltQuote
  <2> HIDE DEF u
  <2> QED BY <2>1, MintQuotesWritten
<1>5. \A q : OnMints("mint quotes", MintRedb!RemoveMintQuote(R, q),
                MintSqlite!RemoveMintQuote(S, q), MintMemory!RemoveMintQuote(M, q)) => MintInv' /\ Grows
  <2> SUFFICES ASSUME NEW q, OnMints("mint quotes", MintRedb!RemoveMintQuote(R, q),
                    MintSqlite!RemoveMintQuote(S, q), MintMemory!RemoveMintQuote(M, q))
               PROVE  MintInv' /\ Grows
    OBVIOUS
  <2> DEFINE u == Without(R.mint_quotes, {q})
  <2>1. /\ R' = [R EXCEPT !.mint_quotes = u] /\ S' = [S EXCEPT !.mint_quote = u]
        /\ M' = [M EXCEPT !.mint_quotes = u]
    BY <1>2 DEF OnMints, Ok, R, S, M,
       MintRedb!RemoveMintQuote, MintSqlite!RemoveMintQuote, MintMemory!RemoveMintQuote
  <2> HIDE DEF u
  <2> QED BY <2>1, MintQuotesWritten
<1>6. \A q : OnMints("mint quotes", MintRedb!RemoveMeltQuote(R, q),
                MintSqlite!RemoveMeltQuote(S, q), MintMemory!RemoveMeltQuote(M, q)) => MintInv' /\ Grows
  <2> SUFFICES ASSUME NEW q, OnMints("mint quotes", MintRedb!RemoveMeltQuote(R, q),
                    MintSqlite!RemoveMeltQuote(S, q), MintMemory!RemoveMeltQuote(M, q))
               PROVE  MintInv' /\ Grows
    OBVIOUS
  <2> DEFINE u == Without(R.melt_quotes, {q})
  <2>1. /\ R' = [R EXCEPT !.melt_quotes = u] /\ S' = [S EXCEPT !.melt_quote = u]
        /\ M' = [M EXCEPT !.melt_quotes = u]
    BY <1>2 DEF OnMints, Ok, R, S, M,
       MintRedb!RemoveMeltQuote, MintSqlite!RemoveMeltQuote, MintMemory!RemoveMeltQuote
  <2> HIDE DEF u
  <2> QED BY <2>1, MintQuotesWritten
<1> QED BY <1>1, <1>3, <1>4, <1>5, <1>6 DEF MintQuoteCalls

\* The calls that write keysets.
LEMMA StepMintKeysets ==
    ASSUME MintInv, MintKeysetCalls
    PROVE  MintInv' /\ Grows /\ UNCHANGED <<wallet, latest>>
<1> USE MintRedbSame, MintSqliteSame, MintMemorySame
<1>1. UNCHANGED <<wallet, latest>>
  BY DEF MintKeysetCalls, OnMints
<1>2. ASSUME NEW info, OnMints("mint keysets", MintRedb!AddKeysetInfo(R, info),
                    MintSqlite!AddKeysetInfo(S, info), MintMemory!AddKeysetInfo(M, info))
      PROVE  MintInv' /\ Grows
  <2>1. PICK u, v, w : /\ R' = [R EXCEPT !.keysets = u] /\ (S' = S \/ S' = [S EXCEPT !.keyset = v])
                       /\ M' = [M EXCEPT !.keysets = w]
    BY <1>2 DEF OnMints, Ok, Error, R, S, M,
       MintRedb!AddKeysetInfo, MintSqlite!AddKeysetInfo, MintMemory!AddKeysetInfo
  <2> QED BY <2>1 DEF MintInv, MintShape, SpentAlike, SignedAlike, MintQuotesAlike, Grows
<1>3. ASSUME NEW unit, NEW id, OnMints("mint keysets", MintRedb!AddActiveKeyset(R, unit, id),
                    MintSqlite!AddActiveKeyset(S, unit, id), MintMemory!AddActiveKeyset(M, unit, id))
      PROVE  MintInv' /\ Grows
  <2> DEFINE u == Upsert(R.active_keysets, unit, id)
  <2>1. /\ R' = [R EXCEPT !.active_keysets = u]
        /\ S' = S \/ S' = [S EXCEPT !.keyset[id].active = TRUE]
        /\ M' = [M EXCEPT !.active_keysets = u]
    BY <1>3 DEF OnMints, Ok, R, S, M, MintInv, MintQuotesAlike,
       MintRedb!AddActiveKeyset, MintSqlite!AddActiveKeyset, MintMemory!AddActiveKeyset
  <2> HIDE DEF u
  <2> QED BY <2>1 DEF MintInv, MintShape, SpentAlike, SignedAlike, MintQuotesAlike, Grows
<1> QED BY <1>1, <1>2, <1>3 DEF MintKeysetCalls

-----------------------------------------------------------------------------
(* The theorems *)

\* A call to the wallets leaves the mints alone.
LEMMA KeepsMints ==
    ASSUME MintInv, UNCHANGED mint
    PROVE  MintInv' /\ Grows
BY DEF Grows, MintInv, MintShape, SpentAlike, SignedAlike, MintQuotesAlike, R, S, M

\* A call to the mints leaves the wallets alone.
LEMMA KeepsWallets ==
    ASSUME WalletInv, UNCHANGED <<wallet, latest>>
    PROVE  WalletInv'
BY WalletsStand

\* Every call keeps the stores in agreement.
LEMMA NextStores ==
    ASSUME StoresInv, [Next]_vars
    PROVE  StoresInv' /\ Grows
<1> USE DEF StoresInv
<1>1. CASE ProofCalls
  BY <1>1, StepProofs, KeepsMints
<1>2. CASE QuoteCalls
  BY <1>2, StepQuotes, KeepsMints
<1>3. CASE KeysetCalls
  BY <1>3, StepKeysets, KeepsMints
<1>4. CASE KeyCalls
  BY <1>4, StepKeys, KeepsMints
<1>5. CASE MintProofCalls
  BY <1>5, StepMintProofs, KeepsWallets
<1>6. CASE MintQuoteCalls
  BY <1>6, StepMintQuotes, KeepsWallets
<1>7. CASE MintKeysetCalls
  BY <1>7, StepMintKeysets, KeepsWallets
<1>8. CASE UNCHANGED vars
  BY <1>8, KeepsMints, KeepsWallets DEF vars
<1> QED BY <1>1, <1>2, <1>3, <1>4, <1>5, <1>6, <1>7, <1>8 DEF Next

\* So they agree throughout.
LEMMA SpecStores == Spec => []StoresInv
BY InitStores, NextStores, PTL DEF Spec

\* Whichever of its four stores a wallet runs on, after the same calls it finds
\* the same proofs, quotes and keys.
THEOREM WalletsAgree == Spec => []WalletStoresAgree
<1>1. StoresInv => WalletStoresAgree
  BY InvAgree DEF StoresInv
<1> QED BY <1>1, SpecStores, PTL

\* Redb, rexie and memory count the secrets of a keyset alike; SQLite, which
\* loses its count with the keyset's row, is behind them and never ahead.
THEOREM CountersStayBehind == Spec => []CountersAgree
<1>1. StoresInv => CountersAgree
  BY InvCounters DEF StoresInv
<1> QED BY <1>1, SpecStores, PTL

\* What SQLite and memory answer for the keysets of a mint is what was last
\* reported for them, and a keyset is never answered under another mint.
THEOREM CacheStaysLatest == Spec => []CacheIsLatest
<1>1. StoresInv => CacheIsLatest
  BY InvCache DEF StoresInv
<1> QED BY <1>1, SpecStores, PTL

\* Whichever of its three stores a mint runs on, after the same calls it finds
\* the same proofs spent, the same messages signed and the same quotes.
THEOREM MintsAgree == Spec => []MintStoresAgree
<1>1. StoresInv => MintStoresAgree
  BY InvMints DEF StoresInv
<1> QED BY <1>1, SpecStores, PTL

\* No call to a mint's store makes a spent proof unspent.
THEOREM SpentForEver == Spec => SpentStays
<1>1. MintInv => \A s \in MintStores, y \in Ys : SpentIn(s, y) = Lookup(R.spent_proofs, y)
  BY SpentIsKnown
<1>2. (MintInv => \A s \in MintStores, y \in Ys : SpentIn(s, y) = Lookup(R.spent_proofs, y))'
  BY <1>1, PTL
<1>3. ASSUME StoresInv, [Next]_vars
      PROVE  [\A s \in MintStores, y \in Ys : SpentIn(s, y) # None => SpentIn(s, y)' # None]_vars
  <2> SUFFICES ASSUME NEW s \in MintStores, NEW y \in Ys, SpentIn(s, y) # None
               PROVE  SpentIn(s, y)' # None
    OBVIOUS
  <2>1. StoresInv' /\ Grows
    BY <1>3, NextStores
  <2>2. SpentIn(s, y) = Lookup(R.spent_proofs, y) /\ y \in DOMAIN R.spent_proofs
    BY <1>3, SpentIsKnown DEF StoresInv, Lookup
  <2>3. R.spent_proofs[y] = Proof(y) /\ Proof(y) # None
    BY <1>3, <2>2 DEF StoresInv, MintInv, SpentAlike, Lookup
  <2>4. y \in DOMAIN R'.spent_proofs
    BY <2>1, <2>2 DEF Grows
  <2>5. R'.spent_proofs[y] = Proof(y)
    BY <2>1, <2>4 DEF StoresInv, MintInv, SpentAlike
  <2>6. SpentIn(s, y)' = Lookup(R'.spent_proofs, y)
    BY <1>2, <2>1 DEF StoresInv, Lookup
  <2> QED BY <2>3, <2>4, <2>5, <2>6 DEF Lookup
<1> QED BY <1>3, SpecStores, PTL DEF Spec, SpentStays
=============================================================================
