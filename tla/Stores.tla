------------------------------- MODULE Stores -------------------------------
(***************************************************************************)
(* The stores side by side: every call of WalletDatabase is made to the    *)
(* four wallet stores, every call of MintDatabase to the three mint        *)
(* stores, and what they then answer is compared.  The tables of a store   *)
(* do not depend on each other but within a family, so a behaviour picks   *)
(* one family of calls and stays with it.                                  *)
(***************************************************************************)
EXTENDS WalletDatabase

CONSTANTS
    Urls,           \* The mints the wallet knows.
    Ys,             \* The proofs, by the point of their secret.
    Locked,         \* The ones whose secret holds a spending condition.
    QuoteIds,
    Ids,            \* The keysets; the wallet's keyset id belongs to MintOf[id].
    MintOf,
    MaxCount        \* Bound: how far a keyset's counter is followed.

MintRedb == INSTANCE RedbMint
MintSqlite == INSTANCE SqliteMint
MintMemory == INSTANCE MemoryMint

MintStores == {"redb", "sqlite", "memory"}
Families == {"wallet proofs", "wallet quotes", "wallet keysets", "wallet keys",
             "mint proofs", "mint quotes", "mint keysets"}

Condition(y) == IF y \in Locked THEN "condition" ELSE None
Proof(y) == [secret |-> y, dleq |-> "dleq"]

\* What a store of the wallet may hold for a proof.
ProofRows == {ProofInfo(Proof(y), url, state, "sat", Condition(y)) :
                  y \in Ys, url \in Urls, state \in States}

ASSUME StoresAssumption ==
    /\ Locked \subseteq Ys
    /\ MintOf \in [Ids -> Urls]
    /\ IsFiniteSet(Ids)
    /\ MaxCount \in Nat
    \* Option::None is no value of the type: no row, list of rows, id or count.
    /\ None \notin ProofRows /\ None \notin Ids /\ None \notin Nat
    /\ \A rows \in SUBSET ProofRows :
         None \notin {rows, {Sqlite!ReadProofInfo(row) : row \in rows}}

VARIABLES
    family,
    wallet,     \* The database of each wallet store.
    mint,       \* The database of each mint store.
    latest      \* History: the last KeySetInfo given for each keyset.

vars == <<family, wallet, mint, latest>>

Init ==
    /\ family \in Families
    /\ wallet = [s \in WalletStores |-> New(s)]
    /\ mint = [redb |-> MintRedb!New, sqlite |-> MintSqlite!New, memory |-> MintMemory!New]
    /\ latest = NoRows

-----------------------------------------------------------------------------
(* Calls to the wallet's stores *)

\* One method, called on each store; a caller that gets an error stops there.
OnWallets(name, Call(_, _)) ==
    /\ family = name
    /\ wallet' = [s \in WalletStores |-> Call(s, wallet[s]).db]
    /\ UNCHANGED <<family, mint>>

ProofCalls ==
    /\ \/ \E y \in Ys, url \in Urls, state \in States :
            OnWallets("wallet proofs", LAMBDA s, db :
                AddProofs(s, db, <<ProofInfo(Proof(y), url, state, "sat", Condition(y))>>))
       \/ \E y, z \in Ys, url \in Urls :
            OnWallets("wallet proofs", LAMBDA s, db :
                AddProofs(s, db, <<ProofInfo(Proof(y), url, "Unspent", "sat", Condition(y)),
                                   ProofInfo(Proof(z), url, "Reserved", "sat", Condition(z))>>))
       \/ \E y \in Ys, state \in States :
            OnWallets("wallet proofs", LAMBDA s, db : SetProofState(s, db, y, state))
       \/ \E ys \in SUBSET Ys :
            OnWallets("wallet proofs", LAMBDA s, db :
                RemoveProofs(s, db, SetToSeq({Proof(y) : y \in ys})))
    /\ UNCHANGED latest

QuoteCalls ==
    /\ \/ \E q \in QuoteIds, paid \in BOOLEAN, url \in Urls :
            OnWallets("wallet quotes", LAMBDA s, db :
                AddMintQuote(s, db, [id |-> q, mint_url |-> url, paid |-> paid]))
       \/ \E q \in QuoteIds, paid \in BOOLEAN :
            OnWallets("wallet quotes", LAMBDA s, db :
                AddMeltQuote(s, db, [id |-> q, paid |-> paid]))
       \/ \E q \in QuoteIds :
            \/ OnWallets("wallet quotes", LAMBDA s, db : RemoveMintQuote(s, db, q))
            \/ OnWallets("wallet quotes", LAMBDA s, db : RemoveMeltQuote(s, db, q))
    /\ UNCHANGED latest

CountOf(s, id) ==
    LET c == GetKeysetCounter(s, wallet[s], id) IN IF c = None THEN 0 ELSE c

\* The keysets of one mint are given in one call, each active or not.
AddKeysets(url, infos) ==
    /\ OnWallets("wallet keysets", LAMBDA s, db : AddMintKeysets(s, db, url, infos))
    /\ latest' = UpsertAll(latest, infos, IdOf)

KeysetCalls ==
    \/ \E url \in Urls, active \in [Ids -> BOOLEAN] :
         \E ids \in SUBSET {id \in Ids : MintOf[id] = url} :
            AddKeysets(url, [i \in 1..Cardinality(ids) |->
                LET id == SetToSeq(ids)[i]
                IN  [id |-> id, unit |-> "sat", active |-> active[id]]])
    \/ /\ \/ \E url \in Urls, info \in {"info", None} :
               OnWallets("wallet keysets", LAMBDA s, db : AddMint(s, db, url, info))
          \/ \E id \in Ids, n \in 1..MaxCount :
               /\ \A s \in WalletStores : CountOf(s, id) + n <= MaxCount
               /\ OnWallets("wallet keysets", LAMBDA s, db :
                    IncrementKeysetCounter(s, db, id, n))
       /\ UNCHANGED latest

KeyCalls ==
    /\ \E id \in Ids :
       \/ OnWallets("wallet keys", LAMBDA s, db : AddKeys(s, db, [id |-> id]))
       \/ OnWallets("wallet keys", LAMBDA s, db : RemoveKeys(s, db, id))
       \/ \E time \in 1..2 :
            OnWallets("wallet keys", LAMBDA s, db : AddNostrLastChecked(s, db, id, time))
    /\ UNCHANGED latest

-----------------------------------------------------------------------------
(* Calls to the mint's stores *)

OnMints(name, redb, sqlite, memory) ==
    /\ family = name
    /\ mint' = [redb |-> redb.db, sqlite |-> sqlite.db, memory |-> memory.db]
    /\ UNCHANGED <<family, wallet, latest>>

R == mint.redb
S == mint.sqlite
M == mint.memory

MintProofCalls ==
    \E y \in Ys :
       \/ OnMints("mint proofs", MintRedb!AddSpentProof(R, Proof(y)),
            MintSqlite!AddSpentProof(S, Proof(y)), MintMemory!AddSpentProof(M, Proof(y)))
       \/ OnMints("mint proofs", MintRedb!AddPendingProof(R, Proof(y)),
            MintSqlite!AddPendingProof(S, Proof(y)), MintMemory!AddPendingProof(M, Proof(y)))
       \/ OnMints("mint proofs", MintRedb!RemovePendingProof(R, y),
            MintSqlite!RemovePendingProof(S, y), MintMemory!RemovePendingProof(M, y))
       \/ \E k \in Ids :
            OnMints("mint proofs", MintRedb!AddBlindedSignature(R, y, k),
               MintSqlite!AddBlindedSignature(S, y, k), MintMemory!AddBlindedSignature(M, y, k))

MintQuoteCalls ==
    \E q \in QuoteIds :
       \/ \E paid \in BOOLEAN, request \in {"invoice", "other"} :
            LET quote == [id |-> q, paid |-> paid, request |-> request]
            IN  OnMints("mint quotes", MintRedb!AddMintQuote(R, quote),
                    MintSqlite!AddMintQuote(S, quote), MintMemory!AddMintQuote(M, quote))
       \/ OnMints("mint quotes", MintRedb!RemoveMintQuote(R, q),
            MintSqlite!RemoveMintQuote(S, q), MintMemory!RemoveMintQuote(M, q))
       \/ \E paid \in BOOLEAN :
            LET quote == [id |-> q, paid |-> paid]
            IN  OnMints("mint quotes", MintRedb!AddMeltQuote(R, quote),
                    MintSqlite!AddMeltQuote(S, quote), MintMemory!AddMeltQuote(M, quote))
       \/ OnMints("mint quotes", MintRedb!RemoveMeltQuote(R, q),
            MintSqlite!RemoveMeltQuote(S, q), MintMemory!RemoveMeltQuote(M, q))

MintKeysetCalls ==
    \E id \in Ids, unit \in {"sat", "usd"} :
       \/ \E active \in BOOLEAN :
            LET info == [id |-> id, unit |-> unit, active |-> active]
            IN  OnMints("mint keysets", MintRedb!AddKeysetInfo(R, info),
                    MintSqlite!AddKeysetInfo(S, info), MintMemory!AddKeysetInfo(M, info))
       \/ OnMints("mint keysets", MintRedb!AddActiveKeyset(R, unit, id),
            MintSqlite!AddActiveKeyset(S, unit, id), MintMemory!AddActiveKeyset(M, unit, id))

Next ==
    \/ ProofCalls \/ QuoteCalls \/ KeysetCalls \/ KeyCalls
    \/ MintProofCalls \/ MintQuoteCalls \/ MintKeysetCalls

Spec == Init /\ [][Next]_vars

-----------------------------------------------------------------------------
(* Properties *)

Filters == [url : Urls \cup {None}, unit : {"sat", "usd", None},
            state : {{"Unspent"}, {"Pending", "Reserved"}, None},
            conds : {{"condition"}, None}]

Answer(s, f) ==
    LET infos == GetProofs(s, wallet[s], f.url, f.unit, f.state, f.conds)
    IN  IF infos = None THEN {} ELSE {[i EXCEPT !.proof.dleq = None] : i \in infos}

\* After the same calls the wallet finds the same proofs, quotes and keys,
\* whichever store it runs on and whatever it asks for: a proof that one store
\* keeps and another drops is money that depends on a build flag.
WalletStoresAgree == \A s \in WalletStores :
    /\ \A f \in Filters : Answer(s, f) = Answer("redb", f)
    /\ GetMintQuotes(s, wallet[s]) = GetMintQuotes("redb", wallet["redb"])
    /\ \A q \in QuoteIds :
         /\ GetMintQuote(s, wallet[s], q) = GetMintQuote("redb", wallet["redb"], q)
         /\ GetMeltQuote(s, wallet[s], q) = GetMeltQuote("redb", wallet["redb"], q)
    /\ \A id \in Ids : GetKeys(s, wallet[s], id) = GetKeys("redb", wallet["redb"], id)
    /\ s \in NostrStores => \A key \in Ids :
         GetNostrLastChecked(s, wallet[s], key) = GetNostrLastChecked("redb", wallet["redb"], key)

\* Three stores count the secrets of a keyset alike.  SQLite keeps the count in
\* the keyset's row, which other calls replace: it may fall behind and hand out
\* old secrets again, and never runs ahead.
CountersAgree == \A id \in Ids :
    /\ \A s \in WalletStores \ {"sqlite"} : CountOf(s, id) = CountOf("redb", id)
    /\ CountOf("sqlite", id) <= CountOf("redb", id)

\* A store that answers get_mint_keysets from its cache gives the keysets of that
\* mint as they were last reported: the wallet picks the keyset it asks
\* signatures from out of this answer.  Redb and rexie never answer.
CacheIsLatest == \A s \in WalletStores, url \in Urls :
    LET cached == GetMintKeysets(s, wallet[s], url)
    IN  cached # None =>
          /\ s \in {"sqlite", "memory"}
          /\ \A k \in cached : MintOf[k.id] = url /\ k = latest[k.id]
          /\ \A id \in {k.id : k \in cached} :
               GetKeysetById(s, wallet[s], id) = latest[id]

SpentIn(s, y) ==
    CASE s = "redb" -> MintRedb!GetSpentProofByY(R, y)
      [] s = "sqlite" -> MintSqlite!GetSpentProofByY(S, y)
      [] s = "memory" -> MintMemory!GetSpentProofByY(M, y)
SignedIn(s, y) ==
    CASE s = "redb" -> MintRedb!GetBlindedSignature(R, y)
      [] s = "sqlite" -> MintSqlite!GetBlindedSignature(S, y)
      [] s = "memory" -> MintMemory!GetBlindedSignature(M, y)

\* After the same calls the mint finds the same proofs spent, the same messages
\* signed and the same quotes, whichever store it runs on.  The active keyset
\* is redb's and memory's only: SQLite's is the subject of MintKeysets.
MintStoresAgree ==
    /\ \A s \in MintStores, y \in Ys :
         /\ SpentIn(s, y) = SpentIn("redb", y)
         /\ SignedIn(s, y) = None <=> SignedIn("redb", y) = None
    /\ MintRedb!GetMintQuotes(R) = MintSqlite!GetMintQuotes(S)
    /\ MintRedb!GetMintQuotes(R) = MintMemory!GetMintQuotes(M)
    /\ MintRedb!GetMeltQuotes(R) = MintSqlite!GetMeltQuotes(S)
    /\ MintRedb!GetMeltQuotes(R) = MintMemory!GetMeltQuotes(M)
    /\ MintRedb!GetMintQuoteByRequest(R, "invoice") = MintSqlite!GetMintQuoteByRequest(S, "invoice")
    /\ MintRedb!GetActiveKeysets(R) = MintMemory!GetActiveKeysets(M)

\* What was written as spent is never read as unspent again, not even where
\* spent and pending proofs share a table and the pending one is taken back.
SpentStays == [][\A s \in MintStores, y \in Ys : SpentIn(s, y) # None => SpentIn(s, y)' # None]_vars
=============================================================================
