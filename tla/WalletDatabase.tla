--------------------------- MODULE WalletDatabase ---------------------------
(***************************************************************************)
(* The trait WalletDatabase: the methods the wallet calls, over whichever  *)
(* of the four stores it was built with.                                   *)
(***************************************************************************)
EXTENDS WalletTables

Redb == INSTANCE RedbWallet
Sqlite == INSTANCE SqliteWallet
Rexie == INSTANCE RexieWallet
Memory == INSTANCE MemoryWallet

WalletStores == {"redb", "sqlite", "rexie", "memory"}
NostrStores == {"redb", "sqlite", "memory"}

\* The stores that write the rows of one call one statement at a time.
RowByRow(store) == store = "sqlite"
\* The stores that are gone with the process.
Volatile(store) == store = "memory"

\* The implementation behind the handle: one of the four answers.
Of(store, redb, sqlite, rexie, memory) ==
    CASE store = "redb" -> redb
      [] store = "sqlite" -> sqlite
      [] store = "rexie" -> rexie
      [] store = "memory" -> memory

New(store) ==
    Of(store, Redb!New, Sqlite!New,
              Rexie!New, Memory!New)
AddMint(store, db, mint_url, info) ==
    Of(store, Redb!AddMint(db, mint_url, info), Sqlite!AddMint(db, mint_url, info),
              Rexie!AddMint(db, mint_url, info), Memory!AddMint(db, mint_url, info))
GetMint(store, db, mint_url) ==
    Of(store, Redb!GetMint(db, mint_url), Sqlite!GetMint(db, mint_url),
              Rexie!GetMint(db, mint_url), Memory!GetMint(db, mint_url))
GetMints(store, db) ==
    Of(store, Redb!GetMints(db), Sqlite!GetMints(db),
              Rexie!GetMints(db), Memory!GetMints(db))
AddMintKeysets(store, db, mint_url, keysets) ==
    Of(store, Redb!AddMintKeysets(db, mint_url, keysets),
              Sqlite!AddMintKeysets(db, mint_url, keysets),
              Rexie!AddMintKeysets(db, mint_url, keysets),
              Memory!AddMintKeysets(db, mint_url, keysets))
GetMintKeysets(store, db, mint_url) ==
    Of(store, Redb!GetMintKeysets(db, mint_url), Sqlite!GetMintKeysets(db, mint_url),
              Rexie!GetMintKeysets(db, mint_url), Memory!GetMintKeysets(db, mint_url))
GetKeysetById(store, db, id) ==
    Of(store, Redb!GetKeysetById(db, id), Sqlite!GetKeysetById(db, id),
              Rexie!GetKeysetById(db, id), Memory!GetKeysetById(db, id))
AddMintQuote(store, db, quote) ==
    Of(store, Redb!AddMintQuote(db, quote), Sqlite!AddMintQuote(db, quote),
              Rexie!AddMintQuote(db, quote), Memory!AddMintQuote(db, quote))
GetMintQuote(store, db, id) ==
    Of(store, Redb!GetMintQuote(db, id), Sqlite!GetMintQuote(db, id),
              Rexie!GetMintQuote(db, id), Memory!GetMintQuote(db, id))
GetMintQuotes(store, db) ==
    Of(store, Redb!GetMintQuotes(db), Sqlite!GetMintQuotes(db),
              Rexie!GetMintQuotes(db), Memory!GetMintQuotes(db))
RemoveMintQuote(store, db, id) ==
    Of(store, Redb!RemoveMintQuote(db, id), Sqlite!RemoveMintQuote(db, id),
              Rexie!RemoveMintQuote(db, id), Memory!RemoveMintQuote(db, id))
AddMeltQuote(store, db, quote) ==
    Of(store, Redb!AddMeltQuote(db, quote), Sqlite!AddMeltQuote(db, quote),
              Rexie!AddMeltQuote(db, quote), Memory!AddMeltQuote(db, quote))
GetMeltQuote(store, db, id) ==
    Of(store, Redb!GetMeltQuote(db, id), Sqlite!GetMeltQuote(db, id),
              Rexie!GetMeltQuote(db, id), Memory!GetMeltQuote(db, id))
RemoveMeltQuote(store, db, id) ==
    Of(store, Redb!RemoveMeltQuote(db, id), Sqlite!RemoveMeltQuote(db, id),
              Rexie!RemoveMeltQuote(db, id), Memory!RemoveMeltQuote(db, id))
AddKeys(store, db, keys) ==
    Of(store, Redb!AddKeys(db, keys), Sqlite!AddKeys(db, keys),
              Rexie!AddKeys(db, keys), Memory!AddKeys(db, keys))
GetKeys(store, db, id) ==
    Of(store, Redb!GetKeys(db, id), Sqlite!GetKeys(db, id),
              Rexie!GetKeys(db, id), Memory!GetKeys(db, id))
RemoveKeys(store, db, id) ==
    Of(store, Redb!RemoveKeys(db, id), Sqlite!RemoveKeys(db, id),
              Rexie!RemoveKeys(db, id), Memory!RemoveKeys(db, id))
AddProofs(store, db, infos) ==
    Of(store, Redb!AddProofs(db, infos), Sqlite!AddProofs(db, infos),
              Rexie!AddProofs(db, infos), Memory!AddProofs(db, infos))
GetProofs(store, db, mint_url, unit, state, conds) ==
    Of(store, Redb!GetProofs(db, mint_url, unit, state, conds),
              Sqlite!GetProofs(db, mint_url, unit, state, conds),
              Rexie!GetProofs(db, mint_url, unit, state, conds),
              Memory!GetProofs(db, mint_url, unit, state, conds))
RemoveProofs(store, db, proofs) ==
    Of(store, Redb!RemoveProofs(db, proofs), Sqlite!RemoveProofs(db, proofs),
              Rexie!RemoveProofs(db, proofs), Memory!RemoveProofs(db, proofs))
SetProofState(store, db, y, state) ==
    Of(store, Redb!SetProofState(db, y, state), Sqlite!SetProofState(db, y, state),
              Rexie!SetProofState(db, y, state), Memory!SetProofState(db, y, state))
IncrementKeysetCounter(store, db, id, count) ==
    Of(store, Redb!IncrementKeysetCounter(db, id, count),
              Sqlite!IncrementKeysetCounter(db, id, count),
              Rexie!IncrementKeysetCounter(db, id, count),
              Memory!IncrementKeysetCounter(db, id, count))
GetKeysetCounter(store, db, id) ==
    Of(store, Redb!GetKeysetCounter(db, id), Sqlite!GetKeysetCounter(db, id),
              Rexie!GetKeysetCounter(db, id), Memory!GetKeysetCounter(db, id))

\* Compiled with the feature nostr; rexie has none of it.
GetNostrLastChecked(store, db, key) ==
    Of(store, Redb!GetNostrLastChecked(db, key), Sqlite!GetNostrLastChecked(db, key),
              None, Memory!GetNostrLastChecked(db, key))
AddNostrLastChecked(store, db, key, time) ==
    Of(store, Redb!AddNostrLastChecked(db, key, time),
              Sqlite!AddNostrLastChecked(db, key, time),
              Ok(db), Memory!AddNostrLastChecked(db, key, time))
=============================================================================
