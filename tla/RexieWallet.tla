---------------------------- MODULE RexieWallet -----------------------------
(***************************************************************************)
(* The wallet store in the browser: IndexedDB through rexie, one object    *)
(* store per table, one transaction per method behind a mutex.  It has no  *)
(* Nostr methods.                                                          *)
(***************************************************************************)
EXTENDS WalletTables

New == [mints |-> NoRows, mint_keysets |-> NoRows, keysets |-> NoRows,
        mint_quotes |-> NoRows, melt_quotes |-> NoRows, mint_keys |-> NoRows,
        proofs |-> NoRows, keyset_counter |-> NoRows]

AddMint(db, mint_url, info) == Ok([db EXCEPT !.mints = Upsert(@, mint_url, info)])
GetMint(db, mint_url) == Lookup(db.mints, mint_url)
GetMints(db) == db.mints

\* When the mint has no entry the new ids extend a temporary set, and what is
\* written back for the mint is still None; only the rows of the keysets stay.
AddMintKeysets(db, mint_url, keysets) ==
    LET entry == Lookup(db.mint_keysets, mint_url)
        ids == IF entry = None THEN None ELSE entry \cup {k.id : k \in ToSet(keysets)}
    IN  Ok([db EXCEPT !.mint_keysets = Upsert(@, mint_url, ids),
                      !.keysets = UpsertAll(@, keysets, IdOf)])
GetMintKeysets(db, mint_url) ==
    LET entry == Lookup(db.mint_keysets, mint_url)
    IN  IF entry = None THEN None ELSE {db.keysets[id] : id \in entry}
GetKeysetById(db, id) == Lookup(db.keysets, id)

AddMintQuote(db, quote) == Ok([db EXCEPT !.mint_quotes = Upsert(@, quote.id, quote)])
GetMintQuote(db, id) == Lookup(db.mint_quotes, id)
GetMintQuotes(db) == Rows(db.mint_quotes)
RemoveMintQuote(db, id) == Ok([db EXCEPT !.mint_quotes = Without(@, {id})])
AddMeltQuote(db, quote) == Ok([db EXCEPT !.melt_quotes = Upsert(@, quote.id, quote)])
GetMeltQuote(db, id) == Lookup(db.melt_quotes, id)
RemoveMeltQuote(db, id) == Ok([db EXCEPT !.melt_quotes = Without(@, {id})])

AddKeys(db, keys) == Ok([db EXCEPT !.mint_keys = Upsert(@, keys.id, keys)])
GetKeys(db, id) == Lookup(db.mint_keys, id)
RemoveKeys(db, id) == Ok([db EXCEPT !.mint_keys = Without(@, {id})])

AddProofs(db, infos) == Ok([db EXCEPT !.proofs = UpsertAll(@, infos, YOf)])
GetProofs(db, mint_url, unit, state, spending_conditions) ==
    Matching(db.proofs, mint_url, unit, state, spending_conditions)
RemoveProofs(db, proofs) ==
    Ok([db EXCEPT !.proofs = Without(@, {p.secret : p \in ToSet(proofs)})])
\* undefined does not deserialise into a ProofInfo.
SetProofState(db, y, state) ==
    IF y \in DOMAIN db.proofs THEN Ok([db EXCEPT !.proofs[y].state = state]) ELSE Error(db)

IncrementKeysetCounter(db, id, count) ==
    LET current == IF id \in DOMAIN db.keyset_counter THEN db.keyset_counter[id] ELSE 0
    IN  Ok([db EXCEPT !.keyset_counter = Upsert(@, id, current + count)])
GetKeysetCounter(db, id) == Lookup(db.keyset_counter, id)
=============================================================================
