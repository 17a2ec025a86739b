----------------------------- MODULE RedbWallet -----------------------------
(***************************************************************************)
(* The wallet store on redb.  Every method holds the mutex of the database *)
(* and runs one transaction, so it happens at once and survives a crash    *)
(* whole or not at all.                                                    *)
(***************************************************************************)
EXTENDS WalletTables

New == [mints |-> NoRows, mint_keysets |-> NoRows, keysets |-> NoRows,
        mint_quotes |-> NoRows, melt_quotes |-> NoRows, mint_keys |-> NoRows,
        proofs |-> NoRows, keyset_counter |-> NoRows, nostr |-> NoRows]

AddMint(db, mint_url, info) == Ok([db EXCEPT !.mints = Upsert(@, mint_url, info)])
\* A mint stored without info is a row that holds null, and reads as None.
GetMint(db, mint_url) == Lookup(db.mints, mint_url)
GetMints(db) == db.mints

\* Only the ids are written: nothing ever fills the keysets table.
AddMintKeysets(db, mint_url, keysets) ==
    LET ids == IF mint_url \in DOMAIN db.mint_keysets THEN db.mint_keysets[mint_url] ELSE {}
    IN  Ok([db EXCEPT !.mint_keysets =
                Upsert(@, mint_url, ids \cup {k.id : k \in ToSet(keysets)})])
GetMintKeysets(db, mint_url) ==
    IF mint_url \notin DOMAIN db.mint_keysets THEN None
    ELSE NoneIfEmpty({db.keysets[id] : id \in db.mint_keysets[mint_url] \cap DOMAIN db.keysets})
GetKeysetById(db, id) == Lookup(db.keysets, id)

AddMintQuote(db, quote) == Ok([db EXCEPT !.mint_quotes = Upsert(@, quote.id, quote)])
GetMintQuote(db, id) == Lookup(db.mint_quotes, id)
GetMintQuotes(db) == Rows(db.mint_quotes)
RemoveMintQuote(db, id) == Ok([db EXCEPT !.mint_quotes = Without(@, {id})])
AddMeltQuote(db, quote) == Ok([db EXCEPT !.melt_quotes = Upsert(@, quote.id, quote)])
GetMeltQuote(db, id) == Lookup(db.melt_quotes, id)
RemoveMeltQuote(db, id) == Ok([db EXCEPT !.melt_quotes = Without(@, {id})])

AddKeys(db, keys) == Ok([db EXCEPT !.mint_keys = Upsert(@, keys.id, keys)])
GetKeys(db, id) == Lookup(db.mint_keys, id)
RemoveKeys(db, id) == Ok([db EXCEPT !.mint_keys = Without(@, {id})])

AddProofs(db, infos) == Ok([db EXCEPT !.proofs = UpsertAll(@, infos, YOf)])
GetProofs(db, mint_url, unit, state, spending_conditions) ==
    Matching(db.proofs, mint_url, unit, state, spending_conditions)
RemoveProofs(db, proofs) ==
    Ok([db EXCEPT !.proofs = Without(@, {p.secret : p \in ToSet(proofs)})])
\* A Y the store does not hold is the error UnknownY.
SetProofState(db, y, state) ==
    IF y \in DOMAIN db.proofs THEN Ok([db EXCEPT !.proofs[y].state = state]) ELSE Error(db)

\* Mutant: stores the count itself.
SetKeysetCounter(db, id, count) == Ok([db EXCEPT !.keyset_counter = Upsert(@, id, count)])

IncrementKeysetCounter(db, id, count) ==
    LET current == IF id \in DOMAIN db.keyset_counter THEN db.keyset_counter[id] ELSE 0
    IN  Ok([db EXCEPT !.keyset_counter = Upsert(@, id, current + count)])
GetKeysetCounter(db, id) == Lookup(db.keyset_counter, id)

\* Both definitions name the table "keyset_counter"; the keys, a keyset's id
\* and a public key, never meet, so the rows are kept apart here.
GetNostrLastChecked(db, key) == Lookup(db.nostr, key)
AddNostrLastChecked(db, key, time) == Ok([db EXCEPT !.nostr = Upsert(@, key, time)])
=============================================================================
