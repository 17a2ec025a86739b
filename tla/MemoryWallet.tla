---------------------------- MODULE MemoryWallet ----------------------------
(***************************************************************************)
(* The wallet store in memory: one lock per table, nothing survives the    *)
(* process.  SetProofState and IncrementKeysetCounter read under one lock  *)
(* and write under the next; they are given as the two halves as well, for *)
(* a caller that lets another task run in between.                         *)
(***************************************************************************)
EXTENDS WalletTables

New == [mints |-> NoRows, mint_keysets |-> NoRows, keysets |-> NoRows,
        mint_quotes |-> NoRows, melt_quotes |-> NoRows, mint_keys |-> NoRows,
        proofs |-> NoRows, keyset_counter |-> NoRows, nostr |-> NoRows]

AddMint(db, mint_url, info) == Ok([db EXCEPT !.mints = Upsert(@, mint_url, info)])
GetMint(db, mint_url) == Lookup(db.mints, mint_url)
GetMints(db) == db.mints

\* Mutant: or_insert on the rows too, a keyset that is known is not updated.
AddNewMintKeysets(db, mint_url, keysets) ==
    LET ids == IF mint_url \in DOMAIN db.mint_keysets THEN db.mint_keysets[mint_url] ELSE {}
        new == SelectSeq(keysets, LAMBDA k : k.id \notin DOMAIN db.keysets)
    IN  Ok([db EXCEPT
            !.mint_keysets = Upsert(@, mint_url, ids \cup {k.id : k \in ToSet(keysets)}),
            !.keysets = UpsertAll(@, new, IdOf)])

\* Without a keyset no entry is made.
AddMintKeysets(db, mint_url, keysets) ==
    LET ids == IF mint_url \in DOMAIN db.mint_keysets THEN db.mint_keysets[mint_url] ELSE {}
    IN  IF keysets = <<>> THEN Ok(db)
        ELSE Ok([db EXCEPT
                 !.mint_keysets = Upsert(@, mint_url, ids \cup {k.id : k \in ToSet(keysets)}),
                 !.keysets = UpsertAll(@, keysets, IdOf)])
GetMintKeysets(db, mint_url) ==
    IF mint_url \notin DOMAIN db.mint_keysets THEN None
    ELSE {db.keysets[id] : id \in db.mint_keysets[mint_url] \cap DOMAIN db.keysets}
GetKeysetById(db, id) == Lookup(db.keysets, id)

AddMintQuote(db, quote) == Ok([db EXCEPT !.mint_quotes = Upsert(@, quote.id, quote)])
GetMintQuote(db, id) == Lookup(db.mint_quotes, id)
GetMintQuotes(db) == Rows(db.mint_quotes)
RemoveMintQuote(db, id) == Ok([db EXCEPT !.mint_quotes = Without(@, {id})])
AddMeltQuote(db, quote) == Ok([db EXCEPT !.melt_quotes = Upsert(@, quote.id, quote)])
GetMeltQuote(db, id) == Lookup(db.melt_quotes, id)
RemoveMeltQuote(db, id) == Ok([db EXCEPT !.melt_quotes = Without(@, {id})])

AddKeys(db, keys) == Ok([db EXCEPT !.mint_keys = Upsert(@, keys.id, keys)])
GetKeys(db, id) == Lookup(db.mint_keys, id)
RemoveKeys(db, id) == Ok([db EXCEPT !.mint_keys = Without(@, {id})])

AddProofs(db, infos) == Ok([db EXCEPT !.proofs = UpsertAll(@, infos, YOf)])
GetProofs(db, mint_url, unit, state, spending_conditions) ==
    Matching(db.proofs, mint_url, unit, state, spending_conditions)
RemoveProofs(db, proofs) ==
    Ok([db EXCEPT !.proofs = Without(@, {p.secret : p \in ToSet(proofs)})])

\* The row is cloned, the read lock dropped, and the clone written back.
ReadProof(db, y) == Lookup(db.proofs, y)
WriteProofState(db, y, row, state) ==
    IF row = None THEN Ok(db)
    ELSE Ok([db EXCEPT !.proofs = Upsert(@, y, [row EXCEPT !.state = state])])
SetProofState(db, y, state) == WriteProofState(db, y, ReadProof(db, y), state)

ReadCounter(db, id) == IF id \in DOMAIN db.keyset_counter THEN db.keyset_counter[id] ELSE 0
WriteCounter(db, id, current, count) ==
    Ok([db EXCEPT !.keyset_counter = Upsert(@, id, current + count)])
IncrementKeysetCounter(db, id, count) == WriteCounter(db, id, ReadCounter(db, id), count)
GetKeysetCounter(db, id) == Lookup(db.keyset_counter, id)

GetNostrLastChecked(db, key) == Lookup(db.nostr, key)
AddNostrLastChecked(db, key, time) == Ok([db EXCEPT !.nostr = Upsert(@, key, time)])
=============================================================================
