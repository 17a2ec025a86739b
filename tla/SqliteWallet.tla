---------------------------- MODULE SqliteWallet ----------------------------
(***************************************************************************)
(* The wallet store on SQLite.  A statement is atomic, a method that loops *)
(* over rows is not: AddMintKeysets, AddProofs and RemoveProofs run one    *)
(* statement per row.  Foreign keys are on (sqlx's default), a keyset row  *)
(* belongs to a mint row, and the keyset's counter is a column of its row. *)
(***************************************************************************)
EXTENDS WalletTables

New == [mint |-> NoRows, keyset |-> NoRows, mint_quote |-> NoRows, melt_quote |-> NoRows,
        key |-> NoRows, proof |-> NoRows, nostr_last_checked |-> NoRows]

KeysetsOf(db, mint_url) == {id \in DOMAIN db.keyset : db.keyset[id].mint_url = mint_url}

\* A row of NULLs reads back as a MintInfo with no field set.
ReadMintInfo(info) == IF info = None THEN "blank" ELSE info

\* REPLACE deletes the old row, and the delete cascades to the mint's keysets.
AddMint(db, mint_url, info) ==
    Ok([db EXCEPT !.mint = Upsert(@, mint_url, info),
                  !.keyset = IF mint_url \in DOMAIN db.mint
                             THEN Without(@, KeysetsOf(db, mint_url)) ELSE @])
GetMint(db, mint_url) ==
    IF mint_url \in DOMAIN db.mint THEN ReadMintInfo(db.mint[mint_url]) ELSE None
GetMints(db) == [m \in DOMAIN db.mint |-> ReadMintInfo(db.mint[m])]

\* A replaced row loses its counter to the column's default; without a row of
\* the mint the first statement fails.
AddMintKeysets(db, mint_url, keysets) ==
    IF keysets = <<>> THEN Ok(db)
    ELSE IF mint_url \notin DOMAIN db.mint THEN Error(db)
    ELSE Ok([db EXCEPT !.keyset = UpsertAll(@,
                 [i \in DOMAIN keysets |->
                    [mint_url |-> mint_url, id |-> keysets[i].id, unit |-> keysets[i].unit,
                     active |-> keysets[i].active, counter |-> 0]], IdOf)])
ReadKeyset(row) == [id |-> row.id, unit |-> row.unit, active |-> row.active]
GetMintKeysets(db, mint_url) ==
    NoneIfEmpty({ReadKeyset(db.keyset[id]) : id \in KeysetsOf(db, mint_url)})
GetKeysetById(db, id) == IF id \in DOMAIN db.keyset THEN ReadKeyset(db.keyset[id]) ELSE None

AddMintQuote(db, quote) == Ok([db EXCEPT !.mint_quote = Upsert(@, quote.id, quote)])
GetMintQuote(db, id) == Lookup(db.mint_quote, id)
GetMintQuotes(db) == Rows(db.mint_quote)
RemoveMintQuote(db, id) == Ok([db EXCEPT !.mint_quote = Without(@, {id})])
AddMeltQuote(db, quote) == Ok([db EXCEPT !.melt_quote = Upsert(@, quote.id, quote)])
GetMeltQuote(db, id) == Lookup(db.melt_quote, id)
RemoveMeltQuote(db, id) == Ok([db EXCEPT !.melt_quote = Without(@, {id})])

AddKeys(db, keys) == Ok([db EXCEPT !.key = Upsert(@, keys.id, keys)])
GetKeys(db, id) == Lookup(db.key, id)
RemoveKeys(db, id) == Ok([db EXCEPT !.key = Without(@, {id})])

\* Mutant: INSERT OR IGNORE, the rows that are there stay as they are.
AddProofsIgnoring(db, infos) ==
    Ok([db EXCEPT !.proof = UpsertAll(@, SelectSeq(infos, LAMBDA i : i.y \notin DOMAIN @), YOf)])

AddProofs(db, infos) == Ok([db EXCEPT !.proof = UpsertAll(@, infos, YOf)])
\* The table has no column for the DLEQ proof.
ReadProofInfo(row) == [row EXCEPT !.proof.dleq = None]
GetProofs(db, mint_url, unit, state, spending_conditions) ==
    Matching([y \in DOMAIN db.proof |-> ReadProofInfo(db.proof[y])],
             mint_url, unit, state, spending_conditions)
RemoveProofs(db, proofs) ==
    Ok([db EXCEPT !.proof = Without(@, {p.secret : p \in ToSet(proofs)})])
\* An UPDATE that matches no row changes nothing and is no error.
SetProofState(db, y, state) ==
    IF y \in DOMAIN db.proof THEN Ok([db EXCEPT !.proof[y].state = state]) ELSE Ok(db)

IncrementKeysetCounter(db, id, count) ==
    IF id \in DOMAIN db.keyset THEN Ok([db EXCEPT !.keyset[id].counter = @ + count]) ELSE Ok(db)
GetKeysetCounter(db, id) == IF id \in DOMAIN db.keyset THEN db.keyset[id].counter ELSE None

GetNostrLastChecked(db, key) == Lookup(db.nostr_last_checked, key)
AddNostrLastChecked(db, key, time) ==
    Ok([db EXCEPT !.nostr_last_checked = Upsert(@, key, time)])
=============================================================================
