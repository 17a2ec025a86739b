------------------------------ MODULE RedbMint ------------------------------
(***************************************************************************)
(* The mint's store on redb: one transaction per method behind a mutex.    *)
(* Which keyset is active is a table of its own, apart from the rows of    *)
(* the keysets, and so are the spent and the pending proofs.               *)
(* GetActiveKeysetId and GetActiveKeysets give the set of the answers the  *)
(* store may give.                                                         *)
(***************************************************************************)
EXTENDS Tables

New == [active_keysets |-> NoRows, keysets |-> NoRows, mint_quotes |-> NoRows,
        melt_quotes |-> NoRows, spent_proofs |-> NoRows, pending_proofs |-> NoRows,
        blinded_signatures |-> NoRows]

AddActiveKeyset(db, unit, id) == Ok([db EXCEPT !.active_keysets = Upsert(@, unit, id)])
GetActiveKeysetId(db, unit) == {Lookup(db.active_keysets, unit)}
GetActiveKeysets(db) == {db.active_keysets}
AddKeysetInfo(db, keyset) == Ok([db EXCEPT !.keysets = Upsert(@, keyset.id, keyset)])
GetKeysetInfo(db, id) == Lookup(db.keysets, id)
GetKeysetInfos(db) == Rows(db.keysets)

AddMintQuote(db, quote) == Ok([db EXCEPT !.mint_quotes = Upsert(@, quote.id, quote)])
GetMintQuote(db, id) == Lookup(db.mint_quotes, id)
\* Any quote that asks for the invoice.
GetMintQuoteByRequest(db, request) == {q \in Rows(db.mint_quotes) : q.request = request}
GetMintQuotes(db) == Rows(db.mint_quotes)
RemoveMintQuote(db, id) == Ok([db EXCEPT !.mint_quotes = Without(@, {id})])
AddMeltQuote(db, quote) == Ok([db EXCEPT !.melt_quotes = Upsert(@, quote.id, quote)])
GetMeltQuote(db, id) == Lookup(db.melt_quotes, id)
GetMeltQuotes(db) == Rows(db.melt_quotes)
RemoveMeltQuote(db, id) == Ok([db EXCEPT !.melt_quotes = Without(@, {id})])

AddSpentProof(db, proof) == Ok([db EXCEPT !.spent_proofs = Upsert(@, proof.secret, proof)])
GetSpentProofByY(db, y) == Lookup(db.spent_proofs, y)
GetSpentProofBySecret(db, secret) == Lookup(db.spent_proofs, secret)
AddPendingProof(db, proof) == Ok([db EXCEPT !.pending_proofs = Upsert(@, proof.secret, proof)])
GetPendingProofByY(db, y) == Lookup(db.pending_proofs, y)
GetPendingProofBySecret(db, secret) == Lookup(db.pending_proofs, secret)
RemovePendingProof(db, secret) == Ok([db EXCEPT !.pending_proofs = Without(@, {secret})])

\* A second signature of a message replaces the first.
AddBlindedSignature(db, message, signature) ==
    Ok([db EXCEPT !.blinded_signatures = Upsert(@, message, signature)])
GetBlindedSignature(db, message) == Lookup(db.blinded_signatures, message)
GetBlindedSignatures(db, messages) ==
    [i \in DOMAIN messages |-> Lookup(db.blinded_signatures, messages[i])]
=============================================================================
