----------------------------- MODULE SqliteMint -----------------------------
(***************************************************************************)
(* The mint's store on SQLite: one statement per method.  A keyset's row   *)
(* holds whether it is active, and a proof's row whether it is spent or    *)
(* pending. GetActiveKeysetId and GetActiveKeysets give the set of the     *)
(* answers the store may give.                                             *)
(***************************************************************************)
EXTENDS Tables

New == [keyset |-> NoRows, mint_quote |-> NoRows, melt_quote |-> NoRows,
        proof |-> NoRows, blind_signature |-> NoRows]

\* Activates the row if there is one, and deactivates no other.
AddActiveKeyset(db, unit, id) ==
    IF id \in DOMAIN db.keyset /\ db.keyset[id].unit = unit
    THEN Ok([db EXCEPT !.keyset[id].active = TRUE]) ELSE Ok(db)
ActiveIds(db, unit) ==
    {id \in DOMAIN db.keyset : db.keyset[id].active /\ db.keyset[id].unit = unit}
\* The first active row of the unit, in no order the query asks for.
GetActiveKeysetId(db, unit) ==
    IF ActiveIds(db, unit) = {} THEN {None} ELSE ActiveIds(db, unit)
\* Collected by unit, one row of each is left.
GetActiveKeysets(db) ==
    LET units == {k.unit : k \in {k \in Rows(db.keyset) : k.active}}
    IN  {f \in [units -> DOMAIN db.keyset] : \A u \in units : f[u] \in ActiveIds(db, u)}
\* A plain INSERT: a second row of an id is a constraint error.
AddKeysetInfo(db, keyset) ==
    IF keyset.id \in DOMAIN db.keyset THEN Error(db)
    ELSE Ok([db EXCEPT !.keyset = Upsert(@, keyset.id, keyset)])
GetKeysetInfo(db, id) == Lookup(db.keyset, id)
GetKeysetInfos(db) == Rows(db.keyset)

\* Mutant: INSERT OR IGNORE, a quote that is there is not updated.
AddNewMintQuote(db, quote) ==
    IF quote.id \in DOMAIN db.mint_quote THEN Ok(db)
    ELSE Ok([db EXCEPT !.mint_quote = Upsert(@, quote.id, quote)])

AddMintQuote(db, quote) == Ok([db EXCEPT !.mint_quote = Upsert(@, quote.id, quote)])
GetMintQuote(db, id) == Lookup(db.mint_quote, id)
\* Any quote that asks for the invoice.
GetMintQuoteByRequest(db, request) == {q \in Rows(db.mint_quote) : q.request = request}
GetMintQuotes(db) == Rows(db.mint_quote)
RemoveMintQuote(db, id) == Ok([db EXCEPT !.mint_quote = Without(@, {id})])
AddMeltQuote(db, quote) == Ok([db EXCEPT !.melt_quote = Upsert(@, quote.id, quote)])
GetMeltQuote(db, id) == Lookup(db.melt_quote, id)
GetMeltQuotes(db) == Rows(db.melt_quote)
RemoveMeltQuote(db, id) == Ok([db EXCEPT !.melt_quote = Without(@, {id})])

\* Spent and pending proofs share one table, told apart by a column.
InState(db, y, state) ==
    IF y \in DOMAIN db.proof /\ db.proof[y].state = state THEN db.proof[y].proof ELSE None
\* Replaces whatever row the proof had.
AddSpentProof(db, proof) ==
    Ok([db EXCEPT !.proof = Upsert(@, proof.secret, [proof |-> proof, state |-> "SPENT"])])
GetSpentProofByY(db, y) == InState(db, y, "SPENT")
GetSpentProofBySecret(db, secret) == InState(db, secret, "SPENT")
\* The statement names columns the table does not have: it never runs.
AddPendingProof(db, proof) == Error(db)
GetPendingProofByY(db, y) == InState(db, y, "PENDING")
GetPendingProofBySecret(db, secret) == InState(db, secret, "PENDING")
\* Mutant: deletes the row whatever its state.
RemoveProof(db, secret) == Ok([db EXCEPT !.proof = Without(@, {secret})])

RemovePendingProof(db, secret) ==
    IF InState(db, secret, "PENDING") = None THEN Ok(db)
    ELSE Ok([db EXCEPT !.proof = Without(@, {secret})])

\* A plain INSERT: a message is signed once.
AddBlindedSignature(db, message, signature) ==
    IF message \in DOMAIN db.blind_signature THEN Error(db)
    ELSE Ok([db EXCEPT !.blind_signature = Upsert(@, message, signature)])
GetBlindedSignature(db, message) == Lookup(db.blind_signature, message)
GetBlindedSignatures(db, messages) ==
    [i \in DOMAIN messages |-> Lookup(db.blind_signature, messages[i])]
=============================================================================
