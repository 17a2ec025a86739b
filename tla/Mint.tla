-------------------------------- MODULE Mint --------------------------------
(***************************************************************************)
(* The request handlers of struct Mint: minting, swapping and melting.     *)
(* Each request runs in a tokio task of its own; the tasks share the       *)
(* database and nothing else, and take no lock between two calls of it.    *)
(* A handler reads everything it wants to check, then writes: the steps    *)
(* below are those reads and each single write, so that the handlers       *)
(* interleave wherever the code awaits.                                    *)
(*                                                                         *)
(* Consecutive reads of the spent and of the signature table are one step: *)
(* rows of these tables are never deleted, so a row that the last of the   *)
(* reads does not find was absent at the first one too.  A request a check *)
(* rejects changes nothing and is left out until something was written.    *)
(***************************************************************************)
EXTENDS MintStore

CONSTANTS
    Workers,    \* Tasks that serve a request at the same time.
    Requests,   \* The requests clients may send.
    NoQuote, NoRequest,
    MintAmount,     \* Amount of each mint quote.
    MeltAmount,     \* Amount of each melt quote.
    FeeReserve      \* Fee reserve of each melt quote.

RequestKind == {"swap", "mint", "melt"}

Request == [kind : RequestKind, quote : MintQuotes \cup MeltQuotes \cup {NoQuote},
            inputs : Seq(Output), outputs : Seq(Output)]

\* A swap without inputs or outputs and a melt without inputs do nothing or
\* are rejected, and are not sent.
ASSUME MintAssumption ==
    /\ Requests \subseteq Request
    /\ NoRequest \notin Requests
    /\ NoQuote \notin MintQuotes \cup MeltQuotes
    /\ MintAmount \in [MintQuotes -> Nat]
    /\ MeltAmount \in [MeltQuotes -> Nat]
    /\ FeeReserve \in [MeltQuotes -> Nat]
    /\ \A r \in Requests :
        /\ r.kind = "mint" => r.quote \in MintQuotes
        /\ r.kind = "melt" => r.quote \in MeltQuotes /\ r.inputs # <<>>
        /\ r.kind = "swap" => r.inputs # <<>> /\ r.outputs # <<>>

VARIABLES
    pc,     \* Where each task stands in its handler.
    req,    \* The request it serves.
    idx,    \* The input or output its current loop has reached.
    due     \* melt: total_spent, what paying the invoice cost.

taskVars == <<pc, req, idx, due>>

MintSteps == {"mint_quote", "mint_sign"}
SwapSteps == {"swap_spend", "swap_sign"}
MeltSteps == {"melt_lookup", "melt_credit", "melt_pay", "melt_process",
              "melt_spend", "melt_remove", "melt_change"}
Steps == MintSteps \cup SwapSteps \cup MeltSteps

TaskTypeOK ==
    /\ pc \in [Workers -> Steps \cup {"idle"}]
    /\ req \in [Workers -> Requests \cup {NoRequest}]
    /\ idx \in [Workers -> Nat \ {0}]
    /\ due \in [Workers -> Nat]

TaskInit ==
    /\ pc = [w \in Workers |-> "idle"]
    /\ req = [w \in Workers |-> NoRequest]
    /\ idx = [w \in Workers |-> 1]
    /\ due = [w \in Workers |-> 0]

Busy(w) == pc[w] # "idle"
Input(w) == req[w].inputs[idx[w]]

-----------------------------------------------------------------------------
(* How a task moves *)

Accept(w, r, step) ==
    /\ pc' = [pc EXCEPT ![w] = step]
    /\ req' = [req EXCEPT ![w] = r]
    /\ UNCHANGED <<idx, due>>

\* On to the next part of the handler, whose loop starts afresh.
Goto(w, step) ==
    /\ pc' = [pc EXCEPT ![w] = step]
    /\ idx' = [idx EXCEPT ![w] = 1]
    /\ UNCHANGED <<req, due>>

Advance(w) ==
    /\ idx' = [idx EXCEPT ![w] = @ + 1]
    /\ UNCHANGED <<pc, req, due>>

\* The handler returns, with a response or with an error.
Return(w) ==
    /\ pc' = [pc EXCEPT ![w] = "idle"]
    /\ req' = [req EXCEPT ![w] = NoRequest]
    /\ idx' = [idx EXCEPT ![w] = 1]
    /\ due' = [due EXCEPT ![w] = 0]

\* Every task forgets what it was doing.
ReturnAll == 
    /\ pc' = [w \in Workers |-> "idle"]
    /\ req' = [w \in Workers |-> NoRequest]
    /\ idx' = [w \in Workers |-> 1]
    /\ due' = [w \in Workers |-> 0]

-----------------------------------------------------------------------------
(* What the handlers check *)

\* Sums of Amount are sums of u64.
Total(ps) == FoldSeq(LAMBDA p, sum : (p.amount + sum) % Word, 0, ps)

\* What proofs or outputs are worth: the sum a Total is of, were u64 wide enough.
AmountsOf(ps) == [i \in DOMAIN ps |-> ps[i].amount]
Value(ps) == SumFunctionOnSet(AmountsOf(ps), DOMAIN ps)

CoinsIn(ps) == {p.coin : p \in Range(ps)}

\* As many secrets as proofs.
NoDuplicates(ps) == Cardinality(CoinsIn(ps)) = Len(ps)

NoneSigned(outs) == \A c \in CoinsIn(outs) : ~SignatureStored(c)

KeysetsKnown(ps) == \A p \in Range(ps) : p.keyset \in known

\* Mutant: the spent table is not looked at.
VerifyProofUnseen(p) ==
    /\ p.coin \notin Locked
    /\ p.keyset \in known
    /\ p.amount \in KeyAmounts
    /\ Signature(p) \in issued

\* Spending condition, spent table, keyset, key for the amount, signature.
VerifyProof(p) ==
    /\ p.coin \notin Locked
    /\ ~Spent(p.coin)
    /\ p.keyset \in known
    /\ p.amount \in KeyAmounts
    /\ Signature(p) \in issued

ProofsValid(ps) == \A p \in Range(ps) : VerifyProof(p)

\* The amount and the keyset are the client's choice; only the active keyset
\* signs, with the key it has for that amount.
BlindSign(o) ==
    /\ o.keyset \in known
    /\ o.keyset = active
    /\ o.amount \in KeyAmounts

\* blind_sign, then add_blinded_signature; either may fail, and the handler
\* returns the error.  What it wrote before stays written.
SignOutput(w, o) ==
    \/ BlindSign(o) /\ AddBlindedSignature(o) /\ Advance(w)
    \/ ~(BlindSign(o) /\ SignatureAccepted(o)) /\ Return(w) /\ UNCHANGED storeVars

-----------------------------------------------------------------------------
(* process_mint_request *)

MintCheckOutputs(w, r) ==
    /\ r.kind = "mint"
    /\ NoneSigned(r.outputs)
    /\ Accept(w, r, "mint_quote")
    /\ UNCHANGED storeVars

\* Mutant: any stored quote will do.
MintReadQuoteUnpaid(w) ==
    /\ pc[w] = "mint_quote"
    /\ IF MintQuoteStored(req[w].quote) THEN Goto(w, "mint_sign") ELSE Return(w)
    /\ UNCHANGED storeVars

\* The quote must be stored and paid.  Neither its amount nor its expiry is
\* compared with anything.
MintReadQuote(w) ==
    /\ pc[w] = "mint_quote"
    /\ IF mintQuote[req[w].quote] = "paid" THEN Goto(w, "mint_sign") ELSE Return(w)
    /\ UNCHANGED storeVars

MintSign(w) ==
    /\ pc[w] = "mint_sign"
    /\ idx[w] \in DOMAIN req[w].outputs
    /\ SignOutput(w, req[w].outputs[idx[w]])

\* The quote goes once every output is signed.
MintRemoveQuote(w) ==
    /\ pc[w] = "mint_sign"
    /\ idx[w] \notin DOMAIN req[w].outputs
    /\ RemoveMintQuote(req[w].quote)
    /\ Return(w)

-----------------------------------------------------------------------------
(* process_swap_request *)

\* Mutant: signing comes before spending.
SwapVerifySignFirst(w, r) ==
    /\ r.kind = "swap"
    /\ NoneSigned(r.outputs)
    /\ Total(r.inputs) = Total(r.outputs)
    /\ NoDuplicates(r.inputs)
    /\ ProofsValid(r.inputs)
    /\ KeysetsKnown(r.inputs \o r.outputs)
    /\ Accept(w, r, "swap_sign")
    /\ UNCHANGED storeVars

\* Every check of the handler: all of it reads.  Whether the outputs' keyset
\* is the active one is left to blind_sign.
SwapVerify(w, r) ==
    /\ r.kind = "swap"
    /\ NoneSigned(r.outputs)
    /\ Total(r.inputs) = Total(r.outputs)
    /\ NoDuplicates(r.inputs)
    /\ ProofsValid(r.inputs)
    /\ KeysetsKnown(r.inputs \o r.outputs)
    /\ Accept(w, r, "swap_spend")
    /\ UNCHANGED storeVars

\* One input, without looking at the spent table again.
SwapSpend(w) ==
    /\ pc[w] = "swap_spend"
    /\ AddSpentProof(Input(w))
    /\ IF idx[w] = Len(req[w].inputs) THEN Goto(w, "swap_sign") ELSE Advance(w)

SwapSign(w) ==
    /\ pc[w] = "swap_sign"
    /\ idx[w] \in DOMAIN req[w].outputs
    /\ SignOutput(w, req[w].outputs[idx[w]])

\* Mutant: off by one, a reply when the last output is still to be signed.
SwapReplyEarly(w) ==
    /\ pc[w] = "swap_sign"
    /\ idx[w] = Len(req[w].outputs)
    /\ Return(w)
    /\ UNCHANGED storeVars

SwapReply(w) ==
    /\ pc[w] = "swap_sign"
    /\ idx[w] \notin DOMAIN req[w].outputs
    /\ Return(w)
    /\ UNCHANGED storeVars

-----------------------------------------------------------------------------
(* verify_melt_request and process_melt_request *)

MeltRequestValid(r) ==
    /\ meltQuote[r.quote] = "stored"
    /\ Total(r.inputs) >= (MeltAmount[r.quote] + FeeReserve[r.quote]) % Word
    /\ KeysetsKnown(r.inputs)
    /\ \A o \in Range(r.outputs) : o.keyset \in known /\ o.keyset = active
    /\ NoDuplicates(r.inputs)
    /\ ProofsValid(r.inputs)

\* The request is verified again, now that the invoice is paid; only here
\* are the change outputs looked up.
MeltProcess(w) ==
    /\ pc[w] = "melt_process"
    /\ IF MeltRequestValid(req[w]) /\ NoneSigned(req[w].outputs)
       THEN Goto(w, "melt_spend") ELSE Return(w)
    /\ UNCHANGED storeVars

MeltSpend(w) ==
    /\ pc[w] = "melt_spend"
    /\ AddSpentProof(Input(w))
    /\ IF idx[w] = Len(req[w].inputs) THEN Goto(w, "melt_remove") ELSE Advance(w)

\* Mutant: the quote stays.
MeltKeepQuote(w) ==
    /\ pc[w] = "melt_remove"
    /\ Goto(w, "melt_change")
    /\ UNCHANGED storeVars

MeltRemoveQuote(w) ==
    /\ pc[w] = "melt_remove"
    /\ RemoveMeltQuote(req[w].quote, due[w])
    /\ Goto(w, "melt_change")

\* Amount::split: the powers of two of the sum, largest first.  Sorting them
\* in descending order, when outputs are short, leaves them as they are.
SplitOverKeys(n) ==
    LET powers == {a \in KeyAmounts : (n \div a) % 2 = 1}
    IN  CHOOSE s \in [1..Cardinality(powers) -> powers] :
            \A i, j \in DOMAIN s : i < j => s[i] > s[j]

\* Mutant: what the payment cost is not deducted.
ChangeAmountsUndeducted(w) == SplitOverKeys(Total(req[w].inputs))

\* proofs_amount - total_spent on u64.
ChangeAmounts(w) == SplitOverKeys((Total(req[w].inputs) - due[w]) % Word)

\* Mutant: the last change output is not used.
ChangeIndicesShort(w) == DOMAIN ChangeAmounts(w) \cap 1..(Len(req[w].outputs) - 1)

\* The amounts are zipped with the outputs: the rest of the longer is dropped.
ChangeIndices(w) == DOMAIN ChangeAmounts(w) \cap DOMAIN req[w].outputs

\* A build with overflow checks panics when total_spent exceeds the proofs.
MeltOverflow(w) ==
    /\ pc[w] = "melt_change"
    /\ idx[w] = 1
    /\ Total(req[w].inputs) < due[w]
    /\ Return(w)
    /\ UNCHANGED storeVars

MeltChange(w) ==
    /\ pc[w] = "melt_change"
    /\ idx[w] \in ChangeIndices(w)
    /\ SignOutput(w, [req[w].outputs[idx[w]] EXCEPT !.amount = ChangeAmounts(w)[idx[w]]])

\* The response says paid: true.
MeltReply(w) ==
    /\ pc[w] = "melt_change"
    /\ idx[w] \notin ChangeIndices(w)
    /\ Return(w)
    /\ UNCHANGED storeVars

-----------------------------------------------------------------------------
MintHandlers(w) ==
    \/ MintReadQuote(w) \/ MintSign(w) \/ MintRemoveQuote(w)
    \/ SwapSpend(w) \/ SwapSign(w) \/ SwapReply(w)
    \/ MeltProcess(w) \/ MeltSpend(w) \/ MeltRemoveQuote(w)
    \/ MeltOverflow(w) \/ MeltChange(w) \/ MeltReply(w)
=============================================================================
