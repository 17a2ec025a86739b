----------------------------- MODULE MintServer -----------------------------
(***************************************************************************)
(* The mint as it runs: the HTTP server of cdk-axum dispatches requests to *)
(* the handlers of Mint, asks the Lightning node for invoices and payments *)
(* and, in a background task, marks quotes paid as the node reports paid   *)
(* invoices.  Clients drop connections, the process restarts, the node's   *)
(* answers get lost.                                                       *)
(***************************************************************************)
EXTENDS Mint

CONSTANTS
    NoInvoice, External,
    MeltInvoice,    \* The invoice a melt quote pays: a mint quote's, or External.
    Fees,           \* Routing fees a payment may cost.
    PayStatuses,    \* What pay_invoice may report with Ok.
    Replay,         \* After a restart the node reports all invoices again (CLN).
    EventsFail,     \* The store may fail under the invoice task.
    MaxRequests, MaxFaults, MaxRotations   \* Bounds on the run.

PaymentStatus == {"complete", "pending", "failed"}

ASSUME ServerAssumption ==
    /\ NoInvoice \notin MintQuotes
    /\ External \notin MintQuotes
    /\ MeltInvoice \in [MeltQuotes -> MintQuotes \cup {External}]
    /\ \A m \in MeltQuotes : MeltInvoice[m] # External =>
            MeltAmount[m] = MintAmount[MeltInvoice[m]]
    /\ Fees \subseteq Nat
    /\ PayStatuses \subseteq PaymentStatus
    /\ Replay \in BOOLEAN
    /\ EventsFail \in BOOLEAN
    /\ {MaxRequests, MaxFaults, MaxRotations} \subseteq Nat

VARIABLES
    payLog,     \* Invoices paid to the node, in the order of its pay index.
    cursor,     \* How far the invoice stream has got in payLog.
    evt,        \* The invoice handle_paid_invoice has found a quote for.
    payment,    \* What became of paying each melt quote's invoice.
    begun, faults, rotations    \* Counters for the bounds.

lnVars == <<payLog, cursor, evt, payment>>
boundVars == <<begun, faults, rotations>>
vars == <<storeVars, taskVars, lnVars, boundVars>>

TypeOK ==
    /\ StoreTypeOK
    /\ TaskTypeOK
    /\ payLog \in Seq(MintQuotes)
    /\ cursor \in 0..Len(payLog)
    /\ evt \in MintQuotes \cup {NoInvoice}
    /\ payment \in [MeltQuotes -> PaymentStatus \cup {"none", "internal"}]
    /\ begun \in Nat /\ faults \in Nat /\ rotations \in Nat

Init ==
    /\ StoreInit
    /\ TaskInit
    /\ payLog = <<>>
    /\ cursor = 0
    /\ evt = NoInvoice
    /\ payment = [m \in MeltQuotes |-> "none"]
    /\ begun = 0 /\ faults = 0 /\ rotations = 0

-----------------------------------------------------------------------------
(* Quotes *)

\* The node makes the invoice, then the quote is stored; nobody has seen the
\* invoice before the response.
NewMintQuote(q) ==
    /\ mintQuote[q] = "none"
    /\ AddMintQuote(q, "unpaid", 0)
    /\ UNCHANGED <<taskVars, lnVars, boundVars>>

\* Any bolt11 invoice will do, also one the mint made itself.
NewMeltQuote(m) ==
    /\ meltQuote[m] = "none"
    /\ MeltInvoice[m] # External => mintQuote[MeltInvoice[m]] # "none"
    /\ AddMeltQuote(m)
    /\ UNCHANGED <<taskVars, lnVars, boundVars>>

-----------------------------------------------------------------------------
(* Requests *)

\* post_melt_bolt11 starts by verifying the request.
MeltVerify(w, r) ==
    /\ r.kind = "melt"
    /\ MeltRequestValid(r)
    /\ Accept(w, r, "melt_lookup")
    /\ UNCHANGED storeVars

\* The router hands a request to a task of its own.
Dispatch(w, r) ==
    /\ ~Busy(w)
    /\ begun < MaxRequests
    /\ begun' = begun + 1
    /\ MintCheckOutputs(w, r) \/ SwapVerify(w, r) \/ MeltVerify(w, r)
    /\ UNCHANGED <<lnVars, faults, rotations>>

\* Is it an invoice of a mint quote that is still stored?
MeltLookup(w) ==
    LET q == MeltInvoice[req[w].quote]
    IN  /\ pc[w] = "melt_lookup"
        /\ IF q \in MintQuotes /\ MintQuoteStored(q)
           THEN Goto(w, "melt_credit") ELSE Goto(w, "melt_pay")
        /\ UNCHANGED <<storeVars, lnVars, boundVars>>

Paid(w, m, status, cost) ==
    /\ payment' = [payment EXCEPT ![m] = status]
    /\ due' = [due EXCEPT ![w] = cost]
    /\ pc' = [pc EXCEPT ![w] = "melt_process"]
    /\ UNCHANGED <<req, idx, payLog, cursor, evt, boundVars>>

\* Settled inside the mint: the copy read above is written back as paid,
\* before the melt has spent a coin for it.
MeltCredit(w) ==
    LET m == req[w].quote
    IN  /\ pc[w] = "melt_credit"
        /\ AddMintQuote(MeltInvoice[m], "paid", MintAmount[MeltInvoice[m]])
        /\ Paid(w, m, "internal", MeltAmount[m])

\* pay_invoice answers Ok; the server does not look at the status.  An
\* invoice already paid stays paid.  A node does not pay its own invoice.
MeltPay(w) ==
    LET m == req[w].quote
    IN  /\ pc[w] = "melt_pay"
        /\ MeltInvoice[m] = External
        /\ \E status \in PayStatuses, fee \in Fees :
            Paid(w, m, IF payment[m] = "complete" THEN "complete" ELSE status,
                 MeltAmount[m] + fee)
        /\ UNCHANGED storeVars

\* Mutant: the melt goes on when the payment failed.
MeltPayErrorIgnored(w) ==
    /\ pc[w] = "melt_pay"
    /\ Goto(w, "melt_process")
    /\ UNCHANGED <<storeVars, lnVars, boundVars>>

\* pay_invoice fails: the client gets an error and keeps its proofs.
MeltPayError(w) ==
    /\ pc[w] = "melt_pay"
    /\ Return(w)
    /\ UNCHANGED <<storeVars, lnVars, boundVars>>

ServerStep(w) ==
    \/ MintHandlers(w) /\ UNCHANGED <<lnVars, boundVars>>
    \/ MeltLookup(w) \/ MeltCredit(w) \/ MeltPay(w) \/ MeltPayError(w)

-----------------------------------------------------------------------------
(* Lightning *)

\* Somebody pays the invoice of a mint quote.
InvoicePaid(q) ==
    /\ mintQuote[q] # "none"
    /\ q \notin Range(payLog)
    /\ payLog' = Append(payLog, q)
    /\ escrow' = escrow + MintAmount[q]
    /\ UNCHANGED <<proofVars, issued, quoteVars, keysetVars, taskVars,
                   cursor, evt, payment, boundVars>>

\* Mutant: the stream does not remember the last invoice it gave.
EventReadAgain ==
    /\ evt = NoInvoice
    /\ cursor < Len(payLog)
    /\ LET q == payLog[cursor + 1]
       IN  evt' = IF MintQuoteStored(q) THEN q ELSE NoInvoice
    /\ UNCHANGED <<storeVars, taskVars, payLog, cursor, payment, boundVars>>

\* handle_paid_invoice reads all quotes and keeps those of this invoice.
EventRead ==
    /\ evt = NoInvoice
    /\ cursor < Len(payLog)
    /\ cursor' = cursor + 1
    /\ LET q == payLog[cursor + 1]
       IN  evt' = IF MintQuoteStored(q) THEN q ELSE NoInvoice
    /\ UNCHANGED <<storeVars, taskVars, payLog, payment, boundVars>>

\* It then writes the copies back with paid set.
EventWrite ==
    /\ evt # NoInvoice
    /\ AddMintQuote(evt, "paid", 0)
    /\ evt' = NoInvoice
    /\ UNCHANGED <<taskVars, payLog, cursor, payment, boundVars>>

-----------------------------------------------------------------------------
(* Faults, and the operator of the mint *)

\* The client is gone, or the store fails: the handler ends where it stands.
HandlerDropped(w) ==
    /\ Busy(w)
    /\ faults < MaxFaults
    /\ faults' = faults + 1
    /\ Return(w)
    /\ UNCHANGED <<storeVars, lnVars, begun, rotations>>

\* handle_paid_invoice returns an error: it is logged, and the task goes on
\* to the next invoice.
EventFailed ==
    /\ EventsFail
    /\ evt # NoInvoice
    /\ faults < MaxFaults
    /\ faults' = faults + 1
    /\ evt' = NoInvoice
    /\ UNCHANGED <<storeVars, taskVars, payLog, cursor, payment, begun, rotations>>

\* The node pays but its answer is lost, which the server takes for an error.
PayAnswerLost(w) ==
    /\ pc[w] = "melt_pay"
    /\ MeltInvoice[req[w].quote] = External
    /\ faults < MaxFaults
    /\ faults' = faults + 1
    /\ payment' = [payment EXCEPT ![req[w].quote] = "complete"]
    /\ Return(w)
    /\ UNCHANGED <<storeVars, payLog, cursor, evt, begun, rotations>>

\* Mutant: a new process goes on where the old one was.
RestartResumed ==
    /\ faults < MaxFaults
    /\ faults' = faults + 1
    /\ ReturnAll
    /\ evt' = NoInvoice
    /\ UNCHANGED <<storeVars, payLog, cursor, payment, begun, rotations>>

\* Mutant: off by one, the stream skips the invoice after the last one.
RestartPastEnd ==
    /\ faults < MaxFaults
    /\ faults' = faults + 1
    /\ ReturnAll
    /\ evt' = NoInvoice
    /\ cursor' = IF Replay THEN 0 ELSE Len(payLog) + 1
    /\ created' = {}
    /\ UNCHANGED <<proofVars, issued, quoteVars, known, active, escrow,
                   payLog, payment, begun, rotations>>

\* The keysets in memory are gone, and Mint::new makes none when the store
\* has some.  CLN's stream asks for invoices after last_pay_index, which a
\* new process starts without; Fedimint's receiver only knows its own.
Restart ==
    /\ faults < MaxFaults
    /\ faults' = faults + 1
    /\ ReturnAll
    /\ evt' = NoInvoice
    /\ cursor' = IF Replay THEN 0 ELSE Len(payLog)
    /\ created' = {}
    /\ UNCHANGED <<proofVars, issued, quoteVars, known, active, escrow,
                   payLog, payment, begun, rotations>>

RotateKeyset(k) ==
    /\ rotations < MaxRotations
    /\ rotations' = rotations + 1
    /\ k \notin known
    /\ ActivateKeyset(k)
    /\ UNCHANGED <<taskVars, lnVars, begun, faults>>

-----------------------------------------------------------------------------
Environment ==
    \/ \E q \in MintQuotes : NewMintQuote(q) \/ InvoicePaid(q)
    \/ \E m \in MeltQuotes : NewMeltQuote(m)
    \/ \E w \in Workers, r \in Requests : Dispatch(w, r)
    \/ \E w \in Workers : HandlerDropped(w) \/ PayAnswerLost(w)
    \/ \E k \in Keysets : RotateKeyset(k)
    \/ EventFailed \/ Restart

System ==
    \/ \E w \in Workers : ServerStep(w)
    \/ EventRead \/ EventWrite

Next == System \/ Environment

Spec == Init /\ [][Next]_vars

\* tokio runs every task that can run, and the node answers every call.
Fairness ==
    /\ \A w \in Workers : WF_vars(ServerStep(w))
    /\ WF_vars(EventRead) /\ WF_vars(EventWrite)

-----------------------------------------------------------------------------
(* Clients that never have two requests in flight that share a coin or a   *)
(* quote: what one careful wallet does.                                    *)

AllCoins(r) == CoinsIn(r.inputs) \cup CoinsIn(r.outputs)

Disjoint(r, s) ==
    /\ AllCoins(r) \cap AllCoins(s) = {}
    /\ r.quote = NoQuote \/ r.quote # s.quote

ExclusiveDispatch ==
    \A v, w \in Workers :
        (v # w /\ pc'[v] # "idle" /\ pc'[w] # "idle") => Disjoint(req'[v], req'[w])

ExclusiveNext == Next /\ ExclusiveDispatch

ExclusiveSpec == Init /\ [][ExclusiveNext]_vars

FairExclusiveSpec == ExclusiveSpec /\ Fairness
=============================================================================
