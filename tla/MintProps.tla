----------------------------- MODULE MintProps ------------------------------
(***************************************************************************)
(* What the mint must and must not do, over the modules MintServer, Mint   *)
(* and MintStore.                                                          *)
(***************************************************************************)
EXTENDS MintServer

Quiescent == evt = NoInvoice /\ \A w \in Workers : ~Busy(w)

\* The value of a mint quote was paid: over Lightning, or by a melt.
Funded(q) ==
    \/ q \in Range(payLog)
    \/ \E m \in MeltQuotes : MeltInvoice[m] = q /\ payment[m] = "internal"

InputsSpent(w) == \A c \in CoinsIn(req[w].inputs) : Spent(c)

\* A handler that has come to signing has what backs the signatures behind
\* it, whatever the other tasks, a restart or a dropped connection did in
\* between: a swap has all its inputs in the spent table, a melt too, with
\* its payment attempted and its quote gone, and a mint request a quote that
\* was funded.  Quotes are marked paid only for a payment.
SigningIsBacked ==
    /\ \A w \in Workers :
        /\ pc[w] = "swap_sign" => InputsSpent(w)
        /\ pc[w] \in {"melt_remove", "melt_change"} =>
            InputsSpent(w) /\ payment[req[w].quote] # "none"
        /\ pc[w] = "melt_change" => meltQuote[req[w].quote] = "removed"
        /\ pc[w] = "mint_sign" => Funded(req[w].quote)
    /\ evt # NoInvoice => Funded(evt)
    /\ \A q \in MintQuotes : mintQuote[q] = "paid" => Funded(q)

\* No coin is accepted twice: add_spent_proof is reached at most once per
\* coin.  The comment in verify_melt_request asks for it.
SpentOnce == \A c \in Coins : spends[c] <= 1

\* The melt answer's "paid" is the node's: a melt spends its inputs only when
\* the invoice was paid, by the node or inside the mint.
MeltAnswerIsTrue ==
    \A w \in Workers : pc[w] \in {"melt_spend", "melt_remove", "melt_change"} =>
        payment[req[w].quote] \in {"complete", "internal"}

\* When nothing is in flight, every invoice the mint paid or settled inside
\* has its melt on the books: inputs spent, quote removed.
PaymentsSettled ==
    Quiescent => \A m \in MeltQuotes :
        payment[m] \in {"complete", "internal"} => meltQuote[m] = "removed"

\* When nothing is in flight, the value the mint holds covers every paid
\* quote that can still be redeemed, so every coin it is asked for later has
\* been paid for.
Solvent ==
    Quiescent =>
        escrow >= SumFunctionOnSet(MintAmount, {q \in MintQuotes : Funded(q) /\ mintQuote[q] # "removed"})

\* When nothing is in flight, no handler has kept value on the way: what is
\* held beyond the coins in circulation was paid to mint quotes, over
\* Lightning or by melts, and not redeemed.
NothingLost ==
    Quiescent =>
        escrow <= SumFunctionOnSet(MintAmount, Range(payLog))
                  + SumFunctionOnSet(MeltAmount, {m \in MeltQuotes : payment[m] = "internal"})
                  - SumFunctionOnSet(MintAmount, {q \in MintQuotes : mintQuote[q] = "removed"})

\* A deleted mint quote stays deleted: no stale copy of the row is written
\* back after process_mint_request has redeemed and removed it.
NoResurrection ==
    [][\A q \in MintQuotes : mintQuote[q] = "removed" => mintQuote'[q] = "removed"]_vars

\* The mint keeps the promise of Ledger, coin by coin.
L == INSTANCE Ledger WITH
        Output <- [coin : Coins, amount : KeyAmounts, keys : Keysets \cup {SeedKeys}],
        live <- {o \in issued : ~Spent(o.coin)},
        dead <- {o \in issued : Spent(o.coin)}

LedgerPromise == L!Spec

\* What that promise asks of clients, for the mint does not look at it: no
\* sum exceeds u64, no two outputs of a request are the same, and a mint
\* request asks for what its quote was made for...
CarefulClients ==
    \A r \in Requests :
        /\ Value(r.inputs) < Word /\ Value(r.outputs) < Word
        /\ \A i, j \in DOMAIN r.outputs : r.outputs[i].coin = r.outputs[j].coin => i = j
        /\ r.kind = "mint" => Value(r.outputs) <= MintAmount[r.quote]

\* ... again with the same outputs when it is repeated.
RepeatsAlike ==
    \A r, s \in Requests :
        (r.kind = "mint" /\ s.kind = "mint" /\ r.quote = s.quote)
            => CoinsIn(r.outputs) = CoinsIn(s.outputs)

\* Of the node: a payment costs no more than the fee reserve.
FeesReserved ==
    \A m \in MeltQuotes :
        /\ MeltAmount[m] + FeeReserve[m] < Word
        /\ \A fee \in Fees : fee <= FeeReserve[m]

\* Of the keys: 2^0 .. 2^63.  Each is an even multiple of any smaller one.
Doubling(S) ==
    /\ \A a \in S : a > 0
    /\ \A a, b \in S : a < b => \E k \in 0..b : b = 2 * (a * k)

\* And of what was signed before: by this mint, each coin once.
SignedBefore ==
    /\ \A o \in Circulating : o.amount \in KeyAmounts
    /\ \A o, p \in Circulating : o.coin = p.coin => o = p

\* Of a mint whose keys are not rotated: a mint request asks for amounts the
\* first keyset has keys for.  When blind_sign refuses one of its outputs, the
\* ones before it are signed already and the quote stays paid.
Signable ==
    \A r \in Requests : r.kind = "mint" =>
        \A i \in DOMAIN r.outputs :
            r.outputs[i].keyset = FirstKeyset /\ r.outputs[i].amount \in KeyAmounts

\* Where no value is given away: a swap too asks for amounts there are keys
\* for, a mint request for all its quote was made for, and a melt brings an
\* output for each part of what may be left of its inputs.
FullValue ==
    \A r \in Requests :
        /\ r.kind = "swap" => \A i \in DOMAIN r.outputs :
                r.outputs[i].keyset = FirstKeyset /\ r.outputs[i].amount \in KeyAmounts
        /\ r.kind = "mint" => Value(r.outputs) = MintAmount[r.quote]
        /\ r.kind = "melt" => \A n \in 0..(Value(r.inputs) - MeltAmount[r.quote]) :
                Len(SplitOverKeys(n)) <= Len(r.outputs)

\* Of the keys: none is missing below the largest, or below 2^64.
Halving ==
    \A a \in KeyAmounts \cup {Word} : a = 1 \/ \E b \in KeyAmounts : a = 2 * b

\* Where no handler is cut off: no fault and no rotation while serving.
Calm == MaxFaults = 0 /\ MaxRotations = 0

\* The change outputs of a melt are no other request's, but for a repeated
\* melt of the same quote, and were not signed before.
FreshChange ==
    \A r \in Requests : r.kind = "melt" =>
        /\ \A o \in Circulating : o.coin \notin CoinsIn(r.outputs)
        /\ \A s \in Requests :
            CoinsIn(r.outputs) \cap CoinsIn(s.outputs) # {} => s.kind = "melt" /\ s.quote = r.quote

\* An invoice that was paid gets its quote marked paid, through restarts
\* and however the stream of paid invoices is read.
PaidInvoiceCredited ==
    \A q \in MintQuotes :
        q \in Range(payLog) ~> mintQuote[q] \in {"paid", "removed"}

\* Every request is answered.
RequestAnswered == \A w \in Workers : Busy(w) ~> ~Busy(w)
=============================================================================
