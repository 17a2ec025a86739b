------------------------------- MODULE Wallet -------------------------------
(***************************************************************************)
(* struct Wallet against one mint and one unit: the operations of the      *)
(* wallet over the store it was built with, the mint it talks to, and what *)
(* lies between them.  An operation reads its store and makes its secrets  *)
(* (Begin...), sends one request (Post...), reads the answer (Answered...) *)
(* and then makes its writes to the store one after the other (Write); it  *)
(* may end at an error, be dropped, or go down with the process between    *)
(* any two of these.                                                       *)
(*                                                                         *)
(* A secret is <<keyset, index>> when it is derived from the seed and      *)
(* <<condition, number>> when it is random and locked.  The keys of a      *)
(* keyset never change, so the cache of keys is left out: a proof          *)
(* remembers in c which keyset's keys unblinded it.                        *)
(***************************************************************************)
EXTENDS WalletDatabase, Amounts, FiniteSetsExt

CONSTANTS
    Stores,         \* The stores the wallet may be built with.
    Tasks,          \* Operations that run at the same time.
    Ops,            \* The operations that are called.
    MaxOps, MaxFaults,  \* How many of them, melt quotes apart, and errors,
                        \* drops and crashes.
    Chain,          \* The mint's keysets in the order it activates them.
    MintQuotes, Notes, MeltQuotes,
    AmountOf,       \* The amount of each quote and of the notes.
    FeeReserve,
    SendAmounts,
    Target,         \* The split target of every call.
    Conditions,     \* Locks: NUT-10 secrets.
    MintInfos,      \* What get_mint_info yields; None when it fails.
    Locks,          \* The conditions calls of this wallet ask for.
    Keyed,          \* The locks this wallet has a signing key or preimage for.
    ExpiryOf,       \* Expiry of each mint quote; 0 when the mint names none.
    Foreign,        \* Tokens of other wallets: sequences of entries.
    BatchSize, EmptyLimit   \* restore: 100 and 3.

Url == "mint"
Unit == "sat"
Late == 2       \* An expiry the clock passes once.

ForeignProofs == UNION {ToSet(t) : t \in Foreign}
ForeignCoins == UNION ForeignProofs

\* The secrets this wallet makes, what they become, and the rows it stores.
OwnSecrets == (ToSet(Chain) \X Nat) \cup (Locks \X (Nat \ {0}))
OwnCoins == [secret : OwnSecrets, amount : Nat, keyset_id : ToSet(Chain), c : ToSet(Chain),
             dleq : ToSet(Chain) \cup {None}]
ProofRows == [proof : OwnCoins, y : OwnSecrets, mint_url : {Url}, state : States,
              spending_condition : Conditions \cup {None}, unit : {Unit}]
MintQuoteRows == [id : MintQuotes, amount : Nat, paid : BOOLEAN, expiry : Nat]
MeltQuoteRows == [id : MeltQuotes, amount : Nat, paid : BOOLEAN, fee_reserve : Nat,
                  expiry : Nat]

ASSUME WalletAssumption ==
    /\ Stores \subseteq WalletStores
    /\ BatchSize \in Nat \ {0} /\ EmptyLimit \in Nat \ {0}
    /\ Chain \in Seq(ToSet(Chain)) /\ Chain # <<>>
    /\ Keyed \subseteq Conditions /\ Locks \subseteq Conditions
    /\ Conditions \cap ToSet(Chain) = {}
    /\ MintQuotes \cap MeltQuotes = {} /\ (MintQuotes \cup MeltQuotes) \cap Notes = {}
    /\ AmountOf \in [MintQuotes \cup MeltQuotes \cup Notes -> Nat]
    /\ ExpiryOf \in [MintQuotes -> Nat]
    /\ FeeReserve \in Nat /\ SendAmounts \subseteq Nat /\ Target \in SplitTargets

\* Secrets are random enough that no two wallets make the same one.
ASSUME ForeignAssumption ==
    /\ IsFiniteSet(ForeignCoins)
    /\ Foreign \subseteq Seq(SUBSET ForeignCoins)
    /\ \A p \in ForeignCoins : p.amount \in Nat /\ p.secret \notin OwnSecrets

\* Option::None is no value of the type: no row, condition or count.
ASSUME NoneAssumption ==
    /\ None \notin Nat /\ None \notin Conditions
    /\ None \notin MintQuoteRows /\ None \notin MeltQuoteRows /\ None \notin ProofRows
    /\ \A states \in SUBSET States : states # None

VARIABLES
    store, db,      \* The store behind the wallet and what it holds.
    task,           \* Where each operation stands.
    random,         \* How many random secrets were drawn.
    signed,         \* Mint: the signature given for each secret.
    spent,          \* Mint: the secrets in the spent table.
    quote,          \* Mint: where each quote stands, and the notes.
    active,         \* Mint: its active keyset, by position in Chain.
    clock,
    tokens,         \* Tokens handed out and not redeemed.
    adrift,         \* History: secrets of requests whose answer or keys the
                    \* wallet missed, and of rows a crash took.
    wiped,          \* History: a crash emptied the store.
    calls, faults

mintVars == <<signed, spent, quote, active>>
historyVars == <<adrift, wiped>>
vars == <<store, db, task, random, mintVars, clock, tokens, historyVars, calls, faults>>

Idle == [op |-> "idle", at |-> "idle", id |-> None, k |-> None, ins |-> {}, outs |-> <<>>,
         want |-> None, cond |-> None, held |-> {}, todo |-> <<>>, next |-> "finish",
         rest |-> <<>>, from |-> 0, empty |-> 0, expiry |-> 0]

Init ==
    /\ store \in Stores
    /\ db = New(store)
    /\ task = [t \in Tasks |-> Idle]
    /\ random = 0
    /\ signed = [s \in {p.secret : p \in ForeignCoins} |->
                    LET p == CHOOSE q \in ForeignCoins : q.secret = s
                    IN  [amount |-> p.amount, keyset_id |-> p.keyset_id]]
    /\ spent = {}
    /\ quote = [q \in MintQuotes \cup MeltQuotes \cup Notes |->
                   IF q \in Notes THEN "paid" ELSE "none"]
    /\ active = 1
    /\ clock = 1
    /\ tokens = {}
    /\ adrift = {}
    /\ wiped = FALSE
    /\ calls = 0 /\ faults = 0

-----------------------------------------------------------------------------
(* Coins *)

Amount(ps) == MapThenSumSet(LAMBDA p : p.amount, ps)
Secrets(ps) == {p.secret : p \in ps}
Lock(secret) == IF secret[1] \in Conditions THEN secret[1] ELSE None
Parts(n) == SplitTargeted(n, Target)

\* PreMintSecrets: from_xpriv, with_conditions and from_xpriv_blank.
FromXpriv(k, count, n) ==
    [i \in DOMAIN Parts(n) |-> [secret |-> <<k, count + i - 1>>, amount |-> Parts(n)[i]]]
WithConditions(cond, n) ==
    [i \in DOMAIN Parts(n) |-> [secret |-> <<cond, random + i>>, amount |-> Parts(n)[i]]]
FromXprivBlank(k, count, fee) ==
    [i \in 1..BlankCount(fee) |-> [secret |-> <<k, count + i - 1>>, amount |-> 0]]

\* The proofs that signatures of keyset k make when unblinded with keys of c.
ConstructProofs(outs, k, c) ==
    {[secret |-> o.secret, amount |-> o.amount, keyset_id |-> k, c |-> c, dleq |-> k] :
        o \in ToSet(outs)}

Infos(proofs, state) ==
    SetToSeq({ProofInfo(p, Url, state, Unit, Lock(p.secret)) : p \in proofs})

\* The proofs the store answers for one of these states.
Stored(d, states, conds) ==
    LET infos == GetProofs(store, d, Url, Unit, states, conds)
    IN  IF infos = None THEN {} ELSE {i.proof : i \in infos}

Unspent(d) == Stored(d, {"Unspent"}, None)

-----------------------------------------------------------------------------
(* Writes to come: one call of the store each *)

Call(name, x, y) == [call |-> name, x |-> x, y |-> y]

\* SQLite writes a list of proofs one statement per row.
PerRow(name, rows) ==
    IF RowByRow(store) THEN [i \in DOMAIN rows |-> Call(name, <<rows[i]>>, None)]
    ELSE IF rows = <<>> THEN <<>> ELSE <<Call(name, rows, None)>>

Adding(proofs, state) == PerRow("add_proofs", Infos(proofs, state))
Removing(proofs) == PerRow("remove_proofs", SetToSeq(proofs))
Setting(proofs, state) ==
    LET ps == SetToSeq(proofs)
    IN  [i \in DOMAIN ps |-> Call("set_proof_state", ps[i].secret, state)]
Increment(k, n) == <<Call("increment_keyset_counter", k, n)>>

Perform(d, c) ==
    CASE c.call = "add_proofs" -> AddProofs(store, d, c.x)
      [] c.call = "remove_proofs" -> RemoveProofs(store, d, c.x)
      [] c.call = "set_proof_state" -> SetProofState(store, d, c.x, c.y)
      [] c.call = "increment_keyset_counter" -> IncrementKeysetCounter(store, d, c.x, c.y)
      [] c.call = "remove_mint_quote" -> RemoveMintQuote(store, d, c.x)
      [] c.call = "remove_melt_quote" -> RemoveMeltQuote(store, d, c.x)

-----------------------------------------------------------------------------
(* Mints, keysets and counters *)

\* GET /v1/keysets: one active keyset, the older ones inactive.
MintKeysets ==
    [i \in 1..active |-> [id |-> Chain[i], unit |-> Unit, active |-> i = active]]

\* add_mint; the info is None when it could not be fetched.
EnsureMint(d, info) ==
    IF GetMint(store, d, Url) = None THEN AddMint(store, d, Url, info) ELSE Ok(d)

\* active_mint_keyset: the cached active keyset if there is one, else the
\* mint's, whose keysets are cached on the way.
ActiveMintKeyset(d) ==
    LET infos == GetMintKeysets(store, d, Url)
        cached == IF infos = None THEN {} ELSE {k \in infos : k.active}
        added == AddMintKeysets(store, d, Url, MintKeysets)
    IN  IF cached # {}
        THEN [ok |-> TRUE, db |-> d, id |-> (CHOOSE k \in cached : TRUE).id]
        ELSE [ok |-> added.ok, db |-> added.db, id |-> Chain[active]]

\* The first index not used: none, then one past the counter.
NextIndex(d, k) ==
    LET count == GetKeysetCounter(store, d, k) IN IF count = None THEN 0 ELSE count + 1

-----------------------------------------------------------------------------
(* What the mint checks and signs *)

SignAll(table, outs, k) ==
    [s \in DOMAIN table \cup Secrets(ToSet(outs)) |->
        IF s \in DOMAIN table THEN table[s]
        ELSE LET o == CHOOSE x \in ToSet(outs) : x.secret = s
             IN  [amount |-> o.amount, keyset_id |-> k]]

\* A signature of the mint on that coin, unblinded with the right keys, that
\* is not spent.  Only receive adds signatures and preimages.
ProofVerifies(p, unlocks) ==
    /\ p.secret \in DOMAIN signed \ spent
    /\ signed[p.secret] = [amount |-> p.amount, keyset_id |-> p.keyset_id]
    /\ p.c = p.keyset_id
    /\ Lock(p.secret) \in {None} \cup unlocks

TokenSecrets ==
    UNION {Secrets(UNION ToSet(token.entries)) : token \in tokens}

NewOutputs(outs) == Secrets(ToSet(outs)) \cap DOMAIN signed = {}
Total(outs) == SumOf([i \in DOMAIN outs |-> outs[i].amount])

-----------------------------------------------------------------------------
(* How an operation moves *)

\* A call of an operation; one at a time in each task.  Those that move coins
\* are counted.
Asked(t, op) == op \in Ops /\ task[t].op = "idle"
Called(t, op) == Asked(t, op) /\ calls < MaxOps /\ calls' = calls + 1

Goto(t, state) == task' = [task EXCEPT ![t] = state]
End(t) == Goto(t, Idle)
OnlyTask == UNCHANGED <<store, mintVars, clock, tokens, historyVars, faults>>

\* What an operation that ends here leaves unsettled: the coins of a request
\* the mint has served, and those received and not stored yet.
AtStake(t) ==
    (IF task[t].at \in {"answered", "melted", "write"}
     THEN Secrets(task[t].ins) \cup Secrets(ToSet(task[t].outs)) ELSE {})
    \cup (IF task[t].op = "receive" THEN Secrets(task[t].held) ELSE {})

\* The operation returns an error, or is dropped.
Fail(t) == End(t) /\ adrift' = adrift \cup AtStake(t)

\* The next write; an error of the store ends the operation.
Write(t) ==
    LET r == Perform(db, Head(task[t].todo))
    IN  /\ task[t].at = "write" /\ task[t].todo # <<>>
        /\ db' = r.db
        /\ IF r.ok
           THEN Goto(t, [task[t] EXCEPT !.todo = Tail(@)]) /\ UNCHANGED adrift
           ELSE Fail(t)
        /\ UNCHANGED <<store, random, mintVars, clock, tokens, wiped, calls, faults>>

\* All writes are made and this is what follows them.
Done(t, next) == task[t].at = "write" /\ task[t].todo = <<>> /\ task[t].next = next

Finish(t) ==
    /\ Done(t, "finish")
    /\ End(t)
    /\ UNCHANGED <<db, random, calls>> /\ OnlyTask

-----------------------------------------------------------------------------
(* Quotes, mints and keysets *)

\* mint_quote: the quote the mint made is stored.
MintQuote(t) ==
    /\ Called(t, "mint_quote")
    /\ \E q \in MintQuotes :
        /\ quote[q] = "none" /\ clock < Late
        /\ quote' = [quote EXCEPT ![q] = "unpaid"]
        /\ db' = AddMintQuote(store, db,
                    [id |-> q, amount |-> AmountOf[q], paid |-> FALSE, expiry |-> ExpiryOf[q]]).db
    /\ UNCHANGED <<store, task, random, signed, spent, active, clock, tokens, historyVars,
                   faults>>

\* melt_quote; the amount the mint answers is that of the invoice.
MeltQuote(t) ==
    /\ Asked(t, "melt_quote")
    /\ \E q \in MeltQuotes :
        /\ quote[q] = "none" /\ clock < Late
        /\ quote' = [quote EXCEPT ![q] = "unpaid"]
        /\ db' = AddMeltQuote(store, db, [id |-> q, amount |-> AmountOf[q], paid |-> FALSE,
                                          fee_reserve |-> FeeReserve, expiry |-> Late]).db
    /\ UNCHANGED <<store, task, random, signed, spent, active, clock, tokens, historyVars,
                   calls, faults>>

\* melt_quote_status: a quote the mint no longer has is an error.
MeltQuoteStatus(t) ==
    /\ Asked(t, "melt_quote_status")
    /\ \E q \in MeltQuotes :
        LET row == GetMeltQuote(store, db, q)
        IN  /\ quote[q] = "unpaid" /\ row # None
            /\ db' = AddMeltQuote(store, db, [row EXCEPT !.paid = FALSE]).db
    /\ UNCHANGED <<task, random, calls>> /\ OnlyTask

\* add_mint stores what get_mint_info answered, or that it did not.
AddMintCalled(t) ==
    /\ Asked(t, "add_mint")
    /\ \E info \in MintInfos : db' = AddMint(store, db, Url, info).db
    /\ UNCHANGED <<task, random, calls>> /\ OnlyTask

\* refresh_mint_keys, get_mint_keysets, get_active_mint_keys.
RefreshMintKeys(t) ==
    /\ Asked(t, "refresh_mint_keys")
    /\ db' = AddMintKeysets(store, db, Url, MintKeysets).db
    /\ UNCHANGED <<task, random, calls>> /\ OnlyTask

-----------------------------------------------------------------------------
(* mint, mint_fedimint and check_all_mint_quotes *)

QuoteUsable(d, q) ==
    LET row == GetMintQuote(store, d, q)
    IN  row # None /\ (row.expiry = 0 \/ row.expiry > clock)

\* Up to the request: a stored quote that has not expired, or the notes.
BeginIssue(t, src, cond) ==
    \E info \in MintInfos :
        LET d == EnsureMint(db, info).db
            a == ActiveMintKeyset(d)
            n == AmountOf[src]
        IN  /\ src \in MintQuotes => QuoteUsable(d, src)
            /\ a.ok
            /\ db' = a.db
            /\ Goto(t, [Idle EXCEPT !.op = "mint", !.at = "post", !.id = src, !.k = a.id,
                    !.cond = cond,
                    !.outs = IF cond = None THEN FromXpriv(a.id, NextIndex(a.db, a.id), n)
                             ELSE WithConditions(cond, n)])
            /\ random' = IF cond = None THEN random ELSE random + Len(Parts(n))

Mint(t) ==
    /\ Called(t, "mint")
    /\ \E src \in MintQuotes \cup Notes, cond \in Locks \cup {None} :
        BeginIssue(t, src, cond)
    /\ OnlyTask

\* check_all_mint_quotes, one quote of its loop: ask the mint, ...
CheckMintQuote(t) ==
    /\ Called(t, "check_all_mint_quotes")
    /\ \E row \in GetMintQuotes(store, db) :
        /\ quote[row.id] \in {"unpaid", "paid"}
        /\ db' = AddMintQuote(store, db, [row EXCEPT !.paid = quote[row.id] = "paid"]).db
        /\ Goto(t, [Idle EXCEPT !.op = "check", !.at = quote[row.id], !.id = row.id,
                                !.expiry = row.expiry])
    /\ UNCHANGED random /\ OnlyTask

\* Mutant: a quote that is not paid is dropped at once.
CheckedUnpaidEarly(t) ==
    /\ task[t].at = "unpaid"
    /\ db' = RemoveMintQuote(store, db, task[t].id).db
    /\ End(t)
    /\ UNCHANGED <<random, calls>> /\ OnlyTask

\* ... then drop a quote that was not paid and is past its expiry.  Zero, the
\* expiry of a quote that has none, is always past.
CheckedUnpaid(t) ==
    /\ task[t].at = "unpaid"
    /\ db' = IF task[t].expiry <= clock THEN RemoveMintQuote(store, db, task[t].id).db ELSE db
    /\ End(t)
    /\ UNCHANGED <<random, calls>> /\ OnlyTask

\* ... or mint it if it was paid; past its expiry mint refuses it, paid or not.
CheckedPaid(t) ==
    /\ task[t].at = "paid"
    /\ IF QuoteUsable(db, task[t].id) THEN BeginIssue(t, task[t].id, None)
       ELSE End(t) /\ UNCHANGED <<db, random>>
    /\ UNCHANGED calls /\ OnlyTask

\* The mint signs new secrets under its active keyset, once for each quote.
PostMint(t) ==
    /\ task[t].op = "mint" /\ task[t].at = "post"
    /\ IF /\ quote[task[t].id] = "paid"
          /\ task[t].k = Chain[active]
          /\ NewOutputs(task[t].outs)
       THEN /\ signed' = SignAll(signed, task[t].outs, task[t].k)
            /\ quote' = [quote EXCEPT ![task[t].id] = "issued"]
            /\ Goto(t, [task[t] EXCEPT !.at = "answered"])
       ELSE End(t) /\ UNCHANGED <<signed, quote>>
    /\ UNCHANGED <<store, db, random, spent, active, clock, tokens, historyVars, calls, faults>>

\* The quote goes, the counter moves unless the secrets were random, and the
\* proofs come last.
AnsweredMint(t) ==
    LET p == ConstructProofs(task[t].outs, task[t].k, task[t].k)
    IN  /\ task[t].op = "mint" /\ task[t].at = "answered"
        /\ Goto(t, [task[t] EXCEPT !.at = "write", !.todo =
                (IF task[t].id \in MintQuotes
                 THEN <<Call("remove_mint_quote", task[t].id, None)>> ELSE <<>>)
                \o (IF task[t].cond = None THEN Increment(task[t].k, Cardinality(p)) ELSE <<>>)
                \o Adding(p, "Unspent")])
        /\ UNCHANGED <<db, random, calls>> /\ OnlyTask

-----------------------------------------------------------------------------
(* Which proofs an amount takes *)

\* The keysets of the unit, fetched when the store has none of this mint.
KnownKeysets(d) ==
    LET infos == GetMintKeysets(store, d, Url)
        added == AddMintKeysets(store, d, Url, MintKeysets)
    IN  IF infos # None THEN [ok |-> TRUE, db |-> d, infos |-> infos]
        ELSE [ok |-> added.ok, db |-> added.db, infos |-> ToSet(MintKeysets)]

Active(infos) == {k.id : k \in {i \in infos : i.active}}

\* Proofs of inactive keysets come first, then the larger amounts.
Before(infos, p, q) ==
    LET old(x) == x.keyset_id \notin Active(infos)
    IN  (old(p) /\ ~old(q)) \/ (old(p) = old(q) /\ p.amount > q.amount)

\* What a walk through the proofs takes that starts with a total and takes
\* every proof that does not bring it above the amount.
Fitting(infos, proofs, total, amount) ==
    {ps \in SUBSET proofs :
        /\ ps # {} => total + Amount(ps) <= amount
        /\ \A p \in proofs \ ps :
             total + Amount({q \in ps : ~Before(infos, p, q)}) + p.amount > amount}

\* Proofs with the very condition are used before others.
SelectLocked(d, infos, amount, cond) ==
    IF cond = None THEN {{}}
    ELSE Fitting(infos, Stored(d, {"Unspent"}, {cond}), 0, amount)

\* Of all unspent proofs, locked ones included, the shortest beginning of the
\* order that exceeds the amount, or all of them if they just cover it.
Selections(d, infos, amount, locked) ==
    LET proofs == {p \in Unspent(d) : p.keyset_id \in {k.id : k \in infos}}
        Sum(ps) == Amount(ps) + locked
    IN  {ps \in SUBSET proofs :
            /\ \A p \in ps, q \in proofs \ ps : ~Before(infos, q, p)
            /\ Sum(ps) >= amount
            /\ ps = proofs \/ Sum(ps) > amount
            /\ \E last \in ps : /\ \A p \in ps : ~Before(infos, last, p)
                                /\ Sum(ps \ {last}) <= amount}

-----------------------------------------------------------------------------
(* swap *)

\* sort_secrets: each goes behind those whose amount is not larger.
Placed(sorted, o) ==
    InsertAt(sorted, Cardinality({i \in DOMAIN sorted : sorted[i].amount <= o.amount}) + 1, o)
BySize(outs) ==
    LET sorted[i \in 0..Len(outs)] == IF i = 0 THEN <<>> ELSE Placed(sorted[i - 1], outs[i])
    IN  sorted[Len(outs)]

\* create_swap: outputs for the wanted amount and for the change, made one
\* after the other and sent in the order of their amounts.  base is the task
\* that goes on.
CreateSwap(t, base, d, ins, want, cond) ==
    LET a == ActiveMintKeyset(d)
        count == NextIndex(a.db, a.id)
        amount == IF want = None THEN Amount(ins) ELSE want
        desired == IF cond = None THEN FromXpriv(a.id, count, amount)
                   ELSE WithConditions(cond, amount)
        change == FromXpriv(a.id, IF cond = None THEN count + Len(desired) ELSE count,
                            Amount(ins) - amount)
    IN  /\ a.ok
        /\ db' = a.db
        /\ random' = IF cond = None THEN random ELSE random + Len(desired)
        /\ Goto(t, [base EXCEPT !.at = "post", !.k = a.id, !.ins = ins, !.want = want,
                !.cond = cond,
                !.outs = BySize(desired \o change)])

\* swap without an amount: every unspent proof is made new.
Swap(t) ==
    /\ Called(t, "swap")
    /\ Unspent(db) # {}
    /\ CreateSwap(t, [Idle EXCEPT !.op = "swap"], db, Unspent(db), None, None)
    /\ OnlyTask

\* The mint checks, spends the inputs, then signs.  A keyset that is not the
\* active one is refused only when the inputs are already spent.
PostSwap(t) ==
    LET now == task[t]
        unlocks == IF now.op = "receive" THEN Keyed ELSE {}
        verified == /\ NewOutputs(now.outs)
                    /\ Amount(now.ins) = Total(now.outs)
                    /\ \A p \in now.ins : ProofVerifies(p, unlocks)
    IN  /\ now.op \in {"swap", "send", "melt", "receive"} /\ now.at = "post"
        /\ IF verified THEN spent' = spent \cup Secrets(now.ins) ELSE UNCHANGED spent
        /\ IF verified /\ now.k = Chain[active]
           THEN /\ signed' = SignAll(signed, now.outs, now.k)
                /\ Goto(t, [now EXCEPT !.at = "answered"])
                /\ UNCHANGED adrift
           ELSE /\ End(t)
                /\ adrift' = adrift \cup AtStake(t) \cup (spent' \ spent)
                /\ UNCHANGED signed
        /\ UNCHANGED <<store, db, random, quote, active, clock, tokens, wiped, calls, faults>>

\* The new proofs that go to the receiver: the locked ones, then, from the
\* largest on, what still fits into the amount.
ToSend(proofs, want) ==
    LET locked == {p \in proofs : Lock(p.secret) # None}
    IN  IF want = None THEN {{}}
        ELSE {locked \cup ps : ps \in Fitting({}, proofs \ locked, Amount(locked), want)}

\* Mutant: the inputs keep their state.
AnsweredSwapKept(t) ==
    LET now == task[t]
        a == ActiveMintKeyset(db)
        proofs == ConstructProofs(now.outs, now.k, a.id)
    IN  /\ now.op \in {"swap", "send", "melt"} /\ now.at = "answered"
        /\ a.ok
        /\ db' = a.db
        /\ \E send \in ToSend(proofs, now.want) :
             Goto(t, [now EXCEPT !.at = "write", !.held = @ \cup send, !.todo =
                Increment(a.id, Len(now.outs)) \o Adding(send, "Reserved")
                \o Adding(proofs \ send, "Unspent")])
        /\ UNCHANGED <<adrift, random, calls>>
        /\ UNCHANGED <<store, mintVars, clock, tokens, wiped, faults>>

\* The active keyset and its keys are looked up again: after a rotation the
\* proofs are unblinded with the new keyset's keys, and its counter moves.
AnsweredSwap(t) ==
    LET now == task[t]
        a == ActiveMintKeyset(db)
        proofs == ConstructProofs(now.outs, now.k, a.id)
    IN  /\ now.op \in {"swap", "send", "melt"} /\ now.at = "answered"
        /\ a.ok
        /\ db' = a.db
        /\ \E send \in ToSend(proofs, now.want) :
             LET handed == now.held \cup send
             IN  Goto(t, [now EXCEPT !.at = "write", !.held = handed, !.todo =
                    Increment(a.id, Len(now.outs)) \o Adding(send, "Reserved")
                    \o Setting(now.ins, "Reserved") \o Adding(proofs \ send, "Unspent")
                    \o (IF now.op = "send" THEN Setting(handed, "Reserved") ELSE <<>>)])
        /\ adrift' = IF a.id = now.k THEN adrift
                     ELSE adrift \cup Secrets(ToSet(now.outs))
        /\ UNCHANGED <<store, random, mintVars, clock, tokens, wiped, calls, faults>>

-----------------------------------------------------------------------------
(* send *)

Send(t) ==
    LET s == KnownKeysets(db)
        base == [Idle EXCEPT !.op = "send", !.next = "hand"]
        Hand(ps) == /\ db' = s.db
                    /\ Goto(t, [base EXCEPT !.at = "write", !.held = ps,
                                            !.todo = Setting(ps, "Reserved")])
                    /\ UNCHANGED random
    IN  /\ Called(t, "send")
        /\ s.ok
        /\ \E amount \in SendAmounts, cond \in Locks \cup {None} :
            \E locked \in SelectLocked(s.db, s.infos, amount, cond) :
                IF cond # None /\ Amount(locked) = amount THEN Hand(locked)
                ELSE \E ps \in Selections(s.db, s.infos, amount, Amount(locked)) :
                        IF cond = None /\ Amount(ps) = amount THEN Hand(ps)
                        ELSE CreateSwap(t, [base EXCEPT !.held = locked], s.db, ps,
                                        amount - Amount(locked), cond)
        /\ OnlyTask

\* The token is returned when every proof in it is Reserved.
HandOut(t) ==
    /\ Done(t, "hand")
    /\ tokens' = tokens \cup {[by |-> t, entries |-> <<task[t].held>>]}
    /\ End(t)
    /\ UNCHANGED <<store, db, random, mintVars, clock, historyVars, calls, faults>>

-----------------------------------------------------------------------------
(* melt *)

Melt(t) ==
    LET s == KnownKeysets(db)
        base == [Idle EXCEPT !.op = "melt", !.next = "melt"]
    IN  /\ Called(t, "melt")
        /\ s.ok
        /\ \E q \in MeltQuotes :
            LET row == GetMeltQuote(store, db, q)
                needed == row.amount + row.fee_reserve
            IN  /\ row # None /\ row.expiry > clock
                /\ \E ps \in Selections(s.db, s.infos, needed, 0) :
                    IF Amount(ps) > needed
                    THEN CreateSwap(t, [base EXCEPT !.id = q], s.db, ps, needed, None)
                    ELSE /\ db' = s.db
                         /\ Goto(t, [base EXCEPT !.at = "write", !.id = q, !.held = ps])
                         /\ UNCHANGED random
        /\ OnlyTask

\* With proofs for the amount and the reserve: blanks for the change.
BeginMelt(t) ==
    LET a == ActiveMintKeyset(db)
    IN  /\ Done(t, "melt")
        /\ a.ok
        /\ db' = a.db
        /\ Goto(t, [Idle EXCEPT !.op = "melt", !.at = "post_melt", !.id = task[t].id,
                !.k = a.id, !.ins = task[t].held,
                !.outs = FromXprivBlank(a.id, NextIndex(a.db, a.id), FeeReserve)])
        /\ UNCHANGED <<random, calls>> /\ OnlyTask

\* The mint pays the invoice, spends the inputs and signs blanks for what the
\* payment left, the largest amounts first.  The payment may fail, and blanks
\* that were signed before are an error after it.
PostMelt(t) ==
    LET now == task[t]
        Change(cost) ==
            LET amounts == Split(Amount(now.ins) - cost)
            IN  [i \in 1..Min({Len(amounts), Len(now.outs)}) |->
                    [now.outs[i] EXCEPT !.amount = amounts[i]]]
    IN  /\ now.op = "melt" /\ now.at = "post_melt"
        /\ \/ /\ quote[now.id] = "unpaid"
              /\ now.outs # <<>> => now.k = Chain[active]
              /\ \A p \in now.ins : ProofVerifies(p, {})
              /\ NewOutputs(now.outs)
              /\ \E fee \in 0..FeeReserve :
                    LET change == Change(AmountOf[now.id] + fee)
                    IN  /\ signed' = SignAll(signed, change, now.k)
                        /\ Goto(t, [now EXCEPT !.at = "melted", !.outs = change])
              /\ spent' = spent \cup Secrets(now.ins)
              /\ quote' = [quote EXCEPT ![now.id] = "issued"]
           \/ End(t) /\ UNCHANGED <<signed, spent, quote>>
        /\ UNCHANGED <<store, db, random, active, clock, tokens, historyVars, calls, faults>>

\* The keys are the active ones at this moment, the counter that of the
\* keyset the blanks were made for.
AnsweredMelt(t) ==
    LET now == task[t]
        a == ActiveMintKeyset(db)
        change == ConstructProofs(now.outs, now.k, a.id)
    IN  /\ now.at = "melted"
        /\ a.ok
        /\ db' = a.db
        /\ Goto(t, [now EXCEPT !.at = "write", !.todo =
                Increment(now.k, Len(now.outs)) \o Adding(change, "Unspent")
                \o <<Call("remove_melt_quote", now.id, None)>> \o Removing(now.ins)])
        /\ adrift' = IF a.id = now.k THEN adrift
                     ELSE adrift \cup Secrets(ToSet(now.outs))
        /\ UNCHANGED <<store, random, mintVars, clock, tokens, wiped, calls, faults>>

-----------------------------------------------------------------------------
(* receive *)

Receive(t) ==
    /\ Called(t, "receive")
    /\ \E entries \in {token.entries : token \in tokens} \cup Foreign :
        Goto(t, [Idle EXCEPT !.op = "receive", !.at = "write", !.next = "entry",
                             !.rest = entries])
    /\ UNCHANGED <<db, random>> /\ OnlyTask

\* Entry by entry: all of it is swapped for proofs of this wallet.
BeginEntry(t) ==
    /\ Done(t, "entry")
    /\ task[t].rest # <<>>
    /\ \E info \in MintInfos :
        LET ps == Head(task[t].rest)
        IN  CreateSwap(t, [task[t] EXCEPT !.rest = Tail(@)],
                       EnsureMint(db, info).db, ps, Amount(ps), None)
    /\ UNCHANGED calls /\ OnlyTask

\* Mutant: the proofs of an entry replace those of the one before.
AnsweredReceiveLast(t) ==
    LET now == task[t]
    IN  /\ now.op = "receive" /\ now.at = "answered"
        /\ Goto(t, [now EXCEPT !.at = "write", !.ins = {}, !.outs = <<>>,
                !.held = ConstructProofs(now.outs, now.k, now.k),
                !.todo = Increment(now.k, Len(now.outs))])
        /\ UNCHANGED <<db, random, calls>> /\ OnlyTask

\* Only the counter is written; the proofs are held until the last entry.
AnsweredReceive(t) ==
    LET now == task[t]
    IN  /\ now.op = "receive" /\ now.at = "answered"
        /\ Goto(t, [now EXCEPT !.at = "write", !.ins = {}, !.outs = <<>>,
                !.held = @ \cup ConstructProofs(now.outs, now.k, now.k),
                !.todo = Increment(now.k, Len(now.outs))])
        /\ UNCHANGED <<db, random, calls>> /\ OnlyTask

StoreReceived(t) ==
    /\ Done(t, "entry")
    /\ task[t].rest = <<>>
    /\ Goto(t, [task[t] EXCEPT !.next = "finish", !.todo = Adding(task[t].held, "Unspent")])
    /\ UNCHANGED <<db, random, calls>> /\ OnlyTask

-----------------------------------------------------------------------------
(* restore *)

\* Mutant: only the active keyset is scanned.
RestoreActive(t) ==
    /\ Called(t, "restore")
    /\ \E info \in MintInfos :
        LET d == EnsureMint(db, info).db
        IN  db' = AddMintKeysets(store, d, Url, MintKeysets).db
    /\ Goto(t, [Idle EXCEPT !.op = "restore", !.at = "batch", !.rest = <<Chain[active]>>])
    /\ UNCHANGED random /\ OnlyTask

\* Every keyset the mint lists, from the first index on.
Restore(t) ==
    /\ Called(t, "restore")
    /\ \E info \in MintInfos :
        LET d == EnsureMint(db, info).db
        IN  db' = AddMintKeysets(store, d, Url, MintKeysets).db
    /\ Goto(t, [Idle EXCEPT !.op = "restore", !.at = "batch",
                            !.rest = SubSeq(Chain, 1, active)])
    /\ UNCHANGED random /\ OnlyTask

\* Mutant: the counter moves by the coins that are still unspent.
RestoreBatchUnspent(t) ==
    LET now == task[t]
        k == Head(now.rest)
        found == {s \in {<<k, i>> : i \in now.from..(now.from + BatchSize)} : s \in DOMAIN signed}
        outs == SetToSeq({[secret |-> s, amount |-> signed[s].amount] : s \in found})
    IN  /\ now.at = "batch" /\ now.rest # <<>>
        /\ Goto(t,
             IF found # {}
             THEN [now EXCEPT !.at = "write", !.k = k, !.outs = outs, !.next = "state",
                              !.todo = Increment(k, Cardinality(found \ spent))]
             ELSE IF now.empty + 1 < EmptyLimit
             THEN [now EXCEPT !.from = @ + BatchSize, !.empty = @ + 1]
             ELSE [now EXCEPT !.rest = Tail(@), !.from = 0, !.empty = 0])
        /\ UNCHANGED <<db, random, calls>> /\ OnlyTask

\* A batch has both its ends; the next one starts at the last index of this.
\* EmptyLimit batches without a signature end the keyset.
RestoreBatch(t) ==
    LET now == task[t]
        k == Head(now.rest)
        found == {s \in {<<k, i>> : i \in now.from..(now.from + BatchSize)} : s \in DOMAIN signed}
        outs == SetToSeq({[secret |-> s, amount |-> signed[s].amount] : s \in found})
    IN  /\ now.at = "batch" /\ now.rest # <<>>
        /\ Goto(t,
             IF found # {}
             THEN [now EXCEPT !.at = "write", !.k = k, !.outs = outs, !.next = "state",
                              !.todo = Increment(k, Len(outs))]
             ELSE IF now.empty + 1 < EmptyLimit
             THEN [now EXCEPT !.from = @ + BatchSize, !.empty = @ + 1]
             ELSE [now EXCEPT !.rest = Tail(@), !.from = 0, !.empty = 0])
        /\ UNCHANGED <<db, random, calls>> /\ OnlyTask

\* After the counter, what the mint does not call spent is stored as Unspent,
\* whatever the store said of it; a coin handed out in a token comes back too.
RestoreUnspent(t) ==
    LET unspent == {p \in ConstructProofs(task[t].outs, task[t].k, task[t].k) :
                        p.secret \notin spent}
    IN  /\ Done(t, "state")
        /\ Goto(t, [task[t] EXCEPT !.todo = Adding(unspent, "Unspent"), !.next = "batch"])
        /\ adrift' = (adrift \ Secrets(unspent)) \cup (Secrets(unspent) \cap TokenSecrets)
        /\ UNCHANGED <<store, db, random, mintVars, clock, tokens, wiped, calls, faults>>

RestoreNextBatch(t) ==
    /\ Done(t, "batch")
    /\ Goto(t, [task[t] EXCEPT !.at = "batch", !.outs = <<>>, !.from = @ + BatchSize,
                               !.empty = 0])
    /\ UNCHANGED <<db, random, calls>> /\ OnlyTask

RestoreEnd(t) ==
    /\ task[t].at = "batch" /\ task[t].rest = <<>>
    /\ End(t)
    /\ UNCHANGED <<db, random, calls>> /\ OnlyTask

-----------------------------------------------------------------------------
(* check_all_pending_proofs *)

\* Of the proofs that are Pending or Reserved the spent ones are removed.
CheckPending(t) ==
    LET gone == {p \in Stored(db, {"Pending", "Reserved"}, None) : p.secret \in spent}
    IN  /\ Called(t, "check_all_pending_proofs")
        /\ gone # {}
        /\ Goto(t, [Idle EXCEPT !.op = "pending", !.at = "write", !.todo = Removing(gone)])
        /\ UNCHANGED <<db, random>> /\ OnlyTask

-----------------------------------------------------------------------------
(* What goes wrong, and what others do *)

\* An error of the store or of a request for keysets, a call that never
\* arrives or whose answer does not, or a future that is dropped.
Stop(t) ==
    /\ task[t].op # "idle"
    /\ faults < MaxFaults
    /\ faults' = faults + 1
    /\ Fail(t)
    /\ UNCHANGED <<store, db, random, mintVars, clock, tokens, wiped, calls>>

\* The process ends, and with it what the memory store held.
Crash ==
    /\ faults < MaxFaults
    /\ faults' = faults + 1
    /\ task' = [t \in Tasks |-> Idle]
    /\ db' = IF Volatile(store) THEN New(store) ELSE db
    /\ wiped' = (wiped \/ Volatile(store))
    /\ adrift' = adrift \cup (UNION {AtStake(t) : t \in Tasks})
                        \cup (IF Volatile(store) THEN DOMAIN signed ELSE {})
    /\ UNCHANGED <<store, random, mintVars, clock, tokens, calls>>

PayMintQuote(q) ==
    /\ quote[q] = "unpaid"
    /\ quote' = [quote EXCEPT ![q] = "paid"]
    /\ UNCHANGED <<store, db, task, random, signed, spent, active, clock, tokens,
                   historyVars, calls, faults>>

\* rotate_keyset
Rotate ==
    /\ active < Len(Chain)
    /\ active' = active + 1
    /\ UNCHANGED <<store, db, task, random, signed, spent, quote, clock, tokens,
                   historyVars, calls, faults>>

\* The receiver of a token, who can open any lock, redeems it.
Redeem(token) ==
    /\ \A p \in UNION ToSet(token.entries) : ProofVerifies(p, Conditions)
    /\ spent' = spent \cup Secrets(UNION ToSet(token.entries))
    /\ tokens' = tokens \ {token}
    /\ UNCHANGED <<store, db, task, random, signed, quote, active, clock, historyVars,
                   calls, faults>>

\* Time matters once there is a quote, and a quote is made before it expires.
QuotesExpire ==
    /\ clock < Late
    /\ \E q \in MintQuotes \cup MeltQuotes : quote[q] \in {"unpaid", "paid"}
    /\ clock' = Late
    /\ UNCHANGED <<store, db, task, random, mintVars, tokens, historyVars, calls, faults>>

TaskStep(t) ==
    \/ MintQuote(t) \/ Mint(t) \/ PostMint(t) \/ AnsweredMint(t)
    \/ CheckMintQuote(t) \/ CheckedUnpaid(t) \/ CheckedPaid(t)
    \/ Swap(t) \/ PostSwap(t) \/ AnsweredSwap(t) \/ Send(t) \/ HandOut(t)
    \/ MeltQuote(t) \/ MeltQuoteStatus(t)
    \/ Melt(t) \/ BeginMelt(t) \/ PostMelt(t) \/ AnsweredMelt(t)
    \/ Receive(t) \/ BeginEntry(t) \/ AnsweredReceive(t) \/ StoreReceived(t)
    \/ Restore(t) \/ RestoreBatch(t) \/ RestoreUnspent(t) \/ RestoreNextBatch(t)
    \/ RestoreEnd(t)
    \/ AddMintCalled(t) \/ RefreshMintKeys(t) \/ CheckPending(t)
    \/ Write(t) \/ Finish(t) \/ Stop(t)

Next ==
    \/ \E t \in Tasks : TaskStep(t)
    \/ \E q \in MintQuotes : PayMintQuote(q)
    \/ \E token \in tokens : Redeem(token)
    \/ Crash \/ Rotate \/ QuotesExpire

Spec == Init /\ [][Next]_vars

-----------------------------------------------------------------------------
(* Properties *)

InFlight == UNION {AtStake(t) : t \in Tasks}
Own(secret) == secret[1] \in ToSet(Chain)

\* As many signatures of the keyset as indices up to the last one.
Dense(k) ==
    LET used == {s \in DOMAIN signed : s[1] = k}
    IN  \A s \in used : s[2] <= Cardinality(used)

\* The next secret the wallet derives is one the mint has not signed yet, or
\* the mint refuses the whole request: the counter is past every signed index
\* the wallet has heard of.  After a crash that emptied the store this waits
\* for restore, which counts signatures, and holds while no index was skipped.
\* On SQLite it does not hold: a refresh of the keysets resets the counter.
CounterCovers ==
    store # "sqlite" =>
        \A s \in DOMAIN signed \ (adrift \cup InFlight) :
            Own(s) /\ (wiped => Dense(s[1])) => s[2] < NextIndex(db, s[1])

\* A proof that counts towards the balance can be spent: the mint takes it,
\* and it is not in a token somebody else may redeem.
BalanceIsReal ==
    \A p \in Unspent(db) :
        p.secret \notin adrift \cup InFlight =>
            ProofVerifies(p, Conditions) /\ p.secret \notin TokenSecrets

\* No unspent coin that was signed for this wallet is forgotten: it is in the
\* store, in an operation under way or in a token, unless an answer was missed.
NothingVanishes ==
    DOMAIN signed \ spent \subseteq
        adrift \cup InFlight \cup TokenSecrets \cup Secrets(ForeignCoins)
               \cup Secrets(Stored(db, None, None))

\* The wallet remembers a paid quote it has not minted until it expires.  A
\* quote without an expiry is forgotten by the first check before the payment.
PaidQuoteKept ==
    \A q \in MintQuotes :
        quote[q] = "paid" /\ ExpiryOf[q] > clock /\ ~wiped => GetMintQuote(store, db, q) # None

\* When restore ends, every unspent coin derived from the seed is in the
\* balance, of the old keysets too and whatever was missed before.
RestoreFindsAll ==
    [][\A t \in Tasks :
        task[t].at = "batch" /\ task[t].rest = <<>> /\ task'[t].op = "idle" =>
            \A s \in DOMAIN signed \ spent : Own(s) => s \in Secrets(Unspent(db))]_vars

\* A proof that was handed out in a token is Reserved, so that no later send
\* hands it out again.  Two sends at the same time do.
SentOnce ==
    \A a, b \in tokens :
        a # b => Secrets(UNION ToSet(a.entries)) \cap Secrets(UNION ToSet(b.entries)) = {}
=============================================================================
