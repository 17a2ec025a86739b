---------------------------- MODULE WalletProofs ----------------------------
(***************************************************************************)
(* Proofs about the wallet: whatever store it was built with, however many *)
(* operations run at the same time, and for any keysets, quotes, amounts   *)
(* and tokens, a paid quote is kept and no coin vanishes. Where operations *)
(* run one at a time, every coin of the balance can be spent.              *)
(***************************************************************************)
EXTENDS WalletLemmas

-----------------------------------------------------------------------------
(* A paid quote is kept until it is minted or expires *)

\* A quote waits to be minted until it is issued.
LEMMA DueStays ==
    ASSUME NEW x, NEW qs, NEW rs, Due(x, qs), \A q : qs[q] = "issued" => rs[q] = "issued"
    PROVE  Due(x, rs)
BY DEF Due

\* An idle task owes no quote anything.
LEMMA NotDue == \A qs : Due(Idle, qs)
<1>1. ToSet(<<>>) = {}
  BY DEF ToSet
<1> QED BY <1>1 DEF Due, Idle

\* A step that moves one task keeps the quotes when ...
LEMMA QuotesMoved ==
    ASSUME TypeOK, QuotesKept, NEW t \in Tasks, NEW x, Goto(t, x), Due(x, quote'),
           \A q : quote[q] = "issued" => quote'[q] = "issued",
           \A q \in MintQuotes : Expected(q)',
           \A q \in DOMAIN Quotes(store', db') : Quotes(store', db')[q].expiry = ExpiryOf[q]
    PROVE  QuotesKept'
<1>1. task'[t] = x /\ \A u \in Tasks : u # t => task'[u] = task[u]
  BY GotoDoes DEF TypeOK
<1>2. \A u \in Tasks : Due(task[u], quote')
  BY DueStays DEF QuotesKept
<1>3. \A u \in Tasks : Due(task'[u], quote')
  BY <1>1, <1>2
<1> QED BY <1>3 DEF QuotesKept

\* A step of a task that leaves the quotes and their rows alone.
LEMMA QuotesQuiet ==
    ASSUME TypeOK, QuotesKept, NEW t \in Tasks, NEW x, Goto(t, x), Due(x, quote),
           Quotes(store, db') = Quotes(store, db), UNCHANGED <<store, quote, clock, wiped>>
    PROVE  QuotesKept'
<1>1. \A q \in MintQuotes : Expected(q)'
  BY DEF QuotesKept, Expected
<1>2. \A q \in DOMAIN Quotes(store', db') : Quotes(store', db')[q].expiry = ExpiryOf[q]
  BY DEF QuotesKept
<1>3. Due(x, quote') /\ \A q : quote[q] = "issued" => quote'[q] = "issued"
  OBVIOUS
<1> QED BY <1>1, <1>2, <1>3, QuotesMoved

\* A step that moves none.
LEMMA QuotesStill ==
    ASSUME QuotesKept, task' = task, \A q : quote[q] = "issued" => quote'[q] = "issued",
           \A q \in MintQuotes : Expected(q)',
           \A q \in DOMAIN Quotes(store', db') : Quotes(store', db')[q].expiry = ExpiryOf[q]
    PROVE  QuotesKept'
<1>1. \A u \in Tasks : Due(task'[u], quote')
  BY DueStays DEF QuotesKept
<1> QED BY <1>1 DEF QuotesKept

\* A step of the mint or of the clock that lets no quote become due.
LEMMA QuotesSame ==
    ASSUME QuotesKept, UNCHANGED <<store, task, wiped, clock>>,
           Quotes(store, db') = Quotes(store, db),
           \A q : quote[q] = "issued" => quote'[q] = "issued",
           \A q \in MintQuotes : quote'[q] \in {"unpaid", "paid"} => quote[q] \in {"unpaid", "paid"}
    PROVE  QuotesKept'
<1>1. \A q \in MintQuotes : Expected(q)'
  BY DEF QuotesKept, Expected
<1>2. \A q \in DOMAIN Quotes(store', db') : Quotes(store', db')[q].expiry = ExpiryOf[q]
  BY DEF QuotesKept
<1> QED BY <1>1, <1>2, QuotesStill

\* The operations that store quotes and keysets only.
LEMMA MintQuoteKeepsQuotes ==
    ASSUME TypeOK, QuotesKept, NEW t \in Tasks,
           MintQuote(t) \/ MeltQuote(t) \/ MeltQuoteStatus(t) \/ AddMintCalled(t) \/ RefreshMintKeys(t)
    PROVE  QuotesKept'
<1>0. DOMAIN quote = MintQuotes \cup MeltQuotes \cup Notes
  BY DEF TypeOK
<1>1. CASE MintQuote(t)
  <2>1. PICK q \in MintQuotes, row \in MintQuoteRows :
          /\ quote[q] = "none" /\ quote' = [quote EXCEPT ![q] = "unpaid"]
          /\ row.id = q /\ row.expiry = ExpiryOf[q]
          /\ QuotePut(store, db, db', row)
    BY <1>1, MintQuoteDoes
  <2>2. UNCHANGED <<store, task, wiped, clock>>
    BY <1>1 DEF MintQuote, historyVars
  <2>3. /\ DOMAIN Quotes(store', db') = DOMAIN Quotes(store, db) \cup {q}
        /\ \A x \in DOMAIN Quotes(store', db') :
             Quotes(store', db')[x] = IF x = q THEN row ELSE Quotes(store, db)[x]
    BY <2>1, <2>2 DEF QuotePut
  <2>4. \A x \in MintQuotes : Expected(x)'
    BY <1>0, <2>1, <2>2, <2>3 DEF QuotesKept, Expected
  <2>5. \A x \in DOMAIN Quotes(store', db') : Quotes(store', db')[x].expiry = ExpiryOf[x]
    BY <2>1, <2>3 DEF QuotesKept
  <2>6. \A x : quote[x] = "issued" => quote'[x] = "issued"
    BY <2>1
  <2> QED BY <2>2, <2>4, <2>5, <2>6, QuotesStill
<1>2. CASE MeltQuote(t)
  <2>1. PICK q \in MeltQuotes : quote[q] = "none" /\ quote' = [quote EXCEPT ![q] = "unpaid"]
    BY <1>2, MeltQuoteDoes
  <2>2. UNCHANGED <<store, task, wiped, clock>> /\ Quotes(store, db') = Quotes(store, db)
    BY <1>2, MeltQuoteDoes DEF MeltQuote, historyVars
  <2>3. \A x : quote[x] = "issued" => quote'[x] = "issued"
    BY <2>1
  <2>4. \A x \in MintQuotes : quote'[x] = quote[x]
    BY <2>1, WalletAssumption
  <2> QED BY <2>2, <2>3, <2>4, QuotesSame
<1>3. CASE MeltQuoteStatus(t)
  <2>1. UNCHANGED <<store, task, wiped, clock, quote>> /\ Quotes(store, db') = Quotes(store, db)
    BY <1>3, MeltQuoteStatusDoes DEF MeltQuoteStatus, OnlyTask, mintVars, historyVars
  <2> QED BY <2>1, QuotesSame
<1>4. CASE AddMintCalled(t) \/ RefreshMintKeys(t)
  <2>1. UNCHANGED <<store, task, wiped, clock, quote>> /\ Quotes(store, db') = Quotes(store, db)
    BY <1>4, AddMintDoes DEF AddMintCalled, RefreshMintKeys, OnlyTask, mintVars, historyVars, Refreshed
  <2> QED BY <2>1, QuotesSame
<1> QED BY <1>1, <1>2, <1>3, <1>4

\* A quote that is checked is stored again under its own id.
LEMMA CheckKeepsQuotes ==
    ASSUME TypeOK, QuotesKept, NEW t \in Tasks, CheckMintQuote(t) \/ CheckedUnpaid(t)
    PROVE  QuotesKept'
<1>1. CASE CheckMintQuote(t)
  <2>1. PICK q \in MintQuotes, row \in MintQuoteRows :
          /\ q \in DOMAIN Quotes(store, db) /\ quote[q] \in {"unpaid", "paid"}
          /\ row.id = q /\ row.expiry = Quotes(store, db)[q].expiry
          /\ QuotePut(store, db, db', row)
          /\ Goto(t, [Idle EXCEPT !.op = "check", !.at = quote[q], !.id = q, !.expiry = row.expiry])
    BY <1>1, CheckMintQuoteDoes
  <2>2. UNCHANGED <<store, wiped, clock, quote>>
    BY <1>1 DEF CheckMintQuote, OnlyTask, mintVars, historyVars
  <2>3. /\ DOMAIN Quotes(store', db') = DOMAIN Quotes(store, db)
        /\ \A x \in DOMAIN Quotes(store', db') :
             Quotes(store', db')[x] = IF x = q THEN row ELSE Quotes(store, db)[x]
    BY <2>1, <2>2 DEF QuotePut
  <2>4. row.expiry = ExpiryOf[q]
    BY <2>1 DEF QuotesKept
  <2>5. \A x \in MintQuotes : Expected(x)'
    BY <2>2, <2>3 DEF QuotesKept, Expected
  <2>6. \A x \in DOMAIN Quotes(store', db') : Quotes(store', db')[x].expiry = ExpiryOf[x]
    BY <2>3, <2>4 DEF QuotesKept
  <2> DEFINE y == [Idle EXCEPT !.op = "check", !.at = quote[q], !.id = q, !.expiry = row.expiry]
  <2>7. y.op = "check" /\ y.id = q /\ y.expiry = ExpiryOf[q] /\ y.todo = <<>>
    BY <2>4 DEF Idle
  <2>8. Goto(t, y)
    BY <2>1
  <2> HIDE DEF y
  <2>9. Due(y, quote')
    BY <2>7 DEF Due, ToSet
  <2>10. \A x : quote[x] = "issued" => quote'[x] = "issued"
    BY <2>2
  <2> QED BY <2>5, <2>6, <2>8, <2>9, <2>10, QuotesMoved
<1>2. CASE CheckedUnpaid(t)
  <2>1. UNCHANGED <<store, wiped, clock, quote>> /\ Goto(t, Idle)
    BY <1>2 DEF CheckedUnpaid, End, OnlyTask, mintVars, historyVars
  <2>2. CASE db' = db
    BY <2>1, <2>2, NotDue, QuotesQuiet
  <2>3. CASE task[t].expiry <= clock /\ QuoteGone(store, db, db', task[t].id)
    <3> DEFINE id == task[t].id
    <3>1. id \in MintQuotes /\ ExpiryOf[id] <= clock
      BY <1>2, <2>3 DEF CheckedUnpaid, QuotesKept, Due, TypeOK, Control
    <3>2. /\ DOMAIN Quotes(store', db') = DOMAIN Quotes(store, db) \ {id}
          /\ \A x \in DOMAIN Quotes(store', db') : Quotes(store', db')[x] = Quotes(store, db)[x]
      BY <2>1, <2>3 DEF QuoteGone
    <3> HIDE DEF id
    <3>3. ExpiryOf[id] \in Nat /\ clock \in Nat
      BY <3>1, WalletAssumption DEF TypeOK
    <3>4. \A x \in MintQuotes : Expected(x)'
      BY <2>1, <3>1, <3>2, <3>3 DEF QuotesKept, Expected
    <3>5. \A x \in DOMAIN Quotes(store', db') : Quotes(store', db')[x].expiry = ExpiryOf[x]
      BY <3>2 DEF QuotesKept
    <3>6. Due(Idle, quote') /\ \A x : quote[x] = "issued" => quote'[x] = "issued"
      BY <2>1, NotDue
    <3> QED BY <2>1, <3>4, <3>5, <3>6, QuotesMoved
  <2> QED BY <1>2, <2>2, <2>3, CheckedUnpaidDoes
<1> QED BY <1>1, <1>2

\* A quote is issued only when its outputs are signed.
LEMMA PostMintKeepsQuotes ==
    ASSUME TypeOK, QuotesKept, NEW t \in Tasks, PostMint(t)
    PROVE  QuotesKept'
<1> DEFINE now == task[t]
<1>1. now \in TaskStates /\ Control(now) /\ now.op = "mint" /\ Due(now, quote)
  BY NowType DEF PostMint, QuotesKept
<1>2. UNCHANGED <<store, wiped, clock, db>>
  BY DEF PostMint, historyVars
<1>3. CASE quote' = [quote EXCEPT ![now.id] = "issued"] /\ Goto(t, [now EXCEPT !.at = "answered"])
  <2> DEFINE x == [now EXCEPT !.at = "answered"]
  <2>1. x.id = now.id /\ x.todo = now.todo /\ x.at = "answered"
    BY <1>1 DEF TaskStates
  <2>2. Goto(t, x)
    BY <1>3
  <2> HIDE DEF now
  <2>3. now.id \in DOMAIN quote
    BY <1>1 DEF Control, TypeOK
  <2>4. quote'[now.id] = "issued" /\ \A q : q # now.id => quote'[q] = quote[q]
    BY <1>3, <2>3
  <2>5. \A q : quote[q] = "issued" => quote'[q] = "issued"
    BY <2>4
  <2>6. \A q \in MintQuotes : Expected(q)'
    BY <1>2, <2>4 DEF QuotesKept, Expected
  <2>7. \A q \in DOMAIN Quotes(store', db') : Quotes(store', db')[q].expiry = ExpiryOf[q]
    BY <1>2 DEF QuotesKept
  <2> HIDE DEF x
  <2>8. Due(x, quote')
    BY <1>1, <2>1, <2>4, <2>5 DEF Due
  <2> QED BY <2>2, <2>5, <2>6, <2>7, <2>8, QuotesMoved
<1>4. CASE End(t) /\ quote' = quote
  BY <1>2, <1>4, NotDue, QuotesQuiet DEF End
<1> QED BY <1>3, <1>4, PostMintDoes

\* Calls that leave the mint quotes alone.
OtherCalls == {"add_proofs", "remove_proofs", "set_proof_state", "increment_keyset_counter",
               "remove_melt_quote"}

\* A task that only writes proofs and counters removes no quote.
LEMMA DueWriting ==
    ASSUME NEW x, NEW qs, x.at \notin {"unpaid", "paid", "answered"},
           \A c \in ToSet(x.todo) : c.call \in OtherCalls
    PROVE  Due(x, qs)
BY DEF Due, OtherCalls

\* Nor does one that has nothing to write.
LEMMA DueFresh ==
    ASSUME NEW x, NEW qs, x.at \notin {"unpaid", "paid", "answered"}, x.todo = <<>>
    PROVE  Due(x, qs)
BY DEF Due, ToSet

\* A step that moves a task within its writes, or to a request.
LEMMA SwapKeepsQuotes ==
    ASSUME TypeOK, QuotesKept, NEW t \in Tasks, NEW base \in TaskStates, base.todo = <<>>,
           SwapBegun(t, base), OnlyTask
    PROVE  QuotesKept'
<1>1. PICK k \in ToSet(Chain), outs \in Seq(Outputs), ins \in Purses, want \in Int \cup {None},
           cond \in Locks \cup {None} :
        Goto(t, [base EXCEPT !.at = "post", !.k = k, !.ins = ins, !.want = want,
                             !.cond = cond, !.outs = outs])
  BY DEF SwapBegun
<1> DEFINE x == [base EXCEPT !.at = "post", !.k = k, !.ins = ins, !.want = want,
                             !.cond = cond, !.outs = outs]
<1>2. x.at = "post" /\ x.todo = <<>>
  BY DEF TaskStates
<1>3. Goto(t, x)
  BY <1>1
<1> HIDE DEF x
<1>4. UNCHANGED <<store, quote, clock, wiped>> /\ Quotes(store, db') = Quotes(store, db)
  BY DEF SwapBegun, Refreshed, OnlyTask, mintVars, historyVars
<1> QED BY <1>2, <1>3, <1>4, DueFresh, QuotesQuiet

\* The fields of an idle task.
LEMMA IdleFields ==
    /\ Idle.op = "idle" /\ Idle.at = "idle" /\ Idle.id = None /\ Idle.ins = {} /\ Idle.outs = <<>>
    /\ Idle.held = {} /\ Idle.todo = <<>> /\ Idle.next = "finish" /\ Idle.rest = <<>>
BY DEF Idle

\* Wallet::mint keeps the quote until its proofs are signed.
LEMMA MintKeepsQuotes ==
    ASSUME TypeOK, QuotesKept, NEW t \in Tasks, CheckedPaid(t) \/ Mint(t)
    PROVE  QuotesKept'
<1>1. UNCHANGED <<store, quote, clock, wiped>>
  BY DEF CheckedPaid, Mint, OnlyTask, mintVars, historyVars
<1>2. /\ Refreshed(store, db, db')
      /\ \/ Goto(t, Idle)
         \/ \E src, cond, k, outs : Goto(t, [Idle EXCEPT !.op = "mint", !.at = "post", !.id = src,
                                             !.k = k, !.cond = cond, !.outs = outs])
  BY CheckedPaidDoes, MintDoes DEF End
<1>3. Quotes(store, db') = Quotes(store, db)
  BY <1>2 DEF Refreshed
<1>4. CASE Goto(t, Idle)
  BY <1>1, <1>3, <1>4, NotDue, QuotesQuiet
<1>5. ASSUME NEW src, NEW cond, NEW k, NEW outs,
             Goto(t, [Idle EXCEPT !.op = "mint", !.at = "post", !.id = src, !.k = k, !.cond = cond,
                                  !.outs = outs])
      PROVE  QuotesKept'
  <2> DEFINE x == [Idle EXCEPT !.op = "mint", !.at = "post", !.id = src, !.k = k, !.cond = cond,
                               !.outs = outs]
  <2>1. x.at = "post" /\ x.todo = <<>>
    BY DEF Idle
  <2>2. Goto(t, x)
    BY <1>5
  <2> HIDE DEF x
  <2> QED BY <1>1, <1>3, <2>1, <2>2, DueFresh, QuotesQuiet
<1> QED BY <1>2, <1>4, <1>5

\* The row goes only after the mint has issued the quote.
LEMMA AnsweredMintKeepsQuotes ==
    ASSUME TypeOK, QuotesKept, NEW t \in Tasks, AnsweredMint(t)
    PROVE  QuotesKept'
<1> DEFINE now == task[t]
<1>1. now \in TaskStates /\ now.op = "mint" /\ now.at = "answered" /\ Due(now, quote)
  BY NowType DEF AnsweredMint, QuotesKept
<1>2. PICK todo \in Seq(Calls) :
        /\ Goto(t, [now EXCEPT !.at = "write", !.todo = todo])
        /\ \A c \in ToSet(todo) : c.call = "remove_mint_quote" => c.x = now.id
  BY AnsweredMintDoes
<1> DEFINE x == [now EXCEPT !.at = "write", !.todo = todo]
<1>3. Goto(t, x)
  BY <1>2
<1>4. x.at = "write" /\ x.todo = todo
  BY <1>1 DEF TaskStates
<1> HIDE DEF x
<1>5. Due(x, quote)
  BY <1>1, <1>2, <1>4 DEF Due
<1>6. UNCHANGED <<store, quote, clock, wiped>> /\ Quotes(store, db') = Quotes(store, db)
  BY DEF AnsweredMint, OnlyTask, mintVars, historyVars
<1> QED BY <1>3, <1>5, <1>6, QuotesQuiet

\* PostSwap keeps the rows of paid quotes.
LEMMA PostSwapKeepsQuotes ==
    ASSUME TypeOK, QuotesKept, NEW t \in Tasks, PostSwap(t)
    PROVE  QuotesKept'
<1> DEFINE now == task[t]
           x == [now EXCEPT !.at = "answered"]
<1>1. now \in TaskStates /\ now.op # "mint" /\ Due(now, quote)
  BY NowType DEF PostSwap, QuotesKept
<1>2. UNCHANGED <<store, wiped, clock, db, quote>>
  BY DEF PostSwap
<1>3. x.op = now.op /\ x.at = "answered" /\ x.todo = now.todo
  BY <1>1 DEF TaskStates
<1>4. Goto(t, x) \/ Goto(t, Idle)
  BY PostSwapDoes DEF End
<1> HIDE DEF now, x
<1>5. Due(x, quote)
  BY <1>1, <1>3 DEF Due
<1> QED BY <1>2, <1>4, <1>5, NotDue, QuotesQuiet

\* AnsweredSwap keeps the rows of paid quotes.
LEMMA AnsweredSwapKeepsQuotes ==
    ASSUME TypeOK, QuotesKept, NEW t \in Tasks, AnsweredSwap(t)
    PROVE  QuotesKept'
<1> DEFINE now == task[t]
<1>1. now \in TaskStates
  BY NowType
<1>2. PICK todo \in Seq(Calls), held \in OwnPurses :
        /\ Goto(t, [now EXCEPT !.at = "write", !.held = held, !.todo = todo])
        /\ \A c \in ToSet(todo) :
             c.call \in {"increment_keyset_counter", "add_proofs", "set_proof_state"}
  BY AnsweredSwapDoes
<1> DEFINE x == [now EXCEPT !.at = "write", !.held = held, !.todo = todo]
<1>3. Goto(t, x)
  BY <1>2
<1>4. x.at = "write" /\ x.todo = todo
  BY <1>1 DEF TaskStates
<1> HIDE DEF x
<1>5. Due(x, quote)
  BY <1>2, <1>4, DueWriting DEF OtherCalls
<1>6. UNCHANGED <<store, quote, clock, wiped>> /\ Quotes(store, db') = Quotes(store, db)
  BY AnsweredSwapDoes DEF AnsweredSwap, mintVars, Refreshed
<1> QED BY <1>3, <1>5, <1>6, QuotesQuiet

\* AnsweredMelt keeps the rows of paid quotes.
LEMMA AnsweredMeltKeepsQuotes ==
    ASSUME TypeOK, QuotesKept, NEW t \in Tasks, AnsweredMelt(t)
    PROVE  QuotesKept'
<1> DEFINE now == task[t]
<1>1. now \in TaskStates
  BY NowType
<1>2. PICK todo \in Seq(Calls) :
        /\ Goto(t, [now EXCEPT !.at = "write", !.todo = todo])
        /\ \A c \in ToSet(todo) : c.call \in {"increment_keyset_counter", "add_proofs",
                                              "remove_melt_quote", "remove_proofs"}
  BY AnsweredMeltDoes
<1> DEFINE x == [now EXCEPT !.at = "write", !.todo = todo]
<1>3. Goto(t, x)
  BY <1>2
<1>4. x.at = "write" /\ x.todo = todo
  BY <1>1 DEF TaskStates
<1> HIDE DEF x
<1>5. Due(x, quote)
  BY <1>2, <1>4, DueWriting DEF OtherCalls
<1>6. UNCHANGED <<store, quote, clock, wiped>> /\ Quotes(store, db') = Quotes(store, db)
  BY AnsweredMeltDoes DEF AnsweredMelt, mintVars, Refreshed
<1> QED BY <1>3, <1>5, <1>6, QuotesQuiet

\* Send keeps the rows of paid quotes.
LEMMA SendKeepsQuotes ==
    ASSUME TypeOK, QuotesKept, NEW t \in Tasks, Swap(t) \/ Send(t) \/ Melt(t)
    PROVE  QuotesKept'
<1>0. OnlyTask /\ Idle \in TaskStates
  BY IdleType DEF Swap, Send, Melt
<1>1. CASE Swap(t)
  <2> DEFINE base == [Idle EXCEPT !.op = "swap"]
  <2>1. base \in TaskStates /\ base.todo = <<>>
    <3>1. "swap" \in OpNames
      BY DEF OpNames
    <3> QED BY <1>0, <3>1, IdleFields DEF TaskStates
  <2>2. SwapBegun(t, base)
    BY <1>1, SwapDoes
  <2> HIDE DEF base
  <2> QED BY <1>0, <2>1, <2>2, SwapKeepsQuotes
<1>2. CASE Send(t)
  <2>1. ASSUME NEW locked \in OwnPurses,
               SwapBegun(t, [Idle EXCEPT !.op = "send", !.next = "hand", !.held = locked])
        PROVE  QuotesKept'
    <3> DEFINE base == [Idle EXCEPT !.op = "send", !.next = "hand", !.held = locked]
    <3>1. base \in TaskStates /\ base.todo = <<>>
      <4>1. "send" \in OpNames /\ "hand" \in Nexts
        BY DEF OpNames, Nexts
      <4> QED BY <1>0, <4>1, IdleFields DEF TaskStates
    <3>2. SwapBegun(t, base)
      BY <2>1
    <3> HIDE DEF base
    <3> QED BY <1>0, <3>1, <3>2, SwapKeepsQuotes
  <2>2. ASSUME NEW ps \in OwnPurses, Goto(t, Handing(ps)), Refreshed(store, db, db')
        PROVE  QuotesKept'
    <3> DEFINE x == Handing(ps)
               todo == Setting(ps, "Reserved")
    <3>1. \A c \in ToSet(todo) : c.call = "set_proof_state"
      BY OwnPursesArePurses, SettingCalls DEF States
    <3>2. x.at = "write" /\ x.todo = todo
      BY DEF Handing, Idle
    <3> HIDE DEF x, todo
    <3>3. Due(x, quote)
      BY <3>1, <3>2, DueWriting DEF OtherCalls
    <3>4. UNCHANGED <<store, quote, clock, wiped>> /\ Quotes(store, db') = Quotes(store, db)
      BY <1>0, <2>2 DEF OnlyTask, mintVars, historyVars, Refreshed
    <3> QED BY <2>2, <3>3, <3>4, QuotesQuiet DEF x
  <2> QED BY <1>2, <2>1, <2>2, SendDoes
<1>3. CASE Melt(t)
  <2>1. ASSUME NEW q \in MeltQuotes, SwapBegun(t, [Idle EXCEPT !.op = "melt", !.next = "melt", !.id = q])
        PROVE  QuotesKept'
    <3> DEFINE base == [Idle EXCEPT !.op = "melt", !.next = "melt", !.id = q]
    <3>1. base \in TaskStates /\ base.todo = <<>>
      <4>1. "melt" \in OpNames /\ "melt" \in Nexts /\ q \in Subjects
        BY DEF OpNames, Nexts, Subjects
      <4> QED BY <1>0, <4>1, IdleFields DEF TaskStates
    <3>2. SwapBegun(t, base)
      BY <2>1
    <3> HIDE DEF base
    <3> QED BY <1>0, <3>1, <3>2, SwapKeepsQuotes
  <2>2. ASSUME NEW q \in MeltQuotes, NEW ps \in OwnPurses, Refreshed(store, db, db'),
               Goto(t, [Idle EXCEPT !.op = "melt", !.next = "melt", !.at = "write", !.id = q, !.held = ps])
        PROVE  QuotesKept'
    <3> DEFINE x == [Idle EXCEPT !.op = "melt", !.next = "melt", !.at = "write", !.id = q, !.held = ps]
    <3>1. x.at = "write" /\ x.todo = <<>> /\ Goto(t, x)
      BY <2>2 DEF Idle
    <3> HIDE DEF x
    <3>2. UNCHANGED <<store, quote, clock, wiped>> /\ Quotes(store, db') = Quotes(store, db)
      BY <1>0, <2>2 DEF OnlyTask, mintVars, historyVars, Refreshed
    <3> QED BY <3>1, <3>2, DueFresh, QuotesQuiet
  <2> QED BY <1>3, <2>1, <2>2, MeltDoes
<1> QED BY <1>1, <1>2, <1>3

\* Melt keeps the rows of paid quotes.
LEMMA MeltKeepsQuotes ==
    ASSUME TypeOK, QuotesKept, NEW t \in Tasks, BeginMelt(t) \/ PostMelt(t)
    PROVE  QuotesKept'
<1> DEFINE now == task[t]
<1>0. now \in TaskStates /\ Control(now) /\ Due(now, quote)
  BY NowType DEF QuotesKept
<1>1. CASE BeginMelt(t)
  <2>1. PICK k \in ToSet(Chain), outs \in Seq(Outputs) :
          Goto(t, [Idle EXCEPT !.op = "melt", !.at = "post_melt", !.id = now.id, !.k = k,
                               !.ins = now.held, !.outs = outs])
    BY <1>1, BeginMeltDoes
  <2> DEFINE x == [Idle EXCEPT !.op = "melt", !.at = "post_melt", !.id = now.id, !.k = k,
                               !.ins = now.held, !.outs = outs]
  <2>2. x.at = "post_melt" /\ x.todo = <<>> /\ Goto(t, x)
    BY <2>1 DEF Idle
  <2> HIDE DEF x
  <2>3. UNCHANGED <<store, quote, clock, wiped>> /\ Quotes(store, db') = Quotes(store, db)
    BY <1>1, BeginMeltDoes DEF BeginMelt, OnlyTask, mintVars, historyVars, Refreshed
  <2> QED BY <2>2, <2>3, DueFresh, QuotesQuiet
<1>2. CASE PostMelt(t)
  <2>0. UNCHANGED <<store, clock, wiped, db>> /\ now.op = "melt"
    BY <1>2 DEF PostMelt, historyVars
  <2>1. CASE End(t) /\ quote' = quote
    BY <2>0, <2>1, NotDue, QuotesQuiet DEF End
  <2>2. ASSUME NEW change \in Seq(Outputs), quote' = [quote EXCEPT ![now.id] = "issued"],
               Goto(t, [now EXCEPT !.at = "melted", !.outs = change])
        PROVE  QuotesKept'
    <3> DEFINE x == [now EXCEPT !.at = "melted", !.outs = change]
    <3>1. x.op = now.op /\ x.at = "melted" /\ x.todo = now.todo /\ Goto(t, x)
      BY <1>0, <2>2 DEF TaskStates
    <3> HIDE DEF now
    <3>2. now.id \in MeltQuotes /\ now.id \in DOMAIN quote
      BY <1>0, <2>0 DEF Control, TypeOK
    <3>3. \A q : quote[q] = "issued" => quote'[q] = "issued"
      BY <2>2, <3>2
    <3>4. \A q \in MintQuotes : quote'[q] = quote[q]
      BY <2>2, <3>2, WalletAssumption
    <3>5. \A q \in MintQuotes : Expected(q)'
      BY <2>0, <3>4 DEF QuotesKept, Expected
    <3>6. \A q \in DOMAIN Quotes(store', db') : Quotes(store', db')[q].expiry = ExpiryOf[q]
      BY <2>0 DEF QuotesKept
    <3> HIDE DEF x
    <3>7. Due(x, quote')
      BY <1>0, <3>1, <3>3 DEF Due
    <3> QED BY <3>1, <3>3, <3>5, <3>6, <3>7, QuotesMoved
  <2> QED BY <1>2, <2>1, <2>2, PostMeltDoes
<1> QED BY <1>1, <1>2

\* Receive keeps the rows of paid quotes.
LEMMA ReceiveKeepsQuotes ==
    ASSUME TypeOK, QuotesKept, NEW t \in Tasks,
           Receive(t) \/ BeginEntry(t) \/ AnsweredReceive(t) \/ StoreReceived(t)
    PROVE  QuotesKept'
<1> DEFINE now == task[t]
<1>0. now \in TaskStates /\ Control(now)
  BY NowType
<1>1. UNCHANGED <<store, quote, clock, wiped>> /\ OnlyTask
  BY DEF Receive, BeginEntry, AnsweredReceive, StoreReceived, OnlyTask, mintVars, historyVars
<1>2. CASE Receive(t)
  <2>1. PICK rest \in Seq(Purses) :
          Goto(t, [Idle EXCEPT !.op = "receive", !.at = "write", !.next = "entry", !.rest = rest])
    BY <1>2, ReceiveDoes
  <2> DEFINE x == [Idle EXCEPT !.op = "receive", !.at = "write", !.next = "entry", !.rest = rest]
  <2>2. x.at = "write" /\ x.todo = <<>> /\ Goto(t, x)
    BY <2>1 DEF Idle
  <2> HIDE DEF x
  <2>3. db' = db
    BY <1>2 DEF Receive
  <2> QED BY <1>1, <2>2, <2>3, DueFresh, QuotesQuiet
<1>3. CASE BeginEntry(t)
  <2> DEFINE base == [now EXCEPT !.rest = Tail(@)]
  <2>1. now.op = "receive" /\ now.rest \in Seq(Purses) /\ now.rest # <<>> /\ now.todo = <<>>
    BY <1>0, <1>3 DEF BeginEntry, Done, Control
  <2>2. SwapBegun(t, base)
    BY <1>3, BeginEntryDoes
  <2> HIDE DEF now
  <2>3. base \in TaskStates /\ base.todo = <<>>
    <3>1. Tail(now.rest) \in Remainders
      BY <2>1 DEF Remainders
    <3> QED BY <1>0, <2>1, <3>1 DEF TaskStates
  <2> HIDE DEF base
  <2> QED BY <1>1, <2>2, <2>3, SwapKeepsQuotes
<1>4. CASE AnsweredReceive(t)
  <2>1. PICK held \in OwnPurses, todo \in Seq(Calls) :
          /\ Goto(t, [now EXCEPT !.at = "write", !.ins = {}, !.outs = <<>>, !.held = held, !.todo = todo])
          /\ \A c \in ToSet(todo) : c.call = "increment_keyset_counter"
    BY <1>4, AnsweredReceiveDoes
  <2> DEFINE x == [now EXCEPT !.at = "write", !.ins = {}, !.outs = <<>>, !.held = held, !.todo = todo]
  <2>2. x.at = "write" /\ x.todo = todo /\ Goto(t, x)
    BY <1>0, <2>1 DEF TaskStates
  <2> HIDE DEF x
  <2>3. db' = db /\ Due(x, quote)
    BY <1>4, <2>1, <2>2, DueWriting DEF AnsweredReceive, OtherCalls
  <2> QED BY <1>1, <2>2, <2>3, QuotesQuiet
<1>5. CASE StoreReceived(t)
  <2>1. PICK todo \in Seq(Calls) :
          /\ Goto(t, [now EXCEPT !.next = "finish", !.todo = todo])
          /\ \A c \in ToSet(todo) : c.call = "add_proofs"
    BY <1>5, StoreReceivedDoes
  <2> DEFINE x == [now EXCEPT !.next = "finish", !.todo = todo]
  <2>2. x.at = "write" /\ x.todo = todo /\ Goto(t, x)
    BY <1>0, <1>5, <2>1 DEF TaskStates, StoreReceived, Done
  <2> HIDE DEF x
  <2>3. db' = db /\ Due(x, quote)
    BY <1>5, <2>1, <2>2, DueWriting DEF StoreReceived, OtherCalls
  <2> QED BY <1>1, <2>2, <2>3, QuotesQuiet
<1> QED BY <1>2, <1>3, <1>4, <1>5

\* Restore keeps the rows of paid quotes.
LEMMA RestoreKeepsQuotes ==
    ASSUME TypeOK, QuotesKept, NEW t \in Tasks,
           Restore(t) \/ RestoreBatch(t) \/ RestoreUnspent(t) \/ RestoreNextBatch(t) \/ CheckPending(t)
    PROVE  QuotesKept'
<1> DEFINE now == task[t]
<1>0. now \in TaskStates /\ Due(now, quote)
  BY NowType DEF QuotesKept
<1>1. UNCHANGED <<store, quote, clock, wiped>>
  BY DEF Restore, RestoreBatch, RestoreUnspent, RestoreNextBatch, CheckPending, OnlyTask, mintVars,
         historyVars
<1>2. CASE Restore(t)
  <2>1. PICK rest \in Seq(ToSet(Chain)) :
          Goto(t, [Idle EXCEPT !.op = "restore", !.at = "batch", !.rest = rest])
    BY <1>2, RestoreDoes
  <2> DEFINE x == [Idle EXCEPT !.op = "restore", !.at = "batch", !.rest = rest]
  <2>2. x.at = "batch" /\ x.todo = <<>> /\ Goto(t, x)
    BY <2>1 DEF Idle
  <2> HIDE DEF x
  <2>3. Quotes(store, db') = Quotes(store, db)
    BY <1>2, RestoreDoes DEF Refreshed
  <2> QED BY <1>1, <2>2, <2>3, DueFresh, QuotesQuiet
<1>3. CASE RestoreBatch(t)
  <2>0. db' = db /\ now.at = "batch"
    BY <1>3 DEF RestoreBatch
  <2>1. ASSUME NEW k \in ToSet(Chain), NEW outs \in Seq(Outputs), NEW todo \in Seq(Calls),
               Goto(t, [now EXCEPT !.at = "write", !.k = k, !.outs = outs, !.next = "state", !.todo = todo]),
               \A c \in ToSet(todo) : c.call = "increment_keyset_counter"
        PROVE  QuotesKept'
    <3> DEFINE x == [now EXCEPT !.at = "write", !.k = k, !.outs = outs, !.next = "state", !.todo = todo]
    <3>1. x.at = "write" /\ x.todo = todo /\ Goto(t, x)
      BY <1>0, <2>1 DEF TaskStates
    <3> HIDE DEF x
    <3>2. Due(x, quote)
      BY <2>1, <3>1, DueWriting DEF OtherCalls
    <3> QED BY <1>1, <2>0, <3>1, <3>2, QuotesQuiet
  <2>2. CASE Goto(t, [now EXCEPT !.from = @ + BatchSize, !.empty = @ + 1])
    <3> DEFINE x == [now EXCEPT !.from = @ + BatchSize, !.empty = @ + 1]
    <3>1. x.at = now.at /\ x.op = now.op /\ x.todo = now.todo /\ Goto(t, x)
      BY <1>0, <2>2 DEF TaskStates
    <3> HIDE DEF x, now
    <3>2. Due(x, quote)
      BY <1>0, <2>0, <3>1 DEF Due
    <3> QED BY <1>1, <2>0, <3>1, <3>2, QuotesQuiet
  <2>3. CASE Goto(t, [now EXCEPT !.rest = Tail(@), !.from = 0, !.empty = 0])
    <3> DEFINE x == [now EXCEPT !.rest = Tail(@), !.from = 0, !.empty = 0]
    <3>1. x.at = now.at /\ x.op = now.op /\ x.todo = now.todo /\ Goto(t, x)
      BY <1>0, <2>3 DEF TaskStates
    <3> HIDE DEF x, now
    <3>2. Due(x, quote)
      BY <1>0, <2>0, <3>1 DEF Due
    <3> QED BY <1>1, <2>0, <3>1, <3>2, QuotesQuiet
  <2> QED BY <1>3, <2>1, <2>2, <2>3, RestoreBatchDoes
<1>4. CASE RestoreUnspent(t)
  <2>1. PICK todo \in Seq(Calls) :
          /\ Goto(t, [now EXCEPT !.todo = todo, !.next = "batch"])
          /\ \A c \in ToSet(todo) : c.call = "add_proofs"
    BY <1>4, RestoreUnspentDoes
  <2> DEFINE x == [now EXCEPT !.todo = todo, !.next = "batch"]
  <2>2. x.at = "write" /\ x.todo = todo /\ Goto(t, x)
    BY <1>0, <1>4, <2>1 DEF TaskStates, RestoreUnspent, Done
  <2> HIDE DEF x
  <2>3. db' = db /\ Due(x, quote)
    BY <1>4, <2>1, <2>2, DueWriting DEF RestoreUnspent, OtherCalls
  <2> QED BY <1>1, <2>2, <2>3, QuotesQuiet
<1>5. CASE RestoreNextBatch(t)
  <2> DEFINE x == [now EXCEPT !.at = "batch", !.outs = <<>>, !.from = @ + BatchSize, !.empty = 0]
  <2>1. x.at = "batch" /\ x.todo = <<>> /\ Goto(t, x) /\ db' = db
    BY <1>0, <1>5 DEF TaskStates, RestoreNextBatch, Done
  <2> HIDE DEF x
  <2> QED BY <1>1, <2>1, DueFresh, QuotesQuiet
<1>6. CASE CheckPending(t)
  <2>1. PICK todo \in Seq(Calls) :
          /\ Goto(t, [Idle EXCEPT !.op = "pending", !.at = "write", !.todo = todo])
          /\ \A c \in ToSet(todo) : c.call = "remove_proofs"
    BY <1>6, CheckPendingDoes
  <2> DEFINE x == [Idle EXCEPT !.op = "pending", !.at = "write", !.todo = todo]
  <2>2. x.at = "write" /\ x.todo = todo /\ Goto(t, x)
    BY <2>1 DEF Idle
  <2> HIDE DEF x
  <2>3. db' = db /\ Due(x, quote)
    BY <1>6, <2>1, <2>2, DueWriting DEF CheckPending, OtherCalls
  <2> QED BY <1>1, <2>2, <2>3, QuotesQuiet
<1> QED BY <1>2, <1>3, <1>4, <1>5, <1>6

\* A write that removes a quote removes one that was minted.
LEMMA WriteKeepsQuotes ==
    ASSUME TypeOK, QuotesKept, NEW t \in Tasks, Write(t)
    PROVE  QuotesKept'
<1> DEFINE now == task[t]
<1>0. now \in TaskStates /\ Due(now, quote) /\ now.at = "write"
  BY NowType DEF QuotesKept, Write
<1>1. UNCHANGED <<store, quote, clock, wiped>>
  BY DEF Write, mintVars
<1>2. PICK c \in ToSet(now.todo), todo \in Seq(Calls) :
        /\ c \in Calls /\ Performed(db, c, db')
        /\ ToSet(now.todo) = {c} \cup ToSet(todo)
        /\ Goto(t, [now EXCEPT !.todo = todo]) \/ Fail(t)
  BY WriteDoes
<1>3. \E x : Goto(t, x) /\ Due(x, quote)
  <2>1. CASE Fail(t)
    BY <2>1, NotDue DEF Fail, End
  <2>2. CASE Goto(t, [now EXCEPT !.todo = todo])
    <3> DEFINE x == [now EXCEPT !.todo = todo]
    <3>1. x.at = "write" /\ x.todo = todo /\ Goto(t, x)
      BY <1>0, <2>2 DEF TaskStates
    <3> HIDE DEF x, now
    <3>2. Due(x, quote)
      BY <1>0, <1>2, <3>1 DEF Due
    <3> QED BY <3>1, <3>2
  <2> QED BY <1>2, <2>1, <2>2
<1>4. PICK x : Goto(t, x) /\ Due(x, quote)
  BY <1>3
<1>5. CASE c.call = "remove_mint_quote"
  <2> DEFINE id == c.x
  <2>1. quote[id] = "issued"
    BY <1>0, <1>2, <1>5 DEF Due
  <2>2. QuoteGone(store, db, db', id)
    BY <1>2, <1>5 DEF Performed
  <2>3. /\ DOMAIN Quotes(store', db') = DOMAIN Quotes(store, db) \ {id}
        /\ \A q \in DOMAIN Quotes(store', db') : Quotes(store', db')[q] = Quotes(store, db)[q]
    BY <1>1, <2>2 DEF QuoteGone
  <2> HIDE DEF id
  <2>4. \A q \in MintQuotes : Expected(q)'
    BY <1>1, <2>1, <2>3 DEF QuotesKept, Expected
  <2>5. \A q \in DOMAIN Quotes(store', db') : Quotes(store', db')[q].expiry = ExpiryOf[q]
    BY <2>3 DEF QuotesKept
  <2>6. Due(x, quote') /\ \A q : quote[q] = "issued" => quote'[q] = "issued"
    BY <1>1, <1>4
  <2> QED BY <1>4, <2>4, <2>5, <2>6, QuotesMoved
<1>6. CASE c.call # "remove_mint_quote"
  <2>1. Quotes(store, db') = Quotes(store, db)
    BY <1>2, <1>6 DEF Performed, Calls, CoinsPut, CoinsGone, CoinMarked
  <2> QED BY <1>1, <1>4, <2>1, QuotesQuiet
<1> QED BY <1>5, <1>6

\* Ending keeps the rows of paid quotes.
LEMMA EndingKeepsQuotes ==
    ASSUME TypeOK, QuotesKept, NEW t \in Tasks, Finish(t) \/ RestoreEnd(t) \/ HandOut(t) \/ Stop(t)
    PROVE  QuotesKept'
<1>1. Goto(t, Idle) /\ UNCHANGED <<store, db, quote, clock, wiped>>
  BY DEF Finish, RestoreEnd, HandOut, Stop, Fail, End, OnlyTask, mintVars, historyVars
<1> QED BY <1>1, NotDue, QuotesQuiet

\* What happens around the wallet: a quote is paid while its row is there.
LEMMA OutsideKeepsQuotes ==
    ASSUME TypeOK, QuotesKept,
           Crash \/ Rotate \/ QuotesExpire \/ (\E q \in MintQuotes : PayMintQuote(q))
           \/ (\E token \in tokens : Redeem(token))
    PROVE  QuotesKept'
<1>1. CASE Crash
  <2>1. UNCHANGED <<store, quote, clock>> /\ \A t \in Tasks : task'[t] = Idle
    BY <1>1 DEF Crash, mintVars
  <2>2. CASE Volatile(store)
    <3>1. wiped' = TRUE /\ db' = New(store)
      BY <1>1, <2>2 DEF Crash
    <3>2. DOMAIN Quotes(store', db') = {}
      BY <2>1, <3>1, NewStore DEF TypeOK
    <3> QED BY <2>1, <3>1, <3>2, NotDue DEF QuotesKept, Expected
  <2>3. CASE ~Volatile(store)
    <3>1. (~wiped' => ~wiped) /\ db' = db
      BY <1>1, <2>3 DEF Crash
    <3> QED BY <2>1, <3>1, NotDue DEF QuotesKept, Expected
  <2> QED BY <2>2, <2>3
<1>2. CASE Rotate
  BY <1>2, QuotesSame DEF Rotate, historyVars
<1>3. CASE QuotesExpire
  <2>1. UNCHANGED <<store, db, task, quote, wiped>> /\ clock < Late /\ clock' = Late
    BY <1>3 DEF QuotesExpire, mintVars, historyVars
  <2>2. \A q \in MintQuotes : Expected(q)'
    BY <2>1, WalletAssumption DEF QuotesKept, Expected, Late, TypeOK
  <2>3. \A q \in DOMAIN Quotes(store', db') : Quotes(store', db')[q].expiry = ExpiryOf[q]
    BY <2>1 DEF QuotesKept
  <2>4. \A q : quote[q] = "issued" => quote'[q] = "issued"
    BY <2>1
  <2> QED BY <2>1, <2>2, <2>3, <2>4, QuotesStill
<1>4. CASE \E q \in MintQuotes : PayMintQuote(q)
  <2>1. PICK q \in MintQuotes : quote[q] = "unpaid" /\ quote' = [quote EXCEPT ![q] = "paid"]
    BY <1>4 DEF PayMintQuote
  <2>2. UNCHANGED <<store, db, task, clock, wiped>>
    BY <1>4 DEF PayMintQuote, historyVars
  <2>3. \A x : quote[x] = "issued" => quote'[x] = "issued"
    BY <2>1
  <2>4. \A x \in MintQuotes : quote'[x] \in {"unpaid", "paid"} => quote[x] \in {"unpaid", "paid"}
    BY <2>1
  <2> QED BY <2>2, <2>3, <2>4, QuotesSame
<1>5. CASE \E token \in tokens : Redeem(token)
  BY <1>5, QuotesSame DEF Redeem, historyVars
<1> QED BY <1>1, <1>2, <1>3, <1>4, <1>5

\* At first no quote is paid.
LEMMA InitKeepsQuotes == Init => QuotesKept
<1> SUFFICES ASSUME Init PROVE QuotesKept
  OBVIOUS
<1>1. DOMAIN Quotes(store, db) = {}
  BY NewStore, WalletAssumption DEF Init
<1>2. \A q \in MintQuotes : quote[q] \notin {"unpaid", "paid"}
  BY WalletAssumption DEF Init
<1>3. \A t \in Tasks : Due(task[t], quote)
  BY NotDue DEF Init
<1> QED BY <1>1, <1>2, <1>3 DEF QuotesKept, Expected

\* So every step of a task keeps them,
LEMMA TaskStepKeepsQuotes ==
    ASSUME TypeOK, QuotesKept, NEW t \in Tasks, TaskStep(t)
    PROVE  QuotesKept'
<1>1. CASE MintQuote(t) \/ MeltQuote(t) \/ MeltQuoteStatus(t) \/ AddMintCalled(t) \/ RefreshMintKeys(t)
  BY <1>1, MintQuoteKeepsQuotes
<1>2. CASE CheckMintQuote(t) \/ CheckedUnpaid(t) \/ CheckedPaid(t) \/ Mint(t)
  BY <1>2, CheckKeepsQuotes, MintKeepsQuotes
<1>3. CASE PostMint(t) \/ AnsweredMint(t)
  BY <1>3, PostMintKeepsQuotes, AnsweredMintKeepsQuotes
<1>4. CASE PostSwap(t) \/ AnsweredSwap(t)
  BY <1>4, PostSwapKeepsQuotes, AnsweredSwapKeepsQuotes
<1>5. CASE Swap(t) \/ Send(t) \/ Melt(t)
  BY <1>5, SendKeepsQuotes
<1>6. CASE BeginMelt(t) \/ PostMelt(t) \/ AnsweredMelt(t)
  BY <1>6, MeltKeepsQuotes, AnsweredMeltKeepsQuotes
<1>7. CASE Receive(t) \/ BeginEntry(t) \/ AnsweredReceive(t) \/ StoreReceived(t)
  BY <1>7, ReceiveKeepsQuotes
<1>8. CASE Restore(t) \/ RestoreBatch(t) \/ RestoreUnspent(t) \/ RestoreNextBatch(t) \/ CheckPending(t)
  BY <1>8, RestoreKeepsQuotes
<1>9. CASE Write(t)
  BY <1>9, WriteKeepsQuotes
<1>10. CASE Finish(t) \/ RestoreEnd(t) \/ HandOut(t) \/ Stop(t)
  BY <1>10, EndingKeepsQuotes
<1> QED BY <1>1, <1>2, <1>3, <1>4, <1>5, <1>6, <1>7, <1>8, <1>9, <1>10 DEF TaskStep

\* and every step of the system.
LEMMA StepKeepsQuotes ==
    ASSUME TypeOK, QuotesKept, [Next]_vars
    PROVE  QuotesKept'
<1>1. CASE \E t \in Tasks : TaskStep(t)
  BY <1>1, TaskStepKeepsQuotes
<1>2. CASE Crash \/ Rotate \/ QuotesExpire \/ (\E q \in MintQuotes : PayMintQuote(q))
           \/ (\E token \in tokens : Redeem(token))
  BY <1>2, OutsideKeepsQuotes
<1>3. CASE UNCHANGED vars
  BY <1>3, QuotesSame DEF vars, mintVars, historyVars
<1> QED BY <1>1, <1>2, <1>3 DEF Next

\* A row that is kept is what the wallet reads.
LEMMA KeptIsRead ==
    ASSUME TypeOK, QuotesKept
    PROVE  PaidQuoteKept
<1> SUFFICES ASSUME NEW q \in MintQuotes, quote[q] = "paid", ExpiryOf[q] > clock, ~wiped
             PROVE  GetMintQuote(store, db, q) # None
  BY DEF PaidQuoteKept
<1>1. q \in DOMAIN Quotes(store, db)
  BY DEF QuotesKept, Expected
<1>2. GetMintQuote(store, db, q) = Quotes(store, db)[q]
  BY <1>1, QuoteRead DEF Lookup, TypeOK
<1>3. Quotes(store, db)[q] \in MintQuoteRows
  BY <1>1 DEF TypeOK, Sound, QuotesOK
<1> QED BY <1>2, <1>3, NoneAssumption

\* However operations overlap, and whatever fails between two of their steps,
\* the wallet remembers a quote that was paid until it has minted it or the
\* quote expires, on every store that survives a restart and on the memory
\* store until the process ends.
THEOREM PaidQuotesAreKept == Spec => []PaidQuoteKept
<1>1. Init => TypeOK /\ QuotesKept
  BY InitType, InitKeepsQuotes
<1>2. TypeOK /\ QuotesKept /\ [Next]_vars => (TypeOK /\ QuotesKept)'
  BY StepType, StepKeepsQuotes
<1>3. TypeOK /\ QuotesKept => PaidQuoteKept
  BY KeptIsRead
<1> QED BY <1>1, <1>2, <1>3, PTL DEF Spec

-----------------------------------------------------------------------------
(* No coin vanishes *)

\* What a task has at stake is told by its state.
LEMMA StakeIsAtStake == \A t \in Tasks : AtStake(t) = Stake(task[t])
BY DEF AtStake, Stake

\* What is settled stays so when more is spent and nothing unspent is removed.
LEMMA SettledStays ==
    ASSUME NEW x, NEW g, NEW k, NEW h, NEW m, Settled(x, g, k), g \subseteq h, k \subseteq m \cup h
    PROVE  Settled(x, h, m)
<1>1. \A s : SafeIn(s, x, g, k) => SafeIn(s, x, h, m)
  BY DEF SafeIn
<1> QED BY <1>1 DEF Settled

\* An idle task has nothing at stake.
LEMMA IdleSettled == Stake(Idle) = {} /\ \A g, k : Settled(Idle, g, k)
<1>1. Secrets({}) = {} /\ ToSet(<<>>) = {} /\ \A s : ~Removes({}, s)
  BY DEF Secrets, ToSet, Removes
<1> QED BY <1>1, IdleFields DEF Stake, Settled

\* A step that moves one task keeps the coins when ...
LEMMA CoinsMoved ==
    ASSUME TypeOK, CoinsKept, NEW t \in Tasks, NEW x, Goto(t, x), Settled(x, spent', Keys'),
           spent \subseteq spent', DOMAIN signed' \subseteq DOMAIN signed \cup Stake(x),
           Keys \subseteq Keys' \cup spent', TokenSecrets \subseteq TokenSecrets' \cup spent',
           adrift \subseteq adrift' \cup Stake(x),
           Stake(task[t]) \subseteq adrift' \cup Stake(x) \cup Keys' \cup spent'
    PROVE  CoinsKept'
<1>1. task'[t] = x /\ \A u \in Tasks : u # t => task'[u] = task[u]
  BY GotoDoes DEF TypeOK
<1>2. \A u \in Tasks : Settled(task[u], spent', Keys')
  BY SettledStays DEF CoinsKept
<1>3. \A u \in Tasks : Settled(task'[u], spent', Keys')
  BY <1>1, <1>2
<1>4. Somewhere'
  <2> SUFFICES ASSUME NEW s \in DOMAIN signed' \ spent'
               PROVE  \/ s \in adrift' \/ s \in TokenSecrets' \/ s \in Secrets(ForeignCoins)
                      \/ s \in Keys' \/ \E u \in Tasks : s \in Stake(task'[u])
    BY DEF Somewhere
  <2>1. s \in Stake(x) => \E u \in Tasks : s \in Stake(task'[u])
    BY <1>1
  <2>2. CASE s \in DOMAIN signed \ spent
    <3>1. \/ s \in adrift \/ s \in TokenSecrets \/ s \in Secrets(ForeignCoins) \/ s \in Keys
          \/ \E u \in Tasks : s \in Stake(task[u])
      BY <2>2 DEF CoinsKept, Somewhere
    <3>2. ASSUME NEW u \in Tasks, s \in Stake(task[u])
          PROVE  \/ s \in adrift' \/ s \in Stake(x) \/ s \in Keys'
                 \/ \E v \in Tasks : s \in Stake(task'[v])
      <4>1. CASE u = t
        BY <3>2, <4>1
      <4>2. CASE u # t
        BY <1>1, <3>2, <4>2
      <4> QED BY <4>1, <4>2
    <3> QED BY <2>1, <3>1, <3>2
  <2>3. CASE s \notin DOMAIN signed \ spent
    BY <2>1, <2>3
  <2> QED BY <2>2, <2>3
<1> QED BY <1>3, <1>4 DEF CoinsKept

\* A step of a task that leaves the rows and the mint alone.
LEMMA CoinsQuiet ==
    ASSUME TypeOK, CoinsKept, NEW t \in Tasks, NEW x, Goto(t, x), Settled(x, spent, Keys),
           UNCHANGED <<store, spent, signed, tokens>>, Coins(store, db') = Coins(store, db),
           adrift \subseteq adrift' \cup Stake(x),
           Stake(task[t]) \subseteq adrift' \cup Stake(x) \cup Keys \cup spent
    PROVE  CoinsKept'
<1>1. Keys' = Keys /\ TokenSecrets' = TokenSecrets
  BY DEF Keys, TokenSecrets
<1> QED BY <1>1, CoinsMoved

\* A step that moves none.
LEMMA CoinsStill ==
    ASSUME CoinsKept, UNCHANGED <<store, task, spent, signed, tokens, adrift>>,
           Coins(store, db') = Coins(store, db)
    PROVE  CoinsKept'
<1>1. Keys' = Keys /\ TokenSecrets' = TokenSecrets
  BY DEF Keys, TokenSecrets
<1> QED BY <1>1 DEF CoinsKept, Somewhere

\* An operation that has nothing at stake ends.
LEMMA CoinsEnd ==
    ASSUME TypeOK, CoinsKept, NEW t \in Tasks, End(t),
           UNCHANGED <<store, spent, signed, tokens>>, Coins(store, db') = Coins(store, db),
           adrift \subseteq adrift', Stake(task[t]) \subseteq adrift' \cup Keys \cup spent
    PROVE  CoinsKept'
BY IdleSettled, CoinsQuiet DEF End

\* A task that is idle, checks a quote or waits for the mint has no coins at
\* stake, a receive apart.
LEMMA NothingAtStake ==
    ASSUME NEW x, x.at \notin {"answered", "melted", "write"}, x.op # "receive"
    PROVE  Stake(x) = {}
BY DEF Stake

\* There is nothing in an empty list.
LEMMA NothingIn == Secrets({}) = {} /\ ToSet(<<>>) = {} /\ \A s : ~Removes({}, s)
BY DEF Secrets, ToSet, Removes

\* Calls that remove no coins.
LEMMA RemovesNone ==
    ASSUME NEW cs, \A c \in cs : c.call # "remove_proofs"
    PROVE  \A s : ~Removes(cs, s)
BY DEF Removes

\* The operations that store quotes and keysets only.
LEMMA MintQuoteKeepsCoins ==
    ASSUME TypeOK, CoinsKept, NEW t \in Tasks,
           MintQuote(t) \/ MeltQuote(t) \/ MeltQuoteStatus(t) \/ AddMintCalled(t) \/ RefreshMintKeys(t)
    PROVE  CoinsKept'
<1>1. UNCHANGED <<store, task, spent, signed, tokens, adrift>>
  BY DEF MintQuote, MeltQuote, MeltQuoteStatus, AddMintCalled, RefreshMintKeys, OnlyTask, mintVars,
         historyVars
<1>2. CASE MintQuote(t)
  BY <1>1, <1>2, MintQuoteDoes, CoinsStill DEF QuotePut
<1>3. CASE MeltQuote(t)
  BY <1>1, <1>3, MeltQuoteDoes, CoinsStill
<1>4. CASE MeltQuoteStatus(t)
  BY <1>1, <1>4, MeltQuoteStatusDoes, CoinsStill
<1>5. CASE AddMintCalled(t) \/ RefreshMintKeys(t)
  BY <1>1, <1>5, AddMintDoes, CoinsStill DEF Refreshed
<1> QED BY <1>2, <1>3, <1>4, <1>5

\* A request that begins with a swap puts nothing at stake yet.
LEMMA SwapKeepsCoins ==
    ASSUME TypeOK, CoinsKept, NEW t \in Tasks, NEW base \in TaskStates, base.todo = <<>>,
           SwapBegun(t, base), OnlyTask, base.op = "receive" => base.held = task[t].held,
           Stake(task[t]) = IF base.op = "receive" THEN Secrets(task[t].held) ELSE {}
    PROVE  CoinsKept'
<1>1. PICK k \in ToSet(Chain), outs \in Seq(Outputs), ins \in Purses, want \in Int \cup {None},
           cond \in Locks \cup {None} :
        Goto(t, [base EXCEPT !.at = "post", !.k = k, !.ins = ins, !.want = want,
                             !.cond = cond, !.outs = outs])
  BY DEF SwapBegun
<1> DEFINE x == [base EXCEPT !.at = "post", !.k = k, !.ins = ins, !.want = want,
                             !.cond = cond, !.outs = outs]
<1>2. x.at = "post" /\ x.todo = <<>> /\ x.op = base.op /\ x.held = base.held
  BY DEF TaskStates
<1>3. Goto(t, x)
  BY <1>1
<1> HIDE DEF x
<1>4. UNCHANGED <<store, spent, signed, tokens, adrift>> /\ Coins(store, db') = Coins(store, db)
  BY DEF SwapBegun, Refreshed, OnlyTask, mintVars, historyVars
<1>5. Settled(x, spent, Keys)
  BY <1>2, NothingIn DEF Settled
<1>6. Stake(task[t]) = Stake(x)
  BY <1>2 DEF Stake
<1> QED BY <1>3, <1>4, <1>5, <1>6, CoinsQuiet

\* The task of an operation that begins was idle.
LEMMA BeginsIdle ==
    ASSUME TypeOK, NEW t \in Tasks, task[t].op = "idle"
    PROVE  Stake(task[t]) = {}
BY IdleSettled DEF TypeOK, Control

\* A mint request takes no proofs.
LEMMA IssueKeepsCoins ==
    ASSUME TypeOK, CoinsKept, NEW t \in Tasks, CheckedPaid(t) \/ Mint(t)
    PROVE  CoinsKept'
<1>1. UNCHANGED <<store, spent, signed, tokens, adrift>>
  BY DEF CheckedPaid, Mint, OnlyTask, mintVars, historyVars
<1>2. /\ Refreshed(store, db, db')
      /\ \/ Goto(t, Idle)
         \/ \E src, cond, k, outs : Goto(t, [Idle EXCEPT !.op = "mint", !.at = "post", !.id = src,
                                             !.k = k, !.cond = cond, !.outs = outs])
  BY CheckedPaidDoes, MintDoes DEF End
<1>3. Coins(store, db') = Coins(store, db)
  BY <1>2 DEF Refreshed
<1>4. Stake(task[t]) = {}
  <2>1. CASE Mint(t)
    BY <2>1, BeginsIdle DEF Mint, Called, Asked
  <2>2. CASE CheckedPaid(t)
    <3>1. task[t].at = "paid" /\ Control(task[t])
      BY <2>2, NowType DEF CheckedPaid
    <3>2. task[t].op = "check"
      BY <3>1 DEF Control
    <3> QED BY <3>1, <3>2, NothingAtStake
  <2> QED BY <2>1, <2>2
<1>5. CASE Goto(t, Idle)
  BY <1>1, <1>3, <1>4, <1>5, IdleSettled, CoinsQuiet
<1>6. ASSUME NEW src, NEW cond, NEW k, NEW outs,
             Goto(t, [Idle EXCEPT !.op = "mint", !.at = "post", !.id = src, !.k = k, !.cond = cond,
                                  !.outs = outs])
      PROVE  CoinsKept'
  <2> DEFINE x == [Idle EXCEPT !.op = "mint", !.at = "post", !.id = src, !.k = k, !.cond = cond,
                               !.outs = outs]
  <2>1. x.at = "post" /\ x.todo = <<>> /\ x.op = "mint"
    BY DEF Idle
  <2>2. Goto(t, x)
    BY <1>6
  <2> HIDE DEF x
  <2>3. Settled(x, spent, Keys)
    BY <2>1, NothingIn DEF Settled
  <2> QED BY <1>1, <1>3, <1>4, <2>2, <2>3, CoinsQuiet
<1> QED BY <1>2, <1>5, <1>6

\* Check keeps every coin somewhere.
LEMMA CheckKeepsCoins ==
    ASSUME TypeOK, CoinsKept, NEW t \in Tasks, CheckMintQuote(t) \/ CheckedUnpaid(t)
    PROVE  CoinsKept'
<1>1. UNCHANGED <<store, spent, signed, tokens, adrift>>
  BY DEF CheckMintQuote, CheckedUnpaid, OnlyTask, mintVars, historyVars
<1>2. CASE CheckMintQuote(t)
  <2>1. PICK q \in MintQuotes, row \in MintQuoteRows :
          /\ quote[q] \in {"unpaid", "paid"} /\ QuotePut(store, db, db', row)
          /\ Goto(t, [Idle EXCEPT !.op = "check", !.at = quote[q], !.id = q, !.expiry = row.expiry])
    BY <1>2, CheckMintQuoteDoes
  <2> DEFINE x == [Idle EXCEPT !.op = "check", !.at = quote[q], !.id = q, !.expiry = row.expiry]
  <2>2. x.op = "check" /\ x.at \in {"unpaid", "paid"} /\ x.todo = <<>>
    BY <2>1 DEF Idle
  <2>3. Goto(t, x)
    BY <2>1
  <2> HIDE DEF x
  <2>4. Settled(x, spent, Keys)
    BY <2>2, NothingIn DEF Settled
  <2>5. Stake(task[t]) = {}
    BY <1>2, BeginsIdle DEF CheckMintQuote, Called, Asked
  <2>6. Coins(store, db') = Coins(store, db)
    BY <2>1 DEF QuotePut
  <2> QED BY <1>1, <2>3, <2>4, <2>5, <2>6, CoinsQuiet
<1>3. CASE CheckedUnpaid(t)
  <2>1. End(t) /\ Coins(store, db') = Coins(store, db)
    BY <1>3, CheckedUnpaidDoes DEF CheckedUnpaid
  <2>2. task[t].at = "unpaid" /\ Control(task[t])
    BY <1>3, NowType DEF CheckedUnpaid
  <2>3. task[t].op = "check"
    BY <2>2 DEF Control
  <2>4. Stake(task[t]) = {}
    BY <2>2, <2>3, NothingAtStake
  <2> QED BY <1>1, <2>1, <2>4, CoinsEnd
<1> QED BY <1>2, <1>3

\* What the mint signs is at stake until it is written.
LEMMA PostMintKeepsCoins ==
    ASSUME TypeOK, CoinsKept, NEW t \in Tasks, PostMint(t)
    PROVE  CoinsKept'
<1> DEFINE now == task[t]
<1>1. /\ now \in TaskStates /\ Control(now) /\ now.op = "mint" /\ now.at = "post"
      /\ Settled(now, spent, Keys)
  BY NowType DEF PostMint, CoinsKept
<1>2. UNCHANGED <<store, db, spent, tokens, adrift>>
  BY DEF PostMint, historyVars
<1>3. Stake(now) = {} /\ now.ins = {}
  <2> HIDE DEF now
  <2> QED BY <1>1, NothingAtStake DEF Control
<1>4. CASE End(t) /\ signed' = signed
  BY <1>2, <1>3, <1>4, CoinsEnd
<1>5. CASE /\ DOMAIN signed' = DOMAIN signed \cup Secrets(ToSet(now.outs))
           /\ Goto(t, [now EXCEPT !.at = "answered"])
  <2> DEFINE x == [now EXCEPT !.at = "answered"]
  <2>1. x.op = "mint" /\ x.at = "answered" /\ x.todo = now.todo /\ x.ins = now.ins /\ x.outs = now.outs
    BY <1>1 DEF TaskStates
  <2>2. Goto(t, x)
    BY <1>5
  <2> HIDE DEF now, x
  <2>3. Settled(x, spent, Keys)
    BY <1>1, <1>3, <2>1, NothingIn DEF Settled
  <2>4. Stake(x) = Secrets(ToSet(now.outs))
    BY <1>3, <2>1, NothingIn DEF Stake
  <2>5. Keys' = Keys /\ TokenSecrets' = TokenSecrets
    BY <1>2 DEF Keys, TokenSecrets
  <2> QED BY <1>2, <1>3, <1>5, <2>2, <2>3, <2>4, <2>5, CoinsMoved DEF now
<1> QED BY <1>4, <1>5, PostMintDoes

\* The proofs of an answered mint request are about to be written.
LEMMA AnsweredMintKeepsCoins ==
    ASSUME TypeOK, CoinsKept, NEW t \in Tasks, AnsweredMint(t)
    PROVE  CoinsKept'
<1> DEFINE now == task[t]
<1>1. /\ now \in TaskStates /\ now.op = "mint" /\ now.at = "answered"
      /\ Settled(now, spent, Keys)
  BY NowType DEF AnsweredMint, CoinsKept
<1>2. PICK todo \in Seq(Calls) :
        /\ Goto(t, [now EXCEPT !.at = "write", !.todo = todo])
        /\ \A c \in ToSet(todo) :
             c.call \in {"remove_mint_quote", "increment_keyset_counter", "add_proofs"}
        /\ \A s \in Secrets(ToSet(now.outs)) : Adds(ToSet(todo), s)
  BY AnsweredMintDoes
<1>3. \A s : ~Removes(ToSet(todo), s)
  BY <1>2, RemovesNone
<1> DEFINE x == [now EXCEPT !.at = "write", !.todo = todo]
<1>4. /\ x.op = "mint" /\ x.at = "write" /\ x.todo = todo /\ x.ins = now.ins /\ x.outs = now.outs
      /\ x.next = now.next
  BY <1>1 DEF TaskStates
<1>5. Goto(t, x)
  BY <1>2
<1>6. UNCHANGED <<store, db, spent, signed, tokens, adrift>>
  BY DEF AnsweredMint, OnlyTask, mintVars, historyVars
<1> HIDE DEF now, x
<1>7. Settled(x, spent, Keys)
  BY <1>1, <1>2, <1>3, <1>4 DEF Settled, SafeIn
<1>8. Stake(now) = Stake(x)
  BY <1>1, <1>4 DEF Stake
<1> QED BY <1>5, <1>6, <1>7, <1>8, CoinsQuiet DEF now

\* When the mint spends the inputs it signs the outputs, and the task still
\* holds both.
LEMMA PostSwapKeepsCoins ==
    ASSUME TypeOK, CoinsKept, NEW t \in Tasks, PostSwap(t)
    PROVE  CoinsKept'
<1> DEFINE now == task[t]
<1>1. now \in TaskStates /\ now.at = "post" /\ Settled(now, spent, Keys)
  BY NowType DEF PostSwap, CoinsKept
<1>2. UNCHANGED <<store, db, tokens>>
  BY DEF PostSwap
<1>3. Keys' = Keys /\ TokenSecrets' = TokenSecrets
  BY <1>2 DEF Keys, TokenSecrets
<1>4. CASE /\ DOMAIN signed' = DOMAIN signed \cup Secrets(ToSet(now.outs))
           /\ spent' = spent \cup Secrets(now.ins)
           /\ Goto(t, [now EXCEPT !.at = "answered"]) /\ adrift' = adrift
  <2> DEFINE x == [now EXCEPT !.at = "answered"]
  <2>1. /\ x.op = now.op /\ x.at = "answered" /\ x.todo = now.todo /\ x.ins = now.ins
        /\ x.outs = now.outs /\ x.held = now.held
    BY <1>1 DEF TaskStates
  <2>2. Goto(t, x)
    BY <1>4
  <2> HIDE DEF now, x
  <2>3. Settled(x, spent', Keys')
    BY <1>1, <1>4, <2>1 DEF Settled
  <2>4. Secrets(ToSet(now.outs)) \subseteq Stake(x) /\ Stake(now) \subseteq Stake(x)
    BY <1>1, <2>1 DEF Stake
  <2>5. spent \subseteq spent' /\ DOMAIN signed' \subseteq DOMAIN signed \cup Stake(x)
    BY <1>4, <2>4
  <2> QED BY <1>3, <1>4, <2>2, <2>3, <2>4, <2>5, CoinsMoved DEF now
<1>5. CASE /\ End(t) /\ signed' = signed /\ spent \subseteq spent'
           /\ adrift' = adrift \cup AtStake(t) \cup (spent' \ spent)
  <2>1. Goto(t, Idle) /\ Settled(Idle, spent', Keys') /\ Stake(task[t]) \subseteq adrift'
    BY <1>5, IdleSettled, StakeIsAtStake DEF End
  <2>2. adrift \subseteq adrift' /\ DOMAIN signed' = DOMAIN signed
    BY <1>5
  <2> QED BY <1>3, <1>5, <2>1, <2>2, CoinsMoved
<1> QED BY <1>4, <1>5, PostSwapDoes

\* The writes of a swap or a melt keep what it got.
LEMMA AnsweredSwapKeepsCoins ==
    ASSUME TypeOK, CoinsKept, NEW t \in Tasks, AnsweredSwap(t)
    PROVE  CoinsKept'
<1> DEFINE now == task[t]
<1>1. /\ now \in TaskStates /\ now.op \in {"swap", "send", "melt"} /\ now.at = "answered"
      /\ Settled(now, spent, Keys)
  BY NowType DEF AnsweredSwap, CoinsKept
<1>2. PICK todo \in Seq(Calls), held \in OwnPurses :
        /\ Goto(t, [now EXCEPT !.at = "write", !.held = held, !.todo = todo])
        /\ \A c \in ToSet(todo) :
             c.call \in {"increment_keyset_counter", "add_proofs", "set_proof_state"}
        /\ \A s \in Secrets(ToSet(now.outs)) : Adds(ToSet(todo), s)
  BY AnsweredSwapDoes
<1>3. \A s : ~Removes(ToSet(todo), s)
  BY <1>2, RemovesNone
<1> DEFINE x == [now EXCEPT !.at = "write", !.held = held, !.todo = todo]
<1>4. /\ x.op = now.op /\ x.at = "write" /\ x.todo = todo /\ x.ins = now.ins /\ x.outs = now.outs
      /\ x.next = now.next
  BY <1>1 DEF TaskStates
<1>5. Goto(t, x)
  BY <1>2
<1>6. /\ UNCHANGED <<store, spent, signed, tokens>> /\ adrift \subseteq adrift'
      /\ Coins(store, db') = Coins(store, db)
  BY AnsweredSwapDoes DEF AnsweredSwap, mintVars, Refreshed
<1> HIDE DEF now, x
<1>7. Settled(x, spent, Keys)
  BY <1>1, <1>2, <1>3, <1>4 DEF Settled, SafeIn
<1>8. Stake(now) = Stake(x)
  BY <1>1, <1>4 DEF Stake
<1> QED BY <1>5, <1>6, <1>7, <1>8, CoinsQuiet DEF now

\* What a melt paid with is spent; its change is about to be written.
LEMMA AnsweredMeltKeepsCoins ==
    ASSUME TypeOK, CoinsKept, NEW t \in Tasks, AnsweredMelt(t)
    PROVE  CoinsKept'
<1> DEFINE now == task[t]
<1>1. /\ now \in TaskStates /\ Control(now) /\ now.at = "melted"
      /\ Settled(now, spent, Keys)
  BY NowType DEF AnsweredMelt, CoinsKept
<1>2. PICK todo \in Seq(Calls) :
        /\ Goto(t, [now EXCEPT !.at = "write", !.todo = todo])
        /\ \A c \in ToSet(todo) :
             /\ c.call \in {"increment_keyset_counter", "add_proofs", "remove_melt_quote",
                            "remove_proofs"}
             /\ c.call = "remove_proofs" => ToSet(c.x) \subseteq now.ins
        /\ \A s \in Secrets(ToSet(now.outs)) : Adds(ToSet(todo), s)
  BY AnsweredMeltDoes
<1>3. \A s : Removes(ToSet(todo), s) => s \in Secrets(now.ins)
  BY <1>2 DEF Removes, Secrets
<1> DEFINE x == [now EXCEPT !.at = "write", !.todo = todo]
<1>4. /\ x.op = now.op /\ x.at = "write" /\ x.todo = todo /\ x.ins = now.ins /\ x.outs = now.outs
      /\ x.next = now.next
  BY <1>1 DEF TaskStates
<1>5. Goto(t, x)
  BY <1>2
<1>6. /\ UNCHANGED <<store, spent, signed, tokens>> /\ adrift \subseteq adrift'
      /\ Coins(store, db') = Coins(store, db)
  BY AnsweredMeltDoes DEF AnsweredMelt, mintVars, Refreshed
<1> HIDE DEF now, x
<1>7. now.op = "melt"
  BY <1>1 DEF Control
<1>8. Settled(x, spent, Keys)
  BY <1>1, <1>2, <1>3, <1>4, <1>7 DEF Settled, SafeIn
<1>9. Stake(now) = Stake(x)
  BY <1>1, <1>4, <1>7 DEF Stake
<1> QED BY <1>5, <1>6, <1>8, <1>9, CoinsQuiet DEF now

\* Send keeps every coin somewhere.
LEMMA SendKeepsCoins ==
    ASSUME TypeOK, CoinsKept, NEW t \in Tasks, Swap(t) \/ Send(t) \/ Melt(t)
    PROVE  CoinsKept'
<1>0. OnlyTask /\ Idle \in TaskStates
  BY IdleType DEF Swap, Send, Melt
<1>1. Stake(task[t]) = {}
  BY BeginsIdle DEF Swap, Send, Melt, Called, Asked
<1>2. UNCHANGED <<store, spent, signed, tokens, adrift>>
  BY <1>0 DEF OnlyTask, mintVars, historyVars
<1>3. CASE Swap(t)
  <2> DEFINE base == [Idle EXCEPT !.op = "swap"]
  <2>1. base \in TaskStates /\ base.todo = <<>> /\ base.op = "swap"
    <3>1. "swap" \in OpNames
      BY DEF OpNames
    <3> QED BY <1>0, <3>1, IdleFields DEF TaskStates
  <2>2. SwapBegun(t, base)
    BY <1>3, SwapDoes
  <2> HIDE DEF base
  <2> QED BY <1>0, <1>1, <2>1, <2>2, SwapKeepsCoins
<1>4. CASE Send(t)
  <2>1. ASSUME NEW locked \in OwnPurses,
               SwapBegun(t, [Idle EXCEPT !.op = "send", !.next = "hand", !.held = locked])
        PROVE  CoinsKept'
    <3> DEFINE base == [Idle EXCEPT !.op = "send", !.next = "hand", !.held = locked]
    <3>1. base \in TaskStates /\ base.todo = <<>> /\ base.op = "send"
      <4>1. "send" \in OpNames /\ "hand" \in Nexts
        BY DEF OpNames, Nexts
      <4> QED BY <1>0, <4>1, IdleFields DEF TaskStates
    <3>2. SwapBegun(t, base)
      BY <2>1
    <3> HIDE DEF base
    <3> QED BY <1>0, <1>1, <3>1, <3>2, SwapKeepsCoins
  <2>2. ASSUME NEW ps \in OwnPurses, Goto(t, Handing(ps)), Refreshed(store, db, db')
        PROVE  CoinsKept'
    <3> DEFINE x == Handing(ps)
               todo == Setting(ps, "Reserved")
    <3>1. \A c \in ToSet(todo) : c.call = "set_proof_state"
      BY OwnPursesArePurses, SettingCalls DEF States
    <3>2. x.at = "write" /\ x.todo = todo /\ x.ins = {} /\ x.outs = <<>> /\ x.op = "send"
      BY DEF Handing, Idle
    <3> HIDE DEF x, todo
    <3>3. \A s : ~Removes(ToSet(todo), s)
      BY <3>1, RemovesNone
    <3>4. Settled(x, spent, Keys)
      BY <3>2, <3>3, NothingIn DEF Settled
    <3>5. Coins(store, db') = Coins(store, db)
      BY <2>2 DEF Refreshed
    <3> QED BY <1>1, <1>2, <2>2, <3>4, <3>5, CoinsQuiet DEF x
  <2> QED BY <1>4, <2>1, <2>2, SendDoes
<1>5. CASE Melt(t)
  <2>1. ASSUME NEW q \in MeltQuotes, SwapBegun(t, [Idle EXCEPT !.op = "melt", !.next = "melt", !.id = q])
        PROVE  CoinsKept'
    <3> DEFINE base == [Idle EXCEPT !.op = "melt", !.next = "melt", !.id = q]
    <3>1. base \in TaskStates /\ base.todo = <<>> /\ base.op = "melt"
      <4>1. "melt" \in OpNames /\ "melt" \in Nexts /\ q \in Subjects
        BY DEF OpNames, Nexts, Subjects
      <4> QED BY <1>0, <4>1, IdleFields DEF TaskStates
    <3>2. SwapBegun(t, base)
      BY <2>1
    <3> HIDE DEF base
    <3> QED BY <1>0, <1>1, <3>1, <3>2, SwapKeepsCoins
  <2>2. ASSUME NEW q \in MeltQuotes, NEW ps \in OwnPurses, Refreshed(store, db, db'),
               Goto(t, [Idle EXCEPT !.op = "melt", !.next = "melt", !.at = "write", !.id = q, !.held = ps])
        PROVE  CoinsKept'
    <3> DEFINE x == [Idle EXCEPT !.op = "melt", !.next = "melt", !.at = "write", !.id = q, !.held = ps]
    <3>1. x.at = "write" /\ x.todo = <<>> /\ x.ins = {} /\ x.outs = <<>> /\ x.op = "melt" /\ Goto(t, x)
      BY <2>2 DEF Idle
    <3> HIDE DEF x
    <3>2. Settled(x, spent, Keys)
      BY <3>1, NothingIn DEF Settled
    <3>3. Coins(store, db') = Coins(store, db)
      BY <2>2 DEF Refreshed
    <3> QED BY <1>1, <1>2, <3>1, <3>2, <3>3, CoinsQuiet
  <2> QED BY <1>5, <2>1, <2>2, MeltDoes
<1> QED BY <1>3, <1>4, <1>5

\* When all writes are made nothing is at stake any more.
LEMMA WrittenIsSafe ==
    ASSUME NEW x, Control(x), NEW g, NEW k, Settled(x, g, k), x.at = "write", x.todo = <<>>,
           x.next \notin {"entry", "state"}
    PROVE  Stake(x) \subseteq g \cup k
<1>1. \A s : SafeIn(s, x, g, k) => s \in g \cup k
  BY NothingIn DEF SafeIn, Adds
<1>2. CASE x.op = "receive"
  <2>1. x.next = "finish" /\ x.ins = {} /\ x.outs = <<>>
    BY <1>2 DEF Control
  <2> QED BY <1>1, <1>2, <2>1, NothingIn DEF Settled, Stake
<1>3. CASE x.op # "receive"
  BY <1>1, <1>3 DEF Settled, Stake
<1> QED BY <1>2, <1>3

\* What an operation that is done had at stake is spent or stored.
LEMMA DoneIsSafe ==
    ASSUME TypeOK, CoinsKept, NEW t \in Tasks, NEW next, Done(t, next), next \notin {"entry", "state"}
    PROVE  Stake(task[t]) \subseteq spent \cup Keys
BY NowType, WrittenIsSafe DEF Done, CoinsKept

\* What is handed out is in a token.
LEMMA HandOutKeepsCoins ==
    ASSUME TypeOK, CoinsKept, NEW t \in Tasks, HandOut(t)
    PROVE  CoinsKept'
<1>1. /\ Goto(t, Idle) /\ UNCHANGED <<store, db, spent, signed, adrift>> /\ tokens \subseteq tokens'
      /\ Stake(task[t]) \subseteq spent \cup Keys
  BY DoneIsSafe DEF HandOut, End, mintVars, historyVars
<1>2. Keys' = Keys /\ TokenSecrets \subseteq TokenSecrets'
  BY <1>1 DEF Keys, TokenSecrets
<1>3. Settled(Idle, spent', Keys')
  BY IdleSettled
<1> QED BY <1>1, <1>2, <1>3, CoinsMoved

\* What a melt takes is reserved in the store.
LEMMA BeginMeltKeepsCoins ==
    ASSUME TypeOK, CoinsKept, NEW t \in Tasks, BeginMelt(t)
    PROVE  CoinsKept'
<1>1. PICK k \in ToSet(Chain), outs \in Seq(Outputs) :
        Goto(t, [Idle EXCEPT !.op = "melt", !.at = "post_melt", !.id = task[t].id,
                             !.k = k, !.ins = task[t].held, !.outs = outs])
  BY BeginMeltDoes
<1> DEFINE x == [Idle EXCEPT !.op = "melt", !.at = "post_melt", !.id = task[t].id,
                             !.k = k, !.ins = task[t].held, !.outs = outs]
<1>2. x.at = "post_melt" /\ x.todo = <<>>
  BY DEF Idle
<1>3. Goto(t, x)
  BY <1>1
<1> HIDE DEF x
<1>4. Settled(x, spent, Keys)
  BY <1>2, NothingIn DEF Settled
<1>5. /\ UNCHANGED <<store, spent, signed, tokens, adrift>> /\ Coins(store, db') = Coins(store, db)
      /\ Stake(task[t]) \subseteq spent \cup Keys
  BY DoneIsSafe, BeginMeltDoes DEF BeginMelt, Refreshed, OnlyTask, mintVars, historyVars
<1> QED BY <1>3, <1>4, <1>5, CoinsQuiet

\* The mint spends the inputs of a melt, or the task still holds them.
LEMMA PostMeltKeepsCoins ==
    ASSUME TypeOK, CoinsKept, NEW t \in Tasks, PostMelt(t)
    PROVE  CoinsKept'
<1> DEFINE now == task[t]
<1>1. /\ now \in TaskStates /\ now.op = "melt" /\ now.at = "post_melt" /\ Settled(now, spent, Keys)
      /\ Stake(now) = {}
  BY NowType, NothingAtStake DEF PostMelt, CoinsKept
<1>2. UNCHANGED <<store, db, tokens, adrift>>
  BY DEF PostMelt, historyVars
<1>3. Keys' = Keys /\ TokenSecrets' = TokenSecrets
  BY <1>2 DEF Keys, TokenSecrets
<1>4. CASE End(t) /\ signed' = signed /\ spent' = spent
  BY <1>1, <1>2, <1>4, CoinsEnd
<1>5. ASSUME NEW change \in Seq(Outputs),
             DOMAIN signed' = DOMAIN signed \cup Secrets(ToSet(change)),
             spent' = spent \cup Secrets(now.ins),
             Goto(t, [now EXCEPT !.at = "melted", !.outs = change])
      PROVE  CoinsKept'
  <2> DEFINE x == [now EXCEPT !.at = "melted", !.outs = change]
  <2>1. /\ x.op = now.op /\ x.at = "melted" /\ x.todo = now.todo /\ x.ins = now.ins /\ x.outs = change
    BY <1>1 DEF TaskStates
  <2>2. Goto(t, x)
    BY <1>5
  <2> HIDE DEF now, x
  <2>3. Settled(x, spent', Keys')
    BY <1>1, <1>5, <2>1 DEF Settled
  <2>4. Secrets(ToSet(change)) \subseteq Stake(x)
    BY <2>1 DEF Stake
  <2>5. spent \subseteq spent' /\ DOMAIN signed' \subseteq DOMAIN signed \cup Stake(x)
    BY <1>5, <2>4
  <2> QED BY <1>1, <1>2, <1>3, <2>2, <2>3, <2>5, CoinsMoved DEF now
<1> QED BY <1>4, <1>5, PostMeltDoes

\* A receive begins with the entries of a token.
LEMMA ReceiveKeepsCoins ==
    ASSUME TypeOK, CoinsKept, NEW t \in Tasks, Receive(t)
    PROVE  CoinsKept'
<1>1. PICK rest \in Seq(Purses) :
        Goto(t, [Idle EXCEPT !.op = "receive", !.at = "write", !.next = "entry", !.rest = rest])
  BY ReceiveDoes
<1> DEFINE x == [Idle EXCEPT !.op = "receive", !.at = "write", !.next = "entry", !.rest = rest]
<1>2. /\ x.op = "receive" /\ x.at = "write" /\ x.next = "entry" /\ x.outs = <<>> /\ x.ins = {}
      /\ x.todo = <<>>
  BY DEF Idle
<1>3. Goto(t, x)
  BY <1>1
<1> HIDE DEF x
<1>4. Settled(x, spent, Keys)
  BY <1>2, NothingIn DEF Settled
<1>5. /\ UNCHANGED <<store, spent, signed, tokens, adrift, db>> /\ Stake(task[t]) = {}
  BY BeginsIdle DEF Receive, Called, Asked, OnlyTask, mintVars, historyVars
<1> QED BY <1>3, <1>4, <1>5, CoinsQuiet

\* BeginEntry keeps every coin somewhere.
LEMMA BeginEntryKeepsCoins ==
    ASSUME TypeOK, CoinsKept, NEW t \in Tasks, BeginEntry(t)
    PROVE  CoinsKept'
<1> DEFINE now == task[t]
           base == [now EXCEPT !.rest = Tail(@)]
<1>1. /\ now \in TaskStates /\ Control(now) /\ now.next = "entry" /\ now.rest # <<>>
      /\ now.at = "write" /\ now.todo = <<>>
  BY NowType DEF BeginEntry, Done
<1>2. SwapBegun(t, base) /\ OnlyTask
  BY BeginEntryDoes DEF BeginEntry
<1> HIDE DEF now
<1>3. now.op = "receive" /\ now.outs = <<>> /\ now.ins = {} /\ Tail(now.rest) \in Seq(Purses)
  BY <1>1 DEF Control
<1>4. base \in TaskStates
  <2>1. Tail(now.rest) \in Remainders
    BY <1>3 DEF Remainders
  <2> QED BY <1>1, <2>1 DEF TaskStates
<1>5. base.op = "receive" /\ base.todo = <<>> /\ base.held = now.held
  BY <1>1, <1>3 DEF TaskStates
<1>6. Stake(now) = Secrets(now.held)
  BY <1>3, NothingIn DEF Stake
<1> HIDE DEF base
<1> QED BY <1>2, <1>4, <1>5, <1>6, SwapKeepsCoins DEF now

\* What a receive got is held until it is stored.
LEMMA AnsweredReceiveKeepsCoins ==
    ASSUME TypeOK, CoinsKept, NEW t \in Tasks, AnsweredReceive(t)
    PROVE  CoinsKept'
<1> DEFINE now == task[t]
<1>1. /\ now \in TaskStates /\ Control(now) /\ now.op = "receive" /\ now.at = "answered"
      /\ Settled(now, spent, Keys)
  BY NowType DEF AnsweredReceive, CoinsKept
<1>2. PICK held \in OwnPurses, todo \in Seq(Calls) :
        /\ Goto(t, [now EXCEPT !.at = "write", !.ins = {}, !.outs = <<>>, !.held = held, !.todo = todo])
        /\ Secrets(held) = Secrets(now.held) \cup Secrets(ToSet(now.outs))
        /\ \A c \in ToSet(todo) : c.call = "increment_keyset_counter"
  BY AnsweredReceiveDoes
<1> DEFINE x == [now EXCEPT !.at = "write", !.ins = {}, !.outs = <<>>, !.held = held, !.todo = todo]
<1>3. Goto(t, x)
  BY <1>2
<1> HIDE DEF now
<1>4. /\ x.op = "receive" /\ x.at = "write" /\ x.next = now.next /\ x.held = held /\ x.todo = todo
      /\ x.outs = <<>> /\ x.ins = {}
  BY <1>1 DEF TaskStates
<1> HIDE DEF x
<1>5. now.next = "entry"
  BY <1>1 DEF Control
<1>6. \A s : ~Removes(ToSet(todo), s)
  BY <1>2, RemovesNone
<1>7. Settled(x, spent, Keys)
  BY <1>4, <1>5, <1>6, NothingIn DEF Settled
<1>8. Stake(now) \subseteq Stake(x) \cup spent
  BY <1>1, <1>2, <1>4 DEF Stake, Settled
<1>9. UNCHANGED <<store, db, spent, signed, tokens, adrift>>
  BY DEF AnsweredReceive, OnlyTask, mintVars, historyVars
<1> QED BY <1>3, <1>7, <1>8, <1>9, CoinsQuiet DEF now

\* StoreReceived keeps every coin somewhere.
LEMMA StoreReceivedKeepsCoins ==
    ASSUME TypeOK, CoinsKept, NEW t \in Tasks, StoreReceived(t)
    PROVE  CoinsKept'
<1> DEFINE now == task[t]
<1>1. /\ now \in TaskStates /\ Control(now) /\ now.next = "entry" /\ now.at = "write"
      /\ Settled(now, spent, Keys)
  BY NowType DEF StoreReceived, Done, CoinsKept
<1>2. PICK todo \in Seq(Calls) :
        /\ Goto(t, [now EXCEPT !.next = "finish", !.todo = todo])
        /\ \A c \in ToSet(todo) : c.call = "add_proofs"
        /\ \A s \in Secrets(now.held) : Adds(ToSet(todo), s)
  BY StoreReceivedDoes
<1> DEFINE x == [now EXCEPT !.next = "finish", !.todo = todo]
<1>3. Goto(t, x)
  BY <1>2
<1> HIDE DEF now
<1>4. now.op = "receive"
  BY <1>1 DEF Control
<1>5. /\ x.op = now.op /\ x.at = now.at /\ x.next = "finish" /\ x.held = now.held /\ x.outs = now.outs
      /\ x.ins = now.ins /\ x.todo = todo
  BY <1>1 DEF TaskStates
<1> HIDE DEF x
<1>6. \A s : ~Removes(ToSet(todo), s)
  BY <1>2, RemovesNone
<1>7. Settled(x, spent, Keys)
  BY <1>1, <1>2, <1>4, <1>5, <1>6 DEF Settled, SafeIn
<1>8. Stake(now) = Stake(x)
  BY <1>5 DEF Stake
<1>9. UNCHANGED <<store, db, spent, signed, tokens, adrift>>
  BY DEF StoreReceived, OnlyTask, mintVars, historyVars
<1> QED BY <1>3, <1>7, <1>8, <1>9, CoinsQuiet DEF now

\* Restore keeps every coin somewhere.
LEMMA RestoreKeepsCoins ==
    ASSUME TypeOK, CoinsKept, NEW t \in Tasks, Restore(t) \/ CheckPending(t)
    PROVE  CoinsKept'
<1>1. Stake(task[t]) = {}
  BY BeginsIdle DEF Restore, CheckPending, Called, Asked
<1>2. UNCHANGED <<store, spent, signed, tokens, adrift>>
  BY DEF Restore, CheckPending, OnlyTask, mintVars, historyVars
<1>3. CASE Restore(t)
  <2>1. PICK rest \in Seq(ToSet(Chain)) :
          Goto(t, [Idle EXCEPT !.op = "restore", !.at = "batch", !.rest = rest])
    BY <1>3, RestoreDoes
  <2> DEFINE x == [Idle EXCEPT !.op = "restore", !.at = "batch", !.rest = rest]
  <2>2. x.at = "batch" /\ x.todo = <<>> /\ Goto(t, x)
    BY <2>1 DEF Idle
  <2> HIDE DEF x
  <2>3. Settled(x, spent, Keys)
    BY <2>2, NothingIn DEF Settled
  <2>4. Coins(store, db') = Coins(store, db)
    BY <1>3, RestoreDoes DEF Refreshed
  <2> QED BY <1>1, <1>2, <2>2, <2>3, <2>4, CoinsQuiet
<1>4. CASE CheckPending(t)
  <2>1. PICK todo \in Seq(Calls) :
          /\ Goto(t, [Idle EXCEPT !.op = "pending", !.at = "write", !.todo = todo])
          /\ \A s : Removes(ToSet(todo), s) => s \in spent
    BY <1>4, CheckPendingDoes
  <2> DEFINE x == [Idle EXCEPT !.op = "pending", !.at = "write", !.todo = todo]
  <2>2. /\ x.at = "write" /\ x.op = "pending" /\ x.todo = todo /\ x.ins = {} /\ x.outs = <<>>
        /\ Goto(t, x)
    BY <2>1 DEF Idle
  <2> HIDE DEF x
  <2>3. Settled(x, spent, Keys)
    BY <2>1, <2>2, NothingIn DEF Settled
  <2>4. db' = db
    BY <1>4 DEF CheckPending
  <2> QED BY <1>1, <1>2, <2>2, <2>3, <2>4, CoinsQuiet
<1> QED BY <1>3, <1>4

\* RestoreBatch keeps every coin somewhere.
LEMMA RestoreBatchKeepsCoins ==
    ASSUME TypeOK, CoinsKept, NEW t \in Tasks, RestoreBatch(t)
    PROVE  CoinsKept'
<1> DEFINE now == task[t]
<1>1. now \in TaskStates /\ Control(now) /\ now.at = "batch" /\ Settled(now, spent, Keys)
  BY NowType DEF RestoreBatch, CoinsKept
<1>2. \/ \E k \in ToSet(Chain), outs \in Seq(Outputs), todo \in Seq(Calls) :
           /\ Goto(t, [now EXCEPT !.at = "write", !.k = k, !.outs = outs, !.next = "state", !.todo = todo])
           /\ \A c \in ToSet(todo) : c.call = "increment_keyset_counter"
      \/ Goto(t, [now EXCEPT !.from = @ + BatchSize, !.empty = @ + 1])
      \/ Goto(t, [now EXCEPT !.rest = Tail(@), !.from = 0, !.empty = 0])
  BY RestoreBatchDoes
<1>3. UNCHANGED <<store, db, spent, signed, tokens, adrift>>
  BY DEF RestoreBatch, OnlyTask, mintVars, historyVars
<1>4. now.op = "restore" /\ now.ins = {} /\ Stake(now) = {}
  <2> HIDE DEF now
  <2>1. now.op = "restore" /\ now.ins = {}
    BY <1>1 DEF Control
  <2> QED BY <1>1, <2>1, NothingAtStake
<1>5. ASSUME NEW k \in ToSet(Chain), NEW outs \in Seq(Outputs), NEW todo \in Seq(Calls),
             Goto(t, [now EXCEPT !.at = "write", !.k = k, !.outs = outs, !.next = "state", !.todo = todo]),
             \A c \in ToSet(todo) : c.call = "increment_keyset_counter"
      PROVE  CoinsKept'
  <2> DEFINE x == [now EXCEPT !.at = "write", !.k = k, !.outs = outs, !.next = "state", !.todo = todo]
  <2>1. /\ x.op = "restore" /\ x.at = "write" /\ x.next = "state" /\ x.ins = {} /\ x.todo = todo
    BY <1>1, <1>4 DEF TaskStates
  <2>2. Goto(t, x)
    BY <1>5
  <2> HIDE DEF x
  <2>3. \A s : ~Removes(ToSet(todo), s)
    BY <1>5, RemovesNone
  <2>4. Settled(x, spent, Keys)
    BY <2>1, <2>3, NothingIn DEF Settled
  <2> QED BY <1>3, <1>4, <2>2, <2>4, CoinsQuiet
<1>6. ASSUME NEW x, x.at = "batch", x.todo = now.todo, Goto(t, x)
      PROVE  CoinsKept'
  <2>1. Settled(x, spent, Keys)
    BY <1>1, <1>6 DEF Settled
  <2> QED BY <1>3, <1>4, <1>6, <2>1, CoinsQuiet
<1>7. CASE Goto(t, [now EXCEPT !.from = @ + BatchSize, !.empty = @ + 1])
  <2> DEFINE x == [now EXCEPT !.from = @ + BatchSize, !.empty = @ + 1]
  <2>1. x.at = "batch" /\ x.todo = now.todo /\ Goto(t, x)
    BY <1>1, <1>7 DEF TaskStates
  <2> HIDE DEF x
  <2> QED BY <1>6, <2>1
<1>8. CASE Goto(t, [now EXCEPT !.rest = Tail(@), !.from = 0, !.empty = 0])
  <2> DEFINE x == [now EXCEPT !.rest = Tail(@), !.from = 0, !.empty = 0]
  <2>1. x.at = "batch" /\ x.todo = now.todo /\ Goto(t, x)
    BY <1>1, <1>8 DEF TaskStates
  <2> HIDE DEF x
  <2> QED BY <1>6, <2>1
<1> QED BY <1>2, <1>5, <1>7, <1>8

\* What was missed comes back with the rows that restore is about to write.
LEMMA RestoreUnspentKeepsCoins ==
    ASSUME TypeOK, CoinsKept, NEW t \in Tasks, RestoreUnspent(t)
    PROVE  CoinsKept'
<1> DEFINE now == task[t]
<1>1. /\ now \in TaskStates /\ Control(now) /\ now.next = "state" /\ now.at = "write"
      /\ Settled(now, spent, Keys)
  BY NowType DEF RestoreUnspent, Done, CoinsKept
<1>2. PICK todo \in Seq(Calls) :
        /\ Goto(t, [now EXCEPT !.todo = todo, !.next = "batch"])
        /\ \A c \in ToSet(todo) : c.call = "add_proofs"
        /\ \A s \in Secrets(ToSet(now.outs)) : s \in spent \/ Adds(ToSet(todo), s)
        /\ \A s \in adrift : s \in adrift' \/ s \in Secrets(ToSet(now.outs))
  BY RestoreUnspentDoes
<1> DEFINE x == [now EXCEPT !.todo = todo, !.next = "batch"]
<1>3. Goto(t, x)
  BY <1>2
<1> HIDE DEF now
<1>4. now.op = "restore" /\ now.ins = {}
  BY <1>1 DEF Control
<1>5. /\ x.op = now.op /\ x.at = "write" /\ x.next = "batch" /\ x.outs = now.outs /\ x.ins = now.ins
      /\ x.todo = todo
  BY <1>1 DEF TaskStates
<1> HIDE DEF x
<1>6. \A s : ~Removes(ToSet(todo), s)
  BY <1>2, RemovesNone
<1>7. Settled(x, spent, Keys)
  BY <1>2, <1>4, <1>5, <1>6, NothingIn DEF Settled, SafeIn
<1>8. Stake(now) = Stake(x) /\ Stake(x) = Secrets(ToSet(now.outs))
  BY <1>1, <1>4, <1>5, NothingIn DEF Stake
<1>9. UNCHANGED <<store, db, spent, signed, tokens>>
  BY DEF RestoreUnspent, mintVars
<1>10. adrift \subseteq adrift' \cup Stake(x)
  BY <1>2, <1>8
<1> QED BY <1>3, <1>7, <1>8, <1>9, <1>10, CoinsQuiet DEF now

\* RestoreNextBatch keeps every coin somewhere.
LEMMA RestoreNextBatchKeepsCoins ==
    ASSUME TypeOK, CoinsKept, NEW t \in Tasks, RestoreNextBatch(t)
    PROVE  CoinsKept'
<1> DEFINE now == task[t]
           x == [now EXCEPT !.at = "batch", !.outs = <<>>, !.from = @ + BatchSize, !.empty = 0]
<1>1. now \in TaskStates /\ Done(t, "batch") /\ now.todo = <<>> /\ Stake(now) \subseteq spent \cup Keys
  BY NowType, DoneIsSafe DEF RestoreNextBatch, Done
<1>2. Goto(t, x) /\ x.at = "batch" /\ x.todo = <<>>
  BY <1>1 DEF RestoreNextBatch, TaskStates
<1> HIDE DEF now, x
<1>3. Settled(x, spent, Keys)
  BY <1>2, NothingIn DEF Settled
<1>4. UNCHANGED <<store, db, spent, signed, tokens, adrift>>
  BY DEF RestoreNextBatch, OnlyTask, mintVars, historyVars
<1> QED BY <1>1, <1>2, <1>3, <1>4, CoinsQuiet DEF now

\* One write: it stores what it was to store, and removes what is spent.
LEMMA WriteKeepsCoins ==
    ASSUME TypeOK, CoinsKept, NEW t \in Tasks, Write(t)
    PROVE  CoinsKept'
<1> DEFINE now == task[t]
<1>1. now \in TaskStates /\ now.at = "write" /\ Settled(now, spent, Keys)
  BY NowType DEF Write, CoinsKept
<1>2. PICK c \in ToSet(now.todo), todo \in Seq(Calls) :
        /\ c \in Calls /\ Performed(db, c, db')
        /\ ToSet(now.todo) = {c} \cup ToSet(todo)
        /\ \/ Goto(t, [now EXCEPT !.todo = todo]) /\ adrift' = adrift
           \/ Fail(t)
  BY WriteDoes
<1>3. UNCHANGED <<store, spent, signed, tokens>>
  BY DEF Write, mintVars
<1>4. TokenSecrets' = TokenSecrets
  BY <1>3 DEF TokenSecrets
<1>5. /\ Keys \subseteq Keys' \cup spent
      /\ \A s : Adds({c}, s) => s \in Keys'
  <2>1. CASE c.call = "add_proofs"
    <3>1. CoinsPut(store, db, db', c.x)
      BY <1>2, <2>1 DEF Performed
    <3>2. Keys' = Keys \cup {r.y : r \in ToSet(c.x)}
      BY <1>3, <3>1 DEF CoinsPut, Keys
    <3> QED BY <3>2 DEF Adds
  <2>2. CASE c.call = "remove_proofs"
    <3>1. CoinsGone(store, db, db', c.x)
      BY <1>2, <2>2 DEF Performed
    <3>2. Keys' = Keys \ Secrets(ToSet(c.x))
      BY <1>3, <3>1 DEF CoinsGone, Keys
    <3>3. \A s \in Secrets(ToSet(c.x)) : Removes(ToSet(now.todo), s)
      BY <2>2 DEF Removes
    <3>4. Secrets(ToSet(c.x)) \subseteq spent
      BY <1>1, <3>3 DEF Settled
    <3> QED BY <2>2, <3>2, <3>4 DEF Adds
  <2>3. CASE c.call \notin {"add_proofs", "remove_proofs"}
    <3>1. DOMAIN Coins(store, db') = DOMAIN Coins(store, db)
      BY <1>2, <2>3 DEF Performed, CoinMarked, QuoteGone
    <3> QED BY <1>3, <2>3, <3>1 DEF Keys, Adds
  <2> QED BY <2>1, <2>2, <2>3
<1>6. CASE Goto(t, [now EXCEPT !.todo = todo]) /\ adrift' = adrift
  <2> DEFINE x == [now EXCEPT !.todo = todo]
  <2>1. /\ x.op = now.op /\ x.at = now.at /\ x.next = now.next /\ x.outs = now.outs /\ x.ins = now.ins
        /\ x.held = now.held /\ x.todo = todo
    BY <1>1 DEF TaskStates
  <2>2. Goto(t, x)
    BY <1>6
  <2> HIDE DEF now, x
  <2>3. \A s : SafeIn(s, now, spent, Keys) => SafeIn(s, x, spent', Keys')
    BY <1>2, <1>3, <1>5, <2>1 DEF SafeIn, Adds
  <2>4. \A s : Removes(ToSet(x.todo), s) => Removes(ToSet(now.todo), s)
    BY <1>2, <2>1 DEF Removes
  <2>5. Settled(x, spent', Keys')
    BY <1>1, <1>3, <2>1, <2>3, <2>4 DEF Settled
  <2>6. Stake(now) = Stake(x)
    BY <2>1 DEF Stake
  <2> QED BY <1>3, <1>4, <1>5, <1>6, <2>2, <2>5, <2>6, CoinsMoved DEF now
<1>7. CASE Fail(t)
  <2>1. Goto(t, Idle) /\ adrift' = adrift \cup Stake(now) /\ Settled(Idle, spent', Keys')
    BY <1>7, IdleSettled, StakeIsAtStake DEF Fail, End
  <2> QED BY <1>3, <1>4, <1>5, <2>1, CoinsMoved
<1> QED BY <1>2, <1>6, <1>7

\* Ending keeps every coin somewhere.
LEMMA EndingKeepsCoins ==
    ASSUME TypeOK, CoinsKept, NEW t \in Tasks, Finish(t) \/ RestoreEnd(t) \/ Stop(t)
    PROVE  CoinsKept'
<1>1. End(t) /\ UNCHANGED <<store, db, spent, signed, tokens>> /\ adrift \subseteq adrift'
  BY DEF Finish, RestoreEnd, Stop, Fail, OnlyTask, mintVars, historyVars
<1>2. CASE Finish(t)
  <2>1. Stake(task[t]) \subseteq spent \cup Keys
    BY <1>2, DoneIsSafe DEF Finish
  <2> QED BY <1>1, <2>1, CoinsEnd
<1>3. CASE RestoreEnd(t)
  <2>1. task[t].at = "batch" /\ Control(task[t])
    BY <1>3, NowType DEF RestoreEnd
  <2>2. task[t].op = "restore"
    BY <2>1 DEF Control
  <2> QED BY <1>1, <2>1, <2>2, NothingAtStake, CoinsEnd
<1>4. CASE Stop(t)
  <2>1. Stake(task[t]) \subseteq adrift'
    BY <1>4, StakeIsAtStake DEF Stop, Fail
  <2> QED BY <1>1, <2>1, CoinsEnd
<1> QED BY <1>2, <1>3, <1>4

\* A crash leaves what was under way adrift, and all of it when the store went.
LEMMA CrashKeepsCoins ==
    ASSUME TypeOK, CoinsKept, Crash
    PROVE  CoinsKept'
<1>1. /\ task' = [t \in Tasks |-> Idle] /\ UNCHANGED <<store, signed, spent, tokens>>
      /\ adrift \subseteq adrift' /\ \A t \in Tasks : AtStake(t) \subseteq adrift'
      /\ DOMAIN signed \subseteq adrift' \/ db' = db
  <2>1. /\ task' = [t \in Tasks |-> Idle] /\ UNCHANGED <<store, signed, spent, tokens>>
        /\ db' = IF Volatile(store) THEN New(store) ELSE db
        /\ adrift' = adrift \cup (UNION {AtStake(t) : t \in Tasks})
                            \cup (IF Volatile(store) THEN DOMAIN signed ELSE {})
    BY DEF Crash, mintVars
  <2> DEFINE lost == UNION {AtStake(t) : t \in Tasks}
             wide == IF Volatile(store) THEN DOMAIN signed ELSE {}
  <2>2. \A t \in Tasks : AtStake(t) \subseteq lost
    OBVIOUS
  <2>3. wide = DOMAIN signed \/ db' = db
    BY <2>1
  <2>4. adrift' = adrift \cup lost \cup wide
    BY <2>1
  <2> HIDE DEF lost, wide
  <2> QED BY <2>1, <2>2, <2>3, <2>4
<1>2. \A t \in Tasks : Settled(task'[t], spent', Keys')
  BY <1>1, IdleSettled
<1>3. \A t \in Tasks : Stake(task[t]) \subseteq adrift'
  BY <1>1, StakeIsAtStake
<1>4. TokenSecrets' = TokenSecrets
  BY <1>1 DEF TokenSecrets
<1>5. Somewhere'
  <2>1. CASE DOMAIN signed \subseteq adrift'
    BY <1>1, <2>1 DEF Somewhere
  <2>2. CASE db' = db
    <3>1. Keys' = Keys
      BY <1>1, <2>2 DEF Keys
    <3> QED BY <1>1, <1>3, <1>4, <3>1 DEF Somewhere, CoinsKept
  <2> QED BY <1>1, <2>1, <2>2
<1> QED BY <1>2, <1>5 DEF CoinsKept

\* A token that is redeemed is spent.
LEMMA RedeemKeepsCoins ==
    ASSUME TypeOK, CoinsKept, NEW token \in tokens, Redeem(token)
    PROVE  CoinsKept'
<1>1. /\ UNCHANGED <<store, db, task, signed, adrift>> /\ tokens' = tokens \ {token}
      /\ spent' = spent \cup Secrets(UNION ToSet(token.entries))
  BY DEF Redeem, historyVars
<1>2. Keys' = Keys
  BY <1>1 DEF Keys
<1>3. TokenSecrets \subseteq TokenSecrets' \cup spent'
  BY <1>1 DEF TokenSecrets
<1>4. \A t \in Tasks : Settled(task'[t], spent', Keys')
  BY <1>1, <1>2, SettledStays DEF CoinsKept
<1>5. Somewhere'
  BY <1>1, <1>2, <1>3 DEF Somewhere, CoinsKept
<1> QED BY <1>4, <1>5 DEF CoinsKept

\* What happens around the wallet: a crash sets adrift what a task held.
LEMMA OutsideKeepsCoins ==
    ASSUME TypeOK, CoinsKept,
           Crash \/ Rotate \/ QuotesExpire \/ (\E q \in MintQuotes : PayMintQuote(q))
           \/ (\E token \in tokens : Redeem(token))
    PROVE  CoinsKept'
<1>1. CASE Rotate \/ QuotesExpire \/ (\E q \in MintQuotes : PayMintQuote(q))
  <2>1. UNCHANGED <<store, db, task, spent, signed, tokens, adrift>>
    BY <1>1 DEF Rotate, QuotesExpire, PayMintQuote, mintVars, historyVars
  <2> QED BY <2>1, CoinsStill
<1> QED BY <1>1, CrashKeepsCoins, RedeemKeepsCoins

\* At first there is no coin.
LEMMA InitKeepsCoins == Init => CoinsKept
<1> SUFFICES ASSUME Init PROVE CoinsKept
  OBVIOUS
<1>1. \A t \in Tasks : Settled(task[t], spent, Keys)
  BY IdleSettled DEF Init
<1>2. DOMAIN signed = Secrets(ForeignCoins)
  BY DEF Init, Secrets
<1> QED BY <1>1, <1>2 DEF CoinsKept, Somewhere

\* So every step of a task keeps them,
LEMMA TaskStepKeepsCoins ==
    ASSUME TypeOK, CoinsKept, NEW t \in Tasks, TaskStep(t)
    PROVE  CoinsKept'
<1>1. CASE MintQuote(t) \/ MeltQuote(t) \/ MeltQuoteStatus(t) \/ AddMintCalled(t) \/ RefreshMintKeys(t)
  BY <1>1, MintQuoteKeepsCoins
<1>2. CASE CheckMintQuote(t) \/ CheckedUnpaid(t)
  BY <1>2, CheckKeepsCoins
<1>3. CASE CheckedPaid(t) \/ Mint(t)
  BY <1>3, IssueKeepsCoins
<1>4. CASE PostMint(t) \/ AnsweredMint(t)
  BY <1>4, PostMintKeepsCoins, AnsweredMintKeepsCoins
<1>5. CASE PostSwap(t) \/ AnsweredSwap(t) \/ AnsweredMelt(t)
  BY <1>5, PostSwapKeepsCoins, AnsweredSwapKeepsCoins, AnsweredMeltKeepsCoins
<1>6. CASE Swap(t) \/ Send(t) \/ Melt(t)
  BY <1>6, SendKeepsCoins
<1>7. CASE HandOut(t) \/ BeginMelt(t) \/ PostMelt(t)
  BY <1>7, HandOutKeepsCoins, BeginMeltKeepsCoins, PostMeltKeepsCoins
<1>8. CASE Receive(t) \/ BeginEntry(t) \/ AnsweredReceive(t) \/ StoreReceived(t)
  BY <1>8, ReceiveKeepsCoins, BeginEntryKeepsCoins, AnsweredReceiveKeepsCoins, StoreReceivedKeepsCoins
<1>9. CASE Restore(t) \/ CheckPending(t) \/ RestoreBatch(t) \/ RestoreUnspent(t) \/ RestoreNextBatch(t)
  BY <1>9, RestoreKeepsCoins, RestoreBatchKeepsCoins, RestoreUnspentKeepsCoins, RestoreNextBatchKeepsCoins
<1>10. CASE Write(t) \/ Finish(t) \/ RestoreEnd(t) \/ Stop(t)
  BY <1>10, WriteKeepsCoins, EndingKeepsCoins
<1> QED BY <1>1, <1>2, <1>3, <1>4, <1>5, <1>6, <1>7, <1>8, <1>9, <1>10 DEF TaskStep

\* and every step of the system.
LEMMA StepKeepsCoins ==
    ASSUME TypeOK, CoinsKept, [Next]_vars
    PROVE  CoinsKept'
<1>1. CASE \E t \in Tasks : TaskStep(t)
  BY <1>1, TaskStepKeepsCoins
<1>2. CASE Crash \/ Rotate \/ QuotesExpire \/ (\E q \in MintQuotes : PayMintQuote(q))
           \/ (\E token \in tokens : Redeem(token))
  BY <1>2, OutsideKeepsCoins
<1>3. CASE UNCHANGED vars
  BY <1>3, CoinsStill DEF vars, mintVars, historyVars
<1> QED BY <1>1, <1>2, <1>3 DEF Next

\* What an operation gets from the mint is stored, held or about to be stored
\* until it is spent, and only spent coins are removed: Wallet::mint, create_swap,
\* send, melt, receive and restore, with any write, answer or crash between.
THEOREM CoinsAreKept == Spec => []CoinsKept
<1>1. TypeOK /\ CoinsKept /\ [Next]_vars => TypeOK' /\ CoinsKept'
  BY StepType, StepKeepsCoins
<1> QED BY <1>1, InitType, InitKeepsCoins, PTL DEF Spec

\* Coins that are kept have not vanished.
LEMMA KeptIsNotVanished ==
    ASSUME NoneIsNoList, TypeOK, CoinsKept
    PROVE  NothingVanishes
<1>1. Secrets(Stored(db, None, None)) = Keys
  BY AllStored DEF TypeOK, Sound, Keys
<1>2. \A t \in Tasks : Stake(task[t]) \subseteq InFlight
  BY StakeIsAtStake DEF InFlight
<1> QED BY <1>1, <1>2 DEF NothingVanishes, CoinsKept, Somewhere

\* No unspent coin that was signed for this wallet is forgotten: it is in the
\* store, in an operation under way, in a token or among what was missed.  The
\* hypothesis tells Option::None from every list of rows.
THEOREM NoCoinVanishes == ASSUME NoneIsNoList PROVE Spec => []NothingVanishes
<1>1. TypeOK /\ CoinsKept => NothingVanishes
  BY KeptIsNotVanished
<1> QED BY <1>1, WalletTyped, CoinsAreKept, PTL

-----------------------------------------------------------------------------
(* The balance is real while one operation runs at a time *)

\* While one operation hands out a proof, a restore that found it unspent can
\* write it back as Unspent; not so where no two run at once.
OneTask == \A a, b \in Tasks : a = b

\* What is spent or may be spent by others, and the coins that count.
Gone == spent \cup TokenSecrets
Live(coins) == {y \in DOMAIN coins : coins[y].state = "Unspent"}

\* The proof p can be spent by this wallet only.
Right(p, made, gone) ==
    /\ p.secret \in DOMAIN made \ gone
    /\ made[p.secret] = [amount |-> p.amount, keyset_id |-> p.keyset_id]
    /\ p.c = p.keyset_id

\* The calls c among cs that change the state of a row, and those that write
\* one that counts.
Sets(cs, s) == \E c \in cs : c.call = "set_proof_state" /\ c.x = s
Opens(cs, s) ==
    \E c \in cs : c.call = "add_proofs" /\ \E r \in ToSet(c.x) : r.y = s /\ r.state = "Unspent"
Touches(cs, s) == Adds(cs, s) \/ Removes(cs, s) \/ Sets(cs, s)

\* A task at x is still to deal with the row of s.
Pending(x, s) ==
    \/ x.at \in {"answered", "melted"} /\ x.op # "receive" /\ s \in Secrets(x.ins)
    \/ x.at = "write" /\ s \in Stake(x) /\ Touches(ToSet(x.todo), s)

\* A call that writes no row that counts and cannot be spent, and changes a
\* state to Reserved only.
GoodCall(c, made, gone, lost) ==
    /\ c.call = "add_proofs" => \A r \in ToSet(c.x) :
         /\ r.y \in DOMAIN made
         /\ r.state = "Unspent" => r.y \in lost \/ Right(r.proof, made, gone)
    /\ c.call = "set_proof_state" => c.y = "Reserved"

\* An output and the signature the mint has given for it.
SignedAs(o, k, made) ==
    o.secret \in DOMAIN made /\ made[o.secret] = [amount |-> o.amount, keyset_id |-> k]

\* A secret derived from the seed, and outputs that share none.
Derived(s) == s \in ToSet(Chain) \X Nat
Distinct(outs) == \A o, p \in ToSet(outs) : o.secret = p.secret => o = p
Apart(outs) == \A i, j \in DOMAIN outs : outs[i].secret = outs[j].secret => i = j
MadeFor(outs, k) == \A o \in ToSet(outs) : Derived(o.secret) => o.secret[1] = k

\* Of a task at x: its request, its answer, the coins it holds, and those it
\* hands out.
Request(x) ==
    /\ x.at = "post" => Distinct(x.outs) /\ MadeFor(x.outs, x.k)
    /\ x.at = "post_melt" => Apart(x.outs) /\ MadeFor(x.outs, x.k)
Answer(x, made, gone) ==
    /\ x.at \in {"answered", "melted"} =>
         \A o \in ToSet(x.outs) : o.secret \notin gone \cup Secrets(x.held) /\ SignedAs(o, x.k, made)
    /\ x.at = "write" /\ x.next = "state" => \A o \in ToSet(x.outs) : SignedAs(o, x.k, made)
Holding(x, made, gone) ==
    /\ Secrets(x.held) \subseteq DOMAIN made
    /\ x.op = "receive" =>
         /\ \A p \in x.held : Right(p, made, gone)
         /\ Secrets(x.ins) \cup Secrets(UNION ToSet(x.rest)) \subseteq gone \cup Secrets(ForeignCoins)
HandingOut(x, live) ==
    x.at = "write" /\ x.next = "hand" =>
        \A s \in Secrets(x.held) : ~Opens(ToSet(x.todo), s) /\ (Sets(ToSet(x.todo), s) \/ s \notin live)

TaskReal(x, made, gone, lost, live) ==
    /\ x.at # "write" => x.todo = <<>>
    /\ \A c \in ToSet(x.todo) : GoodCall(c, made, gone, lost)
    /\ Request(x) /\ Answer(x, made, gone) /\ Holding(x, made, gone) /\ HandingOut(x, live)

\* Every coin that counts can be spent, or is adrift, or is being dealt with.
RowsReal ==
    \A s \in Live(Coins(store, db)) :
        \/ s \in adrift \/ Right(Coins(store, db)[s].proof, signed, Gone)
        \/ \E t \in Tasks : Pending(task[t], s)

\* The mint has signed all of these, each derived secret with its keyset.
Known == Keys \cup Gone \subseteq DOMAIN signed
Indexed ==
    \A s \in DOMAIN signed :
        Derived(s) => signed[s] = [amount |-> signed[s].amount, keyset_id |-> s[1]]

BalanceKept ==
    /\ RowsReal /\ Known /\ Indexed
    /\ \A t \in Tasks : TaskReal(task[t], signed, Gone, adrift, Live(Coins(store, db)))

\* Outputs at different places with different secrets are different outputs.
LEMMA ApartIsDistinct ==
    ASSUME NEW outs \in Seq(Outputs), Apart(outs)
    PROVE  Distinct(outs)
BY DEF Apart, Distinct, ToSet

\* from_xpriv makes a secret of the keyset for every index once.
LEMMA XprivApart ==
    ASSUME NEW n \in Int, NEW count \in Nat, NEW k \in ToSet(Chain)
    PROVE  /\ Apart(FromXpriv(k, count, n)) /\ MadeFor(FromXpriv(k, count, n), k)
           /\ \A o \in ToSet(FromXpriv(k, count, n)) :
                \E i \in 1..Len(Parts(n)) : o.secret = <<k, count + i - 1>>
<1> DEFINE m == Len(Parts(n))
           outs == FromXpriv(k, count, n)
<1>1. m \in Nat /\ DOMAIN Parts(n) = 1..m
  BY PartsType
<1> HIDE DEF m
<1>2. DOMAIN outs = 1..m /\ \A i \in 1..m : outs[i].secret = <<k, count + i - 1>>
  BY <1>1 DEF FromXpriv
<1> HIDE DEF outs
<1>3. Apart(outs)
  <2> SUFFICES ASSUME NEW i \in 1..m, NEW j \in 1..m, outs[i].secret = outs[j].secret PROVE i = j
    BY <1>2 DEF Apart
  <2>1. <<k, count + i - 1>> = <<k, count + j - 1>>
    BY <1>2
  <2>2. count + i - 1 = count + j - 1
    BY <2>1
  <2> QED BY <1>1, <2>2
<1>4. \A o \in ToSet(outs) : \E i \in 1..m : o.secret = <<k, count + i - 1>>
  BY <1>2 DEF ToSet
<1>5. MadeFor(outs, k)
  BY <1>4 DEF MadeFor
<1> QED BY <1>3, <1>4, <1>5 DEF outs, m

\* with_conditions makes random secrets, none of them derived.
LEMMA ConditionsApart ==
    ASSUME NEW n \in Int, NEW cond \in Locks, random \in Nat, NEW k
    PROVE  /\ Apart(WithConditions(cond, n)) /\ MadeFor(WithConditions(cond, n), k)
           /\ \A o \in ToSet(WithConditions(cond, n)) :
                \E i \in 1..Len(Parts(n)) : o.secret = <<cond, random + i>>
<1> DEFINE m == Len(Parts(n))
           outs == WithConditions(cond, n)
<1>1. m \in Nat /\ DOMAIN Parts(n) = 1..m
  BY PartsType
<1> HIDE DEF m
<1>2. DOMAIN outs = 1..m /\ \A i \in 1..m : outs[i].secret = <<cond, random + i>>
  BY <1>1 DEF WithConditions
<1> HIDE DEF outs
<1>3. Apart(outs)
  <2> SUFFICES ASSUME NEW i \in 1..m, NEW j \in 1..m, outs[i].secret = outs[j].secret PROVE i = j
    BY <1>2 DEF Apart
  <2>1. <<cond, random + i>> = <<cond, random + j>>
    BY <1>2
  <2>2. random + i = random + j
    BY <2>1
  <2> QED BY <1>1, <2>2
<1>4. \A o \in ToSet(outs) : \E i \in 1..m : o.secret = <<cond, random + i>>
  BY <1>2 DEF ToSet
<1>5. MadeFor(outs, k)
  <2>1. cond \notin ToSet(Chain)
    BY WalletAssumption
  <2> SUFFICES ASSUME NEW o \in ToSet(outs), Derived(o.secret) PROVE FALSE
    BY DEF MadeFor
  <2>2. PICK i \in 1..m : o.secret = <<cond, random + i>>
    BY <1>4
  <2> QED BY <2>1, <2>2 DEF Derived
<1> QED BY <1>3, <1>4, <1>5 DEF outs, m

\* blank makes a secret of the keyset for every index once.
LEMMA BlanksApart ==
    ASSUME NEW count \in Nat, NEW k \in ToSet(Chain)
    PROVE  LET outs == FromXprivBlank(k, count, FeeReserve) IN Apart(outs) /\ MadeFor(outs, k)
<1> DEFINE m == BlankCount(FeeReserve)
           outs == FromXprivBlank(k, count, FeeReserve)
<1>1. m \in Nat
  BY WalletAssumption, BlankCountType
<1> HIDE DEF m
<1>2. DOMAIN outs = 1..m /\ \A i \in 1..m : outs[i].secret = <<k, count + i - 1>>
  BY <1>1 DEF FromXprivBlank, m
<1> HIDE DEF outs
<1>3. Apart(outs)
  <2> SUFFICES ASSUME NEW i \in 1..m, NEW j \in 1..m, outs[i].secret = outs[j].secret PROVE i = j
    BY <1>2 DEF Apart
  <2>1. <<k, count + i - 1>> = <<k, count + j - 1>>
    BY <1>2
  <2>2. count + i - 1 = count + j - 1
    BY <2>1
  <2> QED BY <1>1, <2>2
<1>4. MadeFor(outs, k)
  BY <1>2 DEF MadeFor, ToSet
<1> QED BY <1>3, <1>4 DEF outs

\* Two lists of outputs that share no secret make one, sorted or not.
LEMMA JoinedDistinct ==
    ASSUME NEW a \in Seq(Outputs), NEW b \in Seq(Outputs), NEW k, Apart(a), Apart(b),
           MadeFor(a, k), MadeFor(b, k), \A o \in ToSet(a), p \in ToSet(b) : o.secret # p.secret
    PROVE  Distinct(BySize(a \o b)) /\ MadeFor(BySize(a \o b), k)
<1> DEFINE s == a \o b
           T == ToSet(s)
<1>1. s \in Seq(Outputs) /\ T = ToSet(a) \cup ToSet(b)
  BY JoinedElements
<1> HIDE DEF s
<1>2. s \in Seq(T)
  <2>1. \A i \in 1..Len(s) : s[i] \in T
    BY <1>1 DEF ToSet, T
  <2> HIDE DEF T
  <2> QED BY <1>1, <2>1
<1>3. ToSet(BySize(s)) \subseteq T
  <2> HIDE DEF T
  <2> QED BY <1>2, BySizeType, Elements
<1>4. Distinct(a) /\ Distinct(b)
  BY ApartIsDistinct
<1> HIDE DEF T
<1>5. \A o, p \in T : o.secret = p.secret => o = p
  BY <1>1, <1>4 DEF Distinct
<1>6. \A o \in T : Derived(o.secret) => o.secret[1] = k
  BY <1>1 DEF MadeFor
<1> QED BY <1>3, <1>5, <1>6 DEF Distinct, MadeFor, s

\* A task that has nothing to write, ask or store, and no coins of others.
LEMMA PlainReal ==
    ASSUME NEW x, x.todo = <<>>, x.at \notin {"post", "post_melt", "answered", "melted"},
           x.next \notin {"state", "hand"} \/ x.at # "write", x.op # "receive",
           NEW made, Secrets(x.held) \subseteq DOMAIN made
    PROVE  \A gone, lost, live : TaskReal(x, made, gone, lost, live)
<1>1. ToSet(x.todo) = {}
  BY NothingIn
<1> QED BY <1>1 DEF TaskReal, Request, Answer, Holding, HandingOut

\* An idle task is one.
LEMMA IdleReal == \A made, gone, lost, live : TaskReal(Idle, made, gone, lost, live)
<1>1. \A made : Secrets(Idle.held) \subseteq DOMAIN made
  BY IdleFields, NothingIn
<1>2. /\ Idle.todo = <<>> /\ Idle.at \notin {"post", "post_melt", "answered", "melted"}
      /\ Idle.next \notin {"state", "hand"} /\ Idle.op # "receive"
  BY IdleFields
<1> QED BY <1>1, <1>2, PlainReal

\* Where no call is left no row is dealt with.
LEMMA NoneTouched ==
    /\ \A s : ~Touches({}, s) /\ ~Opens({}, s) /\ ~Sets({}, s) /\ ~Adds({}, s) /\ ~Removes({}, s)
    /\ ToSet(<<>>) = {}
BY NothingIn DEF Touches, Opens, Sets, Adds, Removes

\* Nor by a task that waits for nothing it has asked.
LEMMA NonePending ==
    ASSUME NEW x, x.at \notin {"answered", "melted"}, x.at # "write" \/ x.todo = <<>>
    PROVE  \A s : ~Pending(x, s)
BY NoneTouched DEF Pending

\* What is pending is at stake.
LEMMA PendingStakes == \A x, s : Pending(x, s) => s \in Stake(x)
BY DEF Pending, Stake

\* The one task is the one that moves.
LEMMA OneMoves ==
    ASSUME OneTask, TypeOK, NEW t \in Tasks, NEW x, Goto(t, x)
    PROVE  \A u \in Tasks : u = t /\ task'[u] = x
BY GotoDoes DEF OneTask, TypeOK

\* A step of the one task keeps the balance when ...
LEMMA RealMoved ==
    ASSUME OneTask, TypeOK, NEW t \in Tasks, NEW x, Goto(t, x),
           TaskReal(x, signed', Gone', adrift', Live(Coins(store', db'))), Known', Indexed',
           \A s \in Live(Coins(store', db')) :
               s \in adrift' \/ Right(Coins(store', db')[s].proof, signed', Gone') \/ Pending(x, s)
    PROVE  BalanceKept'
<1>1. \A u \in Tasks : task'[u] = x
  BY OneMoves
<1>2. RowsReal'
  BY <1>1 DEF RowsReal
<1> QED BY <1>1, <1>2 DEF BalanceKept

\* A step that leaves the rows and the mint alone.
LEMMA RealQuiet ==
    ASSUME OneTask, TypeOK, BalanceKept, NEW t \in Tasks, NEW x, Goto(t, x),
           UNCHANGED <<store, spent, signed, tokens>>, Coins(store, db') = Coins(store, db),
           TaskReal(x, signed, Gone, adrift', Live(Coins(store, db))),
           \A s : s \in adrift \/ Pending(task[t], s) => s \in adrift' \/ Pending(x, s)
    PROVE  BalanceKept'
<1>1. Gone' = Gone /\ Keys' = Keys
  BY DEF Gone, Keys, TokenSecrets
<1>2. Known' /\ Indexed'
  BY <1>1 DEF BalanceKept, Known, Indexed
<1>3. \A u \in Tasks : u = t
  BY DEF OneTask
<1>4. \A s \in Live(Coins(store, db)) :
        s \in adrift \/ Right(Coins(store, db)[s].proof, signed, Gone) \/ Pending(task[t], s)
  BY <1>3 DEF BalanceKept, RowsReal
<1>5. \A s \in Live(Coins(store', db')) :
        s \in adrift' \/ Right(Coins(store', db')[s].proof, signed', Gone') \/ Pending(x, s)
  BY <1>1, <1>4
<1>6. TaskReal(x, signed', Gone', adrift', Live(Coins(store', db')))
  BY <1>1
<1> QED BY <1>2, <1>5, <1>6, RealMoved

\* A step that moves no task.
LEMMA RealStill ==
    ASSUME BalanceKept, UNCHANGED <<store, task, spent, signed, tokens, adrift>>,
           Coins(store, db') = Coins(store, db)
    PROVE  BalanceKept'
<1>1. Gone' = Gone /\ Keys' = Keys
  BY DEF Gone, Keys, TokenSecrets
<1> QED BY <1>1 DEF BalanceKept, RowsReal, Known, Indexed

\* An operation that ends with nothing pending, or sets it adrift.
LEMMA RealEnd ==
    ASSUME OneTask, TypeOK, BalanceKept, NEW t \in Tasks, End(t),
           UNCHANGED <<store, spent, signed, tokens>>, Coins(store, db') = Coins(store, db),
           adrift \subseteq adrift', \A s : Pending(task[t], s) => s \in adrift'
    PROVE  BalanceKept'
BY IdleReal, RealQuiet DEF End

\* The task of an operation that begins deals with no row.
LEMMA BeginsReal ==
    ASSUME TypeOK, NEW t \in Tasks, task[t].op = "idle"
    PROVE  \A s : ~Pending(task[t], s)
<1>1. task[t] = Idle
  BY DEF TypeOK, Control
<1> QED BY <1>1, IdleFields, NonePending

\* One that has made all its writes neither.
LEMMA DoneReal ==
    ASSUME NEW t, NEW next, Done(t, next)
    PROVE  \A s : ~Pending(task[t], s)
BY NonePending DEF Done

\* The operations that store quotes and keysets only keep the balance.
LEMMA MintQuoteIsReal ==
    ASSUME TypeOK, BalanceKept, NEW t \in Tasks,
           MintQuote(t) \/ MeltQuote(t) \/ MeltQuoteStatus(t) \/ AddMintCalled(t) \/ RefreshMintKeys(t)
    PROVE  BalanceKept'
<1>1. UNCHANGED <<store, task, spent, signed, tokens, adrift>>
  BY DEF MintQuote, MeltQuote, MeltQuoteStatus, AddMintCalled, RefreshMintKeys, OnlyTask, mintVars,
         historyVars
<1>2. CASE MintQuote(t)
  BY <1>1, <1>2, MintQuoteDoes, RealStill DEF QuotePut
<1>3. CASE MeltQuote(t)
  BY <1>1, <1>3, MeltQuoteDoes, RealStill
<1>4. CASE MeltQuoteStatus(t)
  BY <1>1, <1>4, MeltQuoteStatusDoes, RealStill
<1>5. CASE AddMintCalled(t) \/ RefreshMintKeys(t)
  BY <1>1, <1>5, AddMintDoes, RealStill DEF Refreshed
<1> QED BY <1>2, <1>3, <1>4, <1>5

\* The check of a quote keeps the balance.
LEMMA CheckIsReal ==
    ASSUME OneTask, TypeOK, BalanceKept, NEW t \in Tasks, CheckMintQuote(t) \/ CheckedUnpaid(t)
    PROVE  BalanceKept'
<1>1. UNCHANGED <<store, spent, signed, tokens, adrift>>
  BY DEF CheckMintQuote, CheckedUnpaid, OnlyTask, mintVars, historyVars
<1>2. CASE CheckMintQuote(t)
  <2>1. PICK q \in MintQuotes, row \in MintQuoteRows :
          /\ quote[q] \in {"unpaid", "paid"} /\ QuotePut(store, db, db', row)
          /\ Goto(t, [Idle EXCEPT !.op = "check", !.at = quote[q], !.id = q, !.expiry = row.expiry])
    BY <1>2, CheckMintQuoteDoes
  <2> DEFINE x == [Idle EXCEPT !.op = "check", !.at = quote[q], !.id = q, !.expiry = row.expiry]
  <2>2. x.op = "check" /\ x.at \in {"unpaid", "paid"} /\ x.todo = <<>> /\ x.held = {}
    BY <2>1 DEF Idle
  <2>3. Goto(t, x)
    BY <2>1
  <2> HIDE DEF x
  <2>4. Secrets(x.held) \subseteq DOMAIN signed
    BY <2>2, NothingIn
  <2>5. TaskReal(x, signed, Gone, adrift', Live(Coins(store, db)))
    BY <2>2, <2>4, PlainReal
  <2>6. \A s : ~Pending(task[t], s)
    BY <1>2, BeginsReal DEF CheckMintQuote, Called, Asked
  <2>7. Coins(store, db') = Coins(store, db)
    BY <2>1 DEF QuotePut
  <2> QED BY <1>1, <2>3, <2>5, <2>6, <2>7, RealQuiet
<1>3. CASE CheckedUnpaid(t)
  <2>1. End(t) /\ Coins(store, db') = Coins(store, db)
    BY <1>3, CheckedUnpaidDoes DEF CheckedUnpaid
  <2>2. \A s : ~Pending(task[t], s)
    BY <1>3, NonePending DEF CheckedUnpaid
  <2> QED BY <1>1, <2>1, <2>2, RealEnd
<1> QED BY <1>2, <1>3

\* So does an operation that ends.
LEMMA EndingIsReal ==
    ASSUME OneTask, TypeOK, BalanceKept, NEW t \in Tasks, Finish(t) \/ RestoreEnd(t) \/ Stop(t)
    PROVE  BalanceKept'
<1>1. End(t) /\ UNCHANGED <<store, db, spent, signed, tokens>> /\ adrift \subseteq adrift'
  BY DEF Finish, RestoreEnd, Stop, Fail, OnlyTask, mintVars, historyVars
<1>2. \A s : Pending(task[t], s) => s \in adrift'
  <2>1. CASE Finish(t)
    BY <2>1, DoneReal DEF Finish
  <2>2. CASE RestoreEnd(t)
    BY <2>2, NonePending DEF RestoreEnd
  <2>3. CASE Stop(t)
    <3>1. Stake(task[t]) \subseteq adrift'
      BY <2>3, StakeIsAtStake DEF Stop, Fail
    <3> QED BY <3>1, PendingStakes
  <2> QED BY <2>1, <2>2, <2>3
<1> QED BY <1>1, <1>2, RealEnd

\* What the secrets of tokens are, one by one.
LEMMA InTokens ==
    \A s : s \in TokenSecrets <=> \E token \in tokens : s \in Secrets(UNION ToSet(token.entries))
BY DEF TokenSecrets

\* A token that is redeemed was counted as gone before.
LEMMA RedeemIsReal ==
    ASSUME TypeOK, BalanceKept, NEW token \in tokens, Redeem(token)
    PROVE  BalanceKept'
<1>1. /\ UNCHANGED <<store, db, task, signed, adrift>> /\ tokens' = tokens \ {token}
      /\ spent' = spent \cup Secrets(UNION ToSet(token.entries))
  BY DEF Redeem, historyVars
<1>2. Gone' = Gone
  <2>1. \A s : s \in TokenSecrets' <=> \E other \in tokens' : s \in Secrets(UNION ToSet(other.entries))
    BY DEF TokenSecrets
  <2> QED BY <1>1, <2>1, InTokens DEF Gone
<1>3. Keys' = Keys
  BY <1>1 DEF Keys
<1> QED BY <1>1, <1>2, <1>3 DEF BalanceKept, RowsReal, Known, Indexed

\* A crash sets adrift what was pending, or takes all rows.
LEMMA CrashIsReal ==
    ASSUME TypeOK, BalanceKept, Crash
    PROVE  BalanceKept'
<1>1. /\ task' = [t \in Tasks |-> Idle] /\ UNCHANGED <<store, signed, spent, tokens>>
      /\ db' = IF Volatile(store) THEN New(store) ELSE db
      /\ adrift \subseteq adrift' /\ \A t \in Tasks : AtStake(t) \subseteq adrift'
  <2>1. /\ task' = [t \in Tasks |-> Idle] /\ UNCHANGED <<store, signed, spent, tokens>>
        /\ db' = IF Volatile(store) THEN New(store) ELSE db
        /\ adrift' = adrift \cup (UNION {AtStake(t) : t \in Tasks})
                            \cup (IF Volatile(store) THEN DOMAIN signed ELSE {})
    BY DEF Crash, mintVars
  <2> DEFINE lost == UNION {AtStake(t) : t \in Tasks}
             wide == IF Volatile(store) THEN DOMAIN signed ELSE {}
  <2>2. \A t \in Tasks : AtStake(t) \subseteq lost
    OBVIOUS
  <2>3. adrift' = adrift \cup lost \cup wide
    BY <2>1
  <2> HIDE DEF lost, wide
  <2> QED BY <2>1, <2>2, <2>3
<1>2. Gone' = Gone
  BY <1>1 DEF Gone, TokenSecrets
<1>3. \A t \in Tasks : TaskReal(task'[t], signed', Gone', adrift', Live(Coins(store', db')))
  BY <1>1, IdleReal
<1>4. CASE Volatile(store)
  <2>1. DOMAIN Coins(store', db') = {}
    BY <1>1, <1>4, NewStore DEF TypeOK
  <2>2. Keys' = {} /\ Live(Coins(store', db')) = {}
    BY <2>1 DEF Keys, Live
  <2>3. RowsReal' /\ Known' /\ Indexed'
    BY <1>1, <1>2, <2>2 DEF RowsReal, Known, Indexed, BalanceKept
  <2> QED BY <1>3, <2>3 DEF BalanceKept
<1>5. CASE ~Volatile(store)
  <2>1. Coins(store', db') = Coins(store, db) /\ Keys' = Keys
    BY <1>1, <1>5 DEF Keys
  <2>2. \A t \in Tasks : \A s : Pending(task[t], s) => s \in adrift'
    <3> TAKE t \in Tasks
    <3>1. Stake(task[t]) \subseteq adrift'
      BY <1>1, StakeIsAtStake
    <3> QED BY <3>1, PendingStakes
  <2>3. RowsReal' /\ Known' /\ Indexed'
    BY <1>1, <1>2, <2>1, <2>2 DEF RowsReal, Known, Indexed, BalanceKept
  <2> QED BY <1>3, <2>3 DEF BalanceKept
<1> QED BY <1>4, <1>5

\* What happens around the wallet keeps the balance.
LEMMA OutsideIsReal ==
    ASSUME TypeOK, BalanceKept,
           Crash \/ Rotate \/ QuotesExpire \/ (\E q \in MintQuotes : PayMintQuote(q))
           \/ (\E token \in tokens : Redeem(token))
    PROVE  BalanceKept'
<1>1. CASE Rotate \/ QuotesExpire \/ (\E q \in MintQuotes : PayMintQuote(q))
  <2>1. UNCHANGED <<store, db, task, spent, signed, tokens, adrift>>
    BY <1>1 DEF Rotate, QuotesExpire, PayMintQuote, mintVars, historyVars
  <2> QED BY <2>1, RealStill
<1> QED BY <1>1, CrashIsReal, RedeemIsReal

\* At first the mint has signed coins of others only.
LEMMA InitIsReal == Init => BalanceKept
<1> SUFFICES ASSUME Init PROVE BalanceKept
  OBVIOUS
<1>1. store \in WalletStores /\ DOMAIN Coins(store, db) = {}
  BY NewStore, WalletAssumption DEF Init
<1>2. Keys = {} /\ Live(Coins(store, db)) = {} /\ Gone = {}
  BY <1>1 DEF Keys, Live, Init, Gone, TokenSecrets
<1>3. DOMAIN signed = Secrets(ForeignCoins)
  BY DEF Init, Secrets
<1>4. \A s \in DOMAIN signed : ~Derived(s)
  BY <1>3, ForeignAssumption DEF Secrets, Derived, OwnSecrets
<1>5. \A t \in Tasks : TaskReal(task[t], signed, Gone, adrift, Live(Coins(store, db)))
  BY IdleReal DEF Init
<1> QED BY <1>2, <1>4, <1>5 DEF BalanceKept, RowsReal, Known, Indexed

-----------------------------------------------------------------------------
(* The requests share no secret, and what they take is stored *)

\* create_swap was called with ins, and base goes on with outputs that differ.
SwapAsked(t, base, ins) ==
    /\ Refreshed(store, db, db')
    /\ \E k \in ToSet(Chain), outs \in Seq(Outputs), want \in Int \cup {None}, cond \in Locks \cup {None} :
         /\ Distinct(outs) /\ MadeFor(outs, k)
         /\ Goto(t, [base EXCEPT !.at = "post", !.k = k, !.ins = ins, !.want = want,
                                 !.cond = cond, !.outs = outs])

\* The outputs create_swap makes for the amount and for the change share no
\* secret.
LEMMA CreateSwapAsks ==
    ASSUME TypeOK, NEW t \in Tasks, NEW base, NEW d, Refreshed(store, db, d), NEW ins \in Purses,
           NEW want \in Int \cup {None}, NEW cond \in Locks \cup {None},
           CreateSwap(t, base, d, ins, want, cond)
    PROVE  SwapAsked(t, base, ins)
<1> DEFINE a == ActiveMintKeyset(d)
           count == NextIndex(a.db, a.id)
           amount == IF want = None THEN Amount(ins) ELSE want
           k == a.id
           desired == IF cond = None THEN FromXpriv(k, count, amount)
                      ELSE WithConditions(cond, amount)
           from == IF cond = None THEN count + Len(desired) ELSE count
           change == FromXpriv(k, from, Amount(ins) - amount)
           n == Len(Parts(amount))
<1>1. /\ db' = a.db
      /\ Goto(t, [base EXCEPT !.at = "post", !.k = k, !.ins = ins, !.want = want,
                              !.cond = cond, !.outs = BySize(desired \o change)])
  BY DEF CreateSwap
<1>2. store \in WalletStores /\ active \in 1..Len(Chain) /\ random \in Nat
  BY DEF TypeOK
<1>3. Shaped(store, d) /\ Listed(store, Registry(store, d))
  BY DEF Refreshed
<1>4. Refreshed(store, d, a.db) /\ a.id \in ToSet(Chain)
  BY <1>2, <1>3, ActiveKeysetType
<1>5. Refreshed(store, db, db')
  BY <1>1, <1>4, RefreshedTwice
<1>6. count \in Nat
  BY <1>2, <1>4, NextIndexType DEF Refreshed
<1>7. amount \in Int /\ Amount(ins) - amount \in Int
  BY AmountType
<1>8. k \in ToSet(Chain)
  BY <1>4
<1> HIDE DEF a, count, amount, k
<1>9. n \in Nat
  BY <1>7, PartsType
<1> HIDE DEF n
<1>10. /\ desired \in Seq(Outputs) /\ Apart(desired) /\ MadeFor(desired, k)
       /\ cond = None => Len(desired) = n
       /\ \A o \in ToSet(desired) : \E i \in 1..n :
            o.secret = IF cond = None THEN <<k, count + i - 1>> ELSE <<cond, random + i>>
  <2>1. CASE cond = None
    <3>1. /\ FromXpriv(k, count, amount) \in Seq(Outputs) /\ Len(FromXpriv(k, count, amount)) = n
      BY <1>6, <1>7, <1>8, XprivType DEF n
    <3>2. /\ Apart(FromXpriv(k, count, amount)) /\ MadeFor(FromXpriv(k, count, amount), k)
          /\ \A o \in ToSet(FromXpriv(k, count, amount)) : \E i \in 1..n : o.secret = <<k, count + i - 1>>
      BY <1>6, <1>7, <1>8, XprivApart DEF n
    <3> QED BY <2>1, <3>1, <3>2
  <2>2. CASE cond # None
    <3>1. WithConditions(cond, amount) \in Seq(Outputs)
      BY <1>2, <1>7, <2>2, ConditionsType
    <3>2. /\ Apart(WithConditions(cond, amount)) /\ MadeFor(WithConditions(cond, amount), k)
          /\ \A o \in ToSet(WithConditions(cond, amount)) : \E i \in 1..n : o.secret = <<cond, random + i>>
      BY <1>2, <1>7, <2>2, ConditionsApart DEF n
    <3> QED BY <2>2, <3>1, <3>2
  <2> QED BY <2>1, <2>2
<1> HIDE DEF desired
<1>11. from \in Nat /\ (cond = None => from = count + n)
  BY <1>6, <1>9, <1>10
<1> HIDE DEF from
<1> DEFINE m == Len(Parts(Amount(ins) - amount))
<1>12. /\ change \in Seq(Outputs) /\ Apart(change) /\ MadeFor(change, k)
       /\ \A o \in ToSet(change) : \E i \in 1..m : o.secret = <<k, from + i - 1>>
  BY <1>7, <1>8, <1>11, XprivType, XprivApart
<1>13. m \in Nat
  BY <1>7, PartsType
<1> HIDE DEF change, m
<1>14. \A o \in ToSet(desired), p \in ToSet(change) : o.secret # p.secret
  <2> SUFFICES ASSUME NEW o \in ToSet(desired), NEW p \in ToSet(change), o.secret = p.secret PROVE FALSE
    OBVIOUS
  <2>1. PICK i \in 1..n : o.secret = IF cond = None THEN <<k, count + i - 1>> ELSE <<cond, random + i>>
    BY <1>10
  <2>2. PICK j \in 1..m : p.secret = <<k, from + j - 1>>
    BY <1>12
  <2>3. CASE cond = None
    <3>1. <<k, count + i - 1>> = <<k, from + j - 1>>
      BY <2>1, <2>2, <2>3
    <3>2. count + i - 1 = from + j - 1
      BY <3>1
    <3> QED BY <1>6, <1>9, <1>11, <1>13, <2>3, <3>2
  <2>4. CASE cond # None
    <3>1. cond \notin ToSet(Chain)
      BY <2>4, WalletAssumption
    <3>2. <<cond, random + i>> = <<k, from + j - 1>>
      BY <2>1, <2>2, <2>4
    <3>3. cond = k
      BY <3>2
    <3> QED BY <1>8, <3>1, <3>3
  <2> QED BY <2>3, <2>4
<1> DEFINE outs == BySize(desired \o change)
<1>15. outs \in Seq(Outputs)
  <2> DEFINE S == Outputs
             both == desired \o change
  <2>1. both \in Seq(S)
    BY <1>10, <1>12
  <2> HIDE DEF S, both
  <2>2. BySize(both) \in Seq(S)
    BY <2>1, BySizeType
  <2> QED BY <2>2 DEF S, both
<1>16. Distinct(outs) /\ MadeFor(outs, k)
  BY <1>10, <1>12, <1>14, JoinedDistinct
<1>17. Goto(t, [base EXCEPT !.at = "post", !.k = k, !.ins = ins, !.want = want, !.cond = cond,
                            !.outs = outs])
  BY <1>1 DEF desired, change, from, k, count, amount, a
<1> HIDE DEF outs
<1> QED BY <1>5, <1>8, <1>15, <1>16, <1>17 DEF SwapAsked

\* A swap that begins leaves the rows alone.
LEMMA SwapIsReal ==
    ASSUME OneTask, TypeOK, BalanceKept, NEW t \in Tasks, NEW base \in TaskStates, NEW ins,
           base.todo = <<>>, SwapAsked(t, base, ins), OnlyTask, \A s : ~Pending(task[t], s),
           Secrets(base.held) \subseteq DOMAIN signed,
           base.op = "receive" =>
             /\ \A p \in base.held : Right(p, signed, Gone)
             /\ Secrets(ins) \cup Secrets(UNION ToSet(base.rest)) \subseteq Gone \cup Secrets(ForeignCoins)
    PROVE  BalanceKept'
<1>1. PICK k \in ToSet(Chain), outs \in Seq(Outputs), want \in Int \cup {None}, cond \in Locks \cup {None} :
        /\ Distinct(outs) /\ MadeFor(outs, k)
        /\ Goto(t, [base EXCEPT !.at = "post", !.k = k, !.ins = ins, !.want = want,
                                !.cond = cond, !.outs = outs])
  BY DEF SwapAsked
<1> DEFINE x == [base EXCEPT !.at = "post", !.k = k, !.ins = ins, !.want = want,
                             !.cond = cond, !.outs = outs]
<1>2. /\ x.at = "post" /\ x.todo = <<>> /\ x.op = base.op /\ x.held = base.held /\ x.outs = outs
      /\ x.k = k /\ x.ins = ins /\ x.rest = base.rest
  BY DEF TaskStates
<1>3. Goto(t, x)
  BY <1>1
<1> HIDE DEF x
<1>4. UNCHANGED <<store, spent, signed, tokens, adrift>> /\ Coins(store, db') = Coins(store, db)
  BY DEF SwapAsked, Refreshed, OnlyTask, mintVars, historyVars
<1>5. Holding(x, signed, Gone)
  BY <1>2 DEF Holding
<1>6. TaskReal(x, signed, Gone, adrift', Live(Coins(store, db)))
  BY <1>1, <1>2, <1>5, NoneTouched DEF TaskReal, Request, Answer, HandingOut
<1> QED BY <1>3, <1>4, <1>6, RealQuiet

\* The proofs that are selected are stored, and so the mint has signed them.
LEMMA StoredSigned ==
    ASSUME TypeOK, BalanceKept, NEW d, Refreshed(store, db, d), NEW states, NEW conds
    PROVE  Secrets(Stored(d, states, conds)) \subseteq DOMAIN signed
<1>1. CoinsOK(Coins(store, d)) /\ store \in WalletStores /\ Coins(store, d) = Coins(store, db)
  BY RefreshedSound DEF TypeOK, Sound, Refreshed
<1>2. \A p \in Stored(d, states, conds) : p.secret \in Keys
  BY <1>1, StoredType DEF Keys
<1> QED BY <1>2 DEF BalanceKept, Known, Secrets

\* Those an amount takes among them.
LEMMA SelectedSigned ==
    ASSUME TypeOK, BalanceKept, NEW d, Refreshed(store, db, d), NEW infos, NEW amount
    PROVE  /\ \A cond, ps : ps \in SelectLocked(d, infos, amount, cond) => Secrets(ps) \subseteq DOMAIN signed
           /\ \A locked, ps : ps \in Selections(d, infos, amount, locked) => Secrets(ps) \subseteq DOMAIN signed
<1>1. \A states, conds, ps : ps \subseteq Stored(d, states, conds) => Secrets(ps) \subseteq DOMAIN signed
  BY StoredSigned DEF Secrets
<1>2. ASSUME NEW cond, NEW ps \in SelectLocked(d, infos, amount, cond)
      PROVE  Secrets(ps) \subseteq DOMAIN signed
  <2>1. CASE cond = None
    BY <2>1, NothingIn DEF SelectLocked
  <2>2. CASE cond # None
    <3>1. ps \subseteq Stored(d, {"Unspent"}, {cond})
      BY <2>2 DEF SelectLocked, Fitting
    <3> QED BY <1>1, <3>1
  <2> QED BY <2>1, <2>2
<1>3. ASSUME NEW locked, NEW ps \in Selections(d, infos, amount, locked)
      PROVE  Secrets(ps) \subseteq DOMAIN signed
  <2>1. ps \subseteq Stored(d, {"Unspent"}, None)
    BY DEF Selections, Unspent
  <2> QED BY <1>1, <2>1
<1> QED BY <1>2, <1>3

-----------------------------------------------------------------------------
(* The operations that begin *)

\* set_proof_state is called for every proof.
LEMMA SettingSets ==
    ASSUME NEW ps \in Purses, NEW state \in States
    PROVE  /\ \A c \in ToSet(Setting(ps, state)) : c.call = "set_proof_state" /\ c.y = state
           /\ \A s \in Secrets(ps) : Sets(ToSet(Setting(ps, state)), s)
<1> DEFINE rows == SetToSeq(ps)
           n == Len(rows)
           f == [i \in 1..n |-> Call("set_proof_state", rows[i].secret, state)]
<1>1. rows \in Seq(ps) /\ ToSet(rows) = ps
  BY InSomeOrder DEF Purses
<1>2. n \in Nat /\ DOMAIN rows = 1..n
  BY <1>1
<1>3. Setting(ps, state) = f
  BY <1>2 DEF Setting
<1>4. \A p \in ps : \E i \in 1..n : p = rows[i]
  BY <1>1, <1>2 DEF ToSet
<1> HIDE DEF rows, n
<1>5. ToSet(f) = {Call("set_proof_state", rows[i].secret, state) : i \in 1..n}
  BY DEF ToSet
<1>6. \A c \in ToSet(f) : c.call = "set_proof_state" /\ c.y = state
  BY <1>5 DEF Call
<1>7. \A s \in Secrets(ps) : \E i \in 1..n : s = rows[i].secret
  BY <1>4 DEF Secrets
<1>8. \A s \in Secrets(ps) : \E c \in ToSet(f) : c.call = "set_proof_state" /\ c.x = s
  <2> SUFFICES ASSUME NEW s \in Secrets(ps)
               PROVE  \E c \in ToSet(f) : c.call = "set_proof_state" /\ c.x = s
    OBVIOUS
  <2>1. PICK i \in 1..n : s = rows[i].secret
    BY <1>7
  <2> DEFINE c == Call("set_proof_state", rows[i].secret, state)
  <2>2. c \in ToSet(f)
    BY <1>5
  <2>3. c.call = "set_proof_state" /\ c.x = s
    BY <2>1 DEF Call
  <2> HIDE DEF c, f
  <2> QED BY <2>2, <2>3
<1> HIDE DEF f
<1> QED BY <1>3, <1>6, <1>8 DEF Sets

\* What swap takes is stored.
LEMMA SwapOpIsReal ==
    ASSUME OneTask, TypeOK, BalanceKept, NEW t \in Tasks, Swap(t)
    PROVE  BalanceKept'
<1> DEFINE ins == Unspent(db)
           base == [Idle EXCEPT !.op = "swap"]
<1>1. CreateSwap(t, base, db, ins, None, None) /\ OnlyTask
  BY DEF Swap
<1>2. ins \in Purses
  BY StoredType, OwnPursesArePurses DEF Unspent, TypeOK, Sound
<1>3. Refreshed(store, db, db)
  BY SameDb
<1>4. base \in TaskStates /\ base.todo = <<>> /\ base.op = "swap" /\ base.held = {}
  <2>1. "swap" \in OpNames
    BY DEF OpNames
  <2> QED BY <2>1, IdleType, IdleFields DEF TaskStates
<1> HIDE DEF ins, base
<1>5. SwapAsked(t, base, ins)
  BY <1>1, <1>2, <1>3, CreateSwapAsks
<1>6. \A s : ~Pending(task[t], s)
  BY BeginsReal DEF Swap, Called, Asked
<1>7. Secrets(base.held) \subseteq DOMAIN signed
  BY <1>4, NothingIn
<1>8. base.op # "receive"
  BY <1>4
<1> QED BY <1>1, <1>4, <1>5, <1>6, <1>7, <1>8, SwapIsReal

\* What send hands out at once is about to be set Reserved.
LEMMA HandingIsReal ==
    ASSUME OneTask, TypeOK, BalanceKept, NEW t \in Tasks, NEW ps \in OwnPurses,
           Secrets(ps) \subseteq DOMAIN signed, Refreshed(store, db, db'), OnlyTask,
           Goto(t, Handing(ps)), \A s : ~Pending(task[t], s)
    PROVE  BalanceKept'
<1> DEFINE x == Handing(ps)
           todo == Setting(ps, "Reserved")
<1>1. /\ \A c \in ToSet(todo) : c.call = "set_proof_state" /\ c.y = "Reserved"
      /\ \A s \in Secrets(ps) : Sets(ToSet(todo), s)
  BY OwnPursesArePurses, SettingSets DEF States
<1>2. /\ x.at = "write" /\ x.todo = todo /\ x.ins = {} /\ x.outs = <<>> /\ x.op = "send"
      /\ x.next = "hand" /\ x.held = ps
  BY DEF Handing, Idle
<1> HIDE DEF x, todo
<1>3. \A s : ~Opens(ToSet(todo), s)
  BY <1>1 DEF Opens
<1>4. \A c \in ToSet(todo) : GoodCall(c, signed, Gone, adrift')
  BY <1>1 DEF GoodCall
<1>5. TaskReal(x, signed, Gone, adrift', Live(Coins(store, db)))
  BY <1>1, <1>2, <1>3, <1>4 DEF TaskReal, Request, Answer, Holding, HandingOut
<1>6. /\ UNCHANGED <<store, spent, signed, tokens, adrift>> /\ Coins(store, db') = Coins(store, db)
      /\ Goto(t, x)
  BY DEF Refreshed, OnlyTask, mintVars, historyVars, x
<1> QED BY <1>5, <1>6, RealQuiet

\* What send selects is stored.
LEMMA SendIsReal ==
    ASSUME OneTask, TypeOK, BalanceKept, NEW t \in Tasks, Send(t)
    PROVE  BalanceKept'
<1> DEFINE s == KnownKeysets(db)
           base == [Idle EXCEPT !.op = "send", !.next = "hand"]
           Hand(ps) == /\ db' = s.db
                       /\ Goto(t, [base EXCEPT !.at = "write", !.held = ps,
                                               !.todo = Setting(ps, "Reserved")])
                       /\ UNCHANGED random
<1>1. PICK amount \in SendAmounts, cond \in Locks \cup {None} :
        \E locked \in SelectLocked(s.db, s.infos, amount, cond) :
           IF cond # None /\ Amount(locked) = amount THEN Hand(locked)
           ELSE \E ps \in Selections(s.db, s.infos, amount, Amount(locked)) :
                   IF cond = None /\ Amount(ps) = amount THEN Hand(ps)
                   ELSE CreateSwap(t, [base EXCEPT !.held = locked], s.db, ps,
                                   amount - Amount(locked), cond)
  BY DEF Send
<1>2. PICK locked \in SelectLocked(s.db, s.infos, amount, cond) :
        \/ Hand(locked)
        \/ \E ps \in Selections(s.db, s.infos, amount, Amount(locked)) :
             \/ Hand(ps)
             \/ CreateSwap(t, [base EXCEPT !.held = locked], s.db, ps, amount - Amount(locked), cond)
  BY <1>1
<1>3. Refreshed(store, db, s.db) /\ CoinsOK(Coins(store, s.db)) /\ store \in WalletStores
  BY KnownDb
<1>4. OnlyTask /\ \A c : ~Pending(task[t], c)
  BY BeginsReal DEF Send, Called, Asked
<1> HIDE DEF s
<1>5. locked \in OwnPurses /\ Secrets(locked) \subseteq DOMAIN signed
  BY <1>3, SelectLockedType, SelectedSigned
<1>6. \A ps \in Selections(s.db, s.infos, amount, Amount(locked)) :
        ps \in OwnPurses /\ Secrets(ps) \subseteq DOMAIN signed
  BY <1>3, SelectionsType, SelectedSigned
<1>7. ASSUME NEW ps \in OwnPurses, Secrets(ps) \subseteq DOMAIN signed, Hand(ps)
      PROVE  BalanceKept'
  <2>1. Refreshed(store, db, db') /\ Goto(t, Handing(ps))
    BY <1>3, <1>7 DEF Handing
  <2> QED BY <1>4, <1>7, <2>1, HandingIsReal
<1>8. ASSUME NEW ps \in Selections(s.db, s.infos, amount, Amount(locked)),
             CreateSwap(t, [base EXCEPT !.held = locked], s.db, ps, amount - Amount(locked), cond)
      PROVE  BalanceKept'
  <2> DEFINE want == amount - Amount(locked)
             from == [base EXCEPT !.held = locked]
  <2>1. ps \in Purses
    BY <1>6, <1>8, OwnPursesArePurses
  <2>2. want \in Int \cup {None}
    BY <1>5, OwnPursesArePurses, AmountType, WalletAssumption
  <2>3. CreateSwap(t, from, s.db, ps, want, cond)
    BY <1>8
  <2>4. from \in TaskStates /\ from.todo = <<>> /\ from.op = "send" /\ from.held = locked
    <3>1. "send" \in OpNames /\ "hand" \in Nexts
      BY DEF OpNames, Nexts
    <3> QED BY <1>5, <3>1, IdleType, IdleFields DEF TaskStates
  <2> HIDE DEF want, from
  <2>5. SwapAsked(t, from, ps)
    BY <1>3, <2>1, <2>2, <2>3, CreateSwapAsks
  <2>6. Secrets(from.held) \subseteq DOMAIN signed /\ from.op # "receive"
    BY <1>5, <2>4
  <2> QED BY <1>4, <2>4, <2>5, <2>6, SwapIsReal
<1>9. CASE Hand(locked)
  <2> HIDE DEF Hand
  <2> QED BY <1>5, <1>7, <1>9
<1>10. ASSUME NEW ps \in Selections(s.db, s.infos, amount, Amount(locked)), Hand(ps)
       PROVE  BalanceKept'
  <2> HIDE DEF Hand
  <2> QED BY <1>6, <1>7, <1>10
<1> QED BY <1>2, <1>8, <1>9, <1>10

\* What melt selects is stored.
LEMMA MeltIsReal ==
    ASSUME OneTask, TypeOK, BalanceKept, NEW t \in Tasks, Melt(t)
    PROVE  BalanceKept'
<1> DEFINE s == KnownKeysets(db)
           base == [Idle EXCEPT !.op = "melt", !.next = "melt"]
           row(q) == GetMeltQuote(store, db, q)
           needed(q) == row(q).amount + row(q).fee_reserve
<1>1. PICK q \in MeltQuotes :
        /\ row(q) # None
        /\ \E ps \in Selections(s.db, s.infos, needed(q), 0) :
             IF Amount(ps) > needed(q)
             THEN CreateSwap(t, [base EXCEPT !.id = q], s.db, ps, needed(q), None)
             ELSE /\ db' = s.db
                  /\ Goto(t, [base EXCEPT !.at = "write", !.id = q, !.held = ps])
                  /\ UNCHANGED random
  BY DEF Melt
<1>2. Refreshed(store, db, s.db) /\ CoinsOK(Coins(store, s.db)) /\ store \in WalletStores
  BY KnownDb
<1>3. needed(q) \in Nat
  <2>1. row(q) = Lookup(Melts(store, db), q)
    BY <1>2, QuoteRead
  <2>2. MeltsOK(Melts(store, db))
    BY DEF TypeOK, Sound
  <2>3. row(q) \in MeltQuoteRows
    BY <1>1, <2>1, <2>2 DEF Lookup, MeltsOK
  <2> QED BY <2>3 DEF MeltQuoteRows
<1> DEFINE want == needed(q)
           from == [base EXCEPT !.id = q]
<1>4. PICK ps \in Selections(s.db, s.infos, want, 0) :
        \/ CreateSwap(t, from, s.db, ps, want, None)
        \/ /\ db' = s.db
           /\ Goto(t, [from EXCEPT !.at = "write", !.held = ps])
  BY <1>1
<1>5. OnlyTask /\ \A c : ~Pending(task[t], c)
  BY BeginsReal DEF Melt, Called, Asked
<1> HIDE DEF s
<1>6. want \in Int \cup {None}
  BY <1>3
<1> HIDE DEF want
<1>7. ps \in OwnPurses /\ ps \in Purses /\ Secrets(ps) \subseteq DOMAIN signed
  BY <1>2, SelectionsType, OwnPursesArePurses, SelectedSigned
<1>8. from \in TaskStates /\ from.todo = <<>> /\ from.op = "melt" /\ from.next = "melt" /\ from.held = {}
  <2>1. "melt" \in OpNames /\ "melt" \in Nexts /\ q \in Subjects
    BY DEF OpNames, Nexts, Subjects
  <2> QED BY <2>1, IdleType, IdleFields DEF TaskStates
<1> HIDE DEF from
<1>9. CASE CreateSwap(t, from, s.db, ps, want, None)
  <2>1. SwapAsked(t, from, ps)
    BY <1>2, <1>6, <1>7, <1>9, CreateSwapAsks
  <2>2. Secrets(from.held) \subseteq DOMAIN signed /\ from.op # "receive"
    BY <1>8, NothingIn
  <2> QED BY <1>5, <1>8, <2>1, <2>2, SwapIsReal
<1>10. CASE /\ db' = s.db
            /\ Goto(t, [from EXCEPT !.at = "write", !.held = ps])
  <2> DEFINE x == [from EXCEPT !.at = "write", !.held = ps]
  <2>1. x.at = "write" /\ x.todo = <<>> /\ x.op = "melt" /\ x.next = "melt" /\ x.held = ps /\ Goto(t, x)
    BY <1>8, <1>10 DEF TaskStates
  <2> HIDE DEF x
  <2>2. Secrets(x.held) \subseteq DOMAIN signed
    BY <1>7, <2>1
  <2>3. TaskReal(x, signed, Gone, adrift', Live(Coins(store, db)))
    BY <2>1, <2>2, PlainReal
  <2>4. UNCHANGED <<store, spent, signed, tokens, adrift>> /\ Coins(store, db') = Coins(store, db)
    BY <1>2, <1>5, <1>10 DEF Refreshed, OnlyTask, mintVars, historyVars
  <2> QED BY <1>5, <2>1, <2>3, <2>4, RealQuiet
<1> QED BY <1>4, <1>9, <1>10

\* A mint request makes secrets that differ.
LEMMA IssueAsks ==
    ASSUME TypeOK, NEW t \in Tasks, NEW src \in MintQuotes \cup Notes, NEW cond \in Locks \cup {None},
           BeginIssue(t, src, cond)
    PROVE  /\ Refreshed(store, db, db')
           /\ \E k \in ToSet(Chain), outs \in Seq(Outputs) :
                /\ Distinct(outs) /\ MadeFor(outs, k)
                /\ Goto(t, [Idle EXCEPT !.op = "mint", !.at = "post", !.id = src, !.k = k,
                                        !.cond = cond, !.outs = outs])
<1> PICK info \in MintInfos :
        LET d == EnsureMint(db, info).db
            a == ActiveMintKeyset(d)
            n == AmountOf[src]
        IN  Goto(t, [Idle EXCEPT !.op = "mint", !.at = "post", !.id = src, !.k = a.id,
                     !.cond = cond,
                     !.outs = IF cond = None THEN FromXpriv(a.id, NextIndex(a.db, a.id), n)
                              ELSE WithConditions(cond, n)])
  BY DEF BeginIssue
<1> DEFINE d == EnsureMint(db, info).db
           a == ActiveMintKeyset(d)
           n == AmountOf[src]
           outs == IF cond = None THEN FromXpriv(a.id, NextIndex(a.db, a.id), n)
                   ELSE WithConditions(cond, n)
<1>1. store \in WalletStores /\ active \in 1..Len(Chain) /\ random \in Nat
  BY DEF TypeOK
<1>2. Refreshed(store, db, d)
  BY <1>1, EnsureMintType DEF TypeOK, Sound
<1>3. Goto(t, [Idle EXCEPT !.op = "mint", !.at = "post", !.id = src, !.k = a.id,
                           !.cond = cond, !.outs = outs])
  OBVIOUS
<1> HIDE DEF d
<1>4. Refreshed(store, d, a.db) /\ a.id \in ToSet(Chain)
  BY <1>1, <1>2, ActiveKeysetType DEF Refreshed
<1> HIDE DEF a
<1>5. n \in Int /\ NextIndex(a.db, a.id) \in Nat
  BY <1>1, <1>4, NextIndexType, WalletAssumption DEF Refreshed
<1> HIDE DEF n
<1>6. outs \in Seq(Outputs) /\ Apart(outs) /\ MadeFor(outs, a.id)
  <2>1. CASE cond = None
    BY <1>4, <1>5, <2>1, XprivType, XprivApart
  <2>2. CASE cond # None
    BY <1>1, <1>5, <2>2, ConditionsType, ConditionsApart
  <2> QED BY <2>1, <2>2
<1> HIDE DEF outs
<1>7. Distinct(outs)
  BY <1>6, ApartIsDistinct
<1>8. Refreshed(store, db, db')
  BY IssueDoes
<1> QED BY <1>3, <1>4, <1>6, <1>7, <1>8

\* A mint takes no coins.
LEMMA IssueIsReal ==
    ASSUME OneTask, TypeOK, BalanceKept, NEW t \in Tasks, CheckedPaid(t) \/ Mint(t)
    PROVE  BalanceKept'
<1>1. UNCHANGED <<store, spent, signed, tokens, adrift>>
  BY DEF CheckedPaid, Mint, OnlyTask, mintVars, historyVars
<1>2. \A s : ~Pending(task[t], s)
  BY BeginsReal, NonePending DEF CheckedPaid, Mint, Called, Asked
<1>3. ASSUME NEW src \in MintQuotes \cup Notes, NEW cond \in Locks \cup {None}, BeginIssue(t, src, cond)
      PROVE  BalanceKept'
  <2>1. PICK k \in ToSet(Chain), outs \in Seq(Outputs) :
          /\ Distinct(outs) /\ MadeFor(outs, k)
          /\ Goto(t, [Idle EXCEPT !.op = "mint", !.at = "post", !.id = src, !.k = k,
                                  !.cond = cond, !.outs = outs])
    BY <1>3, IssueAsks
  <2> DEFINE x == [Idle EXCEPT !.op = "mint", !.at = "post", !.id = src, !.k = k,
                               !.cond = cond, !.outs = outs]
  <2>2. /\ x.at = "post" /\ x.todo = <<>> /\ x.op = "mint" /\ x.held = {} /\ x.outs = outs /\ x.k = k
    BY DEF Idle
  <2>3. Goto(t, x)
    BY <2>1
  <2> HIDE DEF x
  <2>4. Coins(store, db') = Coins(store, db)
    BY <1>3, IssueAsks DEF Refreshed
  <2>5. Holding(x, signed, Gone)
    BY <2>2, NothingIn DEF Holding
  <2>6. TaskReal(x, signed, Gone, adrift', Live(Coins(store, db)))
    BY <2>1, <2>2, <2>5, NoneTouched DEF TaskReal, Request, Answer, HandingOut
  <2> QED BY <1>1, <1>2, <2>3, <2>4, <2>6, RealQuiet
<1>4. CASE Mint(t)
  BY <1>3, <1>4 DEF Mint
<1>5. CASE CheckedPaid(t)
  <2>1. task[t].id \in MintQuotes
    BY <1>5 DEF CheckedPaid, TypeOK, Control
  <2>2. \/ BeginIssue(t, task[t].id, None)
        \/ End(t) /\ db' = db
    BY <1>5 DEF CheckedPaid
  <2>3. CASE End(t) /\ db' = db
    BY <1>1, <1>2, <2>3, RealEnd
  <2> QED BY <1>3, <2>1, <2>2, <2>3
<1> QED BY <1>4, <1>5

\* The blanks of a melt differ.
LEMMA BeginMeltIsReal ==
    ASSUME OneTask, TypeOK, BalanceKept, NEW t \in Tasks, BeginMelt(t)
    PROVE  BalanceKept'
<1> DEFINE a == ActiveMintKeyset(db)
           outs == FromXprivBlank(a.id, NextIndex(a.db, a.id), FeeReserve)
           x == [Idle EXCEPT !.op = "melt", !.at = "post_melt", !.id = task[t].id,
                             !.k = a.id, !.ins = task[t].held, !.outs = outs]
<1>1. Goto(t, x)
  BY DEF BeginMelt
<1>2. Refreshed(store, db, a.db) /\ a.id \in ToSet(Chain)
  BY ActiveKeysetType DEF TypeOK, Sound
<1> HIDE DEF a
<1>3. NextIndex(a.db, a.id) \in Nat
  BY <1>2, NextIndexType DEF Refreshed, TypeOK
<1>4. Apart(outs) /\ MadeFor(outs, a.id)
  BY <1>2, <1>3, BlanksApart
<1> HIDE DEF outs
<1>5. /\ x.at = "post_melt" /\ x.todo = <<>> /\ x.op = "melt" /\ x.held = {} /\ x.outs = outs
      /\ x.k = a.id
  BY DEF Idle
<1> HIDE DEF x
<1>6. Holding(x, signed, Gone)
  BY <1>5, NothingIn DEF Holding
<1>7. TaskReal(x, signed, Gone, adrift', Live(Coins(store, db)))
  BY <1>4, <1>5, <1>6, NoneTouched DEF TaskReal, Request, Answer, HandingOut
<1>8. /\ UNCHANGED <<store, spent, signed, tokens, adrift>> /\ Coins(store, db') = Coins(store, db)
      /\ \A s : ~Pending(task[t], s)
  BY BeginMeltDoes, DoneReal DEF BeginMelt, Refreshed, OnlyTask, mintVars, historyVars
<1> QED BY <1>1, <1>7, <1>8, RealQuiet

\* What is received was in a token, or comes from another wallet.
LEMMA ReceiveIsReal ==
    ASSUME OneTask, TypeOK, BalanceKept, NEW t \in Tasks, Receive(t)
    PROVE  BalanceKept'
<1>1. PICK entries \in {token.entries : token \in tokens} \cup Foreign :
        Goto(t, [Idle EXCEPT !.op = "receive", !.at = "write", !.next = "entry", !.rest = entries])
  BY DEF Receive
<1> DEFINE x == [Idle EXCEPT !.op = "receive", !.at = "write", !.next = "entry", !.rest = entries]
<1>2. /\ x.op = "receive" /\ x.at = "write" /\ x.next = "entry" /\ x.ins = {} /\ x.held = {}
      /\ x.todo = <<>> /\ x.rest = entries
  BY DEF Idle
<1>3. Goto(t, x)
  BY <1>1
<1> HIDE DEF x
<1>4. Secrets(UNION ToSet(entries)) \subseteq Gone \cup Secrets(ForeignCoins)
  <2>1. CASE entries \in Foreign
    <3>1. UNION ToSet(entries) \subseteq ForeignCoins
      BY <2>1 DEF ForeignCoins, ForeignProofs
    <3> QED BY <3>1 DEF Secrets
  <2>2. CASE entries \in {token.entries : token \in tokens}
    <3>1. Secrets(UNION ToSet(entries)) \subseteq TokenSecrets
      BY <2>2, InTokens
    <3> QED BY <3>1 DEF Gone
  <2> QED BY <2>1, <2>2
<1>5. Holding(x, signed, Gone)
  BY <1>2, <1>4, NothingIn DEF Holding
<1>6. TaskReal(x, signed, Gone, adrift', Live(Coins(store, db)))
  BY <1>2, <1>5, NoneTouched DEF TaskReal, Request, Answer, HandingOut
<1>7. UNCHANGED <<store, db, spent, signed, tokens, adrift>> /\ \A s : ~Pending(task[t], s)
  BY BeginsReal DEF Receive, Called, Asked, OnlyTask, mintVars, historyVars
<1> QED BY <1>3, <1>6, <1>7, RealQuiet

\* The first entry of a list and the others.
LEMMA EntrySecrets ==
    ASSUME NEW rest \in Seq(Purses), rest # <<>>
    PROVE  Secrets(Head(rest)) \cup Secrets(UNION ToSet(Tail(rest))) \subseteq Secrets(UNION ToSet(rest))
<1>1. Head(rest) \in ToSet(rest) /\ ToSet(rest) = {Head(rest)} \cup ToSet(Tail(rest))
  BY Elements
<1> QED BY <1>1 DEF Secrets

\* An entry that is swapped is none of the wallet's rows that count.
LEMMA BeginEntryIsReal ==
    ASSUME OneTask, TypeOK, BalanceKept, NEW t \in Tasks, BeginEntry(t)
    PROVE  BalanceKept'
<1> DEFINE now == task[t]
           ps == Head(now.rest)
           base == [now EXCEPT !.rest = Tail(@)]
<1>1. /\ now \in TaskStates /\ Control(now) /\ now.next = "entry" /\ now.rest # <<>>
      /\ now.at = "write" /\ now.todo = <<>>
  BY NowType DEF BeginEntry, Done
<1>2. PICK info \in MintInfos :
        CreateSwap(t, base, EnsureMint(db, info).db, ps, Amount(ps), None)
  BY DEF BeginEntry
<1>3. TaskReal(now, signed, Gone, adrift, Live(Coins(store, db))) /\ OnlyTask /\ \A s : ~Pending(now, s)
  BY DoneReal DEF BalanceKept, BeginEntry
<1> HIDE DEF now
<1>4. now.op = "receive" /\ now.rest \in Seq(Purses)
  BY <1>1 DEF Control
<1>5. ps \in Purses /\ Tail(now.rest) \in Seq(Purses)
  BY <1>1, <1>4
<1>6. /\ base \in TaskStates /\ base.todo = <<>> /\ base.op = "receive" /\ base.held = now.held
      /\ base.rest = Tail(now.rest)
  <2>1. Tail(now.rest) \in Remainders
    BY <1>5 DEF Remainders
  <2> QED BY <1>1, <1>4, <2>1 DEF TaskStates
<1>7. Secrets(ps) \cup Secrets(UNION ToSet(Tail(now.rest))) \subseteq Secrets(UNION ToSet(now.rest))
  BY <1>1, <1>4, EntrySecrets
<1> HIDE DEF ps, base
<1>8. Amount(ps) \in Int \cup {None}
  BY <1>5, AmountType
<1>9. Refreshed(store, db, EnsureMint(db, info).db)
  BY EnsureMintType DEF TypeOK, Sound
<1>10. SwapAsked(t, base, ps)
  BY <1>2, <1>5, <1>8, <1>9, CreateSwapAsks
<1>11. /\ Secrets(base.held) \subseteq DOMAIN signed
       /\ \A p \in base.held : Right(p, signed, Gone)
       /\ Secrets(UNION ToSet(now.rest)) \subseteq Gone \cup Secrets(ForeignCoins)
  BY <1>3, <1>4, <1>6 DEF TaskReal, Holding
<1>12. Secrets(ps) \cup Secrets(UNION ToSet(base.rest)) \subseteq Gone \cup Secrets(ForeignCoins)
  BY <1>6, <1>7, <1>11
<1> QED BY <1>3, <1>6, <1>10, <1>11, <1>12, SwapIsReal DEF now

-----------------------------------------------------------------------------
(* What the mint signs and what the wallet makes of it *)

\* add_proofs writes rows of these proofs in this state.
LEMMA AddingState ==
    ASSUME NEW ps \in OwnPurses, NEW state \in States
    PROVE  \A c \in ToSet(Adding(ps, state)) :
              /\ c.call = "add_proofs"
              /\ \A r \in ToSet(c.x) : r.y = r.proof.secret /\ r.proof \in ps /\ r.state = state
<1> DEFINE rows == Infos(ps, state)
           cs == PerRow("add_proofs", rows)
<1>1. Adding(ps, state) = cs
  BY DEF Adding
<1>2. /\ rows \in Seq(CoinRows)
      /\ \A r \in ToSet(rows) : r.y = r.proof.secret /\ r.state = state /\ r.proof \in ps
  BY InfosType
<1> HIDE DEF rows
<1>3. \A c \in ToSet(cs) : c.call = "add_proofs" /\ ToSet(c.x) \subseteq ToSet(rows)
  BY <1>2, PerRowElements
<1> HIDE DEF cs
<1> QED BY <1>1, <1>2, <1>3

\* A secret among proofs is that of one of them.
LEMMA ProofOf == \A ps : \A p \in ps : p.secret \in Secrets(ps)
BY DEF Secrets

\* Rows that are adrift or can be spent may be written as Unspent.
LEMMA AddingIsGood ==
    ASSUME NEW ps \in OwnPurses, NEW state \in States, NEW made, NEW gone, NEW lost,
           Secrets(ps) \subseteq DOMAIN made,
           state = "Unspent" => \A p \in ps : p.secret \in lost \/ Right(p, made, gone)
    PROVE  \A c \in ToSet(Adding(ps, state)) : GoodCall(c, made, gone, lost)
<1>1. \A c \in ToSet(Adding(ps, state)) :
         /\ c.call = "add_proofs"
         /\ \A r \in ToSet(c.x) : r.y = r.proof.secret /\ r.proof \in ps /\ r.state = state
  BY AddingState
<1>2. \A p \in ps : p.secret \in DOMAIN made
  BY ProofOf
<1> QED BY <1>1, <1>2 DEF GoodCall

\* Only rows of these proofs are opened by writing them.
LEMMA AddingOpens ==
    ASSUME NEW ps \in OwnPurses, NEW state \in States, NEW s, Opens(ToSet(Adding(ps, state)), s)
    PROVE  state = "Unspent" /\ s \in Secrets(ps)
<1>1. PICK c \in ToSet(Adding(ps, state)) : \E r \in ToSet(c.x) : r.y = s /\ r.state = "Unspent"
  BY DEF Opens
<1>2. PICK r \in ToSet(c.x) : r.y = s /\ r.state = "Unspent"
  BY <1>1
<1>3. r.y = r.proof.secret /\ r.proof \in ps /\ r.state = state
  BY <1>2, AddingState
<1> QED BY <1>2, <1>3, ProofOf

\* Calls that write no proofs open no row.
LEMMA OpensNone ==
    ASSUME NEW cs, \A c \in cs : c.call # "add_proofs"
    PROVE  \A s : ~Opens(cs, s)
BY DEF Opens

\* Every call of a kind that writes no proof and sets no state is good.
LEMMA OtherIsGood ==
    ASSUME NEW cs, \A c \in cs : c.call \notin {"add_proofs", "set_proof_state"}
    PROVE  \A made, gone, lost : \A c \in cs : GoodCall(c, made, gone, lost)
BY DEF GoodCall

\* remove_proofs is called for every proof.
LEMMA RemovingRemoves ==
    ASSUME NEW ps \in Purses
    PROVE  \A s \in Secrets(ps) : Removes(ToSet(Removing(ps)), s)
<1> DEFINE rows == SetToSeq(ps)
           cs == PerRow("remove_proofs", rows)
<1>1. Removing(ps) = cs
  BY DEF Removing
<1>2. rows \in Seq(ps) /\ ToSet(rows) = ps
  BY InSomeOrder DEF Purses
<1> HIDE DEF rows
<1>3. /\ \A c \in ToSet(cs) : c.call = "remove_proofs"
      /\ \A r \in ToSet(rows) : \E c \in ToSet(cs) : r \in ToSet(c.x)
  BY <1>2, PerRowElements
<1> HIDE DEF cs
<1>4. \A p \in ps : \E c \in ToSet(cs) : c.call = "remove_proofs" /\ p \in ToSet(c.x)
  BY <1>2, <1>3
<1> SUFFICES ASSUME NEW s \in Secrets(ps) PROVE Removes(ToSet(cs), s)
  BY <1>1
<1>5. PICK p \in ps : p.secret = s
  BY DEF Secrets
<1>6. PICK c \in ToSet(cs) : c.call = "remove_proofs" /\ p \in ToSet(c.x)
  BY <1>4
<1>7. s \in Secrets(ToSet(c.x))
  BY <1>5, <1>6, ProofOf
<1> QED BY <1>6, <1>7 DEF Removes

\* Every proof that is constructed is one of the outputs, unblinded.
LEMMA ConstructedRows ==
    ASSUME NEW outs, NEW k, NEW c
    PROVE  \A p \in ConstructProofs(outs, k, c) :
              \E o \in ToSet(outs) :
                 p = [secret |-> o.secret, amount |-> o.amount, keyset_id |-> k, c |-> c, dleq |-> k]
BY DEF ConstructProofs

\* What the mint signed, unblinded with the keys it signed with, can be spent;
\* with other keys it must be adrift.
LEMMA ConstructedIsRight ==
    ASSUME NEW outs, NEW k, NEW c, NEW made, NEW gone, NEW lost,
           \A o \in ToSet(outs) : o.secret \notin gone /\ SignedAs(o, k, made),
           c = k \/ \A o \in ToSet(outs) : o.secret \in lost
    PROVE  \A p \in ConstructProofs(outs, k, c) :
              p.secret \in DOMAIN made /\ (p.secret \in lost \/ Right(p, made, gone))
<1> TAKE p \in ConstructProofs(outs, k, c)
<1>1. PICK o \in ToSet(outs) :
        p = [secret |-> o.secret, amount |-> o.amount, keyset_id |-> k, c |-> c, dleq |-> k]
  BY ConstructedRows
<1>2. /\ o.secret \notin gone /\ SignedAs(o, k, made) /\ (c = k \/ o.secret \in lost)
      /\ p.secret = o.secret /\ p.amount = o.amount /\ p.keyset_id = k /\ p.c = c
  BY <1>1
<1> HIDE DEF SignedAs
<1>3. o.secret \in DOMAIN made /\ made[o.secret] = [amount |-> o.amount, keyset_id |-> k]
  BY <1>2 DEF SignedAs
<1> QED BY <1>2, <1>3 DEF Right

\* Two of them with one secret are one.
LEMMA ConstructedOnce ==
    ASSUME NEW outs, NEW k, NEW c, NEW made, \A o \in ToSet(outs) : SignedAs(o, k, made)
    PROVE  \A p, q \in ConstructProofs(outs, k, c) : p.secret = q.secret => p = q
<1> SUFFICES ASSUME NEW p \in ConstructProofs(outs, k, c), NEW q \in ConstructProofs(outs, k, c),
                    p.secret = q.secret
             PROVE  p = q
  OBVIOUS
<1>1. PICK o \in ToSet(outs) :
        p = [secret |-> o.secret, amount |-> o.amount, keyset_id |-> k, c |-> c, dleq |-> k]
  BY ConstructedRows
<1>2. PICK u \in ToSet(outs) :
        q = [secret |-> u.secret, amount |-> u.amount, keyset_id |-> k, c |-> c, dleq |-> k]
  BY ConstructedRows
<1>3. o.secret = u.secret
  BY <1>1, <1>2
<1>4. /\ made[o.secret] = [amount |-> o.amount, keyset_id |-> k]
      /\ made[u.secret] = [amount |-> u.amount, keyset_id |-> k]
  BY DEF SignedAs
<1>5. o.amount = u.amount
  BY <1>3, <1>4
<1> QED BY <1>1, <1>2, <1>3, <1>5

\* The mint signs new outputs as they are, and keeps what it signed before.
LEMMA SignAllSigns ==
    ASSUME NEW table, NEW outs, NEW k, Distinct(outs), Secrets(ToSet(outs)) \cap DOMAIN table = {}
    PROVE  LET new == SignAll(table, outs, k)
           IN  /\ DOMAIN new = DOMAIN table \cup Secrets(ToSet(outs))
               /\ \A s \in DOMAIN table : new[s] = table[s]
               /\ \A o \in ToSet(outs) : o.secret \notin DOMAIN table /\ SignedAs(o, k, new)
<1> DEFINE T == ToSet(outs)
           pick(s) == CHOOSE x \in T : x.secret = s
           f == [s \in DOMAIN table \cup Secrets(T) |->
                   IF s \in DOMAIN table THEN table[s]
                   ELSE [amount |-> pick(s).amount, keyset_id |-> k]]
<1>1. SignAll(table, outs, k) = f
  BY DEF SignAll
<1>2. \A o \in T : o.secret \in Secrets(T)
  BY ProofOf
<1>3. \A o \in T : o.secret \notin DOMAIN table
  BY <1>2
<1>4. \A o, p \in T : o.secret = p.secret => o = p
  BY DEF Distinct
<1> HIDE DEF T
<1>5. \A o \in T : pick(o.secret) = o
  <2> TAKE o \in T
  <2>1. pick(o.secret) \in T /\ pick(o.secret).secret = o.secret
    OBVIOUS
  <2> HIDE DEF pick
  <2> QED BY <1>4, <2>1
<1> HIDE DEF pick
<1>6. /\ DOMAIN f = DOMAIN table \cup Secrets(T)
      /\ \A s \in DOMAIN table : f[s] = table[s]
  OBVIOUS
<1>7. \A o \in T : f[o.secret] = [amount |-> o.amount, keyset_id |-> k]
  BY <1>2, <1>3, <1>5
<1> HIDE DEF f
<1> QED BY <1>1, <1>2, <1>3, <1>6, <1>7 DEF SignedAs, T

\* What can be spent stays so when more is signed.
LEMMA RightStays ==
    ASSUME NEW made, NEW more, DOMAIN made \subseteq DOMAIN more, \A s \in DOMAIN made : more[s] = made[s],
           NEW p, NEW gone, Right(p, made, gone)
    PROVE  Right(p, more, gone)
BY DEF Right

\* The signatures on a request's outputs are kept in the order of the seed.
LEMMA SigningKeeps ==
    ASSUME BalanceKept, NEW outs, NEW k, Distinct(outs), MadeFor(outs, k), NewOutputs(outs),
           signed' = SignAll(signed, outs, k)
    PROVE  /\ DOMAIN signed' = DOMAIN signed \cup Secrets(ToSet(outs))
           /\ \A o \in ToSet(outs) : o.secret \notin DOMAIN signed /\ SignedAs(o, k, signed')
           /\ \A p : Right(p, signed, Gone) => Right(p, signed', Gone)
           /\ Indexed'
<1>1. Secrets(ToSet(outs)) \cap DOMAIN signed = {}
  BY DEF NewOutputs
<1>2. /\ DOMAIN signed' = DOMAIN signed \cup Secrets(ToSet(outs))
      /\ \A s \in DOMAIN signed : signed'[s] = signed[s]
      /\ \A o \in ToSet(outs) : o.secret \notin DOMAIN signed /\ SignedAs(o, k, signed')
  <2> DEFINE table == signed
             new == SignAll(table, outs, k)
  <2>1. /\ DOMAIN new = DOMAIN table \cup Secrets(ToSet(outs))
        /\ \A s \in DOMAIN table : new[s] = table[s]
        /\ \A o \in ToSet(outs) : o.secret \notin DOMAIN table /\ SignedAs(o, k, new)
    <3> HIDE DEF table
    <3> QED BY <1>1, SignAllSigns DEF table
  <2>2. signed' = new
    OBVIOUS
  <2> HIDE DEF new
  <2> QED BY <2>1, <2>2 DEF table
<1>3. \A p : Right(p, signed, Gone) => Right(p, signed', Gone)
  BY <1>2, RightStays
<1>4. ASSUME NEW s \in DOMAIN signed', Derived(s)
      PROVE  signed'[s] = [amount |-> signed'[s].amount, keyset_id |-> s[1]]
  <2>1. CASE s \in DOMAIN signed
    BY <1>2, <1>4, <2>1 DEF BalanceKept, Indexed
  <2>2. CASE s \in Secrets(ToSet(outs))
    <3>1. PICK o \in ToSet(outs) : o.secret = s
      BY <2>2 DEF Secrets
    <3>2. signed'[s] = [amount |-> o.amount, keyset_id |-> k]
      BY <1>2, <3>1 DEF SignedAs
    <3>3. s[1] = k
      BY <1>4, <3>1 DEF MadeFor
    <3> QED BY <3>2, <3>3
  <2> QED BY <1>2, <1>4, <2>1, <2>2
<1>5. Indexed'
  BY <1>4 DEF Indexed
<1> QED BY <1>2, <1>3, <1>5

-----------------------------------------------------------------------------
(* The mint answers *)

\* The secrets of this wallet are none of another's.
LEMMA OwnIsNotForeign == \A s \in OwnSecrets : s \notin Secrets(ForeignCoins)
BY ForeignAssumption DEF Secrets

\* A row is that of its own secret.
LEMMA RowOf ==
    ASSUME TypeOK
    PROVE  \A s \in DOMAIN Coins(store, db) :
              s \in OwnSecrets /\ Coins(store, db)[s].proof.secret = s
<1>1. \A s \in DOMAIN Coins(store, db) : Coins(store, db)[s] \in CoinRows /\ Coins(store, db)[s].y = s
  BY DEF TypeOK, Sound, CoinsOK
<1>2. \A r \in CoinRows : r.y \in OwnSecrets /\ r.y = r.proof.secret
  BY DEF CoinRows, ProofRows
<1> QED BY <1>1, <1>2

\* The mint takes the inputs and signs the outputs of a request: the rows of
\* the inputs are still to be dealt with, those of a receive are of others.
LEMMA SignedIsReal ==
    ASSUME OneTask, TypeOK, BalanceKept, NEW t \in Tasks, NEW x, Goto(t, x),
           Distinct(x.outs), MadeFor(x.outs, x.k), NewOutputs(x.outs),
           signed' = SignAll(signed, x.outs, x.k), UNCHANGED <<store, db, tokens, adrift>>,
           spent' = spent \cup Secrets(x.ins), Secrets(x.ins) \subseteq DOMAIN signed,
           x.at \in {"answered", "melted"}, x.todo = <<>>, x.held \in OwnPurses,
           Holding(x, signed, Gone), \A s : ~Pending(task[t], s)
    PROVE  BalanceKept'
<1> DEFINE outs == x.outs
           k == x.k
           ins == Secrets(x.ins)
<1>1. /\ DOMAIN signed' = DOMAIN signed \cup Secrets(ToSet(outs))
      /\ \A o \in ToSet(outs) : o.secret \notin DOMAIN signed /\ SignedAs(o, k, signed')
      /\ \A p : Right(p, signed, Gone) => Right(p, signed', Gone)
      /\ Indexed'
  <2> HIDE DEF outs, k
  <2> QED BY SigningKeeps DEF outs, k
<1>2. /\ Gone' = Gone \cup ins /\ Keys' = Keys /\ Coins(store', db') = Coins(store, db)
      /\ Gone \subseteq DOMAIN signed /\ Keys \subseteq DOMAIN signed
  BY DEF Gone, Keys, TokenSecrets, BalanceKept, Known
<1> HIDE DEF outs, k, ins
<1>3. ins \subseteq DOMAIN signed
  BY DEF ins
<1>4. ASSUME NEW p, Right(p, signed, Gone), p.secret \notin ins
      PROVE  Right(p, signed', Gone')
  BY <1>1, <1>2, <1>4 DEF Right
<1>5. ASSUME x.op = "receive", NEW s \in OwnSecrets, s \in ins
      PROVE  s \in Gone
  BY <1>5, OwnIsNotForeign DEF Holding, ins
<1>6. Holding(x, signed', Gone')
  <2>1. Secrets(x.held) \subseteq DOMAIN signed'
    BY <1>1 DEF Holding
  <2>2. ASSUME x.op = "receive", NEW p \in x.held PROVE Right(p, signed', Gone')
    <3>1. p.secret \in OwnSecrets
      BY <2>2 DEF OwnPurses, OwnCoins
    <3>2. Right(p, signed, Gone) /\ p.secret \notin Gone
      BY <2>2 DEF Holding, Right
    <3> QED BY <1>4, <1>5, <2>2, <3>1, <3>2
  <2>3. x.op = "receive" => Secrets(x.ins) \cup Secrets(UNION ToSet(x.rest)) \subseteq Gone' \cup Secrets(ForeignCoins)
    BY <1>2 DEF Holding
  <2> QED BY <2>1, <2>2, <2>3 DEF Holding
<1>7. Answer(x, signed', Gone')
  <2>1. Secrets(x.held) \subseteq DOMAIN signed
    BY DEF Holding
  <2>2. \A o \in ToSet(outs) : o.secret \notin Gone' \cup Secrets(x.held) /\ SignedAs(o, k, signed')
    BY <1>1, <1>2, <1>3, <2>1
  <2> QED BY <2>2 DEF Answer, outs, k
<1>8. TaskReal(x, signed', Gone', adrift', Live(Coins(store', db')))
  BY <1>6, <1>7, NoneTouched DEF TaskReal, Request, HandingOut
<1>9. Known'
  BY <1>1, <1>2, <1>3 DEF Known
<1>10. ASSUME NEW s \in Live(Coins(store, db))
       PROVE  s \in adrift \/ Right(Coins(store, db)[s].proof, signed', Gone') \/ Pending(x, s)
  <2> DEFINE p == Coins(store, db)[s].proof
  <2>1. s \in adrift \/ Right(p, signed, Gone)
    BY DEF BalanceKept, RowsReal, OneTask
  <2>2. s \in OwnSecrets /\ p.secret = s
    BY RowOf DEF Live
  <2> HIDE DEF p
  <2>3. CASE Right(p, signed, Gone) /\ s \in ins
    <3>1. s \notin Gone
      BY <2>2, <2>3 DEF Right
    <3>2. x.op # "receive"
      BY <1>5, <2>2, <2>3, <3>1
    <3> QED BY <2>3, <3>2 DEF Pending, ins
  <2>4. CASE Right(p, signed, Gone) /\ s \notin ins
    BY <1>4, <2>2, <2>4 DEF p
  <2> QED BY <2>1, <2>3, <2>4 DEF p
<1>11. \A s \in Live(Coins(store', db')) :
         s \in adrift' \/ Right(Coins(store', db')[s].proof, signed', Gone') \/ Pending(x, s)
  BY <1>2, <1>10
<1> QED BY <1>1, <1>8, <1>9, <1>11, RealMoved

\* A mint signs new secrets.
LEMMA PostMintIsReal ==
    ASSUME OneTask, TypeOK, BalanceKept, NEW t \in Tasks, PostMint(t)
    PROVE  BalanceKept'
<1> DEFINE now == task[t]
           x == [now EXCEPT !.at = "answered"]
<1>1. /\ now \in TaskStates /\ Control(now) /\ now.op = "mint" /\ now.at = "post"
      /\ TaskReal(now, signed, Gone, adrift, Live(Coins(store, db)))
  BY NowType DEF PostMint, BalanceKept
<1>2. UNCHANGED <<store, db, spent, tokens, adrift>>
  BY DEF PostMint, historyVars
<1>3. \/ NewOutputs(now.outs) /\ signed' = SignAll(signed, now.outs, now.k) /\ Goto(t, x)
      \/ End(t) /\ signed' = signed
  BY DEF PostMint
<1>4. \A s : ~Pending(now, s)
  BY <1>1, NonePending
<1>5. CASE End(t) /\ signed' = signed
  BY <1>2, <1>4, <1>5, RealEnd
<1>6. CASE NewOutputs(now.outs) /\ signed' = SignAll(signed, now.outs, now.k) /\ Goto(t, x)
  <2>1. /\ x.at = "answered" /\ x.op = now.op /\ x.ins = now.ins /\ x.held = now.held
        /\ x.todo = now.todo /\ x.outs = now.outs /\ x.k = now.k
    BY <1>1 DEF TaskStates
  <2>2. Goto(t, x) /\ now.held \in OwnPurses
    BY <1>1, <1>6 DEF TaskStates
  <2>3. \A s : ~Pending(task[t], s)
    BY <1>4
  <2> HIDE DEF now, x
  <2>4. now.ins = {}
    BY <1>1 DEF Control
  <2>5. /\ Secrets(x.ins) = {} /\ spent' = spent \cup Secrets(x.ins)
        /\ Secrets(x.ins) \subseteq DOMAIN signed
    BY <1>2, <2>1, <2>4, NothingIn
  <2>6. Distinct(x.outs) /\ MadeFor(x.outs, x.k) /\ x.todo = <<>>
    BY <1>1, <2>1 DEF TaskReal, Request
  <2>7. Holding(x, signed, Gone)
    BY <1>1, <2>1 DEF TaskReal, Holding
  <2>8. NewOutputs(x.outs) /\ signed' = SignAll(signed, x.outs, x.k)
    BY <1>6, <2>1
  <2> QED BY <1>2, <2>1, <2>2, <2>3, <2>5, <2>6, <2>7, <2>8, SignedIsReal
<1> QED BY <1>3, <1>5, <1>6

\* A swap takes what the wallet is to set Reserved or had handed out, and when
\* the mint signs nothing for it that is adrift.
LEMMA PostSwapIsReal ==
    ASSUME OneTask, TypeOK, BalanceKept, NEW t \in Tasks, PostSwap(t)
    PROVE  BalanceKept'
<1> DEFINE now == task[t]
           x == [now EXCEPT !.at = "answered"]
<1>1. /\ now \in TaskStates /\ Control(now) /\ now.at = "post"
      /\ TaskReal(now, signed, Gone, adrift, Live(Coins(store, db)))
  BY NowType DEF PostSwap, BalanceKept
<1>2. UNCHANGED <<store, db, tokens>>
  BY DEF PostSwap
<1>3. \A s : ~Pending(now, s)
  BY <1>1, NonePending
<1>4. \/ /\ NewOutputs(now.outs) /\ \E unlocks : \A p \in now.ins : ProofVerifies(p, unlocks)
         /\ spent' = spent \cup Secrets(now.ins)
         /\ signed' = SignAll(signed, now.outs, now.k) /\ Goto(t, x) /\ adrift' = adrift
      \/ End(t) /\ signed' = signed /\ adrift' = adrift \cup AtStake(t) \cup (spent' \ spent)
  BY DEF PostSwap
<1>5. CASE /\ NewOutputs(now.outs) /\ \E unlocks : \A p \in now.ins : ProofVerifies(p, unlocks)
           /\ spent' = spent \cup Secrets(now.ins)
           /\ signed' = SignAll(signed, now.outs, now.k) /\ Goto(t, x) /\ adrift' = adrift
  <2>1. /\ x.at = "answered" /\ x.op = now.op /\ x.ins = now.ins /\ x.held = now.held
        /\ x.todo = now.todo /\ x.outs = now.outs /\ x.k = now.k /\ x.rest = now.rest
    BY <1>1 DEF TaskStates
  <2>2. Goto(t, x) /\ now.held \in OwnPurses
    BY <1>1, <1>5 DEF TaskStates
  <2>3. \A s : ~Pending(task[t], s)
    BY <1>3
  <2> HIDE DEF now, x
  <2>4. Secrets(now.ins) \subseteq DOMAIN signed
    BY <1>5 DEF ProofVerifies, Secrets
  <2>5. spent' = spent \cup Secrets(x.ins) /\ Secrets(x.ins) \subseteq DOMAIN signed
    BY <1>5, <2>1, <2>4
  <2>6. Distinct(x.outs) /\ MadeFor(x.outs, x.k) /\ x.todo = <<>>
    BY <1>1, <2>1 DEF TaskReal, Request
  <2>7. Holding(x, signed, Gone)
    BY <1>1, <2>1 DEF TaskReal, Holding
  <2>8. NewOutputs(x.outs) /\ signed' = SignAll(signed, x.outs, x.k) /\ adrift' = adrift
    BY <1>5, <2>1
  <2> QED BY <1>2, <2>1, <2>2, <2>3, <2>5, <2>6, <2>7, <2>8, SignedIsReal
<1>6. CASE End(t) /\ signed' = signed /\ adrift' = adrift \cup AtStake(t) \cup (spent' \ spent)
  <2>1. spent \subseteq spent' /\ spent' \subseteq spent \cup DOMAIN signed
    <3>1. ASSUME NEW unlocks, \A p \in now.ins : ProofVerifies(p, unlocks)
          PROVE  Secrets(now.ins) \subseteq DOMAIN signed
      BY <3>1 DEF ProofVerifies, Secrets
    <3>2. \/ spent' = spent
          \/ spent' = spent \cup Secrets(now.ins) /\ \E unlocks : \A p \in now.ins : ProofVerifies(p, unlocks)
      BY DEF PostSwap
    <3> HIDE DEF now
    <3> QED BY <3>1, <3>2
  <2>2. /\ Gone' = spent' \cup TokenSecrets /\ Keys' = Keys /\ Coins(store', db') = Coins(store, db)
        /\ Gone \subseteq DOMAIN signed /\ Keys \subseteq DOMAIN signed
    BY <1>2 DEF Gone, Keys, TokenSecrets, BalanceKept, Known
  <2>3. adrift \subseteq adrift' /\ \A s : s \in Gone' => s \in Gone \/ s \in adrift'
    BY <1>6, <2>2 DEF Gone
  <2>4. Known' /\ Indexed'
    BY <1>6, <2>1, <2>2 DEF Known, Gone, BalanceKept, Indexed
  <2>5. ASSUME NEW s \in Live(Coins(store, db))
        PROVE  s \in adrift' \/ Right(Coins(store, db)[s].proof, signed', Gone')
    <3> DEFINE p == Coins(store, db)[s].proof
    <3>1. s \in adrift \/ Right(p, signed, Gone)
      BY <1>3 DEF BalanceKept, RowsReal, OneTask
    <3>2. p.secret = s
      BY RowOf DEF Live
    <3> HIDE DEF p
    <3>3. CASE Right(p, signed, Gone)
      BY <1>6, <2>3, <3>2, <3>3 DEF Right, p
    <3> QED BY <2>3, <3>1, <3>3
  <2>6. \A s \in Live(Coins(store', db')) :
          s \in adrift' \/ Right(Coins(store', db')[s].proof, signed', Gone') \/ Pending(Idle, s)
    BY <2>2, <2>5
  <2> QED BY <1>6, <2>4, <2>6, IdleReal, RealMoved DEF End
<1> QED BY <1>4, <1>5, <1>6

\* The blanks a melt gets back are some of those it sent.
LEMMA ChangeIsDistinct ==
    ASSUME NEW outs, NEW k, Apart(outs), MadeFor(outs, k), NEW n, 1..n \subseteq DOMAIN outs,
           NEW change, DOMAIN change = 1..n, \A i \in 1..n : change[i].secret = outs[i].secret
    PROVE  /\ Distinct(change) /\ MadeFor(change, k)
           /\ Secrets(ToSet(change)) \subseteq Secrets(ToSet(outs))
<1>1. \A o \in ToSet(change) : \E i \in 1..n : o = change[i] /\ o.secret = outs[i].secret
  BY DEF ToSet
<1>2. \A i \in 1..n : outs[i] \in ToSet(outs)
  BY DEF ToSet
<1>3. Distinct(change)
  BY <1>1 DEF Distinct, Apart
<1>4. MadeFor(change, k)
  BY <1>1, <1>2 DEF MadeFor
<1>5. Secrets(ToSet(change)) \subseteq Secrets(ToSet(outs))
  BY <1>1, <1>2 DEF Secrets
<1> QED BY <1>3, <1>4, <1>5

\* A melt pays, spends the inputs and signs some of the blanks.
LEMMA PostMeltIsReal ==
    ASSUME OneTask, TypeOK, BalanceKept, NEW t \in Tasks, PostMelt(t)
    PROVE  BalanceKept'
<1> DEFINE now == task[t]
           Change(cost) ==
             LET amounts == Split(Amount(now.ins) - cost)
             IN  [i \in 1..Min({Len(amounts), Len(now.outs)}) |->
                     [now.outs[i] EXCEPT !.amount = amounts[i]]]
<1>1. /\ now \in TaskStates /\ Control(now) /\ now.op = "melt" /\ now.at = "post_melt"
      /\ TaskReal(now, signed, Gone, adrift, Live(Coins(store, db)))
  BY NowType DEF PostMelt, BalanceKept
<1>2. UNCHANGED <<store, db, tokens, adrift>>
  BY DEF PostMelt, historyVars
<1>3. \A s : ~Pending(now, s)
  BY <1>1, NonePending
<1>4. \/ /\ NewOutputs(now.outs) /\ \A p \in now.ins : ProofVerifies(p, {})
         /\ spent' = spent \cup Secrets(now.ins)
         /\ \E cost : /\ signed' = SignAll(signed, Change(cost), now.k)
                      /\ Goto(t, [now EXCEPT !.at = "melted", !.outs = Change(cost)])
      \/ End(t) /\ signed' = signed /\ spent' = spent
  BY DEF PostMelt
<1>5. CASE End(t) /\ signed' = signed /\ spent' = spent
  BY <1>2, <1>3, <1>5, RealEnd
<1>6. ASSUME NEW cost, NewOutputs(now.outs), \A p \in now.ins : ProofVerifies(p, {}),
             spent' = spent \cup Secrets(now.ins), signed' = SignAll(signed, Change(cost), now.k),
             Goto(t, [now EXCEPT !.at = "melted", !.outs = Change(cost)])
      PROVE  BalanceKept'
  <2> DEFINE amounts == Split(Amount(now.ins) - cost)
             outs == now.outs
             ends == {Len(amounts), Len(outs)}
             n == Min(ends)
             change == [i \in 1..n |-> [outs[i] EXCEPT !.amount = amounts[i]]]
             x == [now EXCEPT !.at = "melted", !.outs = change]
  <2>1. outs \in Seq(Outputs)
    BY <1>1 DEF TaskStates, OutputLists
  <2>2. amounts \in Seq(Nat)
    BY SplitType, CoinsAreNumbers
  <2>3. Change(cost) = change
    OBVIOUS
  <2>4. Goto(t, x) /\ signed' = SignAll(signed, change, now.k)
    BY <1>6, <2>3
  <2>5. /\ x.at = "melted" /\ x.op = now.op /\ x.ins = now.ins /\ x.held = now.held
        /\ x.todo = now.todo /\ x.outs = change /\ x.k = now.k /\ x.rest = now.rest
    BY <1>1 DEF TaskStates
  <2>6. now.held \in OwnPurses
    BY <1>1 DEF TaskStates
  <2>7. \A s : ~Pending(task[t], s)
    BY <1>3
  <2>8. Secrets(now.ins) \subseteq DOMAIN signed
    BY <1>6 DEF ProofVerifies, Secrets
  <2>9. Apart(outs) /\ MadeFor(outs, now.k) /\ now.todo = <<>>
    BY <1>1 DEF TaskReal, Request
  <2>10. NewOutputs(outs)
    BY <1>6
  <2> HIDE DEF Change, amounts, outs, x, now
  <2>11. n \in Nat /\ n <= Len(outs)
    <3> DEFINE a == Len(amounts)
               b == Len(outs)
    <3>1. a \in Nat /\ b \in Nat
      BY <2>1, <2>2
    <3>2. n = CHOOSE y \in {a, b} : \A z \in {a, b} : y <= z
      BY DEF Min
    <3> HIDE DEF n, a, b
    <3>3. \E y \in {a, b} : \A z \in {a, b} : y <= z
      BY <3>1
    <3>4. n \in {a, b} /\ \A y \in {a, b} : n <= y
      BY <3>2, <3>3
    <3> QED BY <3>1, <3>4 DEF b
  <2> HIDE DEF n
  <2>12. 1..n \subseteq DOMAIN outs /\ \A i \in 1..n : outs[i] \in Outputs
    BY <2>1, <2>11
  <2>13. \A i \in 1..n : change[i].secret = outs[i].secret
    BY <2>12 DEF Outputs
  <2>14. DOMAIN change = 1..n
    OBVIOUS
  <2> HIDE DEF change
  <2>15. /\ Distinct(change) /\ MadeFor(change, now.k)
         /\ Secrets(ToSet(change)) \subseteq Secrets(ToSet(outs))
    BY <2>9, <2>12, <2>13, <2>14, ChangeIsDistinct
  <2>16. NewOutputs(x.outs)
    BY <2>5, <2>10, <2>15 DEF NewOutputs
  <2>17. Holding(x, signed, Gone)
    BY <1>1, <2>5 DEF TaskReal, Holding
  <2>18. /\ Distinct(x.outs) /\ MadeFor(x.outs, x.k) /\ signed' = SignAll(signed, x.outs, x.k)
         /\ spent' = spent \cup Secrets(x.ins) /\ Secrets(x.ins) \subseteq DOMAIN signed
         /\ x.todo = <<>> /\ x.held \in OwnPurses
    BY <1>6, <2>4, <2>5, <2>6, <2>8, <2>9, <2>15
  <2> QED BY <1>2, <2>4, <2>5, <2>7, <2>16, <2>17, <2>18, SignedIsReal
<1> QED BY <1>4, <1>5, <1>6

\* The answer to a request for coins is written as rows that can be spent.
LEMMA AnsweredMintIsReal ==
    ASSUME OneTask, TypeOK, BalanceKept, NEW t \in Tasks, AnsweredMint(t)
    PROVE  BalanceKept'
<1> DEFINE now == task[t]
           outs == now.outs
           k == now.k
           p == ConstructProofs(outs, k, k)
           drop == IF now.id \in MintQuotes THEN <<Call("remove_mint_quote", now.id, None)>> ELSE <<>>
           count == IF now.cond = None THEN Increment(k, Cardinality(p)) ELSE <<>>
           add == Adding(p, "Unspent")
           todo == drop \o count \o add
           x == [now EXCEPT !.at = "write", !.todo = todo]
<1>1. /\ now \in TaskStates /\ Control(now) /\ now.op = "mint" /\ now.at = "answered"
      /\ TaskReal(now, signed, Gone, adrift, Live(Coins(store, db)))
  BY NowType DEF AnsweredMint, BalanceKept
<1>2. UNCHANGED <<store, db, spent, signed, tokens, adrift>>
  BY DEF AnsweredMint, OnlyTask, mintVars, historyVars
<1>3. Goto(t, x)
  BY DEF AnsweredMint
<1>4. now.outs \in Seq(Outputs) /\ now.k \in ToSet(Chain)
  BY <1>1 DEF TaskStates, OutputLists, Control
<1>5. x.at = "write" /\ x.op = now.op /\ x.next = now.next /\ x.held = now.held /\ x.todo = todo
  BY <1>1 DEF TaskStates
<1> HIDE DEF x, now
<1>6. now.ins = {} /\ now.next \notin {"state", "hand"}
  BY <1>1 DEF Control
<1>7. \A o \in ToSet(outs) : o.secret \notin Gone /\ SignedAs(o, k, signed)
  BY <1>1 DEF TaskReal, Answer
<1>8. p \in OwnPurses
  BY <1>4, ConstructedType
<1>9. \A q \in p : q.secret \in DOMAIN signed /\ (q.secret \in adrift \/ Right(q, signed, Gone))
  BY <1>7, ConstructedIsRight
<1> HIDE DEF p, outs, k
<1>10. Secrets(p) \subseteq DOMAIN signed
  BY <1>9 DEF Secrets
<1>11. \A c \in ToSet(add) : GoodCall(c, signed, Gone, adrift)
  <2> DEFINE gone == Gone
  <2>1. \A q \in p : q.secret \in adrift \/ Right(q, signed, gone)
    BY <1>9
  <2> HIDE DEF gone
  <2>2. \A c \in ToSet(Adding(p, "Unspent")) : GoodCall(c, signed, gone, adrift)
    BY <1>8, <1>10, <2>1, AddingIsGood DEF States
  <2> QED BY <2>2 DEF gone
<1>12. add \in Seq(Calls)
  BY <1>8, AddingCalls DEF States
<1>13. count \in Seq(Calls) /\ \A c \in ToSet(count) : c.call = "increment_keyset_counter"
  <2>1. Cardinality(p) \in Nat
    BY <1>8, FS_CardinalityType DEF OwnPurses
  <2>2. <<>> \in Seq(Calls) /\ ToSet(<<>>) = {}
    BY DEF ToSet
  <2> QED BY <1>4, <2>1, <2>2, IncrementCalls DEF k
<1>14. drop \in Seq(Calls) /\ \A c \in ToSet(drop) : c.call = "remove_mint_quote"
  <2>1. <<>> \in Seq(Calls) /\ ToSet(<<>>) = {}
    BY DEF ToSet
  <2> DEFINE one == Call("remove_mint_quote", now.id, None)
  <2>2. now.id \in MintQuotes => one \in Calls /\ one.call = "remove_mint_quote"
    BY DEF Call, Calls
  <2> HIDE DEF one
  <2>3. ToSet(<<one>>) = {one}
    BY DEF ToSet
  <2>4. drop = IF now.id \in MintQuotes THEN <<one>> ELSE <<>>
    BY DEF one
  <2> HIDE DEF drop
  <2> QED BY <2>1, <2>2, <2>3, <2>4
<1> HIDE DEF drop, count, add
<1>15. ToSet(todo) = (ToSet(drop) \cup ToSet(count)) \cup ToSet(add)
  <2> DEFINE u == drop \o count
  <2>1. u \in Seq(Calls) /\ ToSet(u) = ToSet(drop) \cup ToSet(count)
    BY <1>13, <1>14, JoinedElements
  <2> HIDE DEF u
  <2>2. ToSet(u \o add) = ToSet(u) \cup ToSet(add)
    BY <2>1, <1>12, JoinedElements
  <2> QED BY <2>1, <2>2 DEF u
<1> HIDE DEF todo
<1>16. \A c \in ToSet(todo) : GoodCall(c, signed, Gone, adrift)
  BY <1>11, <1>13, <1>14, <1>15 DEF GoodCall
<1>17. Holding(x, signed, Gone)
  BY <1>1, <1>5 DEF TaskReal, Holding
<1>18. TaskReal(x, signed, Gone, adrift', Live(Coins(store, db)))
  BY <1>2, <1>5, <1>6, <1>16, <1>17 DEF TaskReal, Request, Answer, HandingOut
<1>19. \A s : ~Pending(now, s)
  BY <1>1, <1>6, NothingIn DEF Pending
<1>20. \A s : s \in adrift \/ Pending(task[t], s) => s \in adrift' \/ Pending(x, s)
  BY <1>2, <1>19 DEF now
<1> QED BY <1>2, <1>3, <1>18, <1>20, RealQuiet

\* Of proofs with different secrets those not sent share none with those sent.
LEMMA NotSent ==
    ASSUME NEW proofs, \A p, q \in proofs : p.secret = q.secret => p = q, NEW send, send \subseteq proofs
    PROVE  \A s \in Secrets(proofs \ send) : s \notin Secrets(send)
BY DEF Secrets

\* What a swap got is written, Reserved when it goes into the token; what it
\* gave is set Reserved.
LEMMA AnsweredSwapIsReal ==
    ASSUME OneTask, TypeOK, BalanceKept, NEW t \in Tasks, AnsweredSwap(t)
    PROVE  BalanceKept'
<1> DEFINE now == task[t]
           outs == now.outs
           k == now.k
           a == ActiveMintKeyset(db)
           proofs == ConstructProofs(outs, k, a.id)
<1>1. /\ now \in TaskStates /\ Control(now) /\ now.at = "answered"
      /\ now.op \in {"swap", "send", "melt"}
      /\ TaskReal(now, signed, Gone, adrift, Live(Coins(store, db)))
  BY NowType DEF AnsweredSwap, BalanceKept
<1>2. /\ UNCHANGED <<store, spent, signed, tokens>> /\ db' = a.db
      /\ adrift' = IF a.id = k THEN adrift ELSE adrift \cup Secrets(ToSet(outs))
  BY DEF AnsweredSwap, mintVars
<1>3. PICK send \in ToSend(proofs, now.want) :
         LET handed == now.held \cup send
         IN  Goto(t, [now EXCEPT !.at = "write", !.held = handed, !.todo =
                Increment(a.id, Len(outs)) \o Adding(send, "Reserved")
                \o Setting(now.ins, "Reserved") \o Adding(proofs \ send, "Unspent")
                \o (IF now.op = "send" THEN Setting(handed, "Reserved") ELSE <<>>)])
  BY DEF AnsweredSwap
<1> DEFINE handed == now.held \cup send
           count == Increment(a.id, Len(outs))
           add == Adding(send, "Reserved")
           set == Setting(now.ins, "Reserved")
           rest == Adding(proofs \ send, "Unspent")
           mark == IF now.op = "send" THEN Setting(handed, "Reserved") ELSE <<>>
           todo == count \o add \o set \o rest \o mark
           x == [now EXCEPT !.at = "write", !.held = handed, !.todo = todo]
<1>4. Goto(t, x)
  BY <1>3
<1>5. outs \in Seq(Outputs) /\ k \in ToSet(Chain) /\ now.held \in OwnPurses /\ now.ins \in Purses
  BY <1>1 DEF TaskStates, OutputLists, Control
<1>6. /\ x.at = "write" /\ x.op = now.op /\ x.next = now.next /\ x.held = handed /\ x.todo = todo
      /\ x.ins = now.ins
  BY <1>1 DEF TaskStates
<1> HIDE DEF x, now
<1>7. /\ now.next # "state" /\ now.op # "receive" /\ (now.next = "hand" => now.op = "send")
  BY <1>1 DEF Control
<1>8. Refreshed(store, db, a.db) /\ a.id \in ToSet(Chain)
  BY ActiveKeysetType DEF TypeOK, Sound
<1>9. Coins(store, db') = Coins(store, db)
  BY <1>2, <1>8 DEF Refreshed
<1>10. \A o \in ToSet(outs) : o.secret \notin Gone \cup Secrets(now.held) /\ SignedAs(o, k, signed)
  BY <1>1 DEF TaskReal, Answer
<1>11. adrift \subseteq adrift' /\ (a.id = k \/ \A o \in ToSet(outs) : o.secret \in adrift')
  BY <1>2 DEF Secrets
<1> HIDE DEF a
<1> DEFINE c == a.id
<1> HIDE DEF k, outs
<1>12. proofs \in OwnPurses /\ Secrets(proofs) = Secrets(ToSet(outs))
  BY <1>5, <1>8, ConstructedType
<1>13. \A p \in proofs : p.secret \in DOMAIN signed /\ (p.secret \in adrift' \/ Right(p, signed, Gone))
  <2> DEFINE gone == Gone
             lost == adrift'
             made == signed
  <2>1. /\ \A o \in ToSet(outs) : o.secret \notin gone /\ SignedAs(o, k, made)
        /\ c = k \/ \A o \in ToSet(outs) : o.secret \in lost
    BY <1>10, <1>11
  <2> HIDE DEF gone, lost, made, c
  <2>2. \A p \in ConstructProofs(outs, k, c) : p.secret \in DOMAIN made /\ (p.secret \in lost \/ Right(p, made, gone))
    BY <2>1, ConstructedIsRight
  <2> QED BY <2>2 DEF gone, lost, made, c
<1>14. \A p, q \in proofs : p.secret = q.secret => p = q
  <2> DEFINE made == signed
  <2>1. \A o \in ToSet(outs) : SignedAs(o, k, made)
    BY <1>10
  <2> HIDE DEF made
  <2> QED BY <2>1, ConstructedOnce
<1> HIDE DEF proofs, c
<1>15. send \in OwnPurses /\ send \subseteq proofs /\ proofs \ send \in OwnPurses
  <2>1. send \in OwnPurses /\ send \subseteq proofs
    BY <1>12, ToSendType
  <2> QED BY <1>12, <2>1, PartOfPurse
<1>16. handed \in OwnPurses /\ handed \in Purses
  BY <1>5, <1>15, JoinedPurses, OwnPursesArePurses
<1>17. Secrets(handed) = Secrets(now.held) \cup Secrets(send)
  BY DEF Secrets
<1>18. Secrets(now.held) \subseteq DOMAIN signed
  BY <1>1 DEF TaskReal, Holding
<1>19. Secrets(send) \subseteq DOMAIN signed /\ Secrets(proofs \ send) \subseteq DOMAIN signed
  BY <1>13, <1>15 DEF Secrets
<1>20. \A s \in Secrets(proofs \ send) : s \notin Secrets(handed)
  <2>1. \A s \in Secrets(proofs) : s \notin Secrets(now.held)
    BY <1>10, <1>12 DEF Secrets
  <2>2. \A s \in Secrets(proofs \ send) : s \notin Secrets(send)
    BY <1>14, <1>15, NotSent
  <2>3. Secrets(proofs \ send) \subseteq Secrets(proofs)
    BY DEF Secrets
  <2> QED BY <1>17, <2>1, <2>2, <2>3
<1> HIDE DEF handed
<1>21. /\ add \in Seq(Calls) /\ \A d \in ToSet(add) : GoodCall(d, signed, Gone, adrift')
       /\ \A s : ~Opens(ToSet(add), s)
  <2> DEFINE gone == Gone
             lost == adrift'
             made == signed
  <2>1. "Reserved" \in States /\ "Reserved" # "Unspent"
    BY DEF States
  <2>2. Secrets(send) \subseteq DOMAIN made
    BY <1>19
  <2> HIDE DEF gone, lost, made
  <2>3. \A d \in ToSet(Adding(send, "Reserved")) : GoodCall(d, made, gone, lost)
    BY <1>15, <2>1, <2>2, AddingIsGood
  <2>4. \A s : ~Opens(ToSet(Adding(send, "Reserved")), s)
    BY <1>15, <2>1, AddingOpens
  <2>5. Adding(send, "Reserved") \in Seq(Calls)
    BY <1>15, <2>1, AddingCalls
  <2> QED BY <2>3, <2>4, <2>5 DEF gone, lost, made
<1>22. /\ rest \in Seq(Calls) /\ \A d \in ToSet(rest) : GoodCall(d, signed, Gone, adrift')
       /\ \A s : Opens(ToSet(rest), s) => s \in Secrets(proofs \ send)
  <2> DEFINE gone == Gone
             lost == adrift'
             made == signed
             ps == proofs \ send
  <2>1. "Unspent" \in States
    BY DEF States
  <2>2. Secrets(ps) \subseteq DOMAIN made /\ ps \in OwnPurses
    BY <1>15, <1>19
  <2>3. \A p \in ps : p.secret \in lost \/ Right(p, made, gone)
    BY <1>13
  <2> HIDE DEF gone, lost, made, ps
  <2>4. \A d \in ToSet(Adding(ps, "Unspent")) : GoodCall(d, made, gone, lost)
    BY <2>1, <2>2, <2>3, AddingIsGood
  <2>5. \A s : Opens(ToSet(Adding(ps, "Unspent")), s) => s \in Secrets(ps)
    BY <2>1, <2>2, AddingOpens
  <2>6. Adding(ps, "Unspent") \in Seq(Calls)
    BY <2>1, <2>2, AddingCalls
  <2> QED BY <2>4, <2>5, <2>6 DEF gone, lost, made, ps
<1>23. /\ set \in Seq(Calls) /\ \A s \in Secrets(now.ins) : Sets(ToSet(set), s)
       /\ \A d \in ToSet(set) : d.call = "set_proof_state" /\ d.y = "Reserved"
  <2>1. "Reserved" \in States
    BY DEF States
  <2>2. Setting(now.ins, "Reserved") \in Seq(Calls)
    BY <1>5, <2>1, SettingCalls
  <2> QED BY <1>5, <2>1, <2>2, SettingSets
<1>24. /\ mark \in Seq(Calls) /\ (now.op = "send" => \A s \in Secrets(handed) : Sets(ToSet(mark), s))
       /\ \A d \in ToSet(mark) : d.call = "set_proof_state" /\ d.y = "Reserved"
  <2>1. "Reserved" \in States
    BY DEF States
  <2> DEFINE all == Setting(handed, "Reserved")
  <2>2. /\ all \in Seq(Calls) /\ \A s \in Secrets(handed) : Sets(ToSet(all), s)
        /\ \A d \in ToSet(all) : d.call = "set_proof_state" /\ d.y = "Reserved"
    BY <1>16, <2>1, SettingCalls, SettingSets
  <2>3. <<>> \in Seq(Calls) /\ ToSet(<<>>) = {}
    BY DEF ToSet
  <2>4. mark = IF now.op = "send" THEN all ELSE <<>>
    OBVIOUS
  <2> HIDE DEF all, mark
  <2> QED BY <2>2, <2>3, <2>4
<1>25. count \in Seq(Calls) /\ \A d \in ToSet(count) : d.call = "increment_keyset_counter"
  <2>1. Len(outs) \in Nat
    BY <1>5
  <2> QED BY <1>8, <2>1, IncrementCalls
<1> HIDE DEF count, add, set, rest, mark
<1>26. ToSet(todo) = (((ToSet(count) \cup ToSet(add)) \cup ToSet(set)) \cup ToSet(rest)) \cup ToSet(mark)
  <2> DEFINE u == count \o add
             v == u \o set
             w == v \o rest
  <2>1. u \in Seq(Calls) /\ ToSet(u) = ToSet(count) \cup ToSet(add)
    BY <1>21, <1>25, JoinedElements
  <2> HIDE DEF u
  <2>2. v \in Seq(Calls) /\ ToSet(v) = ToSet(u) \cup ToSet(set)
    BY <2>1, <1>23, JoinedElements
  <2> HIDE DEF v
  <2>3. w \in Seq(Calls) /\ ToSet(w) = ToSet(v) \cup ToSet(rest)
    BY <2>2, <1>22, JoinedElements
  <2> HIDE DEF w
  <2>4. ToSet(w \o mark) = ToSet(w) \cup ToSet(mark)
    BY <2>3, <1>24, JoinedElements
  <2>5. todo = w \o mark
    BY DEF u, v, w
  <2> QED BY <2>1, <2>2, <2>3, <2>4, <2>5
<1> HIDE DEF todo
<1>27. \A d \in ToSet(todo) : GoodCall(d, signed, Gone, adrift')
  <2>1. \A d \in ToSet(count) \cup ToSet(set) \cup ToSet(mark) : GoodCall(d, signed, Gone, adrift')
    BY <1>23, <1>24, <1>25 DEF GoodCall
  <2> QED BY <1>21, <1>22, <1>26, <2>1
<1>28. \A s : Opens(ToSet(todo), s) => s \in Secrets(proofs \ send)
  <2>1. \A s : ~Opens(ToSet(count), s) /\ ~Opens(ToSet(set), s) /\ ~Opens(ToSet(mark), s)
    BY <1>23, <1>24, <1>25 DEF Opens
  <2>2. \A s : Opens(ToSet(todo), s) =>
              Opens(ToSet(count), s) \/ Opens(ToSet(add), s) \/ Opens(ToSet(set), s)
              \/ Opens(ToSet(rest), s) \/ Opens(ToSet(mark), s)
    BY <1>26 DEF Opens
  <2> QED BY <1>21, <1>22, <2>1, <2>2
<1>29. \A s : Sets(ToSet(set), s) \/ Sets(ToSet(mark), s) => Sets(ToSet(todo), s)
  BY <1>26 DEF Sets
<1>30. HandingOut(x, Live(Coins(store, db)))
  BY <1>6, <1>7, <1>20, <1>24, <1>28, <1>29 DEF HandingOut
<1>31. Holding(x, signed, Gone)
  BY <1>6, <1>7, <1>17, <1>18, <1>19 DEF Holding
<1>32. TaskReal(x, signed, Gone, adrift', Live(Coins(store, db)))
  BY <1>6, <1>7, <1>27, <1>30, <1>31 DEF TaskReal, Request, Answer
<1>33. ASSUME NEW s, Pending(now, s) PROVE Pending(x, s)
  <2>1. s \in Secrets(now.ins)
    BY <1>1, <1>33 DEF Pending
  <2>2. Sets(ToSet(todo), s)
    BY <1>23, <1>29, <2>1
  <2>3. s \in Stake(x)
    BY <1>6, <2>1 DEF Stake
  <2> QED BY <1>6, <2>2, <2>3 DEF Pending, Touches
<1>34. \A s : s \in adrift \/ Pending(task[t], s) => s \in adrift' \/ Pending(x, s)
  BY <1>11, <1>33 DEF now
<1>35. UNCHANGED <<store, spent, signed, tokens>> /\ Goto(t, x)
  BY <1>2, <1>4
<1> QED BY <1>9, <1>32, <1>34, <1>35, RealQuiet

\* The change of a melt is written and what it paid with removed.
LEMMA AnsweredMeltIsReal ==
    ASSUME OneTask, TypeOK, BalanceKept, NEW t \in Tasks, AnsweredMelt(t)
    PROVE  BalanceKept'
<1> DEFINE now == task[t]
           outs == now.outs
           k == now.k
           a == ActiveMintKeyset(db)
           change == ConstructProofs(outs, k, a.id)
           count == Increment(k, Len(outs))
           add == Adding(change, "Unspent")
           drop == <<Call("remove_melt_quote", now.id, None)>>
           remove == Removing(now.ins)
           todo == count \o add \o drop \o remove
           x == [now EXCEPT !.at = "write", !.todo = todo]
<1>1. /\ now \in TaskStates /\ Control(now) /\ now.at = "melted"
      /\ TaskReal(now, signed, Gone, adrift, Live(Coins(store, db)))
  BY NowType DEF AnsweredMelt, BalanceKept
<1>2. /\ UNCHANGED <<store, spent, signed, tokens>> /\ db' = a.db
      /\ adrift' = IF a.id = k THEN adrift ELSE adrift \cup Secrets(ToSet(outs))
  BY DEF AnsweredMelt, mintVars
<1>3. Goto(t, x)
  BY DEF AnsweredMelt
<1>4. outs \in Seq(Outputs) /\ k \in ToSet(Chain) /\ now.ins \in Purses /\ now.id \in MeltQuotes
  BY <1>1 DEF TaskStates, OutputLists, Control
<1>5. /\ x.at = "write" /\ x.op = now.op /\ x.next = now.next /\ x.held = now.held /\ x.todo = todo
      /\ x.ins = now.ins
  BY <1>1 DEF TaskStates
<1> HIDE DEF x, now
<1>6. now.op = "melt" /\ now.next \notin {"state", "hand"}
  BY <1>1 DEF Control
<1>7. Refreshed(store, db, a.db) /\ a.id \in ToSet(Chain)
  BY ActiveKeysetType DEF TypeOK, Sound
<1>8. Coins(store, db') = Coins(store, db)
  BY <1>2, <1>7 DEF Refreshed
<1>9. \A o \in ToSet(outs) : o.secret \notin Gone /\ SignedAs(o, k, signed)
  BY <1>1 DEF TaskReal, Answer
<1>10. adrift \subseteq adrift' /\ (a.id = k \/ \A o \in ToSet(outs) : o.secret \in adrift')
  BY <1>2 DEF Secrets
<1> HIDE DEF a
<1> DEFINE c == a.id
<1> HIDE DEF k, outs
<1>11. change \in OwnPurses /\ Secrets(change) = Secrets(ToSet(outs))
  BY <1>4, <1>7, ConstructedType
<1>12. \A p \in change : p.secret \in DOMAIN signed /\ (p.secret \in adrift' \/ Right(p, signed, Gone))
  <2> DEFINE gone == Gone
             lost == adrift'
             made == signed
  <2>1. /\ \A o \in ToSet(outs) : o.secret \notin gone /\ SignedAs(o, k, made)
        /\ c = k \/ \A o \in ToSet(outs) : o.secret \in lost
    BY <1>9, <1>10
  <2> HIDE DEF gone, lost, made, c
  <2>2. \A p \in ConstructProofs(outs, k, c) : p.secret \in DOMAIN made /\ (p.secret \in lost \/ Right(p, made, gone))
    BY <2>1, ConstructedIsRight
  <2> QED BY <2>2 DEF gone, lost, made, c
<1> HIDE DEF change, c
<1>13. Secrets(change) \subseteq DOMAIN signed
  BY <1>12 DEF Secrets
<1>14. add \in Seq(Calls) /\ \A d \in ToSet(add) : GoodCall(d, signed, Gone, adrift')
  <2> DEFINE gone == Gone
             lost == adrift'
             made == signed
  <2>1. "Unspent" \in States
    BY DEF States
  <2>2. Secrets(change) \subseteq DOMAIN made /\ \A p \in change : p.secret \in lost \/ Right(p, made, gone)
    BY <1>12, <1>13
  <2> HIDE DEF gone, lost, made
  <2>3. \A d \in ToSet(Adding(change, "Unspent")) : GoodCall(d, made, gone, lost)
    BY <1>11, <2>1, <2>2, AddingIsGood
  <2>4. Adding(change, "Unspent") \in Seq(Calls)
    BY <1>11, <2>1, AddingCalls
  <2> QED BY <2>3, <2>4 DEF gone, lost, made
<1>15. count \in Seq(Calls) /\ \A d \in ToSet(count) : d.call = "increment_keyset_counter"
  <2>1. Len(outs) \in Nat
    BY <1>4
  <2> QED BY <1>4, <2>1, IncrementCalls
<1>16. /\ remove \in Seq(Calls) /\ \A d \in ToSet(remove) : d.call = "remove_proofs"
       /\ \A s \in Secrets(now.ins) : Removes(ToSet(remove), s)
  BY <1>4, RemovingCalls, RemovingRemoves
<1>17. drop \in Seq(Calls) /\ \A d \in ToSet(drop) : d.call = "remove_melt_quote"
  <2> DEFINE one == Call("remove_melt_quote", now.id, None)
  <2>1. one \in Calls /\ one.call = "remove_melt_quote" /\ drop = <<one>>
    BY <1>4 DEF Call, Calls
  <2> HIDE DEF one, drop
  <2> QED BY <2>1 DEF ToSet
<1> HIDE DEF count, add, drop, remove
<1>18. ToSet(todo) = ((ToSet(count) \cup ToSet(add)) \cup ToSet(drop)) \cup ToSet(remove)
  <2> DEFINE u == count \o add
             v == u \o drop
  <2>1. u \in Seq(Calls) /\ ToSet(u) = ToSet(count) \cup ToSet(add)
    BY <1>14, <1>15, JoinedElements
  <2> HIDE DEF u
  <2>2. v \in Seq(Calls) /\ ToSet(v) = ToSet(u) \cup ToSet(drop)
    BY <2>1, <1>17, JoinedElements
  <2> HIDE DEF v
  <2>3. ToSet(v \o remove) = ToSet(v) \cup ToSet(remove)
    BY <2>2, <1>16, JoinedElements
  <2>4. todo = v \o remove
    BY DEF u, v
  <2> QED BY <2>1, <2>2, <2>3, <2>4
<1> HIDE DEF todo
<1>19. \A d \in ToSet(todo) : GoodCall(d, signed, Gone, adrift')
  <2>1. \A d \in ToSet(count) \cup ToSet(drop) \cup ToSet(remove) : GoodCall(d, signed, Gone, adrift')
    BY <1>15, <1>16, <1>17 DEF GoodCall
  <2> QED BY <1>14, <1>18, <2>1
<1>20. Holding(x, signed, Gone)
  BY <1>1, <1>5, <1>6 DEF TaskReal, Holding
<1>21. TaskReal(x, signed, Gone, adrift', Live(Coins(store, db)))
  BY <1>5, <1>6, <1>19, <1>20 DEF TaskReal, Request, Answer, HandingOut
<1>22. ASSUME NEW s, Pending(now, s) PROVE Pending(x, s)
  <2>1. s \in Secrets(now.ins)
    BY <1>1, <1>22 DEF Pending
  <2>2. Removes(ToSet(todo), s)
    BY <1>16, <1>18, <2>1 DEF Removes
  <2>3. s \in Stake(x)
    BY <1>5, <2>1 DEF Stake
  <2> QED BY <1>5, <2>2, <2>3 DEF Pending, Touches
<1>23. \A s : s \in adrift \/ Pending(task[t], s) => s \in adrift' \/ Pending(x, s)
  BY <1>10, <1>22 DEF now
<1>24. UNCHANGED <<store, spent, signed, tokens>>
  BY <1>2
<1> QED BY <1>3, <1>8, <1>21, <1>23, <1>24, RealQuiet

\* What a receive gets can be spent and is held.
LEMMA AnsweredReceiveIsReal ==
    ASSUME OneTask, TypeOK, BalanceKept, NEW t \in Tasks, AnsweredReceive(t)
    PROVE  BalanceKept'
<1> DEFINE now == task[t]
           outs == now.outs
           k == now.k
           proofs == ConstructProofs(outs, k, k)
           held == now.held \cup proofs
           todo == Increment(k, Len(outs))
           x == [now EXCEPT !.at = "write", !.ins = {}, !.outs = <<>>, !.held = held, !.todo = todo]
<1>1. /\ now \in TaskStates /\ Control(now) /\ now.op = "receive" /\ now.at = "answered"
      /\ TaskReal(now, signed, Gone, adrift, Live(Coins(store, db)))
  BY NowType DEF AnsweredReceive, BalanceKept
<1>2. UNCHANGED <<store, db, spent, signed, tokens, adrift>>
  BY DEF AnsweredReceive, OnlyTask, mintVars, historyVars
<1>3. Goto(t, x)
  BY DEF AnsweredReceive
<1>4. outs \in Seq(Outputs) /\ k \in ToSet(Chain)
  BY <1>1 DEF TaskStates, OutputLists, Control
<1>5. /\ x.at = "write" /\ x.op = now.op /\ x.next = now.next /\ x.held = held /\ x.todo = todo
      /\ x.ins = {} /\ x.rest = now.rest
  BY <1>1 DEF TaskStates
<1> HIDE DEF x, now
<1>6. now.next \notin {"state", "hand"}
  BY <1>1 DEF Control
<1>7. \A o \in ToSet(outs) : o.secret \notin Gone /\ SignedAs(o, k, signed)
  BY <1>1 DEF TaskReal, Answer
<1> HIDE DEF outs, k
<1>8. \A p \in proofs : p.secret \in DOMAIN signed /\ Right(p, signed, Gone)
  <2> DEFINE gone == Gone
             made == signed
             none == {}
  <2>1. \A o \in ToSet(outs) : o.secret \notin gone /\ SignedAs(o, k, made)
    BY <1>7
  <2> HIDE DEF gone, made, none
  <2>2. \A p \in ConstructProofs(outs, k, k) : p.secret \in DOMAIN made /\ (p.secret \in none \/ Right(p, made, gone))
    BY <2>1, ConstructedIsRight
  <2> QED BY <2>2 DEF gone, made, none
<1> HIDE DEF proofs
<1>9. Holding(now, signed, Gone)
  BY <1>1 DEF TaskReal
<1>10. Secrets(held) \subseteq DOMAIN signed
  BY <1>8, <1>9 DEF Holding, Secrets
<1>11. \A p \in held : Right(p, signed, Gone)
  BY <1>1, <1>8, <1>9 DEF Holding
<1> HIDE DEF held
<1>12. Secrets(x.ins) = {}
  BY <1>5, NothingIn
<1>13. Holding(x, signed, Gone)
  BY <1>1, <1>5, <1>9, <1>10, <1>11, <1>12 DEF Holding
<1>14. \A d \in ToSet(todo) : d.call = "increment_keyset_counter"
  <2>1. Len(outs) \in Nat
    BY <1>4
  <2> QED BY <1>4, <2>1, IncrementCalls
<1> HIDE DEF todo
<1>15. \A d \in ToSet(todo) : GoodCall(d, signed, Gone, adrift')
  BY <1>14 DEF GoodCall
<1>16. TaskReal(x, signed, Gone, adrift', Live(Coins(store, db)))
  BY <1>5, <1>6, <1>13, <1>15 DEF TaskReal, Request, Answer, HandingOut
<1>17. \A s : ~Pending(now, s)
  BY <1>1 DEF Pending
<1>18. \A s : s \in adrift \/ Pending(task[t], s) => s \in adrift' \/ Pending(x, s)
  BY <1>2, <1>17 DEF now
<1> QED BY <1>2, <1>3, <1>16, <1>18, RealQuiet

\* What was received is written.
LEMMA StoreReceivedIsReal ==
    ASSUME OneTask, TypeOK, BalanceKept, NEW t \in Tasks, StoreReceived(t)
    PROVE  BalanceKept'
<1> DEFINE now == task[t]
           held == now.held
           todo == Adding(held, "Unspent")
           x == [now EXCEPT !.next = "finish", !.todo = todo]
<1>1. /\ now \in TaskStates /\ Control(now) /\ now.next = "entry" /\ now.at = "write" /\ now.todo = <<>>
      /\ TaskReal(now, signed, Gone, adrift, Live(Coins(store, db)))
  BY NowType DEF StoreReceived, Done, BalanceKept
<1>2. UNCHANGED <<store, db, spent, signed, tokens, adrift>>
  BY DEF StoreReceived, OnlyTask, mintVars, historyVars
<1>3. Goto(t, x)
  BY DEF StoreReceived
<1>4. /\ x.at = "write" /\ x.op = now.op /\ x.next = "finish" /\ x.held = held /\ x.todo = todo
      /\ x.ins = now.ins /\ x.rest = now.rest
  BY <1>1 DEF TaskStates
<1>5. held \in OwnPurses
  BY <1>1 DEF TaskStates
<1> HIDE DEF x, now
<1>6. now.op = "receive"
  BY <1>1 DEF Control
<1>7. Holding(now, signed, Gone)
  BY <1>1 DEF TaskReal
<1>8. Holding(x, signed, Gone)
  BY <1>4, <1>6, <1>7 DEF Holding
<1>9. Secrets(held) \subseteq DOMAIN signed /\ \A p \in held : Right(p, signed, Gone)
  BY <1>6, <1>7 DEF Holding
<1> HIDE DEF held
<1>10. \A d \in ToSet(todo) : GoodCall(d, signed, Gone, adrift')
  <2> DEFINE gone == Gone
             lost == adrift'
             made == signed
  <2>1. "Unspent" \in States
    BY DEF States
  <2>2. Secrets(held) \subseteq DOMAIN made /\ \A p \in held : p.secret \in lost \/ Right(p, made, gone)
    BY <1>9
  <2> HIDE DEF gone, lost, made
  <2>3. \A d \in ToSet(Adding(held, "Unspent")) : GoodCall(d, made, gone, lost)
    BY <1>5, <2>1, <2>2, AddingIsGood
  <2> QED BY <2>3 DEF gone, lost, made
<1> HIDE DEF todo
<1>11. TaskReal(x, signed, Gone, adrift', Live(Coins(store, db)))
  BY <1>4, <1>8, <1>10 DEF TaskReal, Request, Answer, HandingOut
<1>12. \A s : ~Pending(now, s)
  BY <1>1, NonePending
<1>13. \A s : s \in adrift \/ Pending(task[t], s) => s \in adrift' \/ Pending(x, s)
  BY <1>2, <1>12 DEF now
<1> QED BY <1>2, <1>3, <1>11, <1>13, RealQuiet

\* No coin of a token counts when it is handed out.
LEMMA HandOutIsReal ==
    ASSUME OneTask, TypeOK, BalanceKept, NEW t \in Tasks, HandOut(t)
    PROVE  BalanceKept'
<1> DEFINE now == task[t]
           held == now.held
           token == [by |-> t, entries |-> <<held>>]
<1>1. /\ Control(now) /\ now.next = "hand" /\ now.at = "write" /\ now.todo = <<>>
      /\ TaskReal(now, signed, Gone, adrift, Live(Coins(store, db)))
  BY NowType DEF HandOut, Done, BalanceKept
<1>2. /\ UNCHANGED <<store, db, spent, signed, adrift>> /\ Goto(t, Idle)
      /\ tokens' = tokens \cup {token}
  BY DEF HandOut, End, mintVars, historyVars
<1>3. \A s : ~Pending(now, s)
  BY <1>1, NonePending
<1> HIDE DEF now
<1>4. Secrets(held) \subseteq DOMAIN signed /\ \A s \in Secrets(held) : s \notin Live(Coins(store, db))
  BY <1>1, NoneTouched DEF TaskReal, Holding, HandingOut
<1> HIDE DEF held
<1>5. UNION ToSet(token.entries) = held
  <2>1. ToSet(<<held>>) = {held}
    BY DEF ToSet
  <2> QED BY <2>1
<1> HIDE DEF token
<1>6. TokenSecrets' = TokenSecrets \cup Secrets(held)
  BY <1>2, <1>5 DEF TokenSecrets
<1>7. Gone' = Gone \cup Secrets(held) /\ Keys' = Keys
  BY <1>2, <1>6 DEF Gone, Keys
<1>8. Known' /\ Indexed'
  BY <1>2, <1>4, <1>7 DEF BalanceKept, Known, Indexed
<1>9. ASSUME NEW s \in Live(Coins(store, db))
      PROVE  s \in adrift \/ Right(Coins(store, db)[s].proof, signed, Gone')
  <2> DEFINE p == Coins(store, db)[s].proof
  <2>1. s \in adrift \/ Right(p, signed, Gone)
    BY <1>3 DEF BalanceKept, RowsReal, OneTask, now
  <2>2. p.secret = s
    BY RowOf DEF Live
  <2>3. s \notin Secrets(held)
    BY <1>4
  <2> HIDE DEF p
  <2> QED BY <1>7, <2>1, <2>2, <2>3 DEF Right, p
<1>10. TaskReal(Idle, signed', Gone', adrift', Live(Coins(store', db')))
  BY IdleReal
<1>11. \A s \in Live(Coins(store', db')) :
         s \in adrift' \/ Right(Coins(store', db')[s].proof, signed', Gone') \/ Pending(Idle, s)
  BY <1>2, <1>9
<1> QED BY <1>2, <1>8, <1>10, <1>11, RealMoved

\* A restore that begins has nothing to write, and a check of the pending
\* proofs only removes.
LEMMA RestoreIsReal ==
    ASSUME OneTask, TypeOK, BalanceKept, NEW t \in Tasks, Restore(t) \/ CheckPending(t)
    PROVE  BalanceKept'
<1>1. \A s : ~Pending(task[t], s)
  BY BeginsReal DEF Restore, CheckPending, Called, Asked
<1>2. UNCHANGED <<store, spent, signed, tokens, adrift>>
  BY DEF Restore, CheckPending, OnlyTask, mintVars, historyVars
<1>3. Secrets({}) \subseteq DOMAIN signed
  BY NothingIn
<1>4. CASE Restore(t)
  <2>1. PICK rest \in Seq(ToSet(Chain)) :
          Goto(t, [Idle EXCEPT !.op = "restore", !.at = "batch", !.rest = rest])
    BY <1>4, RestoreDoes
  <2> DEFINE x == [Idle EXCEPT !.op = "restore", !.at = "batch", !.rest = rest]
  <2>2. x.at = "batch" /\ x.op = "restore" /\ x.todo = <<>> /\ x.held = {} /\ Goto(t, x)
    BY <2>1 DEF Idle
  <2> HIDE DEF x
  <2>3. TaskReal(x, signed, Gone, adrift', Live(Coins(store, db)))
    BY <1>3, <2>2, PlainReal
  <2>4. Coins(store, db') = Coins(store, db)
    BY <1>4, RestoreDoes DEF Refreshed
  <2> QED BY <1>1, <1>2, <2>2, <2>3, <2>4, RealQuiet
<1>5. CASE CheckPending(t)
  <2>1. PICK todo \in Seq(Calls) :
          /\ Goto(t, [Idle EXCEPT !.op = "pending", !.at = "write", !.todo = todo])
          /\ \A c \in ToSet(todo) : c.call = "remove_proofs"
    BY <1>5, CheckPendingDoes
  <2> DEFINE x == [Idle EXCEPT !.op = "pending", !.at = "write", !.todo = todo]
  <2>2. /\ x.at = "write" /\ x.op = "pending" /\ x.todo = todo /\ x.held = {} /\ x.next = "finish"
        /\ Goto(t, x)
    BY <2>1 DEF Idle
  <2> HIDE DEF x
  <2>3. \A c \in ToSet(todo) : GoodCall(c, signed, Gone, adrift')
    BY <2>1 DEF GoodCall
  <2>4. Holding(x, signed, Gone)
    BY <1>3, <2>2 DEF Holding
  <2>5. TaskReal(x, signed, Gone, adrift', Live(Coins(store, db)))
    BY <2>2, <2>3, <2>4 DEF TaskReal, Request, Answer, HandingOut
  <2>6. Coins(store, db') = Coins(store, db)
    BY <1>5 DEF CheckPending
  <2> QED BY <1>1, <1>2, <2>2, <2>5, <2>6, RealQuiet
<1> QED BY <1>4, <1>5

\* The signatures that a batch finds are of the keyset it asks for.
LEMMA RestoreBatchIsReal ==
    ASSUME OneTask, TypeOK, BalanceKept, NEW t \in Tasks, RestoreBatch(t)
    PROVE  BalanceKept'
<1> DEFINE now == task[t]
           k == Head(now.rest)
           found == {s \in {<<k, i>> : i \in now.from..(now.from + BatchSize)} : s \in DOMAIN signed}
           made == {[secret |-> s, amount |-> signed[s].amount] : s \in found}
           outs == SetToSeq(made)
           todo == Increment(k, Len(outs))
           x == [now EXCEPT !.at = "write", !.k = k, !.outs = outs, !.next = "state", !.todo = todo]
           y == [now EXCEPT !.from = @ + BatchSize, !.empty = @ + 1]
           z == [now EXCEPT !.rest = Tail(@), !.from = 0, !.empty = 0]
<1>1. /\ now \in TaskStates /\ Control(now) /\ now.at = "batch"
      /\ TaskReal(now, signed, Gone, adrift, Live(Coins(store, db)))
  BY NowType DEF RestoreBatch, BalanceKept
<1>2. Goto(t, x) \/ Goto(t, y) \/ Goto(t, z)
  BY DEF RestoreBatch
<1>3. UNCHANGED <<store, db, spent, signed, tokens, adrift>>
  BY DEF RestoreBatch, OnlyTask, mintVars, historyVars
<1>4. now.rest \in Seq(ToSet(Chain)) /\ now.rest # <<>> /\ now.from \in Nat
  BY <1>1 DEF RestoreBatch, TaskStates, Control
<1>5. /\ x.at = "write" /\ x.op = now.op /\ x.next = "state" /\ x.held = now.held /\ x.todo = todo
      /\ x.outs = outs /\ x.k = k
  BY <1>1 DEF TaskStates
<1>6. /\ y.at = "batch" /\ y.op = now.op /\ y.held = now.held /\ y.todo = now.todo
      /\ z.at = "batch" /\ z.op = now.op /\ z.held = now.held /\ z.todo = now.todo
  BY <1>1 DEF TaskStates
<1> HIDE DEF now, x, y, z
<1>7. now.op = "restore" /\ now.todo = <<>> /\ Holding(now, signed, Gone)
  BY <1>1 DEF Control, TaskReal
<1>8. \A s : ~Pending(now, s)
  BY <1>1, NonePending
<1>9. \A s, u : s \in adrift \/ Pending(task[t], s) => s \in adrift' \/ Pending(u, s)
  BY <1>3, <1>8 DEF now
<1>10. ASSUME NEW u, u.at = "batch", u.op = "restore", u.held = now.held, u.todo = <<>>, Goto(t, u)
       PROVE  BalanceKept'
  <2>1. Secrets(u.held) \subseteq DOMAIN signed
    BY <1>7, <1>10 DEF Holding
  <2>2. TaskReal(u, signed, Gone, adrift', Live(Coins(store, db)))
    BY <1>10, <2>1, PlainReal
  <2> QED BY <1>3, <1>9, <1>10, <2>2, RealQuiet
<1>11. CASE Goto(t, x)
  <2>1. k \in ToSet(Chain)
    BY <1>4
  <2> HIDE DEF k
  <2>2. IsFiniteSet(made)
    <3> DEFINE from == now.from
               to == now.from + BatchSize
               all == {<<k, i>> : i \in from..to}
               f == [i \in from..to |-> <<k, i>>]
               g == [s \in found |-> [secret |-> s, amount |-> signed[s].amount]]
    <3>1. IsFiniteSet(from..to)
      BY <1>4, WalletAssumption, FS_Interval
    <3>2. f \in Surjection(from..to, all) /\ g \in Surjection(found, made)
      BY DEF Surjection
    <3>3. found \subseteq all
      OBVIOUS
    <3> HIDE DEF f, g, all, from, to, made, found
    <3>4. IsFiniteSet(all)
      BY <3>1, <3>2, FS_Surjection
    <3>5. IsFiniteSet(found)
      BY <3>3, <3>4, FS_Subset
    <3> QED BY <3>2, <3>5, FS_Surjection
  <2>3. \A s \in found : Derived(s) /\ s[1] = k /\ s \in DOMAIN signed
    <3> SUFFICES ASSUME NEW s \in found PROVE Derived(s) /\ s[1] = k /\ s \in DOMAIN signed
      OBVIOUS
    <3>1. PICK i \in now.from..(now.from + BatchSize) : s = <<k, i>>
      OBVIOUS
    <3>2. i \in Nat
      BY <1>4, WalletAssumption
    <3> QED BY <2>1, <3>1, <3>2 DEF Derived
  <2>4. \A o \in made : SignedAs(o, k, signed)
    <3> SUFFICES ASSUME NEW s \in found PROVE SignedAs([secret |-> s, amount |-> signed[s].amount], k, signed)
      OBVIOUS
    <3>1. s \in DOMAIN signed /\ signed[s] = [amount |-> signed[s].amount, keyset_id |-> k]
      BY <2>3 DEF BalanceKept, Indexed
    <3> QED BY <3>1 DEF SignedAs
  <2> HIDE DEF found, made
  <2>5. outs \in Seq(made) /\ ToSet(outs) = made
    BY <2>2, InSomeOrder
  <2> HIDE DEF outs
  <2>6. \A d \in ToSet(todo) : d.call = "increment_keyset_counter"
    <3>1. Len(outs) \in Nat
      BY <2>5
    <3> QED BY <2>1, <3>1, IncrementCalls
  <2> HIDE DEF todo
  <2>7. \A d \in ToSet(todo) : GoodCall(d, signed, Gone, adrift')
    BY <2>6 DEF GoodCall
  <2>8. Holding(x, signed, Gone)
    BY <1>5, <1>7 DEF Holding
  <2>9. TaskReal(x, signed, Gone, adrift', Live(Coins(store, db)))
    BY <1>5, <2>4, <2>5, <2>7, <2>8 DEF TaskReal, Request, Answer, HandingOut
  <2> QED BY <1>3, <1>9, <1>11, <2>9, RealQuiet
<1> QED BY <1>2, <1>6, <1>7, <1>10, <1>11

\* What is not spent and in no token can be spent, and the rest stays adrift.
LEMMA RestoreUnspentIsReal ==
    ASSUME OneTask, TypeOK, BalanceKept, NEW t \in Tasks, RestoreUnspent(t)
    PROVE  BalanceKept'
<1> DEFINE now == task[t]
           outs == now.outs
           k == now.k
           proofs == ConstructProofs(outs, k, k)
           unspent == {p \in proofs : p.secret \notin spent}
           todo == Adding(unspent, "Unspent")
           x == [now EXCEPT !.todo = todo, !.next = "batch"]
<1>1. /\ now \in TaskStates /\ Control(now) /\ now.next = "state" /\ now.at = "write" /\ now.todo = <<>>
      /\ TaskReal(now, signed, Gone, adrift, Live(Coins(store, db)))
  BY NowType DEF RestoreUnspent, Done, BalanceKept
<1>2. /\ UNCHANGED <<store, db, spent, signed, tokens>> /\ Goto(t, x)
      /\ adrift' = (adrift \ Secrets(unspent)) \cup (Secrets(unspent) \cap TokenSecrets)
  BY DEF RestoreUnspent, mintVars
<1>3. outs \in Seq(Outputs) /\ k \in ToSet(Chain)
  BY <1>1 DEF TaskStates, OutputLists, Control
<1>4. /\ x.at = "write" /\ x.op = now.op /\ x.next = "batch" /\ x.held = now.held /\ x.todo = todo
      /\ x.outs = outs
  BY <1>1 DEF TaskStates
<1> HIDE DEF x, now
<1>5. now.op = "restore" /\ Holding(now, signed, Gone) /\ \A s : ~Pending(now, s)
  BY <1>1, NonePending DEF Control, TaskReal
<1>6. \A o \in ToSet(outs) : SignedAs(o, k, signed)
  BY <1>1 DEF TaskReal, Answer
<1> HIDE DEF outs, k
<1>7. proofs \in OwnPurses /\ Secrets(proofs) = Secrets(ToSet(outs))
  BY <1>3, ConstructedType
<1>8. \A p \in proofs : p.secret \in DOMAIN signed /\ (p.secret \in Gone \/ Right(p, signed, Gone))
  <2> SUFFICES ASSUME NEW p \in ConstructProofs(outs, k, k)
               PROVE  p.secret \in DOMAIN signed /\ (p.secret \in Gone \/ Right(p, signed, Gone))
    OBVIOUS
  <2>1. PICK o \in ToSet(outs) :
          p = [secret |-> o.secret, amount |-> o.amount, keyset_id |-> k, c |-> k, dleq |-> k]
    BY ConstructedRows
  <2>2. SignedAs(o, k, signed)
    BY <1>6
  <2> QED BY <2>1, <2>2 DEF SignedAs, Right
<1> HIDE DEF proofs
<1>9. unspent \in OwnPurses /\ Secrets(unspent) \subseteq Secrets(proofs)
  BY <1>7, PartOfPurse DEF Secrets
<1>10. \A p \in unspent : p.secret \in DOMAIN signed /\ (p.secret \in adrift' \/ Right(p, signed, Gone))
  <2> SUFFICES ASSUME NEW p \in unspent
               PROVE  p.secret \in DOMAIN signed /\ (p.secret \in adrift' \/ Right(p, signed, Gone))
    OBVIOUS
  <2>1. p.secret \in Secrets(unspent)
    BY DEF Secrets
  <2>2. p.secret \notin spent /\ p.secret \in DOMAIN signed /\ (p.secret \in Gone \/ Right(p, signed, Gone))
    BY <1>8
  <2> HIDE DEF unspent
  <2> QED BY <1>2, <2>1, <2>2 DEF Gone
<1> HIDE DEF unspent
<1>11. Secrets(unspent) \subseteq DOMAIN signed
  BY <1>10 DEF Secrets
<1>12. \A d \in ToSet(todo) : GoodCall(d, signed, Gone, adrift')
  <2> DEFINE gone == Gone
             lost == adrift'
             table == signed
  <2>1. "Unspent" \in States
    BY DEF States
  <2>2. Secrets(unspent) \subseteq DOMAIN table /\ \A p \in unspent : p.secret \in lost \/ Right(p, table, gone)
    BY <1>10, <1>11
  <2> HIDE DEF gone, lost, table
  <2>3. \A d \in ToSet(Adding(unspent, "Unspent")) : GoodCall(d, table, gone, lost)
    BY <1>9, <2>1, <2>2, AddingIsGood
  <2> QED BY <2>3 DEF gone, lost, table
<1>13. \A s \in Secrets(unspent) : Adds(ToSet(todo), s)
  BY <1>9, AddingCalls DEF States
<1> HIDE DEF todo
<1>14. Holding(x, signed, Gone)
  BY <1>4, <1>5 DEF Holding
<1>15. TaskReal(x, signed, Gone, adrift', Live(Coins(store, db)))
  BY <1>4, <1>12, <1>14 DEF TaskReal, Request, Answer, HandingOut
<1>16. ASSUME NEW s, s \in adrift, s \notin adrift' PROVE Pending(x, s)
  <2>1. s \in Secrets(unspent)
    BY <1>2, <1>16
  <2>2. s \in Stake(x) /\ Touches(ToSet(todo), s)
    BY <1>4, <1>7, <1>9, <1>13, <2>1 DEF Stake, Touches
  <2> QED BY <1>4, <2>2 DEF Pending
<1>17. \A s : s \in adrift \/ Pending(task[t], s) => s \in adrift' \/ Pending(x, s)
  BY <1>5, <1>16 DEF now
<1>18. UNCHANGED <<store, spent, signed, tokens>> /\ Coins(store, db') = Coins(store, db) /\ Goto(t, x)
  BY <1>2
<1> QED BY <1>15, <1>17, <1>18, RealQuiet

\* The next batch begins when all of this one is written.
LEMMA RestoreNextBatchIsReal ==
    ASSUME OneTask, TypeOK, BalanceKept, NEW t \in Tasks, RestoreNextBatch(t)
    PROVE  BalanceKept'
<1> DEFINE now == task[t]
           x == [now EXCEPT !.at = "batch", !.outs = <<>>, !.from = @ + BatchSize, !.empty = 0]
<1>1. /\ now \in TaskStates /\ Control(now) /\ now.next = "batch" /\ now.at = "write" /\ now.todo = <<>>
      /\ TaskReal(now, signed, Gone, adrift, Live(Coins(store, db)))
  BY NowType DEF RestoreNextBatch, Done, BalanceKept
<1>2. Goto(t, x) /\ x.at = "batch" /\ x.todo = <<>> /\ x.op = now.op /\ x.held = now.held
  BY <1>1 DEF RestoreNextBatch, TaskStates
<1>3. UNCHANGED <<store, db, spent, signed, tokens, adrift>>
  BY DEF RestoreNextBatch, OnlyTask, mintVars, historyVars
<1> HIDE DEF now, x
<1>4. now.op = "restore" /\ Holding(now, signed, Gone) /\ \A s : ~Pending(now, s)
  BY <1>1, NonePending DEF Control, TaskReal
<1>5. Secrets(x.held) \subseteq DOMAIN signed
  BY <1>2, <1>4 DEF Holding
<1>6. TaskReal(x, signed, Gone, adrift', Live(Coins(store, db)))
  BY <1>2, <1>4, <1>5, PlainReal
<1>7. \A s : s \in adrift \/ Pending(task[t], s) => s \in adrift' \/ Pending(x, s)
  BY <1>3, <1>4 DEF now
<1> QED BY <1>2, <1>3, <1>6, <1>7, RealQuiet

\* One good call: a row that counts after it was there before, untouched, or is
\* written and good; what is set Reserved does not count.
LEMMA CallIsReal ==
    ASSUME store \in WalletStores, Sound(store, db), NEW c \in Calls, NEW e, Performed(db, c, e),
           NEW made, NEW gone, NEW lost, GoodCall(c, made, gone, lost)
    PROVE  \A s \in Live(Coins(store, e)) :
             /\ ~Sets({c}, s)
             /\ \/ /\ s \in Live(Coins(store, db)) /\ Coins(store, e)[s] = Coins(store, db)[s]
                   /\ ~Touches({c}, s)
                \/ /\ Opens({c}, s)
                   /\ s \in lost \/ Right(Coins(store, e)[s].proof, made, gone)
<1> DEFINE old == Coins(store, db)
           new == Coins(store, e)
<1> SUFFICES ASSUME NEW s \in Live(new)
             PROVE  /\ ~Sets({c}, s)
                    /\ \/ s \in Live(old) /\ new[s] = old[s] /\ ~Touches({c}, s)
                       \/ Opens({c}, s) /\ (s \in lost \/ Right(new[s].proof, made, gone))
  OBVIOUS
<1>1. s \in DOMAIN new /\ new[s].state = "Unspent"
  BY DEF Live
<1>2. CASE c.call = "add_proofs"
  <2>1. \/ s \in DOMAIN old /\ new[s] = old[s] /\ s \notin {r.y : r \in ToSet(c.x)}
        \/ \E r \in ToSet(c.x) : r.y = s /\ new[s] = r
    BY <1>1, <1>2 DEF Performed, CoinsPut
  <2> HIDE DEF old, new
  <2>2. ~Sets({c}, s)
    BY <1>2 DEF Sets
  <2>3. CASE s \in DOMAIN old /\ new[s] = old[s] /\ s \notin {r.y : r \in ToSet(c.x)}
    <3>1. ~Touches({c}, s)
      BY <1>2, <2>3 DEF Touches, Adds, Removes, Sets
    <3> QED BY <1>1, <2>2, <2>3, <3>1 DEF Live
  <2>4. ASSUME NEW r \in ToSet(c.x), r.y = s, new[s] = r
        PROVE  Opens({c}, s) /\ (s \in lost \/ Right(new[s].proof, made, gone))
    BY <1>1, <1>2, <2>4 DEF Opens, GoodCall
  <2> QED BY <2>1, <2>2, <2>3, <2>4
<1>3. CASE c.call = "remove_proofs"
  <2>1. s \in DOMAIN old /\ s \notin Secrets(ToSet(c.x)) /\ new[s] = old[s]
    BY <1>1, <1>3 DEF Performed, CoinsGone
  <2> HIDE DEF old, new
  <2>2. ~Touches({c}, s) /\ ~Sets({c}, s)
    BY <1>3, <2>1 DEF Touches, Adds, Removes, Sets
  <2> QED BY <1>1, <2>1, <2>2 DEF Live
<1>4. CASE c.call = "set_proof_state"
  <2>1. /\ s \in DOMAIN old
        /\ new[s] = IF s = c.x THEN [old[s] EXCEPT !.state = c.y] ELSE old[s]
    BY <1>1, <1>4 DEF Performed, CoinMarked
  <2>2. old[s] \in ProofRows
    BY <2>1 DEF Sound, CoinsOK, CoinRows
  <2>3. c.y = "Reserved"
    BY <1>4 DEF GoodCall
  <2> HIDE DEF old, new
  <2>4. s # c.x
    BY <1>1, <2>1, <2>2, <2>3 DEF ProofRows
  <2>5. ~Touches({c}, s) /\ ~Sets({c}, s)
    BY <1>4, <2>4 DEF Touches, Adds, Removes, Sets
  <2> QED BY <1>1, <2>1, <2>4, <2>5 DEF Live
<1>5. CASE c.call \notin {"add_proofs", "remove_proofs", "set_proof_state"}
  <2>1. new = old
    BY <1>5 DEF Performed, QuoteGone
  <2> HIDE DEF old, new
  <2>2. ~Touches({c}, s) /\ ~Sets({c}, s)
    BY <1>5 DEF Touches, Adds, Removes, Sets
  <2> QED BY <1>1, <2>1, <2>2 DEF Live
<1> QED BY <1>2, <1>3, <1>4, <1>5

\* Only rows of signed secrets are written.
LEMMA CallIsKnown ==
    ASSUME NEW c \in Calls, NEW e, Performed(db, c, e),
           NEW made, NEW gone, NEW lost, GoodCall(c, made, gone, lost),
           DOMAIN Coins(store, db) \subseteq DOMAIN made
    PROVE  DOMAIN Coins(store, e) \subseteq DOMAIN made
<1>1. CASE c.call = "add_proofs"
  BY <1>1 DEF Performed, CoinsPut, GoodCall
<1>2. CASE c.call # "add_proofs"
  BY <1>2 DEF Performed, CoinsGone, CoinMarked, QuoteGone
<1> QED BY <1>1, <1>2

\* The next write: what it leaves of the row it does not touch is as before.
LEMMA WriteIsReal ==
    ASSUME OneTask, TypeOK, BalanceKept, NEW t \in Tasks, Write(t)
    PROVE  BalanceKept'
<1> DEFINE now == task[t]
           old == Coins(store, db)
           new == Coins(store, db')
<1>1. /\ now \in TaskStates /\ now.at = "write" /\ TaskReal(now, signed, Gone, adrift, Live(old))
  BY NowType DEF Write, BalanceKept
<1>2. PICK c \in ToSet(now.todo), todo \in Seq(Calls) :
        /\ c \in Calls /\ Performed(db, c, db')
        /\ ToSet(now.todo) = {c} \cup ToSet(todo)
        /\ \/ Goto(t, [now EXCEPT !.todo = todo]) /\ adrift' = adrift
           \/ Fail(t)
  BY WriteDoes
<1>3. UNCHANGED <<store, spent, signed, tokens>>
  BY DEF Write, mintVars
<1>4. Gone' = Gone /\ Coins(store', db') = new /\ Keys' = DOMAIN new
  BY <1>3 DEF Gone, TokenSecrets, Keys
<1>5. \A s \in Live(old) : s \in adrift \/ Right(old[s].proof, signed, Gone) \/ Pending(now, s)
  BY DEF BalanceKept, RowsReal, OneTask
<1>6. GoodCall(c, signed, Gone, adrift)
  BY <1>1 DEF TaskReal
<1>7. \A s \in Live(new) :
        /\ ~Sets({c}, s)
        /\ \/ s \in Live(old) /\ new[s] = old[s] /\ ~Touches({c}, s)
           \/ Opens({c}, s) /\ (s \in adrift \/ Right(new[s].proof, signed, Gone))
  <2> DEFINE gone == Gone
             lost == adrift
             made == signed
             e == db'
  <2>1. GoodCall(c, made, gone, lost) /\ Performed(db, c, e) /\ c \in Calls
    BY <1>2, <1>6
  <2>2. store \in WalletStores /\ Sound(store, db)
    BY DEF TypeOK
  <2> HIDE DEF gone, lost, made, e, now
  <2>3. \A s \in Live(Coins(store, e)) :
          /\ ~Sets({c}, s)
          /\ \/ /\ s \in Live(Coins(store, db)) /\ Coins(store, e)[s] = Coins(store, db)[s]
                /\ ~Touches({c}, s)
             \/ Opens({c}, s) /\ (s \in lost \/ Right(Coins(store, e)[s].proof, made, gone))
    BY <2>1, <2>2, CallIsReal
  <2> QED BY <2>3 DEF gone, lost, made, e
<1>8. Known' /\ Indexed'
  <2> DEFINE gone == Gone
             lost == adrift
             made == signed
             e == db'
  <2>1. GoodCall(c, made, gone, lost) /\ Performed(db, c, e) /\ c \in Calls
    BY <1>2, <1>6
  <2>2. DOMAIN Coins(store, db) \subseteq DOMAIN made
    BY DEF BalanceKept, Known, Keys
  <2> HIDE DEF gone, lost, made, e, now
  <2>3. DOMAIN Coins(store, e) \subseteq DOMAIN made
    BY <2>1, <2>2, CallIsKnown
  <2> QED BY <1>3, <1>4, <2>3 DEF made, e, BalanceKept, Known, Indexed
<1> HIDE DEF old, new
<1>9. \A s \in Live(new) :
        \/ s \in adrift \/ Right(new[s].proof, signed, Gone)
        \/ Pending(now, s) /\ ~Touches({c}, s)
  BY <1>5, <1>7
<1>10. CASE Goto(t, [now EXCEPT !.todo = todo]) /\ adrift' = adrift
  <2> DEFINE x == [now EXCEPT !.todo = todo]
  <2>1. /\ x.op = now.op /\ x.at = now.at /\ x.next = now.next /\ x.outs = now.outs /\ x.ins = now.ins
        /\ x.held = now.held /\ x.todo = todo /\ x.k = now.k /\ x.rest = now.rest
    BY <1>1 DEF TaskStates
  <2>2. Goto(t, x)
    BY <1>10
  <2>3. ToSet(now.todo) = {c} \cup ToSet(todo)
    BY <1>2
  <2> HIDE DEF now, x
  <2>4. \A s : /\ Touches(ToSet(now.todo), s) => Touches({c}, s) \/ Touches(ToSet(todo), s)
               /\ Sets(ToSet(now.todo), s) => Sets({c}, s) \/ Sets(ToSet(todo), s)
               /\ Opens(ToSet(todo), s) \/ Opens({c}, s) => Opens(ToSet(now.todo), s)
    <3>1. \A s : Adds(ToSet(now.todo), s) => Adds({c}, s) \/ Adds(ToSet(todo), s)
      BY <2>3 DEF Adds
    <3>2. \A s : Removes(ToSet(now.todo), s) => Removes({c}, s) \/ Removes(ToSet(todo), s)
      BY <2>3 DEF Removes
    <3>3. \A s : Sets(ToSet(now.todo), s) => Sets({c}, s) \/ Sets(ToSet(todo), s)
      BY <2>3 DEF Sets
    <3>4. \A s : Opens(ToSet(todo), s) \/ Opens({c}, s) => Opens(ToSet(now.todo), s)
      BY <2>3 DEF Opens
    <3> QED BY <3>1, <3>2, <3>3, <3>4 DEF Touches
  <2>5. \A s : Pending(now, s) /\ ~Touches({c}, s) => Pending(x, s)
    <3>1. Stake(x) = Stake(now)
      BY <2>1 DEF Stake
    <3> QED BY <1>1, <2>1, <2>4, <3>1 DEF Pending
  <2>6. Answer(x, signed, Gone) /\ Holding(x, signed, Gone) /\ Request(x)
    BY <1>1, <2>1 DEF TaskReal, Answer, Holding, Request
  <2>7. HandingOut(x, Live(new))
    <3> SUFFICES ASSUME x.at = "write", x.next = "hand", NEW s \in Secrets(x.held)
                 PROVE  ~Opens(ToSet(todo), s) /\ (Sets(ToSet(todo), s) \/ s \notin Live(new))
      BY <2>1 DEF HandingOut
    <3>1. ~Opens(ToSet(now.todo), s) /\ (Sets(ToSet(now.todo), s) \/ s \notin Live(old))
      BY <1>1, <2>1 DEF TaskReal, HandingOut
    <3>2. ~Opens(ToSet(todo), s) /\ ~Opens({c}, s)
      BY <2>4, <3>1
    <3>3. s \in Live(new) => s \in Live(old) /\ ~Sets({c}, s)
      BY <1>7, <3>2
    <3> QED BY <2>4, <3>1, <3>2, <3>3
  <2>8. \A d \in ToSet(todo) : GoodCall(d, signed, Gone, adrift)
    BY <1>1, <2>3 DEF TaskReal
  <2>9. TaskReal(x, signed, Gone, adrift, Live(new))
    BY <1>1, <2>1, <2>6, <2>7, <2>8 DEF TaskReal
  <2>10. TaskReal(x, signed', Gone', adrift', Live(Coins(store', db')))
    BY <1>3, <1>4, <1>10, <2>9
  <2>11. \A s \in Live(Coins(store', db')) :
           s \in adrift' \/ Right(Coins(store', db')[s].proof, signed', Gone') \/ Pending(x, s)
    BY <1>3, <1>4, <1>9, <1>10, <2>5
  <2> QED BY <1>8, <2>2, <2>10, <2>11, RealMoved
<1>11. CASE Fail(t)
  <2>1. Goto(t, Idle) /\ adrift' = adrift \cup Stake(now)
    BY <1>11, StakeIsAtStake DEF Fail, End
  <2>2. TaskReal(Idle, signed', Gone', adrift', Live(Coins(store', db')))
    BY IdleReal
  <2>3. \A s \in Live(Coins(store', db')) :
          s \in adrift' \/ Right(Coins(store', db')[s].proof, signed', Gone') \/ Pending(Idle, s)
    BY <1>3, <1>4, <1>9, <2>1, PendingStakes
  <2> QED BY <1>8, <2>1, <2>2, <2>3, RealMoved
<1> QED BY <1>2, <1>10, <1>11

\* So every step of the one task keeps the balance,
LEMMA TaskStepIsReal ==
    ASSUME OneTask, TypeOK, BalanceKept, NEW t \in Tasks, TaskStep(t)
    PROVE  BalanceKept'
<1>1. CASE MintQuote(t) \/ MeltQuote(t) \/ MeltQuoteStatus(t) \/ AddMintCalled(t) \/ RefreshMintKeys(t)
  BY <1>1, MintQuoteIsReal
<1>2. CASE CheckMintQuote(t) \/ CheckedUnpaid(t)
  BY <1>2, CheckIsReal
<1>3. CASE CheckedPaid(t) \/ Mint(t)
  BY <1>3, IssueIsReal
<1>4. CASE PostMint(t) \/ PostSwap(t) \/ PostMelt(t)
  BY <1>4, PostMintIsReal, PostSwapIsReal, PostMeltIsReal
<1>5. CASE AnsweredMint(t) \/ AnsweredSwap(t) \/ AnsweredMelt(t)
  BY <1>5, AnsweredMintIsReal, AnsweredSwapIsReal, AnsweredMeltIsReal
<1>6. CASE Swap(t) \/ Send(t) \/ Melt(t)
  BY <1>6, SwapOpIsReal, SendIsReal, MeltIsReal
<1>7. CASE HandOut(t) \/ BeginMelt(t)
  BY <1>7, HandOutIsReal, BeginMeltIsReal
<1>8. CASE Receive(t) \/ BeginEntry(t) \/ AnsweredReceive(t) \/ StoreReceived(t)
  BY <1>8, ReceiveIsReal, BeginEntryIsReal, AnsweredReceiveIsReal, StoreReceivedIsReal
<1>9. CASE Restore(t) \/ CheckPending(t) \/ RestoreBatch(t) \/ RestoreUnspent(t) \/ RestoreNextBatch(t)
  BY <1>9, RestoreIsReal, RestoreBatchIsReal, RestoreUnspentIsReal, RestoreNextBatchIsReal
<1>10. CASE Write(t) \/ Finish(t) \/ RestoreEnd(t) \/ Stop(t)
  BY <1>10, WriteIsReal, EndingIsReal
<1> QED BY <1>1, <1>2, <1>3, <1>4, <1>5, <1>6, <1>7, <1>8, <1>9, <1>10 DEF TaskStep

\* and every step of the system.
LEMMA StepIsReal ==
    ASSUME OneTask, TypeOK, BalanceKept, [Next]_vars
    PROVE  BalanceKept'
<1>1. CASE \E t \in Tasks : TaskStep(t)
  BY <1>1, TaskStepIsReal
<1>2. CASE Crash \/ Rotate \/ QuotesExpire \/ (\E q \in MintQuotes : PayMintQuote(q))
           \/ (\E token \in tokens : Redeem(token))
  BY <1>2, OutsideIsReal
<1>3. CASE UNCHANGED vars
  <2>1. UNCHANGED <<store, task, spent, signed, tokens, adrift>> /\ Coins(store, db') = Coins(store, db)
    BY <1>3 DEF vars, mintVars, historyVars
  <2> QED BY <2>1, RealStill
<1> QED BY <1>1, <1>2, <1>3 DEF Next

\* sqlite leaves the witness of a proof's equal logarithms out, and no more.
LEMMA ReadKeepsProof ==
    ASSUME NEW st, NEW row \in ProofRows
    PROVE  /\ Read(st, row).proof.secret = row.proof.secret
           /\ Read(st, row).proof.amount = row.proof.amount
           /\ Read(st, row).proof.keyset_id = row.proof.keyset_id
           /\ Read(st, row).proof.c = row.proof.c
<1> DEFINE bare == [row.proof EXCEPT !.dleq = None]
<1>1. row.proof \in OwnCoins
  BY DEF ProofRows
<1>2. /\ bare \in OwnCoins
      /\ bare.secret = row.proof.secret /\ bare.amount = row.proof.amount
      /\ bare.keyset_id = row.proof.keyset_id /\ bare.c = row.proof.c
  BY <1>1 DEF OwnCoins
<1>3. [row EXCEPT !.proof.dleq = None] = [row EXCEPT !.proof = bare]
  BY DEF ProofRows
<1> HIDE DEF bare
<1>4. [row EXCEPT !.proof = bare].proof = bare
  BY DEF ProofRows
<1>5. CASE st = "sqlite"
  BY <1>2, <1>3, <1>4, <1>5 DEF Read, Sqlite!ReadProofInfo
<1>6. CASE st # "sqlite"
  BY <1>6 DEF Read
<1> QED BY <1>5, <1>6

\* The balance that is kept is real: what an operation is dealing with is in
\* flight.
LEMMA KeptIsReal ==
    ASSUME TypeOK, BalanceKept
    PROVE  BalanceIsReal
<1> DEFINE coins == Coins(store, db)
<1> SUFFICES ASSUME NEW p \in Unspent(db), p.secret \notin adrift \cup InFlight
             PROVE  ProofVerifies(p, Conditions) /\ p.secret \notin TokenSecrets
  BY DEF BalanceIsReal
<1>1. /\ p.secret \in DOMAIN coins /\ p = Read(store, coins[p.secret]).proof
      /\ coins[p.secret].state = "Unspent"
  <2>1. store \in WalletStores /\ CoinsOK(Coins(store, db))
    BY DEF TypeOK, Sound
  <2>3. {"Unspent"} # None
    BY NoneAssumption DEF States
  <2> QED BY <2>1, <2>3, StoredType DEF Unspent
<1>2. p.secret \in Live(coins)
  BY <1>1 DEF Live
<1>3. \A t \in Tasks : ~Pending(task[t], p.secret)
  <2>1. \A t \in Tasks : p.secret \notin Stake(task[t])
    BY StakeIsAtStake DEF InFlight
  <2> QED BY <2>1, PendingStakes
<1>4. Right(coins[p.secret].proof, signed, Gone)
  BY <1>2, <1>3 DEF BalanceKept, RowsReal
<1>5. /\ p.secret = coins[p.secret].proof.secret /\ p.amount = coins[p.secret].proof.amount
      /\ p.keyset_id = coins[p.secret].proof.keyset_id /\ p.c = coins[p.secret].proof.c
  <2>1. coins[p.secret] \in ProofRows
    BY <1>1 DEF TypeOK, Sound, CoinsOK, CoinRows
  <2> QED BY <1>1, <2>1, ReadKeepsProof
<1> HIDE DEF coins
<1>6. Right(p, signed, Gone)
  BY <1>4, <1>5 DEF Right
<1>7. Lock(p.secret) \in {None} \cup Conditions
  BY DEF Lock
<1> QED BY <1>6, <1>7 DEF Right, Gone, ProofVerifies

\* While one operation runs at a time a proof that counts towards the balance
\* can be spent: the mint takes it, and nobody else holds it in a token, at any
\* write, answer, error or crash of mint, swap, send, melt, receive, restore.
THEOREM BalanceOfOneTask == ASSUME OneTask PROVE Spec => []BalanceIsReal
<1>1. TypeOK /\ BalanceKept /\ [Next]_vars => TypeOK' /\ BalanceKept'
  BY StepType, StepIsReal
<1>2. TypeOK /\ BalanceKept => BalanceIsReal
  BY KeptIsReal
<1> QED BY <1>1, <1>2, InitType, InitIsReal, PTL DEF Spec
==============================================================================
