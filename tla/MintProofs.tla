----------------------------- MODULE MintProofs -----------------------------
(***************************************************************************)
(* Proofs about the mint, for any number of tasks, coins, quotes, keysets  *)
(* and requests, any bound on faults and any store or Lightning back end:  *)
(* the types of its state; that a handler signs only with backing; that    *)
(* coins are spent once when no two requests in flight share one; and,     *)
(* from what the node promises, that an answer "paid" is a payment and a   *)
(* quote that was redeemed stays redeemed.  Then that it keeps the promise *)
(* of Ledger, when no two requests in flight share a coin or a quote and   *)
(* clients ask for what they are due, and that without faults its books    *)
(* are square.                                                             *)
(***************************************************************************)
EXTENDS MintProps, Lemmas

-----------------------------------------------------------------------------
(* What proofs and outputs are worth *)

\* The value of the elements of ps at some places.
Worth(ps, S) == Sum(AmountsOf(ps), S)

\* The amounts of a list can be summed, and the sum is a number.
LEMMA OutputsSummable ==
    ASSUME NEW ps \in Seq(Output)
    PROVE  /\ Summable(AmountsOf(ps), DOMAIN ps)
           /\ Value(ps) = Sum(AmountsOf(ps), DOMAIN ps)
           /\ Value(ps) \in Nat
<1>1. IsFiniteSet(1..Len(ps)) /\ DOMAIN ps = 1..Len(ps)
  <2>1. Len(ps) \in Nat /\ DOMAIN ps = 1..Len(ps)
    OBVIOUS
  <2> QED BY <2>1, FS_Interval
<1>2. \A i \in DOMAIN ps : ps[i] \in Output
  OBVIOUS
<1>3. \A i \in DOMAIN ps : AmountsOf(ps)[i] \in Nat
  BY <1>2 DEF AmountsOf, Output
<1>4. Summable(AmountsOf(ps), DOMAIN ps)
  BY <1>1, <1>3 DEF Summable
<1> QED BY <1>4, SumType DEF Value, Sum

\* Sums of u64 that stay below 2^64 are sums.
LEMMA TotalIsValue ==
    ASSUME NEW ps \in Seq(Output), Value(ps) < Word
    PROVE  Total(ps) = Value(ps)
<1>1. Total(ps) = WrappedSum(ps, Word)
  BY DEF Total, FoldSeq, FoldFunction, FoldFunctionOnSet, MapThenFoldSet, Chosen, WrappedSum
<1>2. Word \in Nat \ {0}
  BY StoreAssumption DEF StoreAssumption
<1> QED BY <1>1, <1>2, OutputsSummable, WrappedSumIs DEF AmountsOf

\* So can those at some of its places.
LEMMA WorthLemma ==
    ASSUME NEW ps \in Seq(Output), NEW S, S \subseteq DOMAIN ps
    PROVE  /\ Summable(AmountsOf(ps), S)
           /\ Worth(ps, S) \in Nat
           /\ \A i \in S : Worth(ps, S) = ps[i].amount + Worth(ps, S \ {i})
<1>1. Summable(AmountsOf(ps), DOMAIN ps)
  BY OutputsSummable
<1>2. Summable(AmountsOf(ps), S)
  BY <1>1, SubsetSummable
<1>3. Worth(ps, S) \in Nat
  BY <1>2, SumType DEF Worth
<1>4. ASSUME NEW i \in S PROVE Worth(ps, S) = ps[i].amount + Worth(ps, S \ {i})
  <2>1. AmountsOf(ps)[i] = ps[i].amount
    BY DEF AmountsOf
  <2> QED BY <1>2, <2>1, SumElement DEF Worth
<1> QED BY <1>2, <1>3, <1>4

\* With as many secrets as proofs, no two proofs share a secret.
LEMMA NoDuplicatesInjective ==
    ASSUME NEW ps \in Seq(Output), NoDuplicates(ps),
           NEW i \in DOMAIN ps, NEW j \in DOMAIN ps, ps[i].coin = ps[j].coin
    PROVE  i = j
<1> DEFINE f == [k \in 1..Len(ps) |-> ps[k].coin]
<1>1. DOMAIN ps = 1..Len(ps) /\ Len(ps) \in Nat
  OBVIOUS
<1>2. CoinsIn(ps) = {f[k] : k \in 1..Len(ps)}
  BY <1>1 DEF CoinsIn, Range
<1>3. IsFiniteSet(1..Len(ps)) /\ Cardinality(1..Len(ps)) = Len(ps)
  <2>1. IsFiniteSet(1..Len(ps))
        /\ Cardinality(1..Len(ps)) = IF 1 > Len(ps) THEN 0 ELSE Len(ps) - 1 + 1
    BY <1>1, FS_Interval
  <2> QED BY <1>1, <2>1
<1>4. f \in Surjection(1..Len(ps), CoinsIn(ps))
  BY <1>2 DEF Surjection
<1>5. f \in Injection(1..Len(ps), CoinsIn(ps))
  BY <1>3, <1>4, FS_SurjSameCardinalityImpliesInj DEF NoDuplicates
<1> QED BY <1>1, <1>5 DEF Injection, IsInjective

-----------------------------------------------------------------------------
(* Types *)

\* The four ways a task moves keep its variables in their types.
LEMMA TaskMoveTyping ==
    ASSUME TaskTypeOK, NEW w \in Workers,
           \/ \E r \in Requests, step \in Steps : Accept(w, r, step)
           \/ \E step \in Steps : Goto(w, step)
           \/ Advance(w)
           \/ Return(w)
    PROVE  TaskTypeOK'
<1>1. ASSUME NEW r \in Requests, NEW step \in Steps, Accept(w, r, step)
      PROVE  TaskTypeOK'
  BY <1>1 DEF TaskTypeOK, Accept
<1>2. ASSUME NEW step \in Steps, Goto(w, step)
      PROVE  TaskTypeOK'
  BY <1>2 DEF TaskTypeOK, Goto
<1>3. CASE Advance(w)
  BY <1>3 DEF TaskTypeOK, Advance
<1>4. CASE Return(w)
  BY <1>4 DEF TaskTypeOK, Return
<1> QED BY <1>1, <1>2, <1>3, <1>4

\* A signature on an output has the type of a row of the signature table.
LEMMA SignatureTyping ==
    ASSUME NEW o \in Output
    PROVE  Signature(o) \in BlindSignature
BY DEF Output, BlindSignature, Signature, KeysOf

\* So do the writes of the store, for rows of the right type.
LEMMA StoreWriteTyping ==
    ASSUME StoreTypeOK, StoreAssumption,
           \/ \E p \in Output : AddSpentProof(p)
           \/ \E o \in Output : AddBlindedSignature(o)
           \/ \E q \in MintQuotes, state \in MintQuoteState, value \in Nat :
                AddMintQuote(q, state, value)
           \/ \E q \in MintQuotes : RemoveMintQuote(q)
           \/ \E m \in MeltQuotes : AddMeltQuote(m)
           \/ \E m \in MeltQuotes, value \in Nat : RemoveMeltQuote(m, value)
           \/ \E k \in Keysets : ActivateKeyset(k)
    PROVE  StoreTypeOK'
<1> USE DEF StoreTypeOK, quoteVars, keysetVars, proofVars
<1>1. ASSUME NEW p \in Output, AddSpentProof(p)
      PROVE  StoreTypeOK'
  BY <1>1 DEF AddSpentProof, Output
<1>2. ASSUME NEW o \in Output, AddBlindedSignature(o)
      PROVE  StoreTypeOK'
  <2>1. issued' \subseteq BlindSignature
    BY <1>2, SignatureTyping DEF AddBlindedSignature
  <2>2. escrow' \in Int
    BY <1>2 DEF AddBlindedSignature, Output
  <2> QED BY <1>2, <2>1, <2>2 DEF AddBlindedSignature
<1>3. ASSUME NEW q \in MintQuotes, NEW state \in MintQuoteState, NEW value \in Nat,
             AddMintQuote(q, state, value)
      PROVE  StoreTypeOK'
  BY <1>3 DEF AddMintQuote
<1>4. ASSUME NEW q \in MintQuotes, RemoveMintQuote(q)
      PROVE  StoreTypeOK'
  BY <1>4 DEF RemoveMintQuote, MintQuoteState
<1>5. ASSUME NEW m \in MeltQuotes, AddMeltQuote(m)
      PROVE  StoreTypeOK'
  BY <1>5 DEF AddMeltQuote, MeltQuoteState
<1>6. ASSUME NEW m \in MeltQuotes, NEW value \in Nat, RemoveMeltQuote(m, value)
      PROVE  StoreTypeOK'
  BY <1>6 DEF RemoveMeltQuote, MeltQuoteState
<1>7. ASSUME NEW k \in Keysets, ActivateKeyset(k)
      PROVE  StoreTypeOK'
  BY <1>7 DEF ActivateKeyset
<1> QED BY <1>1, <1>2, <1>3, <1>4, <1>5, <1>6, <1>7

\* A served request is of the type its kind promises.
LEMMA RequestTyping ==
    ASSUME NEW r \in Requests
    PROVE  /\ r \in Request
           /\ r.kind = "mint" => r.quote \in MintQuotes
           /\ r.kind = "melt" => r.quote \in MeltQuotes /\ r.inputs # <<>>
           /\ r.kind = "swap" => r.inputs # <<>>
           /\ \A i \in DOMAIN r.inputs : r.inputs[i] \in Output
           /\ \A i \in DOMAIN r.outputs : r.outputs[i] \in Output
           /\ DOMAIN r.inputs = 1..Len(r.inputs) /\ Len(r.inputs) \in Nat
           /\ DOMAIN r.outputs = 1..Len(r.outputs) /\ Len(r.outputs) \in Nat
           /\ r.inputs # <<>> => 1 \in DOMAIN r.inputs
<1>1. r \in Request
  BY MintAssumption
<1>2. r.inputs \in Seq(Output) /\ r.outputs \in Seq(Output)
  BY <1>1 DEF Request
<1> QED BY <1>1, <1>2, MintAssumption

\* A request a task serves, its inputs and its outputs.
LEMMA Served ==
    ASSUME NEW r \in Requests
    PROVE  r.inputs \in Seq(Output) /\ r.outputs \in Seq(Output)
BY RequestTyping DEF Request

-----------------------------------------------------------------------------
(* Typing *)

\* A task stands in a handler for the kind of request it serves, a loop over
\* inputs has not run past them, only a melt of the mint's own invoice is
\* settled inside, and an idle task is ready for its first loop.
TaskInv ==
    \A w \in Workers :
        /\ pc[w] \in MintSteps => req[w] \in Requests /\ req[w].kind = "mint"
        /\ pc[w] \in SwapSteps => req[w] \in Requests /\ req[w].kind = "swap"
        /\ pc[w] \in MeltSteps => req[w] \in Requests /\ req[w].kind = "melt"
        /\ pc[w] \in {"swap_spend", "melt_spend"} => idx[w] \in DOMAIN req[w].inputs
        /\ pc[w] = "melt_credit" => MeltInvoice[req[w].quote] \in MintQuotes
        /\ pc[w] = "idle" => idx[w] = 1

TypeInv == TypeOK /\ TaskInv

\* Signing one output: the loop advances or the handler returns.
LEMMA SignOutputTyping ==
    ASSUME TypeOK, NEW w \in Workers, NEW o, SignOutput(w, o),
           o.amount \in KeyAmounts => o \in Output
    PROVE  /\ StoreTypeOK' /\ TaskTypeOK'
           /\ Advance(w) \/ Return(w)
<1>1. CASE BlindSign(o) /\ AddBlindedSignature(o) /\ Advance(w)
  <2>1. o \in Output
    BY <1>1 DEF BlindSign
  <2>2. StoreTypeOK'
    BY <1>1, <2>1, StoreWriteTyping, StoreAssumption DEF TypeOK
  <2>3. TaskTypeOK'
    BY <1>1, TaskMoveTyping DEF TypeOK
  <2> QED BY <1>1, <2>2, <2>3
<1>2. CASE Return(w) /\ UNCHANGED storeVars
  <2>1. StoreTypeOK'
    BY <1>2 DEF TypeOK, StoreTypeOK, storeVars
  <2>2. TaskTypeOK'
    BY <1>2, TaskMoveTyping DEF TypeOK
  <2> QED BY <1>2, <2>1, <2>2
<1> QED BY <1>1, <1>2 DEF SignOutput

\* One step of a handler.
LEMMA HandlerTyping ==
    ASSUME TypeInv, NEW w \in Workers, MintHandlers(w)
    PROVE  StoreTypeOK' /\ TaskTypeOK' /\ TaskInv'
<1> USE DEF TypeInv, TypeOK
<1> DEFINE r == req[w]
<1>a. StoreAssumption
  BY StoreAssumption
<1>b. ASSUME UNCHANGED storeVars PROVE StoreTypeOK'
  BY <1>b DEF StoreTypeOK, storeVars
<1>c. ASSUME Return(w) PROVE TaskTypeOK' /\ TaskInv'
  <2>1. TaskTypeOK'
    BY <1>c, TaskMoveTyping
  <2>2. TaskInv'
    BY <1>c DEF Return, TaskInv, TaskTypeOK, MintSteps, SwapSteps, MeltSteps
  <2> QED BY <2>1, <2>2
<1>d. ASSUME Advance(w), pc[w] \in {"mint_sign", "swap_sign", "melt_change"}
      PROVE  TaskTypeOK' /\ TaskInv'
  <2>1. TaskTypeOK'
    BY <1>d, TaskMoveTyping
  <2>2. TaskInv'
    BY <1>d DEF Advance, TaskInv, TaskTypeOK
  <2> QED BY <2>1, <2>2
<1>1. CASE MintReadQuote(w)
  <2>1. Goto(w, "mint_sign") \/ Return(w)
    BY <1>1 DEF MintReadQuote
  <2>2. TaskTypeOK' /\ TaskInv'
    <3>1. ASSUME Goto(w, "mint_sign") PROVE TaskTypeOK'
      BY <3>1, TaskMoveTyping DEF Steps, MintSteps
    <3>2. ASSUME Goto(w, "mint_sign") PROVE TaskInv'
      BY <1>1, <3>2 DEF MintReadQuote, Goto, TaskInv, TaskTypeOK, MintSteps, SwapSteps, MeltSteps
    <3> QED BY <2>1, <3>1, <3>2, <1>c
  <2> QED BY <1>1, <1>b, <2>2 DEF MintReadQuote
<1>2. CASE MintSign(w)
  <2>1. r \in Requests /\ idx[w] \in DOMAIN r.outputs
    BY <1>2 DEF MintSign, TaskInv, MintSteps
  <2>2. r.outputs[idx[w]] \in Output
    BY <2>1, RequestTyping
  <2>3. StoreTypeOK' /\ (Advance(w) \/ Return(w))
    BY <1>2, <2>2, SignOutputTyping DEF MintSign
  <2> QED BY <1>2, <2>3, <1>c, <1>d DEF MintSign
<1>3. CASE MintRemoveQuote(w)
  <2>1. r \in Requests /\ r.quote \in MintQuotes
    BY <1>3, RequestTyping DEF MintRemoveQuote, TaskInv, MintSteps
  <2>2. StoreTypeOK'
    BY <1>3, <1>a, <2>1, StoreWriteTyping DEF MintRemoveQuote
  <2> QED BY <1>3, <2>2, <1>c DEF MintRemoveQuote
<1>4. ASSUME AddSpentProof(Input(w)), NEW old, NEW next,
             \/ old = "swap_spend" /\ next = "swap_sign"
             \/ old = "melt_spend" /\ next = "melt_remove",
             pc[w] = old,
             IF idx[w] = Len(r.inputs) THEN Goto(w, next) ELSE Advance(w)
      PROVE  StoreTypeOK' /\ TaskTypeOK' /\ TaskInv'
  <2>1. r \in Requests /\ idx[w] \in DOMAIN r.inputs
    BY <1>4 DEF TaskInv, SwapSteps, MeltSteps
  <2>2. Input(w) \in Output
    BY <2>1, RequestTyping DEF Input
  <2>3. StoreTypeOK'
    BY <1>4, <1>a, <2>2, StoreWriteTyping
  <2>4. TaskTypeOK'
    BY <1>4, TaskMoveTyping DEF Steps, SwapSteps, MeltSteps
  <2>5. CASE Goto(w, next)
    BY <1>4, <2>3, <2>4, <2>5 DEF Goto, TaskInv, TaskTypeOK, MintSteps, SwapSteps, MeltSteps
  <2>6. CASE Advance(w) /\ idx[w] # Len(r.inputs)
    <3>1. idx[w] + 1 \in DOMAIN r.inputs
      BY <2>1, <2>6, RequestTyping
    <3> QED BY <1>4, <2>3, <2>4, <2>6, <3>1
            DEF Advance, TaskInv, TaskTypeOK, MintSteps, SwapSteps, MeltSteps
  <2> QED BY <1>4, <2>5, <2>6
<1>5. CASE SwapSpend(w)
  BY <1>5, <1>4 DEF SwapSpend
<1>6. CASE SwapSign(w)
  <2>1. r \in Requests /\ idx[w] \in DOMAIN r.outputs
    BY <1>6 DEF SwapSign, TaskInv, SwapSteps
  <2>2. r.outputs[idx[w]] \in Output
    BY <2>1, RequestTyping
  <2>3. StoreTypeOK' /\ (Advance(w) \/ Return(w))
    BY <1>6, <2>2, SignOutputTyping DEF SwapSign
  <2> QED BY <1>6, <2>3, <1>c, <1>d DEF SwapSign
<1>7. CASE SwapReply(w)
  BY <1>7, <1>b, <1>c DEF SwapReply
<1>8. CASE MeltProcess(w)
  <2>1. Goto(w, "melt_spend") \/ Return(w)
    BY <1>8 DEF MeltProcess
  <2>2. r \in Requests /\ r.kind = "melt" /\ 1 \in DOMAIN r.inputs
    BY <1>8, RequestTyping DEF MeltProcess, TaskInv, MeltSteps
  <2>3. ASSUME Goto(w, "melt_spend") PROVE TaskTypeOK' /\ TaskInv'
    <3>1. TaskTypeOK'
      BY <2>3, TaskMoveTyping DEF Steps, MeltSteps
    <3> QED BY <2>2, <2>3, <3>1
            DEF Goto, TaskInv, TaskTypeOK, MintSteps, SwapSteps, MeltSteps
  <2> QED BY <1>8, <2>1, <2>3, <1>b, <1>c DEF MeltProcess
<1>9. CASE MeltSpend(w)
  BY <1>9, <1>4 DEF MeltSpend
<1>10. CASE MeltRemoveQuote(w)
  <2>1. r \in Requests /\ r.kind = "melt" /\ r.quote \in MeltQuotes
    BY <1>10, RequestTyping DEF MeltRemoveQuote, TaskInv, MeltSteps
  <2>2. StoreTypeOK'
    BY <1>10, <1>a, <2>1, StoreWriteTyping DEF MeltRemoveQuote, TaskTypeOK
  <2>3. TaskTypeOK'
    BY <1>10, TaskMoveTyping DEF MeltRemoveQuote, Steps, MeltSteps
  <2> QED BY <1>10, <2>1, <2>2, <2>3
          DEF MeltRemoveQuote, Goto, TaskInv, TaskTypeOK, MintSteps, SwapSteps, MeltSteps
<1>11. CASE MeltOverflow(w) \/ MeltReply(w)
  BY <1>11, <1>b, <1>c DEF MeltOverflow, MeltReply
<1>12. CASE MeltChange(w)
  <2> DEFINE o == [r.outputs[idx[w]] EXCEPT !.amount = ChangeAmounts(w)[idx[w]]]
  <2>1. r \in Requests /\ idx[w] \in DOMAIN r.outputs
    BY <1>12 DEF MeltChange, TaskInv, MeltSteps, ChangeIndices
  <2>2. r.outputs[idx[w]] \in Output
    BY <2>1, RequestTyping
  <2>3. o.amount \in KeyAmounts => o \in Output
    BY <2>2, StoreAssumption DEF Output, StoreAssumption
  <2>4. StoreTypeOK' /\ (Advance(w) \/ Return(w))
    BY <1>12, <2>3, SignOutputTyping DEF MeltChange
  <2> QED BY <1>12, <2>4, <1>c, <1>d DEF MeltChange
<1> QED BY <1>1, <1>2, <1>3, <1>5, <1>6, <1>7, <1>8, <1>9, <1>10, <1>11, <1>12
        DEF MintHandlers

\* A mint that starts is well typed.
LEMMA InitTypeInv == Init => TypeInv
<1> SUFFICES ASSUME Init PROVE TypeInv
  OBVIOUS
<1>1. StoreTypeOK
  <2>1. issued \subseteq BlindSignature
    BY StoreAssumption, SignatureTyping DEF Init, StoreInit
  <2> QED
    BY <2>1, StoreAssumption
    DEF Init, StoreInit, StoreTypeOK, MintQuoteState, MeltQuoteState, Output
<1>2. TaskTypeOK /\ TaskInv
  BY DEF Init, TaskInit, TaskTypeOK, TaskInv, MintSteps, SwapSteps, MeltSteps
<1> QED BY <1>1, <1>2 DEF Init, TypeOK, TypeInv

\* Every step keeps the types.
LEMMA StepTypeInv == TypeInv /\ [Next]_vars => TypeInv'
<1> SUFFICES ASSUME TypeInv, [Next]_vars PROVE TypeInv'
  OBVIOUS
<1> USE DEF TypeInv, TypeOK
<1>a. StoreAssumption /\ ServerAssumption /\ MintAssumption
  BY StoreAssumption, ServerAssumption, MintAssumption
<1>b. ASSUME UNCHANGED storeVars PROVE StoreTypeOK'
  BY <1>b DEF StoreTypeOK, storeVars
<1>c. ASSUME UNCHANGED taskVars PROVE TaskTypeOK' /\ TaskInv'
  BY <1>c DEF TaskTypeOK, TaskInv, taskVars
<1>d. ASSUME NEW w \in Workers, Return(w) PROVE TaskTypeOK' /\ TaskInv'
  <2>1. TaskTypeOK'
    BY <1>d, TaskMoveTyping
  <2>2. TaskInv'
    BY <1>d DEF Return, TaskInv, TaskTypeOK, MintSteps, SwapSteps, MeltSteps
  <2> QED BY <2>1, <2>2
<1>1. ASSUME NEW w \in Workers, MintHandlers(w), UNCHANGED <<lnVars, boundVars>>
      PROVE  TypeInv'
  BY <1>1, HandlerTyping DEF lnVars, boundVars
<1>2. ASSUME NEW w \in Workers, MeltLookup(w) PROVE TypeInv'
  <2>1. PICK step \in {"melt_credit", "melt_pay"} : Goto(w, step)
    BY <1>2 DEF MeltLookup
  <2>2. TaskTypeOK'
    BY <2>1, TaskMoveTyping DEF Steps, MeltSteps
  <2>3. TaskInv'
    BY <1>2, <2>1 DEF MeltLookup, Goto, TaskInv, TaskTypeOK, MintSteps, SwapSteps, MeltSteps
  <2> QED BY <1>2, <1>b, <2>2, <2>3 DEF MeltLookup, lnVars, boundVars
<1>3. ASSUME NEW w \in Workers, NEW m \in MeltQuotes, NEW cost \in Nat,
             NEW status \in PaymentStatus \cup {"internal"},
             pc[w] \in MeltSteps, Paid(w, m, status, cost), StoreTypeOK'
      PROVE  TypeInv'
  <2>1. TaskTypeOK'
    BY <1>3 DEF Paid, TaskTypeOK, Steps, MeltSteps
  <2>2. TaskInv'
    BY <1>3 DEF Paid, TaskInv, TaskTypeOK, MintSteps, SwapSteps, MeltSteps
  <2> QED BY <1>3, <2>1, <2>2 DEF Paid, boundVars
<1>4. ASSUME NEW w \in Workers, MeltCredit(w) PROVE TypeInv'
  <2> DEFINE m == req[w].quote
  <2>1. m \in MeltQuotes
    BY <1>4, RequestTyping DEF MeltCredit, TaskInv, MeltSteps
  <2>2. MeltInvoice[m] \in MintQuotes /\ MeltAmount[m] \in Nat
    BY <1>4, <1>a, <2>1 DEF MeltCredit, TaskInv, MintAssumption
  <2>3. MintAmount[MeltInvoice[m]] \in Nat
    BY <1>a, <2>2 DEF MintAssumption
  <2>4. StoreTypeOK'
    BY <1>4, <1>a, <2>2, <2>3, StoreWriteTyping DEF MeltCredit, MintQuoteState
  <2> QED BY <1>3, <1>4, <2>1, <2>2, <2>4 DEF MeltCredit, MeltSteps
<1>5. ASSUME NEW w \in Workers, MeltPay(w) PROVE TypeInv'
  <2> DEFINE m == req[w].quote
  <2>1. m \in MeltQuotes
    BY <1>5, RequestTyping DEF MeltPay, TaskInv, MeltSteps
  <2>2. PICK status \in PayStatuses, fee \in Fees :
            Paid(w, m, IF payment[m] = "complete" THEN "complete" ELSE status,
                 MeltAmount[m] + fee)
    BY <1>5 DEF MeltPay
  <2>3. MeltAmount[m] + fee \in Nat
    BY <1>a, <2>1 DEF MintAssumption, ServerAssumption
  <2>4. (IF payment[m] = "complete" THEN "complete" ELSE status) \in PaymentStatus
    BY <1>a DEF ServerAssumption, PaymentStatus
  <2>5. pc[w] \in MeltSteps /\ StoreTypeOK'
    BY <1>5, <1>b DEF MeltPay, MeltSteps
  <2> QED BY <1>3, <2>1, <2>2, <2>3, <2>4, <2>5
<1>6. ASSUME NEW w \in Workers, MeltPayError(w) PROVE TypeInv'
  BY <1>6, <1>b, <1>d DEF MeltPayError, lnVars, boundVars
<1>7. CASE EventRead
  BY <1>7, <1>b, <1>c DEF EventRead, MintQuoteStored, boundVars
<1>8. CASE EventWrite
  <2>1. StoreTypeOK'
    BY <1>8, <1>a, StoreWriteTyping DEF EventWrite, MintQuoteState
  <2> QED BY <1>8, <1>c, <2>1 DEF EventWrite, boundVars
<1>9. ASSUME NEW q \in MintQuotes, NewMintQuote(q) PROVE TypeInv'
  <2>1. StoreTypeOK'
    BY <1>9, <1>a, StoreWriteTyping DEF NewMintQuote, MintQuoteState
  <2> QED BY <1>9, <1>c, <2>1 DEF NewMintQuote, lnVars, boundVars
<1>10. ASSUME NEW q \in MintQuotes, InvoicePaid(q) PROVE TypeInv'
  <2>1. StoreTypeOK'
    BY <1>10, <1>a DEF InvoicePaid, StoreTypeOK, MintAssumption, proofVars, quoteVars, keysetVars
  <2>2. payLog' \in Seq(MintQuotes) /\ Len(payLog') = Len(payLog) + 1
    BY <1>10 DEF InvoicePaid
  <2> QED BY <1>10, <1>c, <2>1, <2>2 DEF InvoicePaid, boundVars
<1>11. ASSUME NEW m \in MeltQuotes, NewMeltQuote(m) PROVE TypeInv'
  <2>1. StoreTypeOK'
    BY <1>11, <1>a, StoreWriteTyping DEF NewMeltQuote
  <2> QED BY <1>11, <1>c, <2>1 DEF NewMeltQuote, lnVars, boundVars
<1>12. ASSUME NEW w \in Workers, NEW r \in Requests, Dispatch(w, r) PROVE TypeInv'
  <2>1. PICK step : /\ Accept(w, r, step)
                    /\ \/ step = "mint_quote" /\ r.kind = "mint"
                       \/ step = "swap_spend" /\ r.kind = "swap"
                       \/ step = "melt_lookup" /\ r.kind = "melt"
    BY <1>12 DEF Dispatch, MintCheckOutputs, SwapVerify, MeltVerify
  <2>2. TaskTypeOK'
    BY <2>1, TaskMoveTyping DEF Steps, MintSteps, SwapSteps, MeltSteps
  <2>3. idx[w] = 1 /\ pc[w] = "idle"
    BY <1>12 DEF Dispatch, Busy, TaskInv
  <2>4. r.kind = "swap" => 1 \in DOMAIN r.inputs
    BY RequestTyping
  <2>5. TaskInv'
    BY <2>1, <2>3, <2>4 DEF Accept, TaskInv, TaskTypeOK, MintSteps, SwapSteps, MeltSteps
  <2>6. UNCHANGED storeVars
    BY <1>12 DEF Dispatch, MintCheckOutputs, SwapVerify, MeltVerify
  <2> QED BY <1>12, <1>b, <2>2, <2>5, <2>6 DEF Dispatch, lnVars
<1>13. ASSUME NEW w \in Workers, HandlerDropped(w) PROVE TypeInv'
  BY <1>13, <1>b, <1>d DEF HandlerDropped, lnVars
<1>14. ASSUME NEW w \in Workers, PayAnswerLost(w) PROVE TypeInv'
  <2>1. StoreTypeOK' /\ TaskTypeOK' /\ TaskInv'
    BY <1>14, <1>b, <1>d DEF PayAnswerLost
  <2>2. payment' \in [MeltQuotes -> PaymentStatus \cup {"none", "internal"}]
    BY <1>14 DEF PayAnswerLost, PaymentStatus
  <2>3. faults' \in Nat
    BY <1>14 DEF PayAnswerLost
  <2> QED BY <1>14, <2>1, <2>2, <2>3 DEF PayAnswerLost
<1>14a. CASE EventFailed
  <2>1. evt' = NoInvoice /\ faults' \in Nat
    BY <1>14a DEF EventFailed
  <2> QED BY <1>14a, <1>b, <1>c, <2>1 DEF EventFailed
<1>15. CASE Restart
  <2>1. TaskTypeOK' /\ TaskInv'
    BY <1>15 DEF Restart, ReturnAll, TaskTypeOK, TaskInv, MintSteps, SwapSteps, MeltSteps
  <2>2. cursor' \in 0..Len(payLog')
    BY <1>15 DEF Restart
  <2>3. StoreTypeOK'
    BY <1>15, <1>a DEF Restart, StoreTypeOK, proofVars, quoteVars
  <2> QED BY <1>15, <2>1, <2>2, <2>3 DEF Restart
<1>16. ASSUME NEW k \in Keysets, RotateKeyset(k) PROVE TypeInv'
  <2>1. StoreTypeOK'
    BY <1>16, <1>a, StoreWriteTyping DEF RotateKeyset
  <2> QED BY <1>16, <1>c, <2>1 DEF RotateKeyset, lnVars
<1>17. CASE UNCHANGED vars
  BY <1>17, <1>b, <1>c DEF vars, lnVars, boundVars
<1>18. CASE System
  BY <1>18, <1>1, <1>2, <1>4, <1>5, <1>6, <1>7, <1>8 DEF System, ServerStep
<1>19. CASE Environment
  BY <1>19, <1>9, <1>10, <1>11, <1>12, <1>13, <1>14, <1>14a, <1>15, <1>16 DEF Environment
<1> QED BY <1>17, <1>18, <1>19 DEF Next

\* Every variable stays in its type: no handler is ever at an input that is
\* not there, and the invoice cursor never passes the log.
THEOREM TypeCorrect == Spec => []TypeOK
<1>1. Spec => []TypeInv
  BY InitTypeInv, StepTypeInv, PTL DEF Spec
<1>2. TypeInv => TypeOK
  BY DEF TypeInv
<1> QED BY <1>1, <1>2, PTL

-----------------------------------------------------------------------------
(* Who writes what *)

SignSteps == {"mint_sign", "swap_sign", "melt_change"}

\* The steps that write each table, and what becomes of a task in a step: it
\* is left alone, it returns, or it takes the step itself.
Writes ==
    /\ \/ spends' = spends
       \/ \E w \in Workers : SwapSpend(w) \/ MeltSpend(w)
    /\ \/ payLog' = payLog
       \/ \E q \in MintQuotes : InvoicePaid(q)
    /\ \/ payment' = payment
       \/ \E w \in Workers : MeltCredit(w) \/ MeltPay(w) \/ PayAnswerLost(w)
    /\ \/ meltQuote' = meltQuote
       \/ \E m \in MeltQuotes : NewMeltQuote(m)
       \/ \E w \in Workers : MeltRemoveQuote(w)
    /\ \/ mintQuote' = mintQuote
       \/ \E q \in MintQuotes : NewMintQuote(q)
       \/ \E w \in Workers : MintRemoveQuote(w) \/ MeltCredit(w)
       \/ EventWrite
    /\ \/ evt' = evt
       \/ EventRead \/ EventWrite \/ EventFailed \/ Restart
    /\ \/ <<pc, req, idx>>' = <<pc, req, idx>>
       \/ Restart
       \/ \E w \in Workers : Return(w) \/ (pc[w] \in SignSteps /\ Advance(w))
       \/ \E w \in Workers, r \in Requests : Dispatch(w, r)
       \/ \E w \in Workers : 
             \/ MintReadQuote(w) \/ SwapSpend(w) \/ MeltProcess(w) \/ MeltSpend(w)
             \/ MeltRemoveQuote(w) \/ MeltLookup(w) \/ MeltCredit(w) \/ MeltPay(w)

\* It follows from the actions, one table at a time.
LEMMA Writers ==
    ASSUME [Next]_vars
    PROVE  Writes
<1> USE DEF Writes, vars, storeVars, taskVars, lnVars, boundVars, proofVars, quoteVars,
           keysetVars
<1>1. ASSUME NEW w \in Workers, MintHandlers(w)
      PROVE  /\ spends' = spends \/ SwapSpend(w) \/ MeltSpend(w)
             /\ meltQuote' = meltQuote \/ MeltRemoveQuote(w)
             /\ mintQuote' = mintQuote \/ MintRemoveQuote(w)
             /\ \/ Return(w) \/ (pc[w] \in SignSteps /\ Advance(w))
                \/ MintReadQuote(w) \/ SwapSpend(w) \/ MeltProcess(w) \/ MeltSpend(w)
                \/ MeltRemoveQuote(w)
  <2>1. CASE MintReadQuote(w) \/ MeltProcess(w)
    BY <2>1 DEF MintReadQuote, MeltProcess
  <2>2. CASE SwapReply(w) \/ MeltOverflow(w) \/ MeltReply(w)
    BY <2>2 DEF SwapReply, MeltOverflow, MeltReply
  <2>3. CASE MintRemoveQuote(w)
    BY <2>3 DEF MintRemoveQuote, RemoveMintQuote
  <2>4. CASE MintSign(w) \/ SwapSign(w) \/ MeltChange(w)
    <3>1. pc[w] \in SignSteps /\ \E o : SignOutput(w, o)
      BY <2>4 DEF MintSign, SwapSign, MeltChange, SignSteps
    <3>2. UNCHANGED <<spends, meltQuote, mintQuote>> /\ (Advance(w) \/ Return(w))
      BY <3>1 DEF SignOutput, AddBlindedSignature
    <3> QED BY <3>1, <3>2
  <2>5. CASE SwapSpend(w)
    BY <2>5 DEF SwapSpend, AddSpentProof
  <2>6. CASE MeltSpend(w)
    BY <2>6 DEF MeltSpend, AddSpentProof
  <2>7. CASE MeltRemoveQuote(w)
    BY <2>7 DEF MeltRemoveQuote, RemoveMeltQuote
  <2> QED BY <1>1, <2>1, <2>2, <2>3, <2>4, <2>5, <2>6, <2>7 DEF MintHandlers
<1>2. ASSUME NEW w \in Workers, MeltLookup(w) \/ MeltCredit(w) \/ MeltPay(w) \/ MeltPayError(w)
      PROVE  /\ UNCHANGED <<spends, payLog, evt, meltQuote>>
             /\ payment' = payment \/ MeltCredit(w) \/ MeltPay(w)
             /\ mintQuote' = mintQuote \/ MeltCredit(w)
             /\ Return(w) \/ MeltLookup(w) \/ MeltCredit(w) \/ MeltPay(w)
  BY <1>2 DEF MeltLookup, MeltCredit, MeltPay, MeltPayError, Paid, AddMintQuote
<1>3. CASE System
  <2>1. CASE EventRead
    BY <2>1 DEF EventRead
  <2>2. CASE EventWrite
    BY <2>2 DEF EventWrite, AddMintQuote
  <2>3. ASSUME NEW w \in Workers, MintHandlers(w), UNCHANGED <<lnVars, boundVars>>
        PROVE  Writes
    BY <1>1, <2>3
  <2>4. ASSUME NEW w \in Workers, MeltLookup(w) \/ MeltCredit(w) \/ MeltPay(w) \/ MeltPayError(w)
        PROVE  Writes
    <3>1. Return(w) => <<pc, req, idx>>' = <<pc, req, idx>> \/ \E v \in Workers : Return(v)
      OBVIOUS
    <3>2. PayAnswerLost(w) => Return(w)
      BY DEF PayAnswerLost
    <3> QED BY <1>2, <2>4, <3>1
  <2> QED BY <1>3, <2>1, <2>2, <2>3, <2>4 DEF System, ServerStep
<1>4. CASE \/ \E q \in MintQuotes : NewMintQuote(q) \/ InvoicePaid(q)
           \/ \E m \in MeltQuotes : NewMeltQuote(m)
           \/ \E k \in Keysets : RotateKeyset(k)
  BY <1>4 DEF NewMintQuote, InvoicePaid, NewMeltQuote, RotateKeyset, AddMintQuote, AddMeltQuote,
        ActivateKeyset
<1>5. CASE \E w \in Workers, r \in Requests : Dispatch(w, r)
  BY <1>5 DEF Dispatch, MintCheckOutputs, SwapVerify, MeltVerify
<1>6. CASE EventFailed \/ Restart
  BY <1>6 DEF EventFailed, Restart
<1>7. CASE UNCHANGED vars
  BY <1>7
<1>8. ASSUME NEW w \in Workers, HandlerDropped(w) \/ PayAnswerLost(w)
      PROVE  Writes
  <2>1. Return(w) /\ UNCHANGED <<spends, payLog, evt, meltQuote, mintQuote>>
    BY <1>8 DEF HandlerDropped, PayAnswerLost
  <2>2. payment' = payment \/ PayAnswerLost(w)
    BY <1>8 DEF HandlerDropped
  <2> QED BY <2>1, <2>2
<1> QED BY <1>3, <1>4, <1>5, <1>6, <1>7, <1>8 DEF Next, Environment

-----------------------------------------------------------------------------
(* What only grows *)

\* Nothing that backs a signature is ever taken back: a coin stays spent, a
\* quote funded, a payment attempted and a melt quote removed.
Kept ==
    /\ \A c \in Coins : Spent(c) => Spent(c)'
    /\ \A q \in MintQuotes : Funded(q) => Funded(q)'
    /\ \A m \in MeltQuotes : payment[m] # "none" => payment'[m] # "none"
    /\ \A m \in MeltQuotes : meltQuote[m] = "removed" => meltQuote'[m] = "removed"

\* No step takes back what was spent, funded, paid or removed.
LEMMA NothingTakenBack ==
    ASSUME TypeInv, [Next]_vars
    PROVE  Kept
<1> USE DEF TypeInv, TypeOK
<1>1. ASSUME NEW c \in Coins, Spent(c) PROVE Spent(c)'
  <2>1. spends' = spends \/ \E p : spends' = [spends EXCEPT ![p.coin] = @ + 1]
    BY Writers DEF Writes, SwapSpend, MeltSpend, AddSpentProof
  <2> QED BY <1>1, <2>1 DEF Spent, StoreTypeOK
<1>2. \A q \in MintQuotes : q \in Range(payLog) => q \in Range(payLog)'
  <2>1. CASE payLog' = payLog
    BY <2>1
  <2>2. ASSUME NEW p \in MintQuotes, InvoicePaid(p) PROVE Range(payLog) \subseteq Range(payLog)'
    <3>1. payLog' = Append(payLog, p)
      BY <2>2 DEF InvoicePaid
    <3>2. \A i \in DOMAIN payLog : i \in DOMAIN payLog' /\ payLog'[i] = payLog[i]
      BY <3>1
    <3> QED BY <3>2 DEF Range
  <2> QED BY <2>1, <2>2, Writers DEF Writes
<1>3. ASSUME NEW m \in MeltQuotes
      PROVE  /\ payment[m] # "none" => payment'[m] # "none"
             /\ MeltInvoice[m] \in MintQuotes /\ payment[m] = "internal" => payment'[m] = "internal"
  <2>1. CASE payment' = payment
    BY <2>1
  <2>2. ASSUME NEW w \in Workers, MeltCredit(w) PROVE payment' = [payment EXCEPT ![req[w].quote] = "internal"]
    BY <2>2 DEF MeltCredit, Paid
  <2>3. ASSUME NEW w \in Workers, MeltPay(w) \/ PayAnswerLost(w)
        PROVE  /\ MeltInvoice[req[w].quote] = External
               /\ \E s \in PaymentStatus : payment' = [payment EXCEPT ![req[w].quote] = s]
    BY <2>3, ServerAssumption DEF MeltPay, PayAnswerLost, Paid, PaymentStatus, ServerAssumption
  <2> QED BY <2>1, <2>2, <2>3, Writers, ServerAssumption DEF Writes, ServerAssumption, PaymentStatus
<1>4. ASSUME NEW m \in MeltQuotes, meltQuote[m] = "removed" PROVE meltQuote'[m] = "removed"
  <2>1. CASE meltQuote' = meltQuote
    BY <1>4, <2>1
  <2>2. ASSUME NEW n \in MeltQuotes, NewMeltQuote(n) PROVE meltQuote'[m] = "removed"
    BY <1>4, <2>2 DEF NewMeltQuote, AddMeltQuote, StoreTypeOK
  <2>3. ASSUME NEW w \in Workers, MeltRemoveQuote(w) PROVE meltQuote'[m] = "removed"
    BY <1>4, <2>3 DEF MeltRemoveQuote, RemoveMeltQuote, StoreTypeOK
  <2> QED BY <2>1, <2>2, <2>3, Writers DEF Writes
<1> QED BY <1>1, <1>2, <1>3, <1>4 DEF Kept, Funded

-----------------------------------------------------------------------------
(* Signing is backed *)

\* What a task that is not at signing yet has already secured: the inputs
\* its spending loop has passed, and the attempt to pay.
Progress(w) ==
    /\ pc[w] \in {"swap_spend", "melt_spend"} =>
        \A i \in 1..(idx[w] - 1) : Spent(req[w].inputs[i].coin)
    /\ pc[w] \in {"melt_process", "melt_spend"} => payment[req[w].quote] # "none"

TaskBacked(w) ==
    /\ pc[w] = "swap_sign" => InputsSpent(w)
    /\ pc[w] \in {"melt_remove", "melt_change"} =>
        InputsSpent(w) /\ payment[req[w].quote] # "none"
    /\ pc[w] = "melt_change" => meltQuote[req[w].quote] = "removed"
    /\ pc[w] = "mint_sign" => Funded(req[w].quote)

QuotesBacked ==
    /\ evt # NoInvoice => Funded(evt)
    /\ \A q \in MintQuotes : mintQuote[q] = "paid" => Funded(q)

BackedInv ==
    /\ \A w \in Workers : Progress(w) /\ TaskBacked(w)
    /\ QuotesBacked

\* What a task has secured stays secured while it stands still.
LEMMA StandingStill ==
    ASSUME TypeInv, Kept, NEW v \in Workers, Progress(v), TaskBacked(v),
           pc'[v] = pc[v], req'[v] = req[v],
           idx'[v] = idx[v] \/ pc[v] \in SignSteps
    PROVE  Progress(v)' /\ TaskBacked(v)'
<1> USE DEF TypeInv, TypeOK
<1>1. \A i \in DOMAIN req[v].inputs : pc[v] # "idle" => req[v].inputs[i].coin \in Coins
  BY RequestTyping DEF TaskInv, TaskTypeOK, Steps, Output
<1>2. pc[v] \in MeltSteps => req[v].quote \in MeltQuotes
  BY RequestTyping DEF TaskInv
<1>3. pc[v] \in MintSteps => req[v].quote \in MintQuotes
  BY RequestTyping DEF TaskInv
<1>4. pc[v] \in {"swap_spend", "melt_spend"} =>
            \A i \in 1..(idx[v] - 1) : i \in DOMAIN req[v].inputs
  BY RequestTyping DEF TaskInv, TaskTypeOK, SwapSteps, MeltSteps
<1>5. pc[v] # "idle" /\ InputsSpent(v) => InputsSpent(v)'
  BY <1>1 DEF InputsSpent, CoinsIn, Range, Kept
<1>6. Progress(v)'
  BY <1>1, <1>2, <1>4 DEF Progress, Kept, MeltSteps, SignSteps
<1>7. TaskBacked(v)'
  BY <1>2, <1>3, <1>5 DEF TaskBacked, Kept, MeltSteps, MintSteps
<1> QED BY <1>6, <1>7

\* A quote is marked paid for a payment only.
LEMMA StepQuotesBacked ==
    ASSUME TypeInv, BackedInv, Kept, [Next]_vars
    PROVE  QuotesBacked'
<1> USE DEF TypeInv, TypeOK, StoreTypeOK
<1>1. Writes
  BY Writers
<1>2. ASSUME evt' # NoInvoice PROVE Funded(evt)'
  <2>1. CASE evt' = evt
    <3>1. PICK q \in MintQuotes : q = evt
      BY <1>2, <2>1
    <3>2. Funded(q)'
      BY <1>2, <2>1, <3>1 DEF BackedInv, QuotesBacked, Kept
    <3> QED BY <2>1, <3>1, <3>2 DEF Funded
  <2>2. CASE EventRead
    <3>1. evt' = payLog[cursor + 1] /\ cursor + 1 \in DOMAIN payLog /\ payLog' = payLog
      BY <1>2, <2>2 DEF EventRead
    <3>2. evt' \in Range(payLog)'
      BY <3>1 DEF Range
    <3> QED BY <3>2 DEF Funded
  <2>3. CASE EventWrite \/ EventFailed \/ Restart
    BY <1>2, <2>3 DEF EventWrite, EventFailed, Restart
  <2> QED BY <1>1, <2>1, <2>2, <2>3 DEF Writes
<1>3. ASSUME NEW q \in MintQuotes, mintQuote'[q] = "paid" PROVE Funded(q)'
  <2>1. mintQuote[q] = "paid" => Funded(q)'
    BY DEF BackedInv, QuotesBacked, Kept
  <2>2. ASSUME NEW p \in MintQuotes, NewMintQuote(p) PROVE mintQuote[q] = "paid"
    BY <1>3, <2>2 DEF NewMintQuote, AddMintQuote
  <2>3. ASSUME NEW w \in Workers, MintRemoveQuote(w) PROVE mintQuote[q] = "paid"
    BY <1>3, <2>3 DEF MintRemoveQuote, RemoveMintQuote
  <2>4. ASSUME NEW w \in Workers, MeltCredit(w) PROVE mintQuote[q] = "paid" \/ Funded(q)'
    <3> DEFINE m == req[w].quote
    <3>1. m \in MeltQuotes
      BY <2>4, RequestTyping DEF MeltCredit, TaskInv, MeltSteps
    <3>2. payment'[m] = "internal"
      BY <2>4, <3>1 DEF MeltCredit, Paid
    <3>3. q = MeltInvoice[m] \/ mintQuote[q] = "paid"
      BY <1>3, <2>4 DEF MeltCredit, AddMintQuote
    <3> QED BY <3>1, <3>2, <3>3 DEF Funded
  <2>5. CASE EventWrite
    <3>1. q = evt \/ mintQuote[q] = "paid"
      BY <1>3, <2>5 DEF EventWrite, AddMintQuote
    <3>2. q = evt => Funded(q)
      BY <2>5 DEF EventWrite, BackedInv, QuotesBacked
    <3> QED BY <2>1, <3>1, <3>2 DEF Kept
  <2> QED BY <1>1, <1>3, <2>1, <2>2, <2>3, <2>4, <2>5 DEF Writes
<1> QED BY <1>2, <1>3 DEF QuotesBacked

\* A spending step leaves the input it was at spent.
LEMMA InputSpent ==
    ASSUME TypeInv, NEW w \in Workers, SwapSpend(w) \/ MeltSpend(w)
    PROVE  /\ req[w] \in Requests /\ idx[w] \in DOMAIN req[w].inputs
           /\ Input(w).coin \in Coins
           /\ spends' = [spends EXCEPT ![Input(w).coin] = @ + 1]
           /\ spends'[Input(w).coin] = spends[Input(w).coin] + 1
<1> USE DEF TypeInv, TypeOK
<1>1. req[w] \in Requests /\ idx[w] \in DOMAIN req[w].inputs
  BY DEF SwapSpend, MeltSpend, TaskInv, SwapSteps, MeltSteps
<1>2. Input(w).coin \in Coins
  BY <1>1, RequestTyping DEF Input, Output
<1>3. spends' = [spends EXCEPT ![Input(w).coin] = @ + 1]
  BY DEF SwapSpend, MeltSpend, AddSpentProof
<1>4. spends'[Input(w).coin] = spends[Input(w).coin] + 1
  BY <1>2, <1>3 DEF StoreTypeOK
<1> QED BY <1>1, <1>2, <1>3, <1>4

\* What a step does to task v: nothing (a signing loop may advance), or it
\* ends where nothing has been secured yet, or v takes one of these steps.
LEMMA Moves ==
    ASSUME TypeInv, [Next]_vars, NEW v \in Workers
    PROVE  \/ /\ pc'[v] = pc[v] /\ req'[v] = req[v]
              /\ idx'[v] = idx[v] \/ pc[v] \in SignSteps
           \/ pc'[v] \in {"idle", "mint_quote", "melt_lookup", "melt_credit", "melt_pay"}
           \/ \E r \in Requests : SwapVerify(v, r) /\ idx[v] = 1
           \/ MintReadQuote(v) \/ SwapSpend(v) \/ MeltProcess(v) \/ MeltSpend(v)
           \/ MeltRemoveQuote(v) \/ MeltCredit(v) \/ MeltPay(v)
<1> USE DEF TypeInv, TypeOK
<1>1. CASE <<pc, req, idx>>' = <<pc, req, idx>>
  BY <1>1
<1>2. CASE Restart
  BY <1>2 DEF Restart, ReturnAll
<1>3. ASSUME NEW w \in Workers, Return(w) PROVE w = v => pc'[v] = "idle"
  BY <1>3 DEF Return, TaskTypeOK
<1>4. ASSUME NEW w \in Workers, w # v,
             \/ Return(w) \/ Advance(w)
             \/ \E step : Goto(w, step)
             \/ \E r, step : Accept(w, r, step)
             \/ \E m, status, cost : Paid(w, m, status, cost)
      PROVE  pc'[v] = pc[v] /\ req'[v] = req[v] /\ idx'[v] = idx[v]
  BY <1>4 DEF Return, Advance, Goto, Accept, Paid, TaskTypeOK
<1>5. ASSUME NEW w \in Workers, pc[w] \in SignSteps, Advance(w)
      PROVE  pc'[v] = pc[v] /\ req'[v] = req[v] /\ (idx'[v] = idx[v] \/ pc[v] \in SignSteps)
  BY <1>5, <1>4 DEF Advance
<1>6. ASSUME NEW w \in Workers, NEW r \in Requests, Dispatch(w, r), w # v
      PROVE  pc'[v] = pc[v] /\ req'[v] = req[v] /\ idx'[v] = idx[v]
  BY <1>6, <1>4 DEF Dispatch, MintCheckOutputs, SwapVerify, MeltVerify
<1>7. ASSUME NEW r \in Requests, Dispatch(v, r)
      PROVE  \/ SwapVerify(v, r) /\ idx[v] = 1
             \/ pc'[v] \in {"mint_quote", "melt_lookup"}
  BY <1>7 DEF Dispatch, Busy, TaskInv, TaskTypeOK, MintCheckOutputs, MeltVerify, Accept
<1>8. CASE MeltLookup(v)
  BY <1>8 DEF MeltLookup, Goto, TaskTypeOK
<1>9. ASSUME NEW w \in Workers, w # v,
              \/ MintReadQuote(w) \/ SwapSpend(w) \/ MeltProcess(w) \/ MeltSpend(w)
              \/ MeltRemoveQuote(w) \/ MeltLookup(w) \/ MeltCredit(w) \/ MeltPay(w)
       PROVE  pc'[v] = pc[v] /\ req'[v] = req[v] /\ idx'[v] = idx[v]
  <2>1. CASE MintReadQuote(w) \/ MeltProcess(w) \/ MeltLookup(w)
    BY <1>9, <2>1, <1>4 DEF MintReadQuote, MeltProcess, MeltLookup
  <2>2. CASE SwapSpend(w) \/ MeltSpend(w) \/ MeltRemoveQuote(w)
    BY <1>9, <2>2, <1>4 DEF SwapSpend, MeltSpend, MeltRemoveQuote
  <2>3. CASE MeltCredit(w) \/ MeltPay(w)
    BY <1>9, <2>3, <1>4 DEF MeltCredit, MeltPay
  <2> QED BY <1>9, <2>1, <2>2, <2>3
<1> QED BY Writers, <1>1, <1>2, <1>3, <1>4, <1>5, <1>6, <1>7, <1>8, <1>9 DEF Writes

\* What a task has behind it when it signs is there after every step.
LEMMA StepTaskBacked ==
    ASSUME TypeInv, BackedInv, Kept, [Next]_vars, NEW v \in Workers
    PROVE  Progress(v)' /\ TaskBacked(v)'
<1> USE DEF TypeInv, TypeOK
<1>a. Progress(v) /\ TaskBacked(v)
  BY DEF BackedInv
<1>b. ASSUME pc'[v] = pc[v], req'[v] = req[v], idx'[v] = idx[v] \/ pc[v] \in SignSteps
      PROVE  Progress(v)' /\ TaskBacked(v)'
  BY <1>a, <1>b, StandingStill
<1>c. ASSUME pc'[v] \in {"idle", "mint_quote", "melt_lookup", "melt_credit", "melt_pay"}
      PROVE  Progress(v)' /\ TaskBacked(v)'
  BY <1>c DEF Progress, TaskBacked
<1>d. ASSUME Return(v) PROVE Progress(v)' /\ TaskBacked(v)'
  BY <1>c, <1>d DEF Return, TaskTypeOK
<1>1. ASSUME NEW r \in Requests, SwapVerify(v, r), idx[v] = 1
      PROVE  Progress(v)' /\ TaskBacked(v)'
  BY <1>1 DEF SwapVerify, Accept, TaskTypeOK, Progress, TaskBacked
<1>2. CASE MintReadQuote(v)
  <2>1. PICK q \in MintQuotes : q = req[v].quote
    BY <1>2, RequestTyping DEF MintReadQuote, TaskInv, MintSteps
  <2>2. CASE mintQuote[q] = "paid" /\ Goto(v, "mint_sign")
    <3>1. Funded(q)'
      BY <2>1, <2>2 DEF BackedInv, QuotesBacked, Kept
    <3> QED BY <2>1, <2>2, <3>1 DEF Goto, TaskTypeOK, Progress, TaskBacked, Funded
  <2> QED BY <1>2, <2>1, <2>2, <1>d DEF MintReadQuote
<1>3. ASSUME SwapSpend(v) \/ MeltSpend(v)
      PROVE  \A i \in 1..idx[v] : spends'[req[v].inputs[i].coin] > 0
  <2>1. \A i \in 1..(idx[v] - 1) : Spent(req[v].inputs[i].coin)
    BY <1>3, <1>a DEF Progress, SwapSpend, MeltSpend
  <2>2. \A i \in 1..(idx[v] - 1) : req[v].inputs[i].coin \in Coins
    <3>1. req[v] \in Requests /\ idx[v] \in DOMAIN req[v].inputs
      BY <1>3, InputSpent
    <3>2. \A i \in 1..(idx[v] - 1) : i \in DOMAIN req[v].inputs
      BY <3>1, RequestTyping
    <3> QED BY <3>1, <3>2, RequestTyping DEF Output
  <2>3. spends'[req[v].inputs[idx[v]].coin] > 0
    BY <1>3, InputSpent DEF Input, StoreTypeOK
  <2>4. \A i \in 1..(idx[v] - 1) : spends'[req[v].inputs[i].coin] > 0
    BY <2>1, <2>2 DEF Kept, Spent
  <2>5. idx[v] \in Nat
    BY DEF TaskTypeOK
  <2> QED BY <2>3, <2>4, <2>5
<1>4. ASSUME SwapSpend(v) \/ MeltSpend(v), idx[v] = Len(req[v].inputs), req'[v] = req[v]
      PROVE  InputsSpent(v)'
  <2>1. DOMAIN req[v].inputs = 1..idx[v]
    BY <1>4, InputSpent, RequestTyping
  <2> QED BY <1>3, <1>4, <2>1 DEF InputsSpent, CoinsIn, Range, Spent
<1>5. CASE SwapSpend(v)
  <2>1. CASE idx[v] = Len(req[v].inputs) /\ Goto(v, "swap_sign")
    BY <1>4, <1>5, <2>1 DEF Goto, TaskTypeOK, Progress, TaskBacked
  <2>2. CASE Advance(v)
    BY <1>3, <1>5, <2>2 DEF Advance, TaskTypeOK, Progress, TaskBacked, SwapSpend, Spent
  <2> QED BY <1>5, <2>1, <2>2 DEF SwapSpend
<1>6. CASE MeltSpend(v)
  <2>1. payment'[req[v].quote] # "none"
    BY <1>6, <1>a, InputSpent, RequestTyping DEF Progress, MeltSpend, Kept, TaskInv, MeltSteps
  <2>2. CASE idx[v] = Len(req[v].inputs) /\ Goto(v, "melt_remove")
    BY <1>4, <1>6, <2>1, <2>2 DEF Goto, TaskTypeOK, Progress, TaskBacked
  <2>3. CASE Advance(v)
    BY <1>3, <1>6, <2>1, <2>3 DEF Advance, TaskTypeOK, Progress, TaskBacked, MeltSpend, Spent
  <2> QED BY <1>6, <2>2, <2>3 DEF MeltSpend
<1>7. CASE MeltProcess(v)
  <2>1. payment'[req[v].quote] # "none"
    BY <1>7, <1>a, RequestTyping DEF Progress, MeltProcess, Kept, TaskInv, MeltSteps
  <2>2. CASE Goto(v, "melt_spend")
    BY <2>1, <2>2 DEF Goto, TaskTypeOK, Progress, TaskBacked
  <2> QED BY <1>7, <2>2, <1>d DEF MeltProcess
<1>8. CASE MeltRemoveQuote(v)
  <2>1. req[v].quote \in MeltQuotes /\ Goto(v, "melt_change")
    BY <1>8, RequestTyping DEF MeltRemoveQuote, TaskInv, MeltSteps
  <2>2. meltQuote'[req[v].quote] = "removed"
    BY <1>8, <2>1 DEF MeltRemoveQuote, RemoveMeltQuote, StoreTypeOK
  <2>3. payment'[req[v].quote] # "none" /\ InputsSpent(v)
    BY <1>8, <1>a, <2>1 DEF MeltRemoveQuote, TaskBacked, Kept
  <2>4. InputsSpent(v)'
    <3>1. \A i \in DOMAIN req[v].inputs : req[v].inputs[i].coin \in Coins
      BY <1>8, RequestTyping DEF MeltRemoveQuote, TaskInv, MeltSteps, Output
    <3> QED BY <2>1, <2>3, <3>1 DEF Goto, InputsSpent, CoinsIn, Range, Kept
  <2> QED BY <2>1, <2>2, <2>3, <2>4 DEF Goto, TaskTypeOK, Progress, TaskBacked
<1>9. CASE MeltCredit(v) \/ MeltPay(v)
  <2>1. req[v].quote \in MeltQuotes
    BY <1>9, RequestTyping DEF MeltCredit, MeltPay, TaskInv, MeltSteps
  <2>2. PICK status, cost : Paid(v, req[v].quote, status, cost) /\ status # "none"
    BY <1>9, ServerAssumption DEF MeltCredit, MeltPay, ServerAssumption, PaymentStatus
  <2>3. pc'[v] = "melt_process" /\ payment'[req'[v].quote] # "none"
    BY <2>1, <2>2 DEF Paid, TaskTypeOK
  <2> QED BY <2>3 DEF Progress, TaskBacked
<1> QED BY Moves, <1>b, <1>c, <1>1, <1>2, <1>5, <1>6, <1>7, <1>8, <1>9

\* A mint that starts signs nothing.
LEMMA InitBacked == Init => BackedInv
<1> SUFFICES ASSUME Init PROVE BackedInv
  OBVIOUS
<1>1. \A w \in Workers : Progress(w) /\ TaskBacked(w)
  BY DEF Init, TaskInit, Progress, TaskBacked
<1>2. QuotesBacked
  BY DEF Init, StoreInit, QuotesBacked
<1> QED BY <1>1, <1>2 DEF BackedInv

\* Whatever clients send, drop or repeat, and wherever the mint restarts: a
\* swap or melt signs only with all its inputs spent, a melt only after its
\* payment was attempted and its quote removed, a mint request only against
\* a quote that was funded.
THEOREM Backed == Spec => []SigningIsBacked
<1>1. TypeInv /\ BackedInv /\ [Next]_vars => BackedInv'
  BY NothingTakenBack, StepTaskBacked, StepQuotesBacked DEF BackedInv
<1>2. Spec => [](TypeInv /\ BackedInv)
  BY <1>1, InitTypeInv, StepTypeInv, InitBacked, PTL DEF Spec
<1>3. BackedInv => SigningIsBacked
  BY DEF BackedInv, TaskBacked, QuotesBacked, SigningIsBacked
<1> QED BY <1>2, <1>3, PTL

-----------------------------------------------------------------------------
(* Coins are spent once *)

\* What a spending loop still has to write is unspent, and no coin is in it
\* twice.
UnspentAhead(w) ==
    pc[w] \in {"swap_spend", "melt_spend"} =>
        /\ NoDuplicates(req[w].inputs)
        /\ \A i \in idx[w]..Len(req[w].inputs) : spends[req[w].inputs[i].coin] = 0

InFlightDisjoint ==
    \A v, w \in Workers : (v # w /\ Busy(v) /\ Busy(w)) => Disjoint(req[v], req[w])

SpendInv ==
    /\ InFlightDisjoint
    /\ \A w \in Workers : UnspentAhead(w)
    /\ SpentOnce

\* What a handler checks before its spending loop is what the loop needs.
LEMMA VerifiedUnspent ==
    ASSUME TypeInv, NEW r \in Requests, ProofsValid(r.inputs)
    PROVE  \A i \in 1..Len(r.inputs) : spends[r.inputs[i].coin] = 0
<1>1. ASSUME NEW i \in 1..Len(r.inputs) PROVE spends[r.inputs[i].coin] = 0
  <2>1. i \in DOMAIN r.inputs /\ r.inputs[i].coin \in Coins
    BY RequestTyping DEF Output
  <2>2. ~Spent(r.inputs[i].coin)
    BY <2>1 DEF ProofsValid, VerifyProof, Range
  <2> QED BY <2>1, <2>2 DEF Spent, TypeInv, TypeOK, StoreTypeOK
<1> QED BY <1>1

\* One task writes a coin to the spent table.
LEMMA SpendStep ==
    ASSUME TypeInv, SpendInv, [Next]_vars, InFlightDisjoint',
           NEW w \in Workers, SwapSpend(w) \/ MeltSpend(w)
    PROVE  (\A v \in Workers : UnspentAhead(v))' /\ SpentOnce'
<1> DEFINE c == Input(w).coin
<1>1. /\ req[w] \in Requests /\ idx[w] \in DOMAIN req[w].inputs
      /\ c \in Coins
      /\ spends' = [spends EXCEPT ![c] = @ + 1]
  BY InputSpent
<1>2. pc[w] \in {"swap_spend", "melt_spend"} /\ idx[w] \in idx[w]..Len(req[w].inputs)
  BY <1>1, RequestTyping DEF SwapSpend, MeltSpend
<1>3. spends[c] = 0
  BY <1>2 DEF SpendInv, UnspentAhead, Input
<1>4. SpentOnce'
  BY <1>1, <1>3 DEF SpendInv, SpentOnce, TypeInv, TypeOK, StoreTypeOK
<1>5. ASSUME NEW v \in Workers PROVE UnspentAhead(v)'
  <2> USE DEF TypeInv, TypeOK
  <2>1. CASE v # w
    <3>1. pc'[v] = pc[v] /\ req'[v] = req[v] /\ idx'[v] = idx[v]
      BY <2>1 DEF SwapSpend, MeltSpend, Goto, Advance, TaskTypeOK
    <3>2. ASSUME pc[v] \in {"swap_spend", "melt_spend"}, NEW i \in idx[v]..Len(req[v].inputs)
          PROVE  spends'[req[v].inputs[i].coin] = 0
      <4>1. req[v] \in Requests /\ i \in DOMAIN req[v].inputs
        BY <3>2, RequestTyping DEF TaskInv, TaskTypeOK, SwapSteps, MeltSteps
      <4>2. req[v].inputs[i].coin \in AllCoins(req[v]) /\ c \in AllCoins(req[w])
        BY <1>1, <4>1 DEF AllCoins, CoinsIn, Range, Input
      <4>3. req[v].inputs[i].coin # c
        BY <1>2, <2>1, <3>2, <4>2 DEF SpendInv, InFlightDisjoint, Busy, Disjoint
      <4>4. spends[req[v].inputs[i].coin] = 0
        BY <3>2 DEF SpendInv, UnspentAhead
      <4>5. req[v].inputs[i].coin \in Coins
        BY <4>1, RequestTyping DEF Output
      <4> QED BY <1>1, <4>3, <4>4, <4>5 DEF StoreTypeOK
    <3> QED BY <3>1, <3>2 DEF SpendInv, UnspentAhead
  <2>2. CASE v = w /\ Advance(w)
    <3>1. pc' = pc /\ req' = req /\ idx'[w] = idx[w] + 1
      BY <2>2 DEF Advance, TaskTypeOK
    <3>2. ASSUME NEW i \in (idx[w] + 1)..Len(req[w].inputs)
          PROVE  spends'[req[w].inputs[i].coin] = 0
      <4>1. req[w].inputs \in Seq(Output) /\ NoDuplicates(req[w].inputs)
        BY <1>1, <1>2, RequestTyping DEF SpendInv, UnspentAhead, Request
      <4>2. i \in DOMAIN req[w].inputs /\ i # idx[w] /\ i \in idx[w]..Len(req[w].inputs)
        BY <1>1, <4>1 DEF TaskTypeOK
      <4>3. req[w].inputs[i].coin # c
        BY <1>1, <4>1, <4>2, NoDuplicatesInjective DEF Input
      <4>4. spends[req[w].inputs[i].coin] = 0 /\ req[w].inputs[i].coin \in Coins
        BY <1>1, <1>2, <4>2, RequestTyping DEF SpendInv, UnspentAhead, Output
      <4> QED BY <1>1, <4>3, <4>4 DEF StoreTypeOK
    <3> QED BY <2>2, <3>1, <3>2 DEF SpendInv, UnspentAhead
  <2>3. CASE v = w /\ \E step \in {"swap_sign", "melt_remove"} : Goto(w, step)
    BY <2>3 DEF Goto, TaskTypeOK, UnspentAhead
  <2> QED BY <2>1, <2>2, <2>3 DEF SwapSpend, MeltSpend
<1> QED BY <1>4, <1>5

\* A step that spends nothing.
LEMMA OtherStep ==
    ASSUME TypeInv, SpendInv, [Next]_vars, spends' = spends, NEW v \in Workers
    PROVE  UnspentAhead(v)' /\ SpentOnce'
<1> USE DEF TypeInv, TypeOK
<1>1. SpentOnce'
  BY DEF SpendInv, SpentOnce
<1>2. CASE pc'[v] \notin {"swap_spend", "melt_spend"}
  BY <1>1, <1>2 DEF UnspentAhead
<1>3. CASE /\ pc'[v] = pc[v] /\ req'[v] = req[v]
           /\ idx'[v] = idx[v] \/ pc[v] \in SignSteps
  BY <1>1, <1>3 DEF UnspentAhead, SpendInv, SignSteps
<1>4. ASSUME NEW r \in Requests, SwapVerify(v, r), idx[v] = 1
      PROVE  UnspentAhead(v)'
  <2>1. req'[v] = r /\ idx'[v] = 1 /\ NoDuplicates(r.inputs) /\ ProofsValid(r.inputs)
    BY <1>4 DEF SwapVerify, Accept, TaskTypeOK
  <2> QED BY <2>1, VerifiedUnspent DEF UnspentAhead
<1>5. ASSUME MeltProcess(v) PROVE UnspentAhead(v)'
  <2>1. CASE Return(v)
    BY <2>1 DEF Return, TaskTypeOK, UnspentAhead
  <2>2. CASE MeltRequestValid(req[v]) /\ Goto(v, "melt_spend")
    <3>1. req[v] \in Requests /\ req'[v] = req[v] /\ idx'[v] = 1
      BY <1>5, <2>2 DEF MeltProcess, TaskInv, MeltSteps, Goto, TaskTypeOK
    <3> QED BY <2>2, <3>1, VerifiedUnspent DEF MeltRequestValid, UnspentAhead
  <2> QED BY <1>5, <2>1, <2>2 DEF MeltProcess
<1>6. ASSUME MintReadQuote(v) \/ MeltRemoveQuote(v) \/ MeltCredit(v) \/ MeltPay(v)
      PROVE  pc'[v] \notin {"swap_spend", "melt_spend"}
  BY <1>6 DEF MintReadQuote, MeltRemoveQuote, MeltCredit, MeltPay, Goto, Return, Paid, TaskTypeOK
<1>7. ~SwapSpend(v) /\ ~MeltSpend(v)
  BY InputSpent DEF StoreTypeOK
<1> QED BY Moves, <1>1, <1>2, <1>3, <1>4, <1>5, <1>6, <1>7

\* No task is in flight at first, and nothing is spent.
LEMMA InitSpend == Init => SpendInv
BY DEF Init, StoreInit, TaskInit, SpendInv, InFlightDisjoint, Busy, UnspentAhead, SpentOnce

\* A step that keeps requests in flight apart keeps spends to one.
LEMMA StepSpend == TypeInv /\ SpendInv /\ [ExclusiveNext]_vars => SpendInv'
<1> SUFFICES ASSUME TypeInv, SpendInv, [ExclusiveNext]_vars
             PROVE  SpendInv'
  OBVIOUS
<1>1. [Next]_vars
  BY DEF ExclusiveNext
<1>2. InFlightDisjoint'
  BY DEF ExclusiveNext, ExclusiveDispatch, InFlightDisjoint, Busy, SpendInv, vars, taskVars
<1>3. CASE spends' = spends
  <2>1. SpentOnce'
    BY <1>3 DEF SpendInv, SpentOnce
  <2> QED BY <1>1, <1>2, <1>3, <2>1, OtherStep DEF SpendInv
<1>4. ASSUME NEW w \in Workers, SwapSpend(w) \/ MeltSpend(w) PROVE SpendInv'
  BY <1>1, <1>2, <1>4, SpendStep DEF SpendInv
<1> QED BY <1>1, <1>3, <1>4, Writers DEF Writes

\* If no two requests in flight share a coin or a quote, add_spent_proof is
\* reached at most once for each coin, through restarts and lost answers.
THEOREM CoinsSpentOnce == ExclusiveSpec => []SpentOnce
<1>1. TypeInv /\ [ExclusiveNext]_vars => TypeInv'
  BY StepTypeInv DEF ExclusiveNext
<1>2. SpendInv => SpentOnce
  BY DEF SpendInv
<1> QED BY <1>1, <1>2, InitSpend, StepSpend, InitTypeInv, PTL DEF ExclusiveSpec

-----------------------------------------------------------------------------
(* Paid answers *)

\* With a node that reports a payment only when it was made.
Truthful == payment \in [MeltQuotes -> {"none", "complete", "internal"}]

\* Every step keeps to the statuses the node reports.
LEMMA StepTruthful ==
    ASSUME PayStatuses \subseteq {"complete"}, TypeInv, Truthful, [Next]_vars
    PROVE  Truthful'
<1> USE DEF Truthful
<1>1. ASSUME NEW w \in Workers, MeltCredit(w) PROVE Truthful'
  BY <1>1 DEF MeltCredit, Paid
<1>2. ASSUME NEW w \in Workers, MeltPay(w) PROVE Truthful'
  <2>1. PICK status \in PayStatuses, fee \in Fees :
            Paid(w, req[w].quote,
                 IF payment[req[w].quote] = "complete" THEN "complete" ELSE status,
                 MeltAmount[req[w].quote] + fee)
    BY <1>2 DEF MeltPay
  <2>2. status = "complete"
    OBVIOUS
  <2> QED BY <2>1, <2>2 DEF Paid
<1>3. ASSUME NEW w \in Workers, PayAnswerLost(w) PROVE Truthful'
  BY <1>3 DEF PayAnswerLost
<1> QED BY Writers, <1>1, <1>2, <1>3 DEF Writes

\* When pay_invoice answers Ok only for a payment that was made, a melt gets
\* to spend its inputs only for an invoice that was paid, whatever requests
\* collide on the quote and wherever a fault or a restart strikes.
THEOREM AnswersTrue ==
    ASSUME PayStatuses \subseteq {"complete"}
    PROVE  Spec => []MeltAnswerIsTrue
<1>1. Init => Truthful
  BY DEF Init, Truthful
<1>2. TypeInv /\ Truthful /\ [Next]_vars => Truthful'
  BY StepTruthful
<1>3. TypeInv /\ BackedInv /\ [Next]_vars => BackedInv'
  BY NothingTakenBack, StepTaskBacked, StepQuotesBacked DEF BackedInv
<1>4. TypeInv /\ BackedInv /\ Truthful => MeltAnswerIsTrue
  <2> SUFFICES ASSUME TypeInv, BackedInv, Truthful, NEW w \in Workers,
                      pc[w] \in {"melt_spend", "melt_remove", "melt_change"}
               PROVE  payment[req[w].quote] \in {"complete", "internal"}
    BY DEF MeltAnswerIsTrue
  <2>1. req[w].quote \in MeltQuotes
    BY RequestTyping DEF TypeInv, TaskInv, MeltSteps
  <2>2. payment[req[w].quote] # "none"
    BY DEF BackedInv, Progress, TaskBacked
  <2> QED BY <2>1, <2>2 DEF Truthful
<1> QED BY <1>1, <1>2, <1>3, <1>4, InitTypeInv, StepTypeInv, InitBacked, PTL DEF Spec

-----------------------------------------------------------------------------
(* Redeemed quotes *)

\* The stream has given the quote's invoice.
Passed(q) == \E i \in 1..cursor : payLog[i] = q

Settled(q) == mintQuote[q] \in {"paid", "removed"}

\* Each invoice is in the log once and the stream does not turn back, so the
\* invoice task never holds a quote that is paid already, let alone redeemed.
EventInv ==
    /\ \A i, j \in DOMAIN payLog : payLog[i] = payLog[j] => i = j
    /\ evt # NoInvoice => cursor # 0 /\ evt = payLog[cursor]
    /\ \A q \in MintQuotes : Settled(q) => Passed(q) /\ q # evt
    /\ \A w \in Workers : pc[w] = "mint_sign" => Settled(req[w].quote)

\* A mint that starts has read no invoice.
LEMMA InitEvent == Init => EventInv
BY DEF Init, StoreInit, TaskInit, EventInv, Settled

\* The invoice the stream gives next has not been given before.
LEMMA NextIsNew ==
    ASSUME TypeInv, EventInv, cursor < Len(payLog)
    PROVE  /\ payLog[cursor + 1] \in MintQuotes
           /\ ~Passed(payLog[cursor + 1])
<1>1. cursor + 1 \in DOMAIN payLog /\ \A i \in 1..cursor : i \in DOMAIN payLog /\ i # cursor + 1
  BY DEF TypeInv, TypeOK
<1> QED BY <1>1 DEF TypeInv, TypeOK, EventInv, Passed

\* Only the invoice task and the removal of a redeemed quote change what is
\* settled, when no melt is settled inside the mint.
LEMMA QuoteWriters ==
    ASSUME \A m \in MeltQuotes : MeltInvoice[m] = External,
           TypeInv, [Next]_vars
    PROVE  \/ mintQuote' = mintQuote
           \/ \E q \in MintQuotes : mintQuote[q] = "none" /\ mintQuote' = [mintQuote EXCEPT ![q] = "unpaid"]
           \/ \E w \in Workers : /\ pc[w] = "mint_sign" /\ req[w].quote \in MintQuotes
                                 /\ mintQuote' = [mintQuote EXCEPT ![req[w].quote] = "removed"]
           \/ evt \in MintQuotes /\ EventWrite /\ mintQuote' = [mintQuote EXCEPT ![evt] = "paid"]
<1>1. ASSUME NEW q \in MintQuotes, NewMintQuote(q)
      PROVE  mintQuote[q] = "none" /\ mintQuote' = [mintQuote EXCEPT ![q] = "unpaid"]
  BY <1>1 DEF NewMintQuote, AddMintQuote
<1>2. ASSUME NEW w \in Workers, MintRemoveQuote(w)
      PROVE  /\ pc[w] = "mint_sign" /\ req[w].quote \in MintQuotes
             /\ mintQuote' = [mintQuote EXCEPT ![req[w].quote] = "removed"]
  BY <1>2, RequestTyping DEF MintRemoveQuote, RemoveMintQuote, TypeInv, TaskInv, MintSteps
<1>3. ASSUME NEW w \in Workers, MeltCredit(w) PROVE FALSE
  <2>1. req[w].quote \in MeltQuotes /\ MeltInvoice[req[w].quote] \in MintQuotes
    BY <1>3, RequestTyping DEF MeltCredit, TypeInv, TaskInv, MeltSteps
  <2> QED BY <2>1, ServerAssumption DEF ServerAssumption
<1>4. CASE EventWrite
  BY <1>4 DEF EventWrite, AddMintQuote, TypeInv, TypeOK
<1> QED BY Writers, <1>1, <1>2, <1>3, <1>4 DEF Writes

\* How the stream, the log and the copy the invoice task holds move.
LEMMA StreamWriters ==
    ASSUME Replay = FALSE, TypeInv, [Next]_vars
    PROVE  \/ UNCHANGED <<payLog, cursor, evt>>
           \/ EventRead
           \/ UNCHANGED <<payLog, cursor>> /\ evt' = NoInvoice
           \/ \E q \in MintQuotes : /\ q \notin Range(payLog) /\ payLog' = Append(payLog, q)
                                    /\ UNCHANGED <<cursor, evt>>
           \/ UNCHANGED payLog /\ cursor' = Len(payLog) /\ evt' = NoInvoice
<1>1. CASE System
  BY <1>1 DEF System, ServerStep, MeltLookup, MeltCredit, MeltPay, MeltPayError, Paid, EventWrite,
              lnVars
<1>2. CASE Environment
  <2>1. CASE EventFailed \/ Restart
    BY <2>1 DEF EventFailed, Restart
  <2>2. ASSUME NEW q \in MintQuotes, NewMintQuote(q) \/ InvoicePaid(q)
        PROVE  \/ UNCHANGED <<payLog, cursor, evt>>
               \/ /\ q \notin Range(payLog) /\ payLog' = Append(payLog, q)
                  /\ UNCHANGED <<cursor, evt>>
    BY <2>2 DEF NewMintQuote, InvoicePaid, lnVars
  <2>3. ASSUME \/ \E m \in MeltQuotes : NewMeltQuote(m)
               \/ \E w \in Workers, r \in Requests : Dispatch(w, r)
               \/ \E w \in Workers : HandlerDropped(w) \/ PayAnswerLost(w)
               \/ \E k \in Keysets : RotateKeyset(k)
        PROVE  UNCHANGED <<payLog, cursor, evt>>
    BY <2>3 DEF NewMeltQuote, Dispatch, HandlerDropped, PayAnswerLost, RotateKeyset, lnVars
  <2> QED BY <1>2, <2>1, <2>2, <2>3 DEF Environment
<1>3. CASE UNCHANGED vars
  BY <1>3 DEF vars, lnVars
<1> QED BY <1>1, <1>2, <1>3 DEF Next

\* Every step keeps the invoice task clear of the settled quotes.
LEMMA StepEvent ==
    ASSUME Replay = FALSE, \A m \in MeltQuotes : MeltInvoice[m] = External,
           TypeInv, EventInv, [Next]_vars
    PROVE  EventInv'
<1> USE DEF TypeInv, TypeOK
<1>1. \A i, j \in DOMAIN payLog' : payLog'[i] = payLog'[j] => i = j
  <2>1. CASE payLog' = payLog
    BY <2>1 DEF EventInv
  <2>2. ASSUME NEW q \in MintQuotes, q \notin Range(payLog), payLog' = Append(payLog, q)
        PROVE  \A i, j \in DOMAIN payLog' : payLog'[i] = payLog'[j] => i = j
    <3>1. \A i \in DOMAIN payLog' : /\ i = Len(payLog) + 1 => payLog'[i] = q
                                    /\ i # Len(payLog) + 1 => i \in DOMAIN payLog /\ payLog'[i] = payLog[i]
      BY <2>2
    <3>2. \A i \in DOMAIN payLog : payLog[i] # q
      BY <2>2 DEF Range
    <3> QED BY <3>1, <3>2 DEF EventInv
  <2> QED BY <2>1, <2>2, StreamWriters DEF EventRead
<1>2. evt' # NoInvoice => cursor' # 0 /\ evt' = payLog'[cursor']
  <2>1. CASE EventRead
    BY <2>1 DEF EventRead
  <2>2. ASSUME NEW q \in MintQuotes, payLog' = Append(payLog, q), UNCHANGED <<cursor, evt>>
        PROVE  evt' # NoInvoice => cursor' # 0 /\ evt' = payLog'[cursor']
    BY <2>2 DEF EventInv
  <2> QED BY <2>1, <2>2, StreamWriters DEF EventInv
<1>3. ASSUME NEW q \in MintQuotes, Passed(q) PROVE Passed(q)'
  <2>1. PICK i \in 1..cursor : payLog[i] = q
    BY <1>3 DEF Passed
  <2>2. i \in DOMAIN payLog /\ cursor \in Nat /\ cursor <= Len(payLog)
    OBVIOUS
  <2>3. CASE EventRead
    BY <2>1, <2>2, <2>3 DEF EventRead, Passed
  <2>4. CASE payLog' = payLog /\ cursor' \in {cursor, Len(payLog)}
    BY <2>1, <2>2, <2>4 DEF Passed
  <2>5. ASSUME NEW p \in MintQuotes, payLog' = Append(payLog, p), cursor' = cursor
        PROVE  Passed(q)'
    <3>1. payLog'[i] = payLog[i]
      BY <2>2, <2>5
    <3> QED BY <2>1, <2>5, <3>1 DEF Passed
  <2> QED BY <2>3, <2>4, <2>5, StreamWriters
<1>4. ASSUME NEW q \in MintQuotes, Settled(q) PROVE Settled(q)'
  BY <1>4, QuoteWriters DEF Settled, StoreTypeOK
<1>5. ASSUME NEW q \in MintQuotes, Settled(q)' PROVE Passed(q)' /\ q # evt'
  <2>1. CASE Settled(q)
    <3>1. Passed(q) /\ q # evt
      BY <2>1 DEF EventInv
    <3>2. q # evt'
      <4>1. CASE EventRead
        <5>1. cursor < Len(payLog) /\ evt' \in {payLog[cursor + 1], NoInvoice}
          BY <4>1 DEF EventRead
        <5> QED BY <3>1, <5>1, NextIsNew, ServerAssumption DEF ServerAssumption
      <4> QED BY <3>1, <4>1, StreamWriters, ServerAssumption DEF ServerAssumption
    <3> QED BY <1>3, <3>1, <3>2
  <2>2. CASE ~Settled(q)
    <3>1. EventWrite /\ q = evt
      <4>1. \A w \in Workers : pc[w] = "mint_sign" => Settled(req[w].quote)
        BY DEF EventInv
      <4> QED BY <1>5, <2>2, <4>1, QuoteWriters DEF Settled, StoreTypeOK
    <3>2. Passed(q)
      BY <3>1, ServerAssumption DEF EventInv, Passed, EventWrite, ServerAssumption
    <3>3. evt' = NoInvoice
      BY <3>1 DEF EventWrite
    <3> QED BY <1>3, <3>2, <3>3, ServerAssumption DEF ServerAssumption
  <2> QED BY <2>1, <2>2
<1>6. ASSUME NEW w \in Workers, pc'[w] = "mint_sign" PROVE Settled(req[w].quote)' /\ req'[w] = req[w]
  <2>1. CASE MintReadQuote(w)
    <3>1. /\ req[w].quote \in MintQuotes
          /\ mintQuote[req[w].quote] = "paid"
          /\ UNCHANGED <<mintQuote, req>>
      BY <1>6, <2>1, RequestTyping
         DEF MintReadQuote, Goto, Return, TaskInv, MintSteps, TaskTypeOK, storeVars
    <3> QED BY <3>1 DEF Settled
  <2>2. CASE pc'[w] = pc[w] /\ req'[w] = req[w]
    <3>1. req[w].quote \in MintQuotes /\ Settled(req[w].quote)
      BY <1>6, <2>2, RequestTyping DEF EventInv, TaskInv, MintSteps
    <3> QED BY <1>4, <2>2, <3>1 DEF Settled
  <2>3. \/ \E r \in Requests : SwapVerify(w, r)
        \/ SwapSpend(w) \/ MeltProcess(w) \/ MeltSpend(w)
        \/ MeltRemoveQuote(w) \/ MeltCredit(w) \/ MeltPay(w)
        => pc'[w] # "mint_sign"
    BY DEF SwapVerify, Accept, SwapSpend, MeltProcess, MeltSpend, MeltRemoveQuote, MeltCredit,
           MeltPay, Paid, Goto, Advance, Return, TaskTypeOK
  <2> QED BY <1>6, <2>1, <2>2, <2>3, Moves
<1>7. \A w \in Workers : pc'[w] = "mint_sign" => Settled(req[w].quote)'
  BY <1>6
<1> QED BY <1>1, <1>2, <1>5, <1>6 DEF EventInv, Settled

\* With a node whose stream does not start over after a restart, and invoices
\* from outside, a redeemed quote stays redeemed: the copies that the invoice
\* task writes back are never those of a quote that was removed in between.
THEOREM StaysRedeemed ==
    ASSUME Replay = FALSE, \A m \in MeltQuotes : MeltInvoice[m] = External
    PROVE  Spec => NoResurrection
<1> DEFINE StaysRemoved == \A q \in MintQuotes : mintQuote[q] = "removed" => mintQuote'[q] = "removed"
<1>1. TypeInv /\ EventInv /\ [Next]_vars => EventInv'
  BY StepEvent
<1>2. TypeInv /\ EventInv /\ [Next]_vars => StaysRemoved
  <2> SUFFICES ASSUME TypeInv, EventInv, [Next]_vars,
                      NEW q \in MintQuotes, mintQuote[q] = "removed"
               PROVE  mintQuote'[q] = "removed"
    OBVIOUS
  <2>1. q # evt
    BY DEF EventInv, Settled
  <2> QED BY <2>1, QuoteWriters DEF TypeInv, TypeOK, StoreTypeOK
<1>3. StaysRemoved => [StaysRemoved]_vars
  OBVIOUS
<1> HIDE DEF StaysRemoved
<1>4. Spec => [][StaysRemoved]_vars
  BY <1>1, <1>2, InitTypeInv, StepTypeInv, InitEvent, PTL DEF Spec
<1> QED BY <1>4 DEF NoResurrection, StaysRemoved

-----------------------------------------------------------------------------
(* The powers of two in a number *)

\* The power of two a is in n.
Odd(n, a) == (n \div a) % 2 = 1

\* What division returns: the largest number of times d goes into n.
LEMMA Quotient ==
    ASSUME NEW n \in Nat, NEW d \in Nat \ {0}
    PROVE  /\ n \div d \in Nat
           /\ d * (n \div d) \in Nat
           /\ d * (n \div d) <= n
           /\ \A x \in Nat : d * x <= n => x <= n \div d
<1>1. n \div d \in Nat /\ d * (n \div d) \in Nat /\ d * (n \div d) <= n /\ n < d * (n \div d) + d
  OBVIOUS
<1>2. ASSUME NEW x \in Nat, d * x <= n, x >= (n \div d) + 1 PROVE FALSE
  <2>1. d * x >= d * ((n \div d) + 1)
    BY <1>1, <1>2
  <2>2. d * ((n \div d) + 1) = d * (n \div d) + d
    BY <1>1
  <2> QED BY <1>1, <1>2, <2>1, <2>2
<1> QED BY <1>1, <1>2

\* A power of two that is in n is what n has beyond the multiples of twice it.
LEMMA OddQuotient ==
    ASSUME NEW n \in Nat, NEW a \in Nat \ {0}, Odd(n, a)
    PROVE  a * (n \div a) = (2 * a) * (n \div (2 * a)) + a
<1>1. PICK m \in Nat : n \div a = 2 * m + 1
  BY Quotient DEF Odd
<1>2. a * (n \div a) = (2 * a) * m + a /\ a * (n \div a) <= n /\ (2 * a) * m \in Nat
  BY <1>1, Quotient
<1>3. n < (2 * a) * (m + 1)
  <2>1. ASSUME n >= a * (2 * m + 2) PROVE FALSE
    <3>1. 2 * m + 2 <= n \div a
      BY <2>1, Quotient
    <3> QED BY <1>1, <3>1
  <2>2. a * (2 * m + 2) = (2 * a) * (m + 1) /\ a * (2 * m + 2) \in Nat
    OBVIOUS
  <2> QED BY <2>1, <2>2
<1>4. 2 * a \in Nat \ {0}
  OBVIOUS
<1> DEFINE q == n \div (2 * a)
<1>5. q \in Nat /\ (2 * a) * q <= n /\ m <= q
  <2>1. (2 * a) * m <= n
    BY <1>2
  <2> QED BY <1>4, <2>1, Quotient
<1> HIDE DEF q
<1>6. ASSUME q >= m + 1 PROVE FALSE
  <2>1. (2 * a) * q >= (2 * a) * (m + 1)
    BY <1>4, <1>5, <1>6
  <2> QED BY <1>3, <1>4, <1>5, <2>1
<1>7. q = m
  BY <1>5, <1>6
<1> QED BY <1>2, <1>7 DEF q

\* A number is at least the sum of the powers of two in it, here listed from
\* the largest to the smallest.
LEMMA SumOfPowers ==
    ASSUME NEW n \in Nat, NEW S, S \subseteq Nat, Doubling(S), NEW l \in Nat, NEW s \in [1..l -> S],
           Descending(s), \A i \in 1..l : Odd(n, s[i])
    PROVE  Summable(s, 1..l) /\ Sum(s, 1..l) <= n
<1>0. \A i \in 1..l : s[i] \in Nat \ {0}
  <2>1. \A i \in 1..l : s[i] \in S
    OBVIOUS
  <2>2. \A a \in S : a \in Nat \ {0}
    BY DEF Doubling
  <2> QED BY <2>1, <2>2
<1>a. IsFiniteSet(1..l)
  BY FS_Interval
<1>1. Summable(s, 1..l)
  BY <1>0, <1>a DEF Summable
<1>2. \A i \in 1..(l + 1) : Summable(s, i..l) /\ Sum(s, i..l) \in Nat
  <2>1. \A i \in 1..(l + 1) : i..l \subseteq 1..l
    OBVIOUS
  <2> QED BY <1>1, <2>1, SubsetSummable, SumType
<1> DEFINE Low(i) == Sum(s, i..l) + (2 * s[i]) * (n \div (2 * s[i])) <= n
           Bad == {t \in SUBSET (1..l) : \E i \in 1..l : t = i..l /\ ~Low(i)}
<1>3. ASSUME NEW i \in 1..l, i + 1 \in 1..l => Low(i + 1) PROVE Low(i)
  <2> DEFINE a == s[i]
             rest == Sum(s, (i + 1)..l)
  <2>1. a \in Nat \ {0} /\ 2 * a \in Nat \ {0} /\ Odd(n, a)
    BY <1>0
  <2>2. Sum(s, i..l) = a + rest /\ rest \in Nat
    <3>1. i \in i..l /\ (i..l) \ {i} = (i + 1)..l /\ i + 1 \in 1..(l + 1)
      OBVIOUS
    <3>2. Summable(s, i..l) /\ Sum(s, (i + 1)..l) \in Nat
      BY <1>2, <3>1
    <3> QED BY <3>1, <3>2, SumElement
  <2>3. rest + a * (n \div a) <= n
    <3>1. CASE i = l
      <4>1. (i + 1)..l = {}
        BY <3>1
      <4>2. rest = 0
        BY <4>1, SumEmpty, Zenon
      <4>3. a * (n \div a) <= n /\ a * (n \div a) \in Nat
        BY <2>1, Quotient
      <4> QED BY <4>2, <4>3
    <3>2. CASE i # l
      <4> DEFINE b == s[i + 1]
      <4>1. i + 1 \in 1..l /\ b \in S /\ a \in S /\ b < a
        BY <3>2 DEF Descending
      <4>2. b \in Nat \ {0} /\ 2 * b \in Nat \ {0}
        BY <1>0, <4>1
      <4>3. PICK k \in Nat : a = 2 * (b * k)
        <5>1. \A x, y \in S : x < y => \E k \in 0..y : y = 2 * (x * k)
          BY DEF Doubling
        <5>2. \A y : 0..y \subseteq Nat
          OBVIOUS
        <5> HIDE DEF a, b
        <5> QED BY <4>1, <5>1, <5>2
      <4>4. rest + (2 * b) * (n \div (2 * b)) <= n
        BY <1>3, <4>1
      <4> DEFINE x == n \div a
                 y == n \div (2 * b)
      <4>5. x \in Nat /\ y \in Nat /\ a * x <= n
        BY <2>1, <4>2, Quotient
      <4> HIDE DEF rest, x, y, a, b
      <4>6. a * x = (2 * b) * (k * x) /\ k * x \in Nat
        BY <4>2, <4>3, <4>5
      <4>7. k * x <= y
        BY <4>2, <4>5, <4>6, Quotient DEF y
      <4>8. (2 * b) * (k * x) <= (2 * b) * y
        BY <4>2, <4>5, <4>6, <4>7
      <4>9. a * x \in Nat /\ (2 * b) * y \in Nat /\ rest + (2 * b) * y <= n
        BY <2>1, <4>2, <4>4, <4>5 DEF y
      <4>10. rest + a * x <= n
        BY <2>2, <4>6, <4>8, <4>9
      <4> QED BY <4>10 DEF x
    <3> QED BY <3>1, <3>2
  <2> DEFINE z == (2 * a) * (n \div (2 * a))
  <2>4. z \in Nat /\ a * (n \div a) = z + a
    BY <2>1, Quotient, OddQuotient
  <2> HIDE DEF z, a, rest
  <2>5. (a + rest) + z <= n
    BY <2>1, <2>2, <2>3, <2>4
  <2> QED BY <2>2, <2>5 DEF z, a
<1>4. Bad = {}
  <2>1. SUFFICES ASSUME Bad # {} PROVE FALSE
    OBVIOUS
  <2>2. PICK t \in Bad : \A u \in Bad : u \subseteq t => u = t
    <3> DEFINE D == 1..l
    <3>1. Bad \subseteq SUBSET D /\ IsFiniteSet(D)
      BY <1>a
    <3> HIDE DEF Bad, D
    <3> QED BY <2>1, <3>1, MinimalSubset
  <2>3. PICK i \in 1..l : t = i..l /\ ~Low(i)
    BY <2>2
  <2> HIDE DEF Low
  <2>4. i + 1 \in 1..l => Low(i + 1)
    <3>1. (i + 1)..l \subseteq t /\ (i + 1)..l # t
      BY <2>3
    <3> QED BY <2>2, <3>1
  <2> QED BY <1>3, <2>3, <2>4
<1>5. CASE l = 0
  <2>1. 1..l = {}
    BY <1>5
  <2>2. Sum(s, 1..l) = 0
    BY <2>1, SumEmpty, Zenon
  <2> QED BY <1>1, <2>2
<1>6. CASE l # 0
  <2>1. 1 \in 1..l /\ Low(1)
    <3> HIDE DEF Low
    <3>1. 1 \in 1..l /\ 1..l \in SUBSET (1..l)
      BY <1>6
    <3> QED BY <1>4, <3>1
  <2>2. 2 * s[1] \in Nat \ {0}
    BY <1>0, <2>1
  <2>3. (2 * s[1]) * (n \div (2 * s[1])) \in Nat
    BY <2>2, Quotient
  <2> DEFINE z == (2 * s[1]) * (n \div (2 * s[1]))
  <2>4. Sum(s, 1..l) + z <= n /\ z \in Nat /\ Sum(s, 1..l) \in Nat
    BY <1>2, <2>1, <2>3
  <2> HIDE DEF z
  <2> QED BY <1>1, <2>4
<1> QED BY <1>5, <1>6

\* Change is never more than what is left.
LEMMA SplitIsWithin ==
    ASSUME Doubling(KeyAmounts), IsFiniteSet(KeyAmounts), NEW n \in Nat
    PROVE  /\ SplitOverKeys(n) \in Seq(KeyAmounts)
           /\ Summable(SplitOverKeys(n), DOMAIN SplitOverKeys(n))
           /\ Sum(SplitOverKeys(n), DOMAIN SplitOverKeys(n)) <= n
<1> DEFINE S == {a \in KeyAmounts : (n \div a) % 2 = 1}
           l == Cardinality(S)
           s == SplitOverKeys(n)
<1>a. KeyAmounts \subseteq Nat
  BY StoreAssumption DEF StoreAssumption
<1>1. IsFiniteSet(S) /\ S \subseteq Nat /\ \A x \in S : x \in Int
  <2>1. S \subseteq KeyAmounts
    OBVIOUS
  <2> HIDE DEF S
  <2>2. IsFiniteSet(S)
    BY <2>1, FS_Subset
  <2> QED BY <1>a, <2>1, <2>2
<1>2. l \in Nat /\ \E t \in [1..l -> S] : Descending(t)
  BY <1>1, DescendingExists
<1>3. s = CHOOSE t \in [1..l -> S] : Descending(t)
  BY DEF SplitOverKeys, Descending
<1> HIDE DEF s, l
<1>4. s \in [1..l -> S] /\ Descending(s)
  BY <1>2, <1>3
<1>5. \A i \in 1..l : Odd(n, s[i])
  BY <1>4 DEF Odd
<1>6. Doubling(S)
  BY DEF Doubling
<1>7. s \in Seq(KeyAmounts) /\ DOMAIN s = 1..l
  <2>1. s \in [1..l -> KeyAmounts]
    BY <1>4
  <2> QED BY <1>2, <2>1
<1> HIDE DEF S
<1>8. Summable(s, 1..l) /\ Sum(s, 1..l) <= n
  BY <1>1, <1>2, <1>4, <1>5, <1>6, SumOfPowers
<1> QED BY <1>7, <1>8 DEF s

\* The sums of the ledger are finite.
FiniteMint == IsFiniteSet(Workers) /\ IsFiniteSet(MintQuotes) /\ IsFiniteSet(KeyAmounts)

\* Asked of clients and of the node, and given by the keys of the mint.
LedgerAssumptions ==
    FiniteMint /\ CarefulClients /\ FeesReserved /\ Doubling(KeyAmounts) /\ SignedBefore

\* With keys for every power of two, the change is all that is left.
LEMMA SplitIsAll ==
    ASSUME Doubling(KeyAmounts), Halving, IsFiniteSet(KeyAmounts), NEW n \in Nat, n < Word
    PROVE  Sum(SplitOverKeys(n), DOMAIN SplitOverKeys(n)) = n
<1> DEFINE S == {a \in KeyAmounts : (n \div a) % 2 = 1}
           l == Cardinality(S)
           s == SplitOverKeys(n)
           Bounds == KeyAmounts \cup {Word}
<1>1. KeyAmounts \subseteq Nat \ {0} /\ Word \in Nat \ {0}
  BY StoreAssumption DEF StoreAssumption, Doubling
<1>2. IsFiniteSet(S) /\ \A x \in S : x \in Int
  <2>1. S \subseteq KeyAmounts
    OBVIOUS
  <2> HIDE DEF S
  <2>2. IsFiniteSet(S)
    BY <2>1, FS_Subset
  <2> QED BY <1>1, <2>1, <2>2
<1>3. l \in Nat /\ \E t \in [1..l -> S] : Descending(t)
  BY <1>2, DescendingExists
<1>4. s = CHOOSE t \in [1..l -> S] : Descending(t)
  BY DEF SplitOverKeys, Descending
<1>5. \A a \in KeyAmounts : a \in S <=> Odd(n, a)
  BY DEF Odd
<1>6. S \subseteq KeyAmounts
  OBVIOUS
<1> HIDE DEF s
<1>7. s \in [1..l -> S] /\ Descending(s)
  BY <1>3, <1>4
<1>8. \A i, j \in 1..l : s[i] = s[j] => i = j
  <2>1. \A i, j \in 1..l : i < j => s[i] > s[j]
    BY <1>7 DEF Descending
  <2>2. \A i \in 1..l : s[i] \in Nat
    BY <1>1, <1>6, <1>7
  <2>3. \A i, j \in 1..l : i = j \/ i < j \/ j < i
    BY <1>3
  <2> HIDE DEF l
  <2> QED BY <2>1, <2>2, <2>3
<1>9. \A a \in S : \E i \in 1..l : s[i] = a
  <2>1. IsFiniteSet(1..l) /\ Cardinality(1..l) = l
    <3> HIDE DEF l
    <3>1. IsFiniteSet(1..l) /\ Cardinality(1..l) = IF 1 > l THEN 0 ELSE l - 1 + 1
      BY <1>3, FS_Interval
    <3> QED BY <1>3, <3>1
  <2>2. s \in Injection(1..l, S)
    BY <1>7, <1>8 DEF Injection, IsInjective
  <2>3. s \in Surjection(1..l, S)
    BY <1>2, <2>1, <2>2, FS_Injection
  <2> QED BY <2>3 DEF Surjection
<1> DEFINE Below(a) == {i \in 1..l : s[i] < a}
<1>10. \A a : Summable(s, Below(a)) /\ Below(a) \subseteq 1..l
  <2>1. IsFiniteSet(1..l)
    BY <1>3, FS_Interval
  <2>2. \A i \in 1..l : s[i] \in Nat
    BY <1>1, <1>6, <1>7
  <2>3. \A a : Below(a) \subseteq 1..l
    OBVIOUS
  <2>4. Summable(s, 1..l)
    BY <2>1, <2>2 DEF Summable
  <2> HIDE DEF Below, l
  <2> QED BY <2>3, <2>4, SubsetSummable
<1> HIDE DEF S, l
<1>11. ASSUME NEW b \in KeyAmounts, Sum(s, Below(b)) = n % b
       PROVE  Sum(s, Below(2 * b)) = n % (2 * b)
  <2>1. \A i \in 1..l : s[i] < 2 * b <=> s[i] = b \/ s[i] < b
    <3>1. SUFFICES ASSUME NEW c \in KeyAmounts PROVE c < 2 * b <=> c = b \/ c < b
      BY <1>6, <1>7
    <3>2. b < c => \E k \in 0..c : c = 2 * (b * k)
      BY DEF Doubling
    <3>3. ASSUME b < c PROVE c >= 2 * b
      <4>1. PICK k \in 0..c : c = 2 * (b * k)
        BY <3>2, <3>3
      <4>2. c \in Nat \ {0} /\ b \in Nat \ {0}
        BY <1>1
      <4>3. k \in Nat
        BY <4>2
      <4>4. k # 0
        BY <4>1, <4>2
      <4>5. b * k >= b /\ b * k \in Nat
        BY <4>2, <4>3, <4>4
      <4> QED BY <4>1, <4>2, <4>5
    <3> QED BY <1>1, <3>3
  <2>2. n % (2 * b) = IF Odd(n, b) THEN b + (n % b) ELSE n % b
    BY <1>1, RemainderOfDouble DEF Odd
  <2>3. CASE Odd(n, b)
    <3>1. PICK i \in 1..l : s[i] = b
      BY <1>5, <1>9, <2>3
    <3>2. i \in Below(2 * b) /\ Below(2 * b) \ {i} = Below(b)
      BY <1>1, <1>8, <2>1, <3>1
    <3> HIDE DEF Below
    <3>3. Sum(s, Below(2 * b)) = s[i] + Sum(s, Below(b))
      BY <1>10, <3>2, SumElement
    <3> QED BY <1>11, <2>2, <2>3, <3>1, <3>3
  <2>4. CASE ~Odd(n, b)
    <3>1. \A i \in 1..l : s[i] # b
      BY <1>5, <1>7, <2>4
    <3>2. Below(2 * b) = Below(b)
      BY <2>1, <3>1
    <3> HIDE DEF Below
    <3> QED BY <1>11, <2>2, <2>4, <3>2
  <2> QED BY <2>3, <2>4
<1>12. Sum(s, Below(1)) = n % 1
  <2>1. \A i \in 1..l : s[i] \in Nat \ {0}
    BY <1>1, <1>6, <1>7
  <2>2. Below(1) = {} /\ n % 1 = 0
    BY <2>1
  <2> HIDE DEF Below
  <2>3. Sum(s, {}) = 0
    BY SumEmpty, Zenon
  <2> QED BY <2>2, <2>3
<1> HIDE DEF Below
<1>13. \A a \in Bounds : Sum(s, Below(a)) = n % a
  <2> DEFINE Bad == {a \in Bounds : Sum(s, Below(a)) # n % a}
  <2>1. SUFFICES ASSUME Bad # {} PROVE FALSE
    OBVIOUS
  <2>2. IsFiniteSet(Bounds) /\ \A x \in Bounds : x \in Nat \ {0}
    BY <1>1, FS_AddElement
  <2>3. PICK m \in Bad : \A x \in Bad : m <= x
    <3>1. Bad \subseteq Bounds
      OBVIOUS
    <3> HIDE DEF Bad, Bounds
    <3>2. IsFiniteSet(Bad) /\ \A x \in Bad : x \in Int
      BY <2>2, <3>1, FS_Subset
    <3> QED BY <2>1, <3>2, LeastElement
  <2>4. m \in Bounds /\ m # 1
    BY <1>12, <2>3
  <2>5. PICK b \in KeyAmounts : m = 2 * b
    BY <2>4 DEF Halving
  <2>6. b \in Bounds /\ b \notin Bad
    BY <1>1, <2>3, <2>5
  <2> QED BY <1>11, <2>3, <2>5, <2>6
<1>14. Sum(s, Below(Word)) = n
  <2>1. n % Word = n
    BY <1>1
  <2> QED BY <1>13, <2>1
<1>15. Below(Word) = 1..l
  <2>1. ASSUME NEW i \in 1..l PROVE s[i] < Word
    <3>1. s[i] \in KeyAmounts /\ Odd(n, s[i])
      BY <1>5, <1>6, <1>7
    <3>2. ASSUME NEW a \in Nat \ {0}, Odd(n, a), n < a PROVE FALSE
      <4>1. n \div a = 0
        BY <3>2
      <4> QED BY <3>2, <4>1 DEF Odd
    <3>3. s[i] \in Nat \ {0}
      BY <1>1, <3>1
    <3>4. s[i] <= n
      BY <3>1, <3>2, <3>3
    <3> QED BY <1>1, <3>3, <3>4
  <2> QED BY <2>1 DEF Below
<1>16. DOMAIN s = 1..l
  BY <1>7
<1> QED BY <1>14, <1>15, <1>16 DEF s

-----------------------------------------------------------------------------
(* What the escrow covers *)

\* The value a task has taken in and not given out: inputs spent, and outputs
\* still to be signed.
Hold(w) ==
    CASE pc[w] \in {"swap_spend", "melt_spend"} -> Worth(req[w].inputs, 1..(idx[w] - 1))
      [] pc[w] = "melt_remove" -> Worth(req[w].inputs, DOMAIN req[w].inputs)
      [] pc[w] = "swap_sign" \/ (pc[w] = "mint_sign" /\ idx[w] # 1) ->
            Worth(req[w].outputs, idx[w]..Len(req[w].outputs))
      [] pc[w] = "melt_change" -> Sum(ChangeAmounts(w), idx[w]..Len(ChangeAmounts(w)))
      [] OTHER -> 0

\* A quote whose value no signature has used yet.
Unredeemed(q) ==
    /\ Funded(q)
    /\ \A r \in Requests : (r.kind = "mint" /\ r.quote = q) => NoneSigned(r.outputs)

Credit(q) == IF Unredeemed(q) THEN MintAmount[q] ELSE 0

\* What all tasks hold, and what is credited to quotes.
Held == Sum([w \in Workers |-> Hold(w)], Workers)
Credits == Sum([q \in MintQuotes |-> Credit(q)], MintQuotes)

\* The escrow has both.
Covered == escrow >= Held + Credits

-----------------------------------------------------------------------------
(* What a task knows *)

\* The proofs it is about to spend are signed, for their amount.
InputsIssued(w) ==
    pc[w] \in {"swap_spend", "melt_spend"} =>
        \A i \in idx[w]..Len(req[w].inputs) :
            \E o \in issued : o.coin = req[w].inputs[i].coin /\ o.amount = req[w].inputs[i].amount

\* Where a task is past looking its outputs up.
Committed == {"mint_quote", "mint_sign", "swap_spend", "swap_sign",
              "melt_spend", "melt_remove", "melt_change"}

\* The outputs it may still sign are not signed.
OutputsUnsigned(w) ==
    pc[w] \in Committed =>
        \A i \in DOMAIN req[w].outputs :
            (pc[w] \in SignSteps => i >= idx[w]) => ~SignatureStored(req[w].outputs[i].coin)

\* What it takes in pays for what it gives out.
Balanced(w) ==
    LET r == req[w]
    IN  /\ pc[w] \in {"swap_spend", "swap_sign"} => Value(r.inputs) = Value(r.outputs)
        /\ pc[w] \in {"melt_process", "melt_spend", "melt_remove", "melt_change"} =>
                due[w] <= MeltAmount[r.quote] + FeeReserve[r.quote]
        /\ pc[w] \in {"melt_spend", "melt_remove", "melt_change"} =>
                MeltAmount[r.quote] + FeeReserve[r.quote] <= Value(r.inputs)

TaskKnows(w) == InputsIssued(w) /\ OutputsUnsigned(w) /\ Balanced(w)

\* Every signature is for an amount the mint has a key for, each coin is signed
\* once, and only signed coins are spent.
Signatures ==
    /\ \A o \in issued : o.amount \in KeyAmounts
    /\ \A o, p \in issued : o.coin = p.coin => o = p
    /\ \A c \in Coins : Spent(c) => SignatureStored(c)

KnowsInv == Signatures /\ \A w \in Workers : TaskKnows(w)

\* The inductive invariant of the refinement.
LedgerInv == KnowsInv /\ Covered

-----------------------------------------------------------------------------
(* The sums are sums *)

\* A melt's change is a list of amounts the mint has keys for, worth no more
\* than what the payment left of the inputs.
LEMMA Change ==
    ASSUME LedgerAssumptions, TypeInv, NEW w \in Workers, pc[w] \in MeltSteps,
           due[w] <= Value(req[w].inputs)
    PROVE  /\ ChangeAmounts(w) \in Seq(KeyAmounts)
           /\ Summable(ChangeAmounts(w), DOMAIN ChangeAmounts(w))
           /\ Sum(ChangeAmounts(w), DOMAIN ChangeAmounts(w)) <= Value(req[w].inputs) - due[w]
<1>1. req[w] \in Requests /\ due[w] \in Nat
  BY DEF TypeInv, TypeOK, TaskInv, TaskTypeOK
<1>2. /\ Value(req[w].inputs) \in Nat /\ Value(req[w].inputs) < Word
      /\ Total(req[w].inputs) = Value(req[w].inputs)
  <2>1. Value(req[w].inputs) < Word
    BY <1>1 DEF LedgerAssumptions, CarefulClients
  <2>2. req[w].inputs \in Seq(Output)
    BY <1>1, Served
  <2> QED BY <2>1, <2>2, OutputsSummable, TotalIsValue
<1> DEFINE n == Value(req[w].inputs) - due[w]
<1>3. n \in Nat /\ (Total(req[w].inputs) - due[w]) % Word = n
  <2>1. Word \in Nat \ {0}
    BY StoreAssumption DEF StoreAssumption
  <2> HIDE DEF TypeInv, LedgerAssumptions
  <2> QED BY <1>1, <1>2, <2>1
<1> HIDE DEF n
<1>4. ChangeAmounts(w) = SplitOverKeys(n)
  BY <1>3 DEF ChangeAmounts
<1>5. Doubling(KeyAmounts) /\ IsFiniteSet(KeyAmounts)
  BY DEF LedgerAssumptions, FiniteMint
<1> QED BY <1>3, <1>4, <1>5, SplitIsWithin DEF n

\* A task holds a number of units.
LEMMA HoldType ==
    ASSUME LedgerAssumptions, TypeInv, NEW w \in Workers, TaskKnows(w)
    PROVE  Hold(w) \in Nat
<1> USE DEF TypeInv, TypeOK
<1>0. idx[w] \in Nat \ {0}
  BY DEF TaskTypeOK
<1>1. ASSUME req[w] \in Requests
      PROVE  /\ idx[w] \in DOMAIN req[w].inputs => Worth(req[w].inputs, 1..(idx[w] - 1)) \in Nat
             /\ Worth(req[w].inputs, DOMAIN req[w].inputs) \in Nat
             /\ Worth(req[w].outputs, idx[w]..Len(req[w].outputs)) \in Nat
  <2> DEFINE ins == req[w].inputs
             outs == req[w].outputs
  <2>1. ins \in Seq(Output) /\ outs \in Seq(Output)
    BY <1>1, Served
  <2> HIDE DEF ins, outs
  <2>2. /\ idx[w] \in DOMAIN ins => 1..(idx[w] - 1) \subseteq DOMAIN ins
        /\ idx[w]..Len(outs) \subseteq DOMAIN outs
    BY <1>0, <2>1
  <2> QED BY <2>1, <2>2, WorthLemma DEF ins, outs
<1>2. ASSUME pc[w] = "melt_change"
      PROVE  Sum(ChangeAmounts(w), idx[w]..Len(ChangeAmounts(w))) \in Nat
  <2>1. /\ req[w] \in Requests /\ req[w].quote \in MeltQuotes /\ due[w] \in Nat
    BY <1>2, RequestTyping DEF TaskInv, MeltSteps, TaskTypeOK
  <2>2. due[w] <= Value(req[w].inputs)
    <3>1. Value(req[w].inputs) \in Nat
      BY <2>1, Served, OutputsSummable
    <3>2. MeltAmount[req[w].quote] \in Nat /\ FeeReserve[req[w].quote] \in Nat
      BY <2>1, MintAssumption DEF MintAssumption
    <3> QED BY <1>2, <2>1, <3>1, <3>2 DEF TaskKnows, Balanced
  <2> DEFINE chg == ChangeAmounts(w)
  <2>3. chg \in Seq(KeyAmounts) /\ Summable(chg, DOMAIN chg)
    BY <1>2, <2>2, Change DEF MeltSteps
  <2> HIDE DEF chg
  <2>4. idx[w]..Len(chg) \subseteq DOMAIN chg
    BY <1>0, <2>3
  <2> QED BY <2>3, <2>4, SubsetSummable, SumType DEF chg
<1>3. pc[w] \in {"swap_spend", "melt_spend"} => req[w] \in Requests /\ idx[w] \in DOMAIN req[w].inputs
  BY DEF TaskInv, SwapSteps, MeltSteps
<1>4. pc[w] \in {"melt_remove", "swap_sign", "mint_sign"} => req[w] \in Requests
  BY DEF TaskInv, SwapSteps, MeltSteps, MintSteps
<1> QED BY <1>1, <1>2, <1>3, <1>4 DEF Hold

\* So do all tasks together, and so much is credited to quotes.
LEMMA SumsType ==
    ASSUME LedgerAssumptions, TypeInv, \A w \in Workers : TaskKnows(w)
    PROVE  /\ Summable([w \in Workers |-> Hold(w)], Workers)
           /\ Summable([q \in MintQuotes |-> Credit(q)], MintQuotes)
           /\ Held \in Nat /\ Credits \in Nat
           /\ \A w \in Workers : Hold(w) <= Held
<1> DEFINE f == [w \in Workers |-> Hold(w)]
           g == [q \in MintQuotes |-> Credit(q)]
<1>1. IsFiniteSet(Workers) /\ IsFiniteSet(MintQuotes)
  BY DEF LedgerAssumptions, FiniteMint
<1>2. \A w \in Workers : f[w] \in Nat
  BY HoldType
<1>3. \A q \in MintQuotes : g[q] \in Nat
  BY MintAssumption DEF Credit, MintAssumption
<1> HIDE DEF f, g
<1>4. Summable(f, Workers) /\ Summable(g, MintQuotes)
  BY <1>1, <1>2, <1>3 DEF Summable
<1>5. Sum(f, Workers) \in Nat /\ Sum(g, MintQuotes) \in Nat
  BY <1>4, SumType
<1>6. ASSUME NEW w \in Workers PROVE f[w] <= Sum(f, Workers)
  <2>1. Sum(f, Workers) = f[w] + Sum(f, Workers \ {w})
    BY <1>4, SumElement
  <2>2. Sum(f, Workers \ {w}) \in Nat
    BY <1>4, SubsetSummable, SumType
  <2> QED BY <1>2, <2>1, <2>2
<1> QED BY <1>4, <1>5, <1>6 DEF Held, Credits, f, g

\* What typing the sums takes, in one formula so that it can be primed.
Typed == LedgerAssumptions /\ TypeInv /\ \A w \in Workers : TaskKnows(w)

SumsTyped ==
    /\ \A w \in Workers : Hold(w) \in Nat /\ Hold(w) <= Held
    /\ Held \in Nat /\ Credits \in Nat

\* The same after a step.
LEMMA SumsTypeNext == Typed' => SumsTyped'
<1>1. Typed => SumsTyped
  BY HoldType, SumsType DEF Typed, SumsTyped
<1> QED BY <1>1, PTL

\* One task moves: what is held changes by what that task holds.
LEMMA HeldChange ==
    ASSUME Typed, Typed', NEW w \in Workers,
           \A v \in Workers \ {w} : Hold(v)' <= Hold(v)
    PROVE  Held' + Hold(w) <= Held + Hold(w)'
<1> DEFINE f == [v \in Workers |-> Hold(v)]
           g == [v \in Workers |-> Hold(v)']
<1>1. Summable(f, Workers)
  BY SumsType DEF Typed
<1>2. Summable(g, Workers)
  <2>1. \A v \in Workers : Hold(v)' \in Nat
    BY SumsTypeNext DEF SumsTyped
  <2> QED BY <1>1, <2>1 DEF Summable
<1>3. \A v \in Workers \ {w} : g[v] <= f[v]
  OBVIOUS
<1> HIDE DEF f, g
<1>4. Sum(g, Workers) + f[w] <= Sum(f, Workers) + g[w]
  BY <1>1, <1>2, <1>3, SumChange
<1> QED BY <1>4 DEF Held, f, g

\* So does what is credited.  Signing takes a credit away, and no step but a
\* payment gives one.
LEMMA CreditsChange ==
    ASSUME Typed, NEW q \in MintQuotes, issued \subseteq issued',
           \A p \in MintQuotes \ {q} : Funded(p)' => Funded(p)
    PROVE  Credits' + Credit(q) <= Credits + Credit(q)'
<1> DEFINE f == [p \in MintQuotes |-> Credit(p)]
           g == [p \in MintQuotes |-> Credit(p)']
<1>1. \A p \in MintQuotes : MintAmount[p] \in Nat
  BY MintAssumption DEF MintAssumption
<1>2. Summable(f, MintQuotes) /\ Summable(g, MintQuotes)
  <2>1. IsFiniteSet(MintQuotes)
    BY DEF Typed, LedgerAssumptions, FiniteMint
  <2>2. \A p \in MintQuotes : Credit(p) \in Nat /\ Credit(p)' \in Nat
    BY <1>1 DEF Credit
  <2> HIDE DEF Typed
  <2> QED BY <2>1, <2>2 DEF Summable
<1>3. ASSUME NEW p \in MintQuotes \ {q} PROVE Credit(p)' <= Credit(p)
  <2>1. Unredeemed(p)' => Unredeemed(p)
    BY DEF Unredeemed, NoneSigned, SignatureStored
  <2> QED BY <1>1, <2>1 DEF Credit
<1>4. \A p \in MintQuotes \ {q} : g[p] <= f[p]
  BY <1>3
<1> HIDE DEF f, g
<1>5. Sum(g, MintQuotes) + f[q] <= Sum(f, MintQuotes) + g[q]
  BY <1>2, <1>4, SumChange
<1> QED BY <1>5 DEF Credits, f, g

\* Without a payment nothing is credited.
LEMMA CreditsKept ==
    ASSUME Typed, issued \subseteq issued', \A q \in MintQuotes : Funded(q)' => Funded(q)
    PROVE  Credits' <= Credits
<1> DEFINE f == [p \in MintQuotes |-> Credit(p)]
           g == [p \in MintQuotes |-> Credit(p)']
<1>1. \A p \in MintQuotes : MintAmount[p] \in Nat
  BY MintAssumption DEF MintAssumption
<1>2. Summable(f, MintQuotes) /\ Summable(g, MintQuotes)
  <2>1. IsFiniteSet(MintQuotes)
    BY DEF Typed, LedgerAssumptions, FiniteMint
  <2>2. \A p \in MintQuotes : Credit(p) \in Nat /\ Credit(p)' \in Nat
    BY <1>1 DEF Credit
  <2> HIDE DEF Typed
  <2> QED BY <2>1, <2>2 DEF Summable
<1>3. ASSUME NEW p \in MintQuotes PROVE Credit(p)' <= Credit(p)
  <2>1. Unredeemed(p)' => Unredeemed(p)
    BY DEF Unredeemed, NoneSigned, SignatureStored
  <2> QED BY <1>1, <2>1 DEF Credit
<1>4. \A p \in MintQuotes : g[p] <= f[p]
  BY <1>3
<1> HIDE DEF f, g
<1>5. Sum(g, MintQuotes) <= Sum(f, MintQuotes)
  BY <1>2, <1>4, SumMonotone
<1> QED BY <1>5 DEF Credits, f, g

\* No task comes to hold more: neither do all of them.
LEMMA HeldKept ==
    ASSUME Typed, Typed', \A v \in Workers : Hold(v)' <= Hold(v)
    PROVE  Held' <= Held
<1> DEFINE f == [v \in Workers |-> Hold(v)]
           g == [v \in Workers |-> Hold(v)']
<1>1. Summable(f, Workers)
  BY SumsType DEF Typed
<1>2. Summable(g, Workers)
  BY <1>1, SumsTypeNext DEF SumsTyped, Summable
<1>3. \A v \in Workers : g[v] <= f[v]
  OBVIOUS
<1> HIDE DEF f, g
<1>4. Sum(g, Workers) <= Sum(f, Workers)
  BY <1>1, <1>2, <1>3, SumMonotone
<1> QED BY <1>4 DEF Held, f, g

-----------------------------------------------------------------------------
(* The steps, as the ledger sees them *)

\* Steps of a task that touch neither signatures nor the spent table.
Quiet(w) ==
    \/ Return(w)
    \/ ~Busy(w) /\ \E r \in Requests : MintCheckOutputs(w, r) \/ SwapVerify(w, r) \/ MeltVerify(w, r)
    \/ MintReadQuote(w) \/ MeltProcess(w) \/ MeltLookup(w) \/ MeltPay(w)

\* What the signing loop is at.
ToSign(w) ==
    LET o == req[w].outputs[idx[w]]
    IN  IF pc[w] = "melt_change" THEN [o EXCEPT !.amount = ChangeAmounts(w)[idx[w]]] ELSE o

\* It is signed.
Signs(w) ==
    /\ pc[w] \in SignSteps
    /\ idx[w] \in DOMAIN req[w].outputs
    /\ pc[w] = "melt_change" => idx[w] \in DOMAIN ChangeAmounts(w)
    /\ BlindSign(ToSign(w))
    /\ AddBlindedSignature(ToSign(w))
    /\ Advance(w)

\* No quote gets funded.
NoneFunded == \A q \in MintQuotes : Funded(q)' => Funded(q)

\* Steps in which no value moves.
QuietStep ==
    /\ UNCHANGED <<issued, spends, escrow>> /\ NoneFunded
    /\ UNCHANGED taskVars \/ ReturnAll \/ \E w \in Workers : Quiet(w)

\* Steps in which a task moves value.
LedgerStep(w) ==
    /\ SwapSpend(w) \/ MeltSpend(w) \/ MeltRemoveQuote(w) \/ Signs(w)
    /\ NoneFunded

\* Every step is of one of four sorts.
LEMMA StepsOfTheLedger ==
    ASSUME TypeInv, [Next]_vars
    PROVE  \/ QuietStep
           \/ \E q \in MintQuotes : InvoicePaid(q)
           \/ \E w \in Workers : LedgerStep(w) \/ MeltCredit(w)
<1> USE DEF vars, storeVars, taskVars, lnVars, boundVars, proofVars, quoteVars, keysetVars
<1>e. escrow \in Int
  BY DEF TypeInv, TypeOK, StoreTypeOK
<1>f. ASSUME payLog' = payLog,
             \A m \in MeltQuotes : MeltInvoice[m] \in MintQuotes =>
                (payment'[m] = "internal" => payment[m] = "internal")
      PROVE  NoneFunded
  BY <1>f DEF NoneFunded, Funded
<1>1. ASSUME NEW w \in Workers, MintHandlers(w), UNCHANGED <<lnVars, boundVars>>
      PROVE  LedgerStep(w) \/ QuietStep
  <2>1. NoneFunded
    BY <1>1, <1>f
  <2>2. ASSUME NEW o, SignOutput(w, o), pc[w] \in SignSteps, idx[w] \in DOMAIN req[w].outputs,
               pc[w] = "melt_change" => idx[w] \in DOMAIN ChangeAmounts(w),
               o = ToSign(w)
        PROVE  LedgerStep(w) \/ QuietStep
    <3>1. CASE BlindSign(o) /\ AddBlindedSignature(o) /\ Advance(w)
      BY <2>1, <2>2, <3>1 DEF LedgerStep, Signs
    <3>2. CASE Return(w) /\ UNCHANGED storeVars
      BY <2>1, <3>2 DEF QuietStep, Quiet
    <3> QED BY <2>2, <3>1, <3>2 DEF SignOutput
  <2>3. CASE MintSign(w) \/ SwapSign(w)
    BY <2>2, <2>3 DEF MintSign, SwapSign, ToSign, SignSteps
  <2>4. CASE MeltChange(w)
    BY <2>2, <2>4 DEF MeltChange, ToSign, SignSteps, ChangeIndices
  <2>5. CASE MintReadQuote(w) \/ MeltProcess(w)
    BY <2>1, <2>5 DEF QuietStep, Quiet, MintReadQuote, MeltProcess
  <2>6. CASE SwapReply(w) \/ MeltOverflow(w) \/ MeltReply(w)
    BY <2>1, <2>6 DEF QuietStep, Quiet, SwapReply, MeltOverflow, MeltReply
  <2>7. CASE MintRemoveQuote(w)
    BY <2>1, <2>7 DEF QuietStep, Quiet, MintRemoveQuote, RemoveMintQuote
  <2>8. CASE SwapSpend(w) \/ MeltSpend(w) \/ MeltRemoveQuote(w)
    BY <2>1, <2>8 DEF LedgerStep
  <2> QED BY <1>1, <2>3, <2>4, <2>5, <2>6, <2>7, <2>8 DEF MintHandlers
<1>2. ASSUME NEW w \in Workers, MeltLookup(w) \/ MeltPay(w) \/ MeltPayError(w) \/ PayAnswerLost(w)
                                \/ HandlerDropped(w)
      PROVE  QuietStep
  <2>1. UNCHANGED <<issued, spends, escrow>> /\ Quiet(w) /\ payLog' = payLog
    BY <1>2 DEF Quiet, MeltLookup, MeltPay, MeltPayError, PayAnswerLost, HandlerDropped, Paid
  <2>2. ASSUME NEW m \in MeltQuotes, MeltInvoice[m] \in MintQuotes, payment'[m] = "internal"
        PROVE  payment[m] = "internal"
    <3>1. CASE MeltPay(w) \/ PayAnswerLost(w)
      <4>1. \E s : payment' = [payment EXCEPT ![req[w].quote] = s] /\ s \in PaymentStatus
        BY <3>1, ServerAssumption DEF MeltPay, PayAnswerLost, Paid, PaymentStatus, ServerAssumption
      <4> QED BY <2>2, <4>1 DEF PaymentStatus, TypeInv, TypeOK
    <3>2. CASE payment' = payment
      BY <2>2, <3>2
    <3> QED BY <1>2, <3>1, <3>2 DEF MeltLookup, MeltPayError, HandlerDropped
  <2> QED BY <1>f, <2>1, <2>2 DEF QuietStep
<1>3. CASE System
  <2>1. CASE EventRead
    BY <2>1, <1>f DEF EventRead, QuietStep
  <2>2. CASE EventWrite
    BY <2>2, <1>e, <1>f DEF EventWrite, AddMintQuote, QuietStep
  <2>3. ASSUME NEW w \in Workers, MeltCredit(w)
        PROVE  \E v \in Workers : MeltCredit(v)
    BY <2>3
  <2> QED BY <1>3, <1>1, <1>2, <2>1, <2>2, <2>3 DEF System, ServerStep
<1>4. ASSUME NEW q \in MintQuotes, NewMintQuote(q) PROVE QuietStep
  BY <1>4, <1>e, <1>f DEF NewMintQuote, AddMintQuote, QuietStep
<1>5. CASE (\E m \in MeltQuotes : NewMeltQuote(m)) \/ (\E k \in Keysets : RotateKeyset(k))
  BY <1>5, <1>f DEF NewMeltQuote, AddMeltQuote, RotateKeyset, ActivateKeyset, QuietStep
<1>6. ASSUME NEW w \in Workers, NEW r \in Requests, Dispatch(w, r) PROVE QuietStep
  <2>1. Quiet(w)
    BY <1>6 DEF Dispatch, Quiet
  <2>2. UNCHANGED <<storeVars, lnVars>>
    BY <1>6 DEF Dispatch, MintCheckOutputs, SwapVerify, MeltVerify
  <2> QED BY <2>1, <2>2, <1>f DEF QuietStep
<1>7. CASE EventFailed \/ Restart
  BY <1>7, <1>f DEF EventFailed, Restart, QuietStep
<1>8. CASE UNCHANGED vars
  BY <1>8, <1>f DEF QuietStep
<1>9. CASE Environment
  BY <1>9, <1>2, <1>4, <1>5, <1>6, <1>7 DEF Environment
<1> QED BY <1>3, <1>8, <1>9 DEF Next

\* Task v stands still.
Still(v) == pc'[v] = pc[v] /\ req'[v] = req[v] /\ idx'[v] = idx[v] /\ due'[v] = due[v]

\* A step of one task leaves the others where they are.
LEMMA OthersStill ==
    ASSUME TypeInv, NEW w \in Workers, Quiet(w) \/ LedgerStep(w) \/ MeltCredit(w),
           NEW v \in Workers, v # w
    PROVE  Still(v)
<1> USE DEF TypeInv, TypeOK
<1>1. ASSUME \/ Return(w) \/ Advance(w)
             \/ \E step : Goto(w, step)
             \/ \E r, step : Accept(w, r, step)
             \/ \E m, status, cost : Paid(w, m, status, cost)
      PROVE  Still(v)
  BY <1>1 DEF Still, Return, Advance, Goto, Accept, Paid, TaskTypeOK
<1>2. CASE Quiet(w)
  <2>1. CASE \E r \in Requests : MintCheckOutputs(w, r) \/ SwapVerify(w, r) \/ MeltVerify(w, r)
    BY <1>1, <2>1 DEF MintCheckOutputs, SwapVerify, MeltVerify
  <2>2. CASE MintReadQuote(w) \/ MeltProcess(w) \/ MeltLookup(w)
    BY <1>1, <2>2 DEF MintReadQuote, MeltProcess, MeltLookup
  <2>3. CASE MeltPay(w)
    BY <1>1, <2>3 DEF MeltPay
  <2> QED BY <1>1, <1>2, <2>1, <2>2, <2>3 DEF Quiet
<1>3. CASE LedgerStep(w)
  BY <1>1, <1>3 DEF LedgerStep, SwapSpend, MeltSpend, MeltRemoveQuote, Signs
<1>4. CASE MeltCredit(w)
  BY <1>1, <1>4 DEF MeltCredit
<1> QED BY <1>2, <1>3, <1>4

\* A task that stands still holds what it held.
LEMMA StillHolds ==
    ASSUME NEW v \in Workers, Still(v)
    PROVE  Hold(v)' = Hold(v)
<1>1. ChangeAmounts(v)' = ChangeAmounts(v)
  BY DEF Still, ChangeAmounts
<1> QED BY <1>1 DEF Still, Hold

\* And knows what it knew, unless another task signs its outputs.
LEMMA StillKnows ==
    ASSUME NEW v \in Workers, Still(v), TaskKnows(v), issued \subseteq issued',
           pc[v] \in Committed => \A i \in DOMAIN req[v].outputs :
                SignatureStored(req[v].outputs[i].coin)' => SignatureStored(req[v].outputs[i].coin)
    PROVE  TaskKnows(v)'
<1>1. InputsIssued(v)'
  BY DEF TaskKnows, InputsIssued, Still
<1>2. OutputsUnsigned(v)'
  BY DEF TaskKnows, OutputsUnsigned, Still, SignatureStored
<1>3. Balanced(v)'
  BY DEF TaskKnows, Balanced, Still
<1> QED BY <1>1, <1>2, <1>3 DEF TaskKnows

\* Before it has spent anything a task holds nothing.
LEMMA NothingWorth ==
    ASSUME NEW ps
    PROVE  Worth(ps, 1..0) = 0
<1>1. 1..0 = {}
  OBVIOUS
<1> QED BY <1>1, SumEmpty, Zenon DEF Worth

\* A proof that verifies is signed, for its amount.
LEMMA ValidIssued ==
    ASSUME NEW r \in Requests, ProofsValid(r.inputs)
    PROVE  \A i \in 1..Len(r.inputs) :
                \E o \in issued : o.coin = r.inputs[i].coin /\ o.amount = r.inputs[i].amount
<1>1. ASSUME NEW i \in 1..Len(r.inputs)
      PROVE  \E o \in issued : o.coin = r.inputs[i].coin /\ o.amount = r.inputs[i].amount
  <2>1. r.inputs[i] \in Range(r.inputs)
    BY RequestTyping DEF Range
  <2>2. Signature(r.inputs[i]) \in issued
    BY <2>1 DEF ProofsValid, VerifyProof
  <2> QED BY <2>2 DEF Signature
<1> QED BY <1>1

\* An output list is unsigned when it is at every place.
LEMMA NoneSignedPlaces ==
    ASSUME NEW ps, NoneSigned(ps)
    PROVE  \A i \in DOMAIN ps : ~SignatureStored(ps[i].coin)
BY DEF NoneSigned, CoinsIn, Range

\* What the handlers add up is what the lists are worth.
LEMMA Totals ==
    ASSUME LedgerAssumptions, NEW r \in Requests
    PROVE  /\ Total(r.inputs) = Value(r.inputs) /\ Total(r.outputs) = Value(r.outputs)
           /\ Value(r.inputs) \in Nat /\ Value(r.outputs) \in Nat
<1>1. Value(r.inputs) < Word /\ Value(r.outputs) < Word
  BY DEF LedgerAssumptions, CarefulClients
<1>2. r.inputs \in Seq(Output) /\ r.outputs \in Seq(Output)
  BY Served
<1> QED BY <1>1, <1>2, OutputsSummable, TotalIsValue

\* A melt that verifies covers its quote and the reserve.
LEMMA MeltCovers ==
    ASSUME LedgerAssumptions, NEW r \in Requests, r.kind = "melt", MeltRequestValid(r)
    PROVE  MeltAmount[r.quote] + FeeReserve[r.quote] <= Value(r.inputs)
<1>1. r.quote \in MeltQuotes
  BY RequestTyping
<1>2. MeltAmount[r.quote] + FeeReserve[r.quote] < Word
  BY <1>1 DEF LedgerAssumptions, FeesReserved
<1>3. MeltAmount[r.quote] + FeeReserve[r.quote] \in Nat /\ Word \in Nat \ {0}
  BY <1>1, MintAssumption, StoreAssumption DEF MintAssumption, StoreAssumption
<1>4. (MeltAmount[r.quote] + FeeReserve[r.quote]) % Word = MeltAmount[r.quote] + FeeReserve[r.quote]
  BY <1>2, <1>3
<1> QED BY <1>4, Totals DEF MeltRequestValid

\* A task that neither spends nor signs: what it goes on to know.
LEMMA QuietKnows ==
    ASSUME LedgerAssumptions, TypeInv, NEW w \in Workers, TaskKnows(w), Quiet(w), issued' = issued
    PROVE  TaskKnows(w)' /\ Hold(w)' = 0
<1> USE DEF TypeInv, TypeOK
<1>1. ASSUME pc'[w] \in {"idle", "melt_lookup", "melt_credit", "melt_pay"}
      PROVE  TaskKnows(w)' /\ Hold(w)' = 0
  BY <1>1 DEF TaskKnows, InputsIssued, OutputsUnsigned, Balanced, Hold, Committed
<1>2. CASE Return(w)
  BY <1>1, <1>2 DEF Return, TaskTypeOK
<1>3. ASSUME NEW r \in Requests, MintCheckOutputs(w, r) PROVE TaskKnows(w)' /\ Hold(w)' = 0
  <2>1. pc'[w] = "mint_quote" /\ req'[w] = r
    BY <1>3 DEF MintCheckOutputs, Accept, TaskTypeOK
  <2>2. \A i \in DOMAIN r.outputs : ~SignatureStored(r.outputs[i].coin)'
    BY <1>3, NoneSignedPlaces DEF MintCheckOutputs, SignatureStored
  <2> QED BY <2>1, <2>2 DEF TaskKnows, InputsIssued, OutputsUnsigned, Balanced, Hold, SignSteps
<1>4. ASSUME NEW r \in Requests, ~Busy(w), SwapVerify(w, r) PROVE TaskKnows(w)' /\ Hold(w)' = 0
  <2>1. pc'[w] = "swap_spend" /\ req'[w] = r /\ idx'[w] = 1
    BY <1>4 DEF SwapVerify, Accept, TaskTypeOK, TaskInv, Busy
  <2>2. \A i \in DOMAIN r.outputs : ~SignatureStored(r.outputs[i].coin)'
    BY <1>4, NoneSignedPlaces DEF SwapVerify, SignatureStored
  <2>3. InputsIssued(w)'
    BY <1>4, <2>1, ValidIssued DEF SwapVerify, InputsIssued
  <2>4. Balanced(w)'
    BY <1>4, <2>1, Totals DEF SwapVerify, Balanced
  <2>5. Hold(w)' = 0
    <3>1. Hold(w)' = Worth(r.inputs, 1..(1 - 1))
      BY <2>1 DEF Hold
    <3> QED BY <3>1, NothingWorth
  <2> QED BY <2>1, <2>2, <2>3, <2>4, <2>5 DEF TaskKnows, OutputsUnsigned, SignSteps
<1>5. ASSUME NEW r \in Requests, MeltVerify(w, r) PROVE TaskKnows(w)' /\ Hold(w)' = 0
  BY <1>1, <1>5 DEF MeltVerify, Accept, TaskTypeOK
<1>6. CASE MintReadQuote(w)
  <2>1. CASE Goto(w, "mint_sign")
    <3>1. pc[w] = "mint_quote" /\ pc'[w] = "mint_sign" /\ req'[w] = req[w] /\ idx'[w] = 1
      BY <1>6, <2>1 DEF MintReadQuote, Goto, TaskTypeOK
    <3> QED BY <3>1 DEF TaskKnows, InputsIssued, OutputsUnsigned, Balanced, Hold, SignSteps,
                        Committed, SignatureStored
  <2> QED BY <1>2, <1>6, <2>1 DEF MintReadQuote
<1>7. CASE MeltProcess(w)
  <2>1. CASE MeltRequestValid(req[w]) /\ NoneSigned(req[w].outputs) /\ Goto(w, "melt_spend")
    <3> DEFINE r == req[w]
    <3>1. pc'[w] = "melt_spend" /\ req'[w] = r /\ idx'[w] = 1 /\ due'[w] = due[w]
      BY <2>1 DEF Goto, TaskTypeOK
    <3>2. r \in Requests /\ r.kind = "melt" /\ pc[w] = "melt_process"
      BY <1>7 DEF MeltProcess, TaskInv, MeltSteps
    <3>3. \A i \in DOMAIN r.outputs : ~SignatureStored(r.outputs[i].coin)'
      BY <2>1, <3>1, NoneSignedPlaces DEF SignatureStored
    <3>4. InputsIssued(w)'
      BY <2>1, <3>1, <3>2, ValidIssued DEF MeltRequestValid, InputsIssued
    <3>5. Balanced(w)'
      BY <2>1, <3>1, <3>2, MeltCovers DEF Balanced, TaskKnows
    <3>6. Hold(w)' = 0
      <4>1. Hold(w)' = Worth(r.inputs, 1..(1 - 1))
        BY <3>1 DEF Hold
      <4> QED BY <4>1, NothingWorth
    <3> QED BY <3>1, <3>3, <3>4, <3>5, <3>6 DEF TaskKnows, OutputsUnsigned, SignSteps
  <2> QED BY <1>2, <1>7, <2>1 DEF MeltProcess
<1>8. CASE MeltLookup(w)
  BY <1>1, <1>8 DEF MeltLookup, Goto, TaskTypeOK
<1>9. CASE MeltPay(w)
  <2> DEFINE m == req[w].quote
  <2>1. m \in MeltQuotes
    BY <1>9, RequestTyping DEF MeltPay, TaskInv, MeltSteps
  <2>2. PICK status, cost : Paid(w, m, status, cost) /\ cost <= MeltAmount[m] + FeeReserve[m]
    <3>1. PICK status \in PayStatuses, fee \in Fees :
                Paid(w, m, IF payment[m] = "complete" THEN "complete" ELSE status, MeltAmount[m] + fee)
      BY <1>9 DEF MeltPay
    <3>2. fee <= FeeReserve[m] /\ fee \in Nat /\ FeeReserve[m] \in Nat /\ MeltAmount[m] \in Nat
      BY <2>1, MintAssumption, ServerAssumption
         DEF LedgerAssumptions, FeesReserved, MintAssumption, ServerAssumption
    <3>3. MeltAmount[m] + fee <= MeltAmount[m] + FeeReserve[m]
      BY <3>2
    <3> QED BY <3>1, <3>3
  <2>3. pc'[w] = "melt_process" /\ req'[w] = req[w] /\ due'[w] <= MeltAmount[m] + FeeReserve[m]
    BY <2>2 DEF Paid, TaskTypeOK
  <2> QED BY <2>3 DEF TaskKnows, InputsIssued, OutputsUnsigned, Balanced, Hold, Committed
<1> QED BY <1>2, <1>3, <1>4, <1>5, <1>6, <1>7, <1>8, <1>9 DEF Quiet

-----------------------------------------------------------------------------
(* Signing *)

\* The output a signing loop has reached is fit to be signed.
LEMMA SignedOutput ==
    ASSUME TypeInv, KnowsInv, NEW w \in Workers, Signs(w)
    PROVE  /\ req[w] \in Requests /\ idx[w] \in DOMAIN req[w].outputs
           /\ ToSign(w) \in Output /\ ToSign(w).amount \in KeyAmounts
           /\ ToSign(w).coin = req[w].outputs[idx[w]].coin
           /\ pc[w] # "melt_change" => ToSign(w).amount = req[w].outputs[idx[w]].amount
           /\ ~SignatureStored(ToSign(w).coin)
           /\ issued' = issued \cup {Signature(ToSign(w))}
           /\ escrow' = escrow - ToSign(w).amount
           /\ UNCHANGED <<spends, pc, req, due>> /\ idx' = [idx EXCEPT ![w] = @ + 1]
<1> DEFINE o == req[w].outputs[idx[w]]
           s == ToSign(w)
<1>1. req[w] \in Requests /\ idx[w] \in DOMAIN req[w].outputs
  BY DEF Signs, SignSteps, TypeInv, TaskInv, MintSteps, SwapSteps, MeltSteps
<1>2. o \in Output
  BY <1>1, RequestTyping
<1>3. s.coin = o.coin /\ (pc[w] # "melt_change" => s.amount = o.amount)
  BY <1>2 DEF ToSign, Output
<1>4. s.amount \in KeyAmounts
  BY DEF Signs, BlindSign
<1>5. s \in Output
  BY <1>2, <1>4, StoreAssumption DEF ToSign, Output, StoreAssumption
<1>6. ~SignatureStored(o.coin)
  <2>1. pc[w] \in Committed /\ idx[w] >= idx[w]
    BY DEF Signs, SignSteps, Committed, TypeInv, TypeOK, TaskTypeOK
  <2> QED BY <1>1, <2>1 DEF KnowsInv, TaskKnows, OutputsUnsigned
<1>7. Signature(s) \notin issued
  BY <1>3, <1>6 DEF Signature, SignatureStored
<1>8. AddBlindedSignature(s) /\ Advance(w)
  BY DEF Signs
<1> HIDE DEF s, o
<1>9. issued' = issued \cup {Signature(s)} /\ escrow' = escrow - s.amount /\ spends' = spends
  BY <1>7, <1>8 DEF AddBlindedSignature, proofVars
<1>10. UNCHANGED <<pc, req, due>> /\ idx' = [idx EXCEPT ![w] = @ + 1]
  BY <1>8 DEF Advance
<1> QED BY <1>1, <1>3, <1>4, <1>5, <1>6, <1>9, <1>10 DEF s, o

\* A signature leaves every task knowing what it must: nobody else in flight
\* has that output.
LEMMA SignKnows ==
    ASSUME LedgerAssumptions, TypeInv, InFlightDisjoint, KnowsInv,
           NEW w \in Workers, LedgerStep(w), Signs(w)
    PROVE  Signatures' /\ \A v \in Workers : TaskKnows(v)'
<1> DEFINE s == ToSign(w)
           r == req[w]
<1>1. /\ r \in Requests /\ idx[w] \in DOMAIN r.outputs
      /\ s \in Output /\ s.amount \in KeyAmounts /\ s.coin = r.outputs[idx[w]].coin
      /\ ~SignatureStored(s.coin)
      /\ issued' = issued \cup {Signature(s)}
      /\ UNCHANGED <<spends, pc, req, due>> /\ idx' = [idx EXCEPT ![w] = @ + 1]
  BY SignedOutput
<1>2. pc[w] \in SignSteps
  BY DEF Signs
<1> HIDE DEF s
<1>3. Signature(s).coin = s.coin /\ Signature(s).amount = s.amount
  BY DEF Signature
<1>4. \A c : SignatureStored(c)' <=> SignatureStored(c) \/ c = s.coin
  BY <1>1, <1>3 DEF SignatureStored
<1>5. Signatures'
  <2>1. \A o \in issued' : o.amount \in KeyAmounts
    BY <1>1, <1>3 DEF KnowsInv, Signatures
  <2>2. \A o, p \in issued' : o.coin = p.coin => o = p
    BY <1>1, <1>3 DEF KnowsInv, Signatures, SignatureStored
  <2>3. \A c \in Coins : Spent(c)' => SignatureStored(c)'
    BY <1>1, <1>4 DEF KnowsInv, Signatures, Spent
  <2> QED BY <2>1, <2>2, <2>3 DEF Signatures
<1>6. ASSUME NEW v \in Workers, v # w PROVE TaskKnows(v)'
  <2>1. Still(v)
    BY <1>6, OthersStill
  <2>2. ASSUME pc[v] \in Committed, NEW i \in DOMAIN req[v].outputs
        PROVE  req[v].outputs[i].coin # s.coin
    <3>1. Disjoint(req[v], r)
      BY <1>2, <1>6, <2>2 DEF InFlightDisjoint, Busy, Committed, SignSteps
    <3>2. s.coin \in CoinsIn(r.outputs) /\ req[v].outputs[i].coin \in CoinsIn(req[v].outputs)
      BY <1>1, <2>2 DEF CoinsIn, Range
    <3> QED BY <3>1, <3>2 DEF Disjoint, AllCoins
  <2>3. issued \subseteq issued' /\ TaskKnows(v)
    BY <1>1 DEF KnowsInv
  <2>4. pc[v] \in Committed => \A i \in DOMAIN req[v].outputs :
            SignatureStored(req[v].outputs[i].coin)' => SignatureStored(req[v].outputs[i].coin)
    BY <1>4, <2>1, <2>2 DEF Still
  <2> QED BY <2>1, <2>3, <2>4, StillKnows
<1>7. TaskKnows(w)'
  <2>1. pc'[w] = pc[w] /\ req'[w] = r /\ due'[w] = due[w] /\ idx'[w] = idx[w] + 1 /\ idx[w] \in Nat
    BY <1>1 DEF TypeInv, TypeOK, TaskTypeOK
  <2>2. InputsIssued(w)'
    BY <1>2, <2>1 DEF InputsIssued, SignSteps
  <2>3. ASSUME NEW i \in DOMAIN r.outputs, i >= idx[w] + 1
        PROVE  ~SignatureStored(r.outputs[i].coin) /\ r.outputs[i].coin # s.coin
    <3>1. i \in Nat /\ i # idx[w] /\ i >= idx[w]
      BY <1>1, <2>1, <2>3, RequestTyping
    <3>2. r.outputs[i].coin # s.coin
      BY <1>1, <3>1 DEF LedgerAssumptions, CarefulClients
    <3>3. ~SignatureStored(r.outputs[i].coin)
      BY <1>2, <3>1 DEF KnowsInv, TaskKnows, OutputsUnsigned, Committed, SignSteps
    <3> QED BY <3>2, <3>3
  <2>4. OutputsUnsigned(w)'
    BY <1>2, <1>4, <2>1, <2>3 DEF OutputsUnsigned
  <2>5. Balanced(w)'
    BY <2>1 DEF KnowsInv, TaskKnows, Balanced
  <2> QED BY <2>2, <2>4, <2>5 DEF TaskKnows
<1> QED BY <1>5, <1>6, <1>7

\* What one task gives out leaves the rest of the escrow covered.
LEMMA StaysCovered ==
    ASSUME Typed, Typed', NEW w \in Workers, NEW a \in Int, a >= 0, Covered, escrow \in Int,
           escrow' = escrow - a,
           Held' + Hold(w) <= Held + Hold(w)',
           a + Hold(w)' + Credits' <= Hold(w) + Credits
    PROVE  Covered' /\ escrow >= a
<1> DEFINE e == escrow
           f == escrow'
           H == Held
           I == Held'
           C == Credits
           D == Credits'
           h == Hold(w)
           i == Hold(w)'
<1>1. H \in Nat /\ I \in Nat /\ C \in Nat /\ D \in Nat /\ h \in Nat /\ i \in Nat
  BY SumsType, SumsTypeNext, HoldType DEF Typed, SumsTyped
<1>2. e \in Int /\ f = e - a /\ I + h <= H + i /\ a + i + D <= h + C /\ e >= H + C
  BY DEF Covered
<1>3. Covered' <=> f >= I + D
  BY DEF Covered
<1> HIDE DEF e, f, H, I, C, D, h, i
<1>4. f >= I + D /\ e >= a
  BY <1>1, <1>2
<1> QED BY <1>3, <1>4 DEF e

\* A signature takes its amount out of what the task holds.  To a mint
\* request its first signature gives the rest of what the quote is for.
LEMMA SignHolds ==
    ASSUME LedgerAssumptions, TypeInv, KnowsInv, NEW w \in Workers, Signs(w)
    PROVE  /\ ToSign(w).amount \in Nat /\ Hold(w)' \in Nat
           /\ (pc[w] = "mint_sign" /\ idx[w] = 1) =>
                Hold(w) = 0 /\ ToSign(w).amount + Hold(w)' = Value(req[w].outputs)
           /\ ~(pc[w] = "mint_sign" /\ idx[w] = 1) =>
                Hold(w) = ToSign(w).amount + Hold(w)'
<1> DEFINE s == ToSign(w)
           r == req[w]
           i == idx[w]
           a == s.amount
<1>1. /\ r \in Requests /\ i \in DOMAIN r.outputs
      /\ s \in Output /\ s.coin = r.outputs[i].coin /\ a \in Nat
      /\ pc[w] # "melt_change" => a = r.outputs[i].amount
      /\ pc'[w] = pc[w] /\ req'[w] = r /\ due'[w] = due[w] /\ idx'[w] = i + 1
      /\ i \in Nat \ {0} /\ pc[w] \in SignSteps
  BY SignedOutput DEF Signs, TypeInv, TypeOK, TaskTypeOK, Output
<1> DEFINE outs == r.outputs
           rest == Worth(outs, (i + 1)..Len(outs))
<1>2. outs \in Seq(Output) /\ rest \in Nat /\ Worth(outs, i..Len(outs)) = outs[i].amount + rest
  <2>1. outs \in Seq(Output)
    BY <1>1, Served
  <2> HIDE DEF outs
  <2>2. i \in DOMAIN outs
    BY <1>1 DEF outs
  <2> HIDE DEF i
  <2> DEFINE S == i..Len(outs)
             T == (i + 1)..Len(outs)
  <2>3. S \subseteq DOMAIN outs /\ T \subseteq DOMAIN outs /\ i \in S /\ S \ {i} = T
    BY <2>1, <2>2
  <2> HIDE DEF S, T
  <2>4. Worth(outs, T) \in Nat
    BY <2>1, <2>3, WorthLemma
  <2>5. Worth(outs, S) = outs[i].amount + Worth(outs, S \ {i})
    BY <2>1, <2>3, WorthLemma
  <2> QED BY <2>1, <2>3, <2>4, <2>5 DEF S, T
<1>3. idx'[w] # 1
  BY <1>1
<1>4. CASE pc[w] # "melt_change"
  <2>1. Hold(w)' = rest
    BY <1>1, <1>3, <1>4 DEF Hold, SignSteps
  <2>2. CASE pc[w] = "mint_sign" /\ i = 1
    <3>1. Hold(w) = 0
      BY <2>2 DEF Hold
    <3>2. Value(outs) = Worth(outs, i..Len(outs))
      <4>1. DOMAIN outs = i..Len(outs)
        BY <1>2, <2>2
      <4> QED BY <1>2, <4>1, OutputsSummable DEF Worth
    <3> QED BY <1>1, <1>2, <1>4, <2>1, <2>2, <3>1, <3>2
  <2>3. CASE ~(pc[w] = "mint_sign" /\ i = 1)
    <3>1. Hold(w) = Worth(outs, i..Len(outs))
      BY <1>1, <1>4, <2>3 DEF Hold, SignSteps
    <3> QED BY <1>1, <1>2, <1>4, <2>1, <2>3, <3>1
  <2> QED BY <2>2, <2>3
<1>5. CASE pc[w] = "melt_change"
  <2> DEFINE chg == ChangeAmounts(w)
  <2>1. chg \in Seq(KeyAmounts) /\ Summable(chg, DOMAIN chg) /\ i \in DOMAIN chg
    <3>1. due[w] <= Value(r.inputs)
      <4>1. r.quote \in MeltQuotes
        BY <1>1, <1>5, RequestTyping DEF TypeInv, TaskInv, MeltSteps
      <4>2. MeltAmount[r.quote] \in Nat /\ FeeReserve[r.quote] \in Nat /\ due[w] \in Nat
        BY <1>1, <4>1, MintAssumption DEF MintAssumption, TypeInv, TypeOK, TaskTypeOK
      <4>3. Value(r.inputs) \in Nat
        BY <1>1, Served, OutputsSummable
      <4> QED BY <1>5, <4>2, <4>3 DEF KnowsInv, TaskKnows, Balanced
    <3> QED BY <1>1, <1>5, <3>1, Change DEF MeltSteps, Signs
  <2>2. ChangeAmounts(w)' = chg
    BY <1>1 DEF ChangeAmounts
  <2>3. a = chg[i]
    BY <1>1, <1>5, RequestTyping DEF ToSign, Output
  <2>4. Hold(w) = Sum(chg, i..Len(chg)) /\ Hold(w)' = Sum(chg, (i + 1)..Len(chg))
    BY <1>1, <1>5, <2>2 DEF Hold
  <2> HIDE DEF chg
  <2>5. /\ Sum(chg, i..Len(chg)) = chg[i] + Sum(chg, (i + 1)..Len(chg))
        /\ Sum(chg, (i + 1)..Len(chg)) \in Nat
    <3>1. /\ i..Len(chg) \subseteq DOMAIN chg /\ (i + 1)..Len(chg) \subseteq DOMAIN chg
          /\ i \in i..Len(chg) /\ (i..Len(chg)) \ {i} = (i + 1)..Len(chg)
      BY <1>1, <2>1
    <3>2. Summable(chg, i..Len(chg)) /\ Summable(chg, (i + 1)..Len(chg))
      BY <2>1, <3>1, SubsetSummable
    <3> QED BY <3>1, <3>2, SumElement, SumType
  <2> QED BY <1>1, <1>5, <2>3, <2>4, <2>5
<1> QED BY <1>4, <1>5

\* Each signature is paid for by what the task holds, the first one of a mint
\* request by the credit of its quote.
LEMMA SignCovered ==
    ASSUME RepeatsAlike, Typed, Typed', BackedInv, KnowsInv, Covered,
           NEW w \in Workers, LedgerStep(w), Signs(w)
    PROVE  Covered' /\ escrow >= ToSign(w).amount
<1> DEFINE s == ToSign(w)
           r == req[w]
           i == idx[w]
           a == s.amount
<1>1. /\ LedgerAssumptions /\ TypeInv
      /\ r \in Requests /\ i \in DOMAIN r.outputs
      /\ s \in Output /\ s.coin = r.outputs[i].coin
      /\ pc[w] # "melt_change" => a = r.outputs[i].amount
      /\ issued' = issued \cup {Signature(s)} /\ escrow' = escrow - a
      /\ pc'[w] = pc[w] /\ req'[w] = r /\ due'[w] = due[w] /\ idx'[w] = i + 1
      /\ i \in Nat \ {0}
  BY SignedOutput DEF Typed, TypeInv, TypeOK, TaskTypeOK
<1> DEFINE outs == r.outputs
<1>2. outs \in Seq(Output)
  BY <1>1, Served
<1>3. /\ Hold(w) \in Nat /\ Hold(w)' \in Nat /\ Held \in Nat /\ Held' \in Nat
      /\ Credits \in Nat /\ Credits' \in Nat /\ a \in Nat /\ escrow \in Int
  BY <1>1, SumsType, SumsTypeNext, HoldType DEF Typed, SumsTyped, Output, TypeInv, TypeOK, StoreTypeOK
<1>4. Held' + Hold(w) <= Held + Hold(w)'
  <2>1. \A v \in Workers \ {w} : Hold(v)' = Hold(v)
    BY <1>1, OthersStill, StillHolds
  <2>2. \A v \in Workers : Hold(v) \in Nat
    BY HoldType DEF Typed
  <2>3. \A v \in Workers \ {w} : Hold(v)' <= Hold(v)
    BY <2>1, <2>2
  <2> QED BY <2>3, HeldChange
<1>5. issued \subseteq issued' /\ NoneFunded
  BY <1>1 DEF LedgerStep
<1>6. CASE pc[w] = "mint_sign" /\ i = 1
  <2>1. PICK q \in MintQuotes : q = r.quote /\ r.kind = "mint"
    BY <1>1, <1>6, RequestTyping DEF TypeInv, TaskInv, MintSteps
  <2>2. Credit(q) = MintAmount[q]
    <3>1. Funded(q)
      BY <1>6, <2>1 DEF BackedInv, TaskBacked, Funded
    <3>2. NoneSigned(outs)
      <4>1. \A j \in DOMAIN outs : j >= 1
        BY <1>2
      <4>2. \A j \in DOMAIN outs : ~SignatureStored(outs[j].coin)
        BY <1>6, <4>1 DEF KnowsInv, TaskKnows, OutputsUnsigned, Committed
      <4> QED BY <4>2 DEF NoneSigned, CoinsIn, Range
    <3>3. \A x \in Requests : x.kind = "mint" /\ x.quote = q => NoneSigned(x.outputs)
      BY <1>1, <2>1, <3>2 DEF RepeatsAlike, NoneSigned
    <3> QED BY <3>1, <3>3 DEF Credit, Unredeemed
  <2>3. Credit(q)' = 0
    <3>1. Signature(s) \in issued' /\ Signature(s).coin = s.coin /\ s.coin \in CoinsIn(outs)
      BY <1>1 DEF Signature, CoinsIn, Range
    <3>2. ~NoneSigned(outs)'
      BY <1>1, <3>1 DEF NoneSigned, SignatureStored
    <3>3. ~Unredeemed(q)'
      BY <1>1, <2>1, <3>2 DEF Unredeemed
    <3> QED BY <3>3 DEF Credit
  <2>4. Credits' + MintAmount[q] <= Credits
    <3>1. Credits' + Credit(q) <= Credits + Credit(q)'
      BY <1>5, <2>1, CreditsChange DEF NoneFunded
    <3> QED BY <1>3, <2>2, <2>3, <3>1
  <2>5. Value(outs) <= MintAmount[q] /\ MintAmount[q] \in Nat /\ Value(outs) \in Nat
    BY <1>1, <1>2, <2>1, OutputsSummable, MintAssumption
       DEF LedgerAssumptions, CarefulClients, MintAssumption
  <2>6. Hold(w) = 0 /\ a + Hold(w)' = Value(outs)
    BY <1>1, <1>6, SignHolds
  <2>7. a + Hold(w)' + Credits' <= Hold(w) + Credits
    BY <1>1, <1>2, <1>3, <1>6, <2>4, <2>5, <2>6
  <2> QED BY <1>1, <1>3, <1>4, <2>7, StaysCovered DEF KnowsInv
<1>7. CASE ~(pc[w] = "mint_sign" /\ i = 1)
  <2>1. Credits' <= Credits
    BY <1>5, CreditsKept DEF NoneFunded
  <2>2. Hold(w) = a + Hold(w)'
    BY <1>1, <1>7, SignHolds
  <2>3. a + Hold(w)' + Credits' <= Hold(w) + Credits
    BY <1>3, <2>1, <2>2
  <2> QED BY <1>1, <1>3, <1>4, <2>3, StaysCovered DEF KnowsInv
<1> QED BY <1>6, <1>7

\* To the ledger, a signature is an issue.
LEMMA SignIssues ==
    ASSUME TypeInv, KnowsInv, NEW w \in Workers, Signs(w), escrow >= ToSign(w).amount
    PROVE  L!Next
<1> DEFINE s == ToSign(w)
           o == Signature(s)
           live == {x \in issued : ~Spent(x.coin)}
           dead == {x \in issued : Spent(x.coin)}
           Signed == [coin : Coins, amount : KeyAmounts, keys : Keysets \cup {SeedKeys}]
<1>1. /\ s \in Output /\ s.amount \in KeyAmounts /\ ~SignatureStored(s.coin)
      /\ issued' = issued \cup {o} /\ escrow' = escrow - s.amount /\ spends' = spends
  BY SignedOutput
<1> HIDE DEF s
<1>2. o.coin = s.coin /\ o.amount = s.amount /\ o \in Signed
  BY <1>1 DEF Signature, KeysOf, Output
<1>3. ~Spent(o.coin)
  BY <1>1, <1>2 DEF KnowsInv, Signatures, Output
<1>4. o.coin \notin {x.coin : x \in live \cup dead}
  BY <1>1, <1>2 DEF SignatureStored
<1>5. live' = live \cup {o} /\ dead' = dead
  BY <1>1, <1>3 DEF Spent
<1>6. escrow >= o.amount /\ escrow' = escrow - o.amount
  BY <1>1, <1>2 DEF s
<1> HIDE DEF o
<1>7. L!Issue(o)
  BY <1>4, <1>5, <1>6 DEF L!Issue, L!CoinsOf
<1> QED BY <1>2, <1>7 DEF L!Next

-----------------------------------------------------------------------------
(* Spending *)

\* A spending loop is at a coin that is signed, for its amount, and unspent.
LEMMA SpentInput ==
    ASSUME TypeInv, SpendInv, KnowsInv, NEW w \in Workers, SwapSpend(w) \/ MeltSpend(w)
    PROVE  /\ req[w] \in Requests /\ idx[w] \in DOMAIN req[w].inputs
           /\ Input(w) = req[w].inputs[idx[w]] /\ Input(w) \in Output
           /\ spends[Input(w).coin] = 0
           /\ spends' = [spends EXCEPT ![Input(w).coin] = @ + 1]
           /\ escrow' = escrow + Input(w).amount
           /\ issued' = issued
           /\ \E o \in issued : o.coin = Input(w).coin /\ o.amount = Input(w).amount
<1>1. /\ req[w] \in Requests /\ idx[w] \in DOMAIN req[w].inputs
      /\ spends' = [spends EXCEPT ![Input(w).coin] = @ + 1]
  BY InputSpent
<1>2. Input(w) = req[w].inputs[idx[w]] /\ Input(w) \in Output
  BY <1>1, RequestTyping DEF Input
<1>3. pc[w] \in {"swap_spend", "melt_spend"} /\ idx[w] \in idx[w]..Len(req[w].inputs)
  BY <1>1, RequestTyping DEF SwapSpend, MeltSpend
<1>4. spends[Input(w).coin] = 0
  BY <1>2, <1>3 DEF SpendInv, UnspentAhead
<1>5. escrow' = escrow + Input(w).amount /\ issued' = issued
  BY <1>4 DEF SwapSpend, MeltSpend, AddSpentProof, Spent
<1>6. \E o \in issued : o.coin = Input(w).coin /\ o.amount = Input(w).amount
  BY <1>2, <1>3 DEF KnowsInv, TaskKnows, InputsIssued
<1> QED BY <1>1, <1>2, <1>4, <1>5, <1>6

\* To the ledger, the first write to the spent table is a spend.
LEMMA SpendSpends ==
    ASSUME TypeInv, SpendInv, KnowsInv, NEW w \in Workers, SwapSpend(w) \/ MeltSpend(w)
    PROVE  L!Next
<1> DEFINE p == Input(w)
           live == {x \in issued : ~Spent(x.coin)}
           dead == {x \in issued : Spent(x.coin)}
           Signed == [coin : Coins, amount : KeyAmounts, keys : Keysets \cup {SeedKeys}]
<1>1. /\ p \in Output /\ spends[p.coin] = 0 /\ spends' = [spends EXCEPT ![p.coin] = @ + 1]
      /\ escrow' = escrow + p.amount /\ issued' = issued
      /\ \E o \in issued : o.coin = p.coin /\ o.amount = p.amount
  BY SpentInput
<1> HIDE DEF p
<1>2. PICK o \in issued : o.coin = p.coin /\ o.amount = p.amount
  BY <1>1
<1>3. o \in Signed
  BY <1>2 DEF KnowsInv, Signatures, TypeInv, TypeOK, StoreTypeOK, BlindSignature
<1>4. \A x \in issued : Spent(x.coin)' <=> Spent(x.coin) \/ x = o
  <2>1. \A x \in issued : x.coin = p.coin <=> x = o
    BY <1>2 DEF KnowsInv, Signatures
  <2>2. \A x \in issued : x.coin \in Coins
    BY DEF TypeInv, TypeOK, StoreTypeOK, BlindSignature
  <2>3. \A c \in Coins : spends[c] \in Nat /\ (spends'[c] > 0 <=> spends[c] > 0 \/ c = p.coin)
    BY <1>1 DEF TypeInv, TypeOK, StoreTypeOK, Output
  <2> QED BY <2>1, <2>2, <2>3 DEF Spent
<1>5. ~Spent(o.coin)
  BY <1>1, <1>2 DEF Spent
<1>6. o \in live /\ live' = live \ {o} /\ dead' = dead \cup {o}
  BY <1>1, <1>2, <1>4, <1>5
<1>7. L!Spend(o)
  BY <1>1, <1>2, <1>6 DEF L!Spend
<1> QED BY <1>3, <1>7 DEF L!Next

\* Spending leaves every task knowing what it must.
LEMMA SpendKnows ==
    ASSUME TypeInv, SpendInv, KnowsInv, NEW w \in Workers, LedgerStep(w),
           SwapSpend(w) \/ MeltSpend(w)
    PROVE  Signatures' /\ \A v \in Workers : TaskKnows(v)'
<1> USE DEF TypeInv, TypeOK
<1> DEFINE p == Input(w)
<1>1. /\ p \in Output /\ spends' = [spends EXCEPT ![p.coin] = @ + 1] /\ issued' = issued
      /\ \E o \in issued : o.coin = p.coin /\ o.amount = p.amount
  BY SpentInput
<1> HIDE DEF p
<1>2. Signatures'
  <2>1. SignatureStored(p.coin) /\ p.coin \in Coins
    BY <1>1 DEF SignatureStored, Output
  <2>2. \A c \in Coins : Spent(c)' => Spent(c) \/ c = p.coin
    BY <1>1 DEF Spent, StoreTypeOK
  <2>3. \A c \in Coins : Spent(c)' => SignatureStored(c)
    BY <2>1, <2>2 DEF KnowsInv, Signatures
  <2> QED BY <1>1, <2>3 DEF KnowsInv, Signatures, SignatureStored
<1>3. ASSUME NEW v \in Workers, v # w PROVE TaskKnows(v)'
  <2>1. Still(v)
    BY <1>3, OthersStill
  <2>2. TaskKnows(v) /\ issued \subseteq issued'
    BY <1>1 DEF KnowsInv
  <2>3. pc[v] \in Committed => \A i \in DOMAIN req[v].outputs :
            SignatureStored(req[v].outputs[i].coin)' => SignatureStored(req[v].outputs[i].coin)
    BY <1>1, <2>1 DEF Still, SignatureStored
  <2> QED BY <2>1, <2>2, <2>3, StillKnows
<1>4. TaskKnows(w)'
  <2>1. TaskKnows(w)
    BY DEF KnowsInv
  <2>2. CASE Advance(w)
    <3>1. /\ pc'[w] = pc[w] /\ req'[w] = req[w] /\ due'[w] = due[w] /\ idx'[w] = idx[w] + 1
          /\ idx[w] \in Nat
          /\ pc[w] \in {"swap_spend", "melt_spend"}
      BY <2>2 DEF Advance, TaskTypeOK, SwapSpend, MeltSpend
    <3>2. InputsIssued(w)'
      BY <1>1, <2>1, <3>1 DEF TaskKnows, InputsIssued
    <3>3. OutputsUnsigned(w)'
      BY <1>1, <2>1, <3>1 DEF TaskKnows, OutputsUnsigned, SignatureStored, SignSteps, Committed
    <3>4. Balanced(w)'
      BY <2>1, <3>1 DEF TaskKnows, Balanced
    <3> QED BY <3>2, <3>3, <3>4 DEF TaskKnows
  <2>3. ASSUME NEW step, Goto(w, step),
               \/ pc[w] = "swap_spend" /\ step = "swap_sign"
               \/ pc[w] = "melt_spend" /\ step = "melt_remove"
        PROVE  TaskKnows(w)'
    <3>1. /\ pc'[w] = step /\ req'[w] = req[w] /\ due'[w] = due[w] /\ idx'[w] = 1
      BY <2>3 DEF Goto, TaskTypeOK
    <3>2. InputsIssued(w)'
      BY <2>3, <3>1 DEF InputsIssued
    <3>3. OutputsUnsigned(w)'
      BY <1>1, <2>1, <2>3, <3>1 DEF TaskKnows, OutputsUnsigned, SignatureStored, SignSteps, Committed
    <3>4. Balanced(w)'
      BY <2>1, <2>3, <3>1 DEF TaskKnows, Balanced
    <3> QED BY <3>2, <3>3, <3>4 DEF TaskKnows
  <2> QED BY <2>2, <2>3 DEF SwapSpend, MeltSpend
<1> QED BY <1>2, <1>3, <1>4

\* What a spent input is worth the task holds from then on.
LEMMA SpendHolds ==
    ASSUME TypeInv, SpendInv, KnowsInv, NEW w \in Workers, SwapSpend(w) \/ MeltSpend(w)
    PROVE  /\ Input(w).amount \in Nat /\ escrow' = escrow + Input(w).amount
           /\ Hold(w) \in Nat /\ Hold(w)' = Input(w).amount + Hold(w)
<1> DEFINE p == Input(w)
           r == req[w]
           i == idx[w]
           ins == r.inputs
<1>1. /\ TaskKnows(w)
      /\ r \in Requests /\ i \in DOMAIN ins /\ p = ins[i] /\ p \in Output
      /\ escrow' = escrow + p.amount /\ issued' = issued
      /\ i \in Nat \ {0}
  BY SpentInput DEF KnowsInv, TypeInv, TypeOK, TaskTypeOK
<1>2. ins \in Seq(Output)
  BY <1>1, Served
<1>3. /\ Worth(ins, 1..i) = p.amount + Worth(ins, 1..(i - 1))
      /\ Worth(ins, 1..i) \in Nat /\ Worth(ins, 1..(i - 1)) \in Nat
  <2> HIDE DEF ins, p
  <2>1. /\ 1..i \subseteq DOMAIN ins /\ 1..(i - 1) \subseteq DOMAIN ins
        /\ i \in 1..i /\ (1..i) \ {i} = 1..(i - 1)
    BY <1>1, <1>2
  <2> QED BY <1>1, <1>2, <2>1, WorthLemma
<1>4. Hold(w) = Worth(ins, 1..(i - 1))
  BY DEF Hold, SwapSpend, MeltSpend
<1>5. Hold(w)' = Worth(ins, 1..i)
  <2>1. CASE Advance(w)
    <3>1. pc'[w] = pc[w] /\ req'[w] = r /\ idx'[w] = i + 1
      BY <1>1, <2>1 DEF Advance, TypeInv, TypeOK, TaskTypeOK
    <3>2. idx'[w] - 1 = i
      BY <1>1, <3>1
    <3> QED BY <3>1, <3>2 DEF Hold, SwapSpend, MeltSpend
  <2>2. CASE i = Len(ins) /\ pc[w] = "swap_spend" /\ Goto(w, "swap_sign")
    <3>1. pc'[w] = "swap_sign" /\ req'[w] = r /\ idx'[w] = 1
      BY <1>1, <2>2 DEF Goto, TypeInv, TypeOK, TaskTypeOK
    <3>2. Hold(w)' = Worth(r.outputs, 1..Len(r.outputs))
      BY <3>1 DEF Hold
    <3>3. r.outputs \in Seq(Output)
      BY <1>1, Served
    <3>4. DOMAIN ins = 1..i /\ DOMAIN r.outputs = 1..Len(r.outputs)
      BY <1>2, <2>2, <3>3
    <3>5. Value(ins) = Value(r.outputs)
      BY <1>1, <2>2 DEF TaskKnows, Balanced
    <3>6. Value(ins) = Worth(ins, DOMAIN ins) /\ Value(r.outputs) = Worth(r.outputs, DOMAIN r.outputs)
      BY <1>2, <3>3, OutputsSummable DEF Worth
    <3> QED BY <3>2, <3>4, <3>5, <3>6
  <2>3. CASE i = Len(ins) /\ pc[w] = "melt_spend" /\ Goto(w, "melt_remove")
    <3>1. pc'[w] = "melt_remove" /\ req'[w] = r
      BY <1>1, <2>3 DEF Goto, TypeInv, TypeOK, TaskTypeOK
    <3>2. Hold(w)' = Worth(ins, DOMAIN ins)
      BY <3>1 DEF Hold
    <3>3. DOMAIN ins = 1..i
      BY <1>2, <2>3
    <3> QED BY <3>2, <3>3
  <2> QED BY <2>1, <2>2, <2>3 DEF SwapSpend, MeltSpend
<1> QED BY <1>1, <1>3, <1>4, <1>5 DEF Output

\* And the escrow covers it.
LEMMA SpendCovered ==
    ASSUME Typed, Typed', SpendInv, KnowsInv, Covered, NEW w \in Workers, LedgerStep(w),
           SwapSpend(w) \/ MeltSpend(w)
    PROVE  Covered'
<1>1. /\ TypeInv /\ LedgerAssumptions /\ issued' = issued
      /\ Input(w).amount \in Nat /\ escrow' = escrow + Input(w).amount
      /\ Hold(w) \in Nat /\ Hold(w)' = Input(w).amount + Hold(w)
  BY SpentInput, SpendHolds DEF Typed
<1>6. Held' + Hold(w) <= Held + Hold(w)'
  <2>1. \A v \in Workers \ {w} : Hold(v)' = Hold(v)
    BY <1>1, OthersStill, StillHolds
  <2>2. \A v \in Workers : Hold(v) \in Nat
    BY HoldType DEF Typed
  <2>3. \A v \in Workers \ {w} : Hold(v)' <= Hold(v)
    BY <2>1, <2>2
  <2> QED BY <2>3, HeldChange
<1>7. Credits' <= Credits
  BY <1>1, CreditsKept DEF LedgerStep, NoneFunded
<1> DEFINE a == Input(w).amount
           H == Held
           I == Held'
           C == Credits
           D == Credits'
           k == Hold(w)
           m == Hold(w)'
           e == escrow
           f == escrow'
<1>8. /\ H \in Nat /\ I \in Nat /\ C \in Nat /\ D \in Nat /\ e \in Int /\ a \in Nat
      /\ k \in Nat /\ m \in Nat /\ m = a + k /\ I + k <= H + m /\ D <= C
      /\ e >= H + C /\ f = e + a
  <2>1. I \in Nat /\ D \in Nat
    BY SumsTypeNext DEF SumsTyped
  <2>2. H \in Nat /\ C \in Nat
    BY SumsType DEF Typed
  <2>3. e \in Int /\ e >= H + C
    BY DEF Covered, Typed, TypeInv, TypeOK, StoreTypeOK
  <2>4. f = e + a /\ a \in Nat /\ k \in Nat /\ m = a + k /\ D <= C
    BY <1>1, <1>7
  <2>5. I + k <= H + m
    BY <1>6
  <2> HIDE DEF a, H, I, C, D, k, m, e, f
  <2>6. m \in Nat
    BY <2>4
  <2> QED BY <2>1, <2>2, <2>3, <2>4, <2>5, <2>6
<1> HIDE DEF a, H, I, C, D, k, m, e, f
<1>9. f >= I + D
  BY <1>8
<1> QED BY <1>9 DEF f, I, D, Covered

-----------------------------------------------------------------------------
(* Paying *)

\* Nothing a task does before it signs makes a signature or forgets one.
LEMMA SameSignatures ==
    ASSUME KnowsInv, issued' = issued, spends' = spends
    PROVE  Signatures'
BY DEF KnowsInv, Signatures, SignatureStored, Spent

\* A task that stands still knows what it knew when nothing is signed.
LEMMA StillKnowsUnsigned ==
    ASSUME NEW v \in Workers, Still(v), TaskKnows(v), issued' = issued
    PROVE  TaskKnows(v)'
<1>1. pc[v] \in Committed => \A i \in DOMAIN req[v].outputs :
            SignatureStored(req[v].outputs[i].coin)' => SignatureStored(req[v].outputs[i].coin)
  BY DEF Still, SignatureStored
<1> QED BY <1>1, StillKnows

\* A melt that has spent its inputs: what it pays, and what is left of them.
LEMMA MeltPays ==
    ASSUME LedgerAssumptions, TypeInv, NEW w \in Workers, TaskKnows(w), pc[w] = "melt_remove"
    PROVE  /\ req[w] \in Requests /\ due[w] \in Nat /\ Value(req[w].inputs) \in Nat
           /\ due[w] <= Value(req[w].inputs)
           /\ Hold(w) = Value(req[w].inputs)
<1>1. req[w] \in Requests /\ req[w].quote \in MeltQuotes /\ due[w] \in Nat
  BY RequestTyping DEF TypeInv, TypeOK, TaskInv, TaskTypeOK, MeltSteps
<1>2. MeltAmount[req[w].quote] \in Nat /\ FeeReserve[req[w].quote] \in Nat
  BY <1>1, MintAssumption DEF MintAssumption
<1>3. Value(req[w].inputs) \in Nat /\ Value(req[w].inputs) = Worth(req[w].inputs, DOMAIN req[w].inputs)
  BY <1>1, Served, OutputsSummable DEF Worth
<1>4. due[w] <= Value(req[w].inputs)
  BY <1>1, <1>2, <1>3 DEF TaskKnows, Balanced
<1> QED BY <1>1, <1>3, <1>4 DEF Hold

\* After a step too, a melt at its change has no more of it than is left.
LEMMA ChangeAfter == Typed' =>
    \A w \in Workers : pc'[w] = "melt_change" =>
        LET chg == ChangeAmounts(w)'
        IN  /\ due'[w] <= Value(req'[w].inputs)
            /\ Sum(chg, DOMAIN chg) <= Value(req'[w].inputs) - due'[w]
            /\ DOMAIN chg = 1..Len(chg)
<1> DEFINE After ==
        \A w \in Workers : pc[w] = "melt_change" =>
            LET chg == ChangeAmounts(w)
            IN  /\ due[w] <= Value(req[w].inputs)
                /\ Sum(chg, DOMAIN chg) <= Value(req[w].inputs) - due[w]
                /\ DOMAIN chg = 1..Len(chg)
<1>1. Typed => After
  <2> SUFFICES ASSUME Typed, NEW w \in Workers, pc[w] = "melt_change"
               PROVE  /\ due[w] <= Value(req[w].inputs)
                      /\ Sum(ChangeAmounts(w), DOMAIN ChangeAmounts(w)) <= Value(req[w].inputs) - due[w]
                      /\ DOMAIN ChangeAmounts(w) = 1..Len(ChangeAmounts(w))
    OBVIOUS
  <2>1. /\ req[w] \in Requests /\ req[w].quote \in MeltQuotes /\ due[w] \in Nat
    BY RequestTyping DEF Typed, TypeInv, TypeOK, TaskInv, TaskTypeOK, MeltSteps
  <2>2. MeltAmount[req[w].quote] \in Nat /\ FeeReserve[req[w].quote] \in Nat
    BY <2>1, MintAssumption DEF MintAssumption
  <2>3. Value(req[w].inputs) \in Nat
    BY <2>1, Served, OutputsSummable
  <2>4. due[w] <= Value(req[w].inputs)
    BY <2>1, <2>2, <2>3 DEF Typed, TaskKnows, Balanced
  <2>5. LedgerAssumptions /\ TypeInv /\ pc[w] \in MeltSteps
    BY DEF Typed, MeltSteps
  <2> DEFINE chg == ChangeAmounts(w)
  <2>6. chg \in Seq(KeyAmounts) /\ Sum(chg, DOMAIN chg) <= Value(req[w].inputs) - due[w]
    BY <2>4, <2>5, Change
  <2> HIDE DEF chg
  <2>7. DOMAIN chg = 1..Len(chg)
    BY <2>6
  <2> QED BY <2>4, <2>6, <2>7 DEF chg
<1> HIDE DEF After
<1>2. Typed' => After'
  BY <1>1, PTL
<1> QED BY <1>2 DEF After

\* When a melt's quote goes, every task knows what it must.
LEMMA RemoveKnows ==
    ASSUME TypeInv, KnowsInv, NEW w \in Workers, LedgerStep(w), MeltRemoveQuote(w)
    PROVE  Signatures' /\ \A v \in Workers : TaskKnows(v)'
<1>1. /\ issued' = issued /\ spends' = spends /\ pc[w] = "melt_remove"
      /\ pc'[w] = "melt_change" /\ req'[w] = req[w] /\ due'[w] = due[w] /\ idx'[w] = 1
  BY DEF MeltRemoveQuote, RemoveMeltQuote, proofVars, Goto, TypeInv, TypeOK, TaskTypeOK
<1>2. ASSUME NEW v \in Workers, v # w PROVE TaskKnows(v)'
  <2>1. Still(v)
    BY <1>2, OthersStill
  <2>2. TaskKnows(v)
    BY DEF KnowsInv
  <2> QED BY <1>1, <2>1, <2>2, StillKnowsUnsigned
<1>3. TaskKnows(w)'
  <2>1. TaskKnows(w)
    BY DEF KnowsInv
  <2>2. InputsIssued(w)'
    BY <1>1 DEF InputsIssued
  <2>3. OutputsUnsigned(w)'
    BY <1>1, <2>1 DEF TaskKnows, OutputsUnsigned, SignatureStored, SignSteps, Committed
  <2>4. Balanced(w)'
    BY <1>1, <2>1 DEF TaskKnows, Balanced
  <2> QED BY <2>2, <2>3, <2>4 DEF TaskKnows
<1> QED BY <1>1, <1>2, <1>3, SameSignatures

\* The payment and the change together are no more than the inputs.
LEMMA RemoveCovered ==
    ASSUME Typed, Typed', KnowsInv, Covered, NEW w \in Workers, LedgerStep(w), MeltRemoveQuote(w)
    PROVE  Covered' /\ L!Next
<1> DEFINE n == Value(req[w].inputs)
           d == due[w]
           chg == ChangeAmounts(w)'
           s == Sum(chg, DOMAIN chg)
<1>1. /\ issued' = issued /\ spends' = spends /\ pc[w] = "melt_remove"
      /\ pc'[w] = "melt_change" /\ req'[w] = req[w] /\ due'[w] = d /\ idx'[w] = 1
      /\ escrow' = escrow - d
  BY DEF MeltRemoveQuote, RemoveMeltQuote, proofVars, Goto, Typed, TypeInv, TypeOK, TaskTypeOK
<1>2. d \in Nat /\ n \in Nat /\ d <= n /\ Hold(w) = n
  BY <1>1, MeltPays DEF Typed
<1>3. s <= n - d /\ DOMAIN chg = 1..Len(chg)
  BY <1>1, ChangeAfter
<1>4. Hold(w)' = s
  BY <1>1, <1>3 DEF Hold
<1>5. Held' + Hold(w) <= Held + Hold(w)'
  <2>1. \A v \in Workers \ {w} : Hold(v)' = Hold(v)
    BY OthersStill, StillHolds DEF Typed
  <2>2. \A v \in Workers : Hold(v) \in Nat
    BY HoldType DEF Typed
  <2>3. \A v \in Workers \ {w} : Hold(v)' <= Hold(v)
    BY <2>1, <2>2
  <2> QED BY <2>3, HeldChange
<1>6. Credits' <= Credits
  BY <1>1, CreditsKept DEF LedgerStep, NoneFunded
<1>7. /\ Hold(w)' \in Nat /\ Held' \in Nat /\ Credits' \in Nat /\ Credits \in Nat
      /\ escrow \in Int /\ Covered
  BY SumsType, SumsTypeNext DEF Typed, SumsTyped, TypeInv, TypeOK, StoreTypeOK, KnowsInv
<1> HIDE DEF n, d, chg, s
<1>8. d + Hold(w)' + Credits' <= Hold(w) + Credits
  BY <1>2, <1>3, <1>4, <1>6, <1>7
<1>9. escrow' = escrow - d /\ d \in Int /\ d >= 0
  BY <1>1, <1>2 DEF d
<1>10. Covered' /\ escrow >= d
  BY <1>5, <1>7, <1>8, <1>9, StaysCovered
<1>11. L!Withdraw
  <2>1. escrow' \in 0..escrow
    BY <1>2, <1>7, <1>9, <1>10
  <2>2. \A x : Spent(x)' <=> Spent(x)
    BY <1>1 DEF Spent
  <2> QED BY <1>1, <2>1, <2>2 DEF L!Withdraw, Spent
<1> QED BY <1>10, <1>11 DEF L!Next

-----------------------------------------------------------------------------
(* Being paid *)

\* What is received covers the credit it gives.
LEMMA ReceivedCovers ==
    ASSUME Typed, Typed', NEW a \in Nat, KnowsInv, Covered, escrow' = escrow + a,
           Held' <= Held, Credits' <= Credits + a
    PROVE  Covered'
<1> DEFINE e == escrow
           f == escrow'
           H == Held
           I == Held'
           C == Credits
           D == Credits'
<1>1. /\ H \in Nat /\ I \in Nat /\ C \in Nat /\ D \in Nat /\ e \in Int
      /\ f = e + a /\ e >= H + C /\ I <= H /\ D <= C + a
  BY SumsType, SumsTypeNext DEF Typed, SumsTyped, KnowsInv, Covered, TypeInv, TypeOK, StoreTypeOK
<1> HIDE DEF e, f, H, I, C, D
<1>2. f >= I + D
  BY <1>1
<1> QED BY <1>2 DEF Covered, e, f, I, D

\* A quote is credited its amount or nothing.
LEMMA CreditIs ==
    ASSUME NEW q \in MintQuotes
    PROVE  MintAmount[q] \in Nat /\ Credit(q) \in {0, MintAmount[q]} /\ Credit(q)' \in {0, MintAmount[q]}
BY MintAssumption DEF MintAssumption, Credit

\* One quote is funded: its value is received.
LEMMA FundingCovers ==
    ASSUME Typed, Typed', KnowsInv, Covered, NEW q \in MintQuotes, issued' = issued,
           escrow' = escrow + MintAmount[q],
           \A p \in MintQuotes \ {q} : Funded(p)' => Funded(p),
           \A v \in Workers : Hold(v)' <= Hold(v)
    PROVE  Covered'
<1>1. Held' <= Held
  BY HeldKept
<1>2. Credits' + Credit(q) <= Credits + Credit(q)'
  BY CreditsChange
<1>3. Credits' <= Credits + MintAmount[q]
  <2> DEFINE C == Credits
             D == Credits'
             x == Credit(q)
             y == Credit(q)'
             a == MintAmount[q]
  <2>1. /\ C \in Nat /\ D \in Nat /\ a \in Nat /\ x \in {0, a} /\ y \in {0, a}
        /\ D + x <= C + y
    BY <1>2, CreditIs, SumsType, SumsTypeNext DEF Typed, SumsTyped
  <2> HIDE DEF C, D, x, y, a
  <2>2. D <= C + a
    BY <2>1
  <2> QED BY <2>2 DEF C, D, a
<1> QED BY <1>1, <1>3, CreditIs, ReceivedCovers

\* A payment to the node leaves the tasks alone.
LEMMA PaidKnows ==
    ASSUME KnowsInv, NEW q \in MintQuotes, InvoicePaid(q)
    PROVE  Signatures' /\ \A v \in Workers : TaskKnows(v)' /\ Hold(v)' = Hold(v)
<1>1. UNCHANGED <<issued, spends, pc, req, idx, due>>
  BY DEF InvoicePaid, proofVars, taskVars
<1>2. ASSUME NEW v \in Workers PROVE TaskKnows(v)' /\ Hold(v)' = Hold(v)
  <2>1. Still(v)
    BY <1>1 DEF Still
  <2> QED BY <1>1, <2>1, StillKnowsUnsigned, StillHolds DEF KnowsInv
<1> QED BY <1>1, <1>2, SameSignatures

\* To the ledger, a payment to the node is a receipt.
LEMMA PaidCovered ==
    ASSUME Typed, Typed', KnowsInv, Covered, NEW q \in MintQuotes, InvoicePaid(q)
    PROVE  Covered' /\ L!Next
<1>1. UNCHANGED <<issued, spends, payment>> /\ escrow' = escrow + MintAmount[q]
      /\ payLog' = Append(payLog, q)
  BY DEF InvoicePaid, proofVars, taskVars
<1>2. \A v \in Workers : Hold(v)' <= Hold(v)
  <2>1. \A v \in Workers : Hold(v) \in Nat /\ Hold(v)' = Hold(v)
    BY PaidKnows, HoldType DEF Typed
  <2> QED BY <2>1
<1>3. \A p \in MintQuotes \ {q} : Funded(p)' => Funded(p)
  <2>1. payLog \in Seq(MintQuotes)
    BY DEF Typed, TypeInv, TypeOK
  <2>2. \A p \in MintQuotes \ {q} : p \in Range(payLog)' => p \in Range(payLog)
    BY <1>1, <2>1 DEF Range
  <2> QED BY <1>1, <2>2 DEF Funded
<1>4. escrow' >= escrow
  BY <1>1, CreditIs DEF Typed, TypeInv, TypeOK, StoreTypeOK
<1>5. L!Next
  BY <1>1, <1>4 DEF L!Next, L!Receive, Spent
<1> QED BY <1>1, <1>2, <1>3, <1>5, FundingCovers

\* A melt settles a quote of the mint itself: its amount is what the melt
\* pays, and the quote is credited before the melt has spent anything.
LEMMA MeltCredits ==
    ASSUME TypeInv, NEW w \in Workers, MeltCredit(w)
    PROVE  LET m == req[w].quote
           IN  /\ m \in MeltQuotes /\ MeltInvoice[m] \in MintQuotes
               /\ UNCHANGED <<issued, spends, payLog>>
               /\ escrow' = escrow + MintAmount[MeltInvoice[m]]
               /\ payment' = [payment EXCEPT ![m] = "internal"]
               /\ pc'[w] = "melt_process" /\ req' = req /\ due'[w] = MeltAmount[m]
<1>1. req[w].quote \in MeltQuotes /\ MeltInvoice[req[w].quote] \in MintQuotes
  BY RequestTyping DEF MeltCredit, TypeInv, TaskInv, MeltSteps
<1> QED BY <1>1 DEF MeltCredit, AddMintQuote, Paid, proofVars, TypeInv, TypeOK, TaskTypeOK

\* Settling inside leaves every task knowing what it must.
LEMMA CreditKnows ==
    ASSUME TypeInv, KnowsInv, NEW w \in Workers, MeltCredit(w)
    PROVE  Signatures' /\ \A v \in Workers : TaskKnows(v)'
<1> DEFINE m == req[w].quote
<1>1. /\ m \in MeltQuotes /\ UNCHANGED <<issued, spends>>
      /\ pc'[w] = "melt_process" /\ req' = req /\ due'[w] = MeltAmount[m]
  BY MeltCredits
<1>2. ASSUME NEW v \in Workers PROVE TaskKnows(v)'
  <2>1. CASE v # w
    BY <1>1, <2>1, OthersStill, StillKnowsUnsigned DEF KnowsInv
  <2>2. CASE v = w
    <3>1. MeltAmount[m] <= MeltAmount[m] + FeeReserve[m]
      BY <1>1, MintAssumption DEF MintAssumption
    <3> QED BY <1>1, <2>2, <3>1 DEF TaskKnows, InputsIssued, OutputsUnsigned, Balanced, Committed
  <2> QED BY <2>1, <2>2
<1> QED BY <1>1, <1>2, SameSignatures

\* To the ledger, settling inside is a receipt: the melt that pays has not
\* spent yet.
LEMMA CreditCovered ==
    ASSUME Typed, Typed', KnowsInv, Covered, NEW w \in Workers, MeltCredit(w)
    PROVE  Covered' /\ L!Next
<1> DEFINE m == req[w].quote
<1>1. /\ m \in MeltQuotes /\ MeltInvoice[m] \in MintQuotes
      /\ UNCHANGED <<issued, spends, payLog>>
      /\ escrow' = escrow + MintAmount[MeltInvoice[m]]
      /\ payment' = [payment EXCEPT ![m] = "internal"]
      /\ pc'[w] = "melt_process"
  BY MeltCredits DEF Typed
<1>2. PICK q \in MintQuotes : q = MeltInvoice[m]
  BY <1>1
<1>3. \A v \in Workers : Hold(v)' <= Hold(v)
  <2>1. Hold(w)' = 0
    BY <1>1 DEF Hold
  <2>2. \A v \in Workers : Hold(v) \in Nat
    BY HoldType DEF Typed
  <2>3. \A v \in Workers \ {w} : Hold(v)' = Hold(v)
    BY OthersStill, StillHolds DEF Typed
  <2> QED BY <2>1, <2>2, <2>3
<1>4. \A p \in MintQuotes \ {q} : Funded(p)' => Funded(p)
  BY <1>1, <1>2 DEF Funded, Typed, TypeInv, TypeOK
<1>5. escrow' >= escrow
  BY <1>1, <1>2, CreditIs DEF Typed, TypeInv, TypeOK, StoreTypeOK
<1>6. L!Next
  BY <1>1, <1>5 DEF L!Next, L!Receive, Spent
<1> QED BY <1>1, <1>2, <1>3, <1>4, <1>6, FundingCovers

-----------------------------------------------------------------------------
(* The ledger *)

\* A step that moves no value leaves what the ledger sees alone.
LEMMA QuietKeeps ==
    ASSUME LedgerAssumptions, TypeInv, KnowsInv, QuietStep
    PROVE  Signatures' /\ \A v \in Workers : TaskKnows(v)' /\ Hold(v)' <= Hold(v)
<1>1. issued' = issued /\ spends' = spends
  BY DEF QuietStep
<1>2. \A v \in Workers : TaskKnows(v) /\ Hold(v) \in Nat
  BY HoldType DEF KnowsInv
<1>3. ASSUME NEW v \in Workers, Still(v) PROVE TaskKnows(v)' /\ Hold(v)' <= Hold(v)
  BY <1>1, <1>2, <1>3, StillKnowsUnsigned, StillHolds
<1>4. ASSUME NEW v \in Workers, pc'[v] = "idle" PROVE TaskKnows(v)' /\ Hold(v)' <= Hold(v)
  <2>1. Hold(v)' = 0
    BY <1>4 DEF Hold
  <2> QED BY <1>2, <1>4, <2>1 DEF TaskKnows, InputsIssued, OutputsUnsigned, Balanced, Committed
<1>5. ASSUME NEW w \in Workers, Quiet(w), NEW v \in Workers
      PROVE  TaskKnows(v)' /\ Hold(v)' <= Hold(v)
  <2>1. CASE v = w
    <3>1. TaskKnows(w)' /\ Hold(w)' = 0
      BY <1>1, <1>2, <1>5, QuietKnows
    <3> QED BY <1>2, <2>1, <3>1
  <2>2. CASE v # w
    BY <1>3, <1>5, <2>2, OthersStill
  <2> QED BY <2>1, <2>2
<1>6. ASSUME NEW v \in Workers PROVE TaskKnows(v)' /\ Hold(v)' <= Hold(v)
  <2>1. CASE UNCHANGED taskVars
    BY <1>3, <2>1 DEF taskVars, Still
  <2>2. CASE ReturnAll
    BY <1>4, <2>2 DEF ReturnAll
  <2> QED BY <1>5, <2>1, <2>2 DEF QuietStep
<1> QED BY <1>1, <1>6, SameSignatures

\* And keeps the escrow covered.
LEMMA QuietCovered ==
    ASSUME Typed, Typed', KnowsInv, Covered, QuietStep, \A v \in Workers : Hold(v)' <= Hold(v)
    PROVE  Covered'
<1>1. issued' = issued /\ escrow' = escrow + 0
  BY DEF QuietStep, Typed, TypeInv, TypeOK, StoreTypeOK
<1>2. Held' <= Held
  BY HeldKept
<1>3. Credits' <= Credits
  BY <1>1, CreditsKept DEF QuietStep, NoneFunded
<1>4. Credits' <= Credits + 0
  BY <1>3, SumsType DEF Typed
<1> QED BY <1>1, <1>2, <1>4, ReceivedCovers

\* Whatever step is taken, every task knows what it must.
LEMMA StepKnows ==
    ASSUME LedgerAssumptions, TypeInv, SpendInv, KnowsInv, [Next]_vars
    PROVE  Signatures' /\ \A v \in Workers : TaskKnows(v)'
<1>1. CASE QuietStep
  BY <1>1, QuietKeeps
<1>2. ASSUME NEW q \in MintQuotes, InvoicePaid(q)
      PROVE  Signatures' /\ \A v \in Workers : TaskKnows(v)'
  BY <1>2, PaidKnows
<1>3. ASSUME NEW w \in Workers, MeltCredit(w)
      PROVE  Signatures' /\ \A v \in Workers : TaskKnows(v)'
  BY <1>3, CreditKnows
<1>4. ASSUME NEW w \in Workers, LedgerStep(w)
      PROVE  Signatures' /\ \A v \in Workers : TaskKnows(v)'
  <2>1. CASE SwapSpend(w) \/ MeltSpend(w)
    BY <1>4, <2>1, SpendKnows
  <2>2. CASE MeltRemoveQuote(w)
    BY <1>4, <2>2, RemoveKnows
  <2>3. CASE Signs(w)
    BY <1>4, <2>3, SignKnows DEF SpendInv
  <2> QED BY <1>4, <2>1, <2>2, <2>3 DEF LedgerStep
<1> QED BY <1>1, <1>2, <1>3, <1>4, StepsOfTheLedger

\* Every step of the mint keeps the escrow covered, and is one of the ledger
\* or leaves what the ledger sees alone.
LEMMA StepLedger ==
    ASSUME LedgerAssumptions, RepeatsAlike, TypeInv, BackedInv, SpendInv, LedgerInv, [Next]_vars
    PROVE  LedgerInv' /\ [L!Next]_(L!vars)
<1>0. KnowsInv /\ Covered
  BY DEF LedgerInv
<1>1. Typed /\ Typed'
  <2>1. TypeInv'
    BY StepTypeInv
  <2>2. \A v \in Workers : TaskKnows(v)'
    BY <1>0, StepKnows
  <2> QED BY <2>1, <2>2 DEF Typed, LedgerInv, KnowsInv
<1>2. Signatures' /\ \A v \in Workers : TaskKnows(v)'
  BY <1>0, StepKnows
<1>3. CASE QuietStep
  <2>1. Covered'
    BY <1>0, <1>1, <1>3, QuietKeeps, QuietCovered
  <2>2. UNCHANGED L!vars
    BY <1>3 DEF QuietStep, L!vars, Spent
  <2> QED BY <1>2, <2>1, <2>2 DEF LedgerInv, KnowsInv
<1>4. ASSUME NEW q \in MintQuotes, InvoicePaid(q) PROVE Covered' /\ L!Next
  BY <1>0, <1>1, <1>4, PaidCovered
<1>5. ASSUME NEW w \in Workers, MeltCredit(w) PROVE Covered' /\ L!Next
  BY <1>0, <1>1, <1>5, CreditCovered
<1>6. ASSUME NEW w \in Workers, LedgerStep(w) PROVE Covered' /\ L!Next
  <2>1. CASE SwapSpend(w) \/ MeltSpend(w)
    BY <1>0, <1>1, <1>6, <2>1, SpendCovered, SpendSpends
  <2>2. CASE MeltRemoveQuote(w)
    BY <1>0, <1>1, <1>6, <2>2, RemoveCovered
  <2>3. CASE Signs(w)
    BY <1>0, <1>1, <1>6, <2>3, SignCovered, SignIssues
  <2> QED BY <1>6, <2>1, <2>2, <2>3 DEF LedgerStep
<1> QED BY <1>2, <1>3, <1>4, <1>5, <1>6, StepsOfTheLedger DEF LedgerInv, KnowsInv

\* The mint starts as a ledger does.
LEMMA InitLedger ==
    ASSUME LedgerAssumptions, Init
    PROVE  LedgerInv /\ L!Init
<1>1. \A w \in Workers : pc[w] = "idle" /\ Hold(w) = 0
  BY DEF Init, TaskInit, Hold
<1>2. \A w \in Workers : TaskKnows(w)
  BY <1>1 DEF TaskKnows, InputsIssued, OutputsUnsigned, Balanced, Committed
<1>3. \A q \in MintQuotes : Credit(q) = 0
  BY DEF Init, Credit, Unredeemed, Funded, Range
<1>4. \A c \in Coins : ~Spent(c)
  BY DEF Init, StoreInit, Spent
<1>5. issued \subseteq BlindSignature /\ TypeInv
  BY InitTypeInv DEF TypeInv, TypeOK, StoreTypeOK
<1>6. Signatures
  <2>1. \A o \in issued : \E c \in Circulating : o = Signature(c)
    BY DEF Init, StoreInit
  <2>2. \A o \in issued : o.amount \in KeyAmounts
    BY <2>1 DEF LedgerAssumptions, SignedBefore, Signature
  <2>3. \A o, p \in issued : o.coin = p.coin => o = p
    BY <2>1 DEF LedgerAssumptions, SignedBefore, Signature
  <2> QED BY <1>4, <2>2, <2>3 DEF Signatures
<1>7. Covered
  <2>1. /\ Summable([w \in Workers |-> Hold(w)], Workers)
        /\ Summable([q \in MintQuotes |-> Credit(q)], MintQuotes)
    BY <1>2, <1>5, SumsType
  <2>2. Held = 0 /\ Credits = 0
    BY <1>1, <1>3, <2>1, SumZero DEF Held, Credits
  <2> QED BY <2>2 DEF Covered, Init, StoreInit
<1>8. L!Init
  <2>1. \A o \in issued : ~Spent(o.coin) /\ o \in [coin : Coins, amount : KeyAmounts, keys : Keysets \cup {SeedKeys}]
    BY <1>4, <1>5, <1>6 DEF Signatures, BlindSignature
  <2>2. escrow = 0
    BY DEF Init, StoreInit
  <2> QED BY <2>1, <2>2 DEF L!Init
<1> QED BY <1>2, <1>6, <1>7, <1>8 DEF LedgerInv, KnowsInv

\* The mint keeps the promise of Ledger, coin by coin: with any number of
\* tasks, coins and quotes, through faults and restarts, no coin is signed
\* without value that was paid in or freed by a spent coin, none is signed or
\* spent twice, and no more leaves than was freed.  Requests in flight share
\* no coin and no quote, and clients and the node are as LedgerAssumptions
\* has them.
THEOREM KeepsLedger ==
    ASSUME LedgerAssumptions, RepeatsAlike
    PROVE  ExclusiveSpec => LedgerPromise
<1>1. Init => LedgerInv /\ L!Init /\ TypeInv /\ BackedInv /\ SpendInv
  BY InitLedger, InitTypeInv, InitBacked, InitSpend
<1>2. TypeInv /\ BackedInv /\ SpendInv /\ LedgerInv /\ [ExclusiveNext]_vars =>
          /\ TypeInv' /\ BackedInv' /\ SpendInv' /\ LedgerInv'
          /\ [L!Next]_(L!vars)
  <2> SUFFICES ASSUME TypeInv, BackedInv, SpendInv, LedgerInv, [ExclusiveNext]_vars
               PROVE  /\ TypeInv' /\ BackedInv' /\ SpendInv' /\ LedgerInv'
                      /\ [L!Next]_(L!vars)
    OBVIOUS
  <2>1. [Next]_vars
    BY DEF ExclusiveNext
  <2>2. TypeInv' /\ SpendInv'
    BY <2>1, StepTypeInv, StepSpend
  <2>3. BackedInv'
    BY <2>1, NothingTakenBack, StepTaskBacked, StepQuotesBacked DEF BackedInv
  <2>4. LedgerInv' /\ [L!Next]_(L!vars)
    BY <2>1, StepLedger
  <2> QED BY <2>2, <2>3, <2>4
<1> QED BY <1>1, <1>2, PTL DEF ExclusiveSpec, LedgerPromise, L!Spec

-----------------------------------------------------------------------------
(* The books of a mint that runs without faults.  What was paid out is     *)
(* settled: the melt verifies its request again after the payment, and     *)
(* nothing it looked at may have changed in between.  What was paid in is  *)
(* there: the mint holds the value of every quote that can be redeemed,    *)
(* and no more than that, for no handler keeps value on the way.           *)

-----------------------------------------------------------------------------
(* The steps of a calm mint *)

\* Task v stands still, but a loop of its own may go on.
Stands(v) == pc'[v] = pc[v] /\ req'[v] = req[v]

Moved(v) ==
    \/ Return(v) \/ Advance(v)
    \/ \E step : Goto(v, step)
    \/ \E r, step : Accept(v, r, step)
    \/ \E m, status, cost : Paid(v, m, status, cost)

\* A task that takes a step of its handler moves.
LEMMA ServerMoves ==
    ASSUME NEW w \in Workers, ServerStep(w) \/ \E r \in Requests : Dispatch(w, r)
    PROVE  Moved(w)
<1>1. CASE MintHandlers(w)
  <2>1. CASE MintReadQuote(w) \/ MeltProcess(w) \/ MintRemoveQuote(w)
    BY <2>1 DEF MintReadQuote, MeltProcess, MintRemoveQuote, Moved
  <2>2. CASE SwapReply(w) \/ MeltOverflow(w) \/ MeltReply(w)
    BY <2>2 DEF SwapReply, MeltOverflow, MeltReply, Moved
  <2>3. CASE SwapSpend(w) \/ MeltSpend(w) \/ MeltRemoveQuote(w)
    BY <2>3 DEF SwapSpend, MeltSpend, MeltRemoveQuote, Moved
  <2>4. CASE MintSign(w) \/ SwapSign(w) \/ MeltChange(w)
    BY <2>4 DEF MintSign, SwapSign, MeltChange, SignOutput, Moved
  <2> QED BY <1>1, <2>1, <2>2, <2>3, <2>4 DEF MintHandlers
<1>2. CASE MeltLookup(w) \/ MeltPayError(w)
  BY <1>2 DEF MeltLookup, MeltPayError, Moved
<1>3. CASE MeltCredit(w) \/ MeltPay(w)
  BY <1>3 DEF MeltCredit, MeltPay, Moved
<1>4. ASSUME NEW r \in Requests, Dispatch(w, r) PROVE Moved(w)
  BY <1>4 DEF Dispatch, MintCheckOutputs, SwapVerify, MeltVerify, Moved
<1> QED BY <1>1, <1>2, <1>3, <1>4 DEF ServerStep

\* A step of another task leaves v where it is.
LEMMA MovedAlone ==
    ASSUME TypeInv, NEW w \in Workers, Moved(w), NEW v \in Workers \ {w}
    PROVE  Still(v)
BY DEF TypeInv, TypeOK, TaskTypeOK, Moved, Still, Return, Advance, Goto, Accept, Paid

\* Without faults a task moves by its own steps only.
LEMMA CalmMoves ==
    ASSUME TypeInv, Calm, [Next]_vars
    PROVE  /\ UNCHANGED keysetVars
           /\ \/ UNCHANGED taskVars
              \/ \E w \in Workers : Moved(w) /\ (ServerStep(w) \/ \E r \in Requests : Dispatch(w, r))
<1> USE DEF vars, storeVars, taskVars, lnVars, boundVars, proofVars, quoteVars, keysetVars
<1>1. faults \in Nat /\ rotations \in Nat /\ MaxFaults = 0 /\ MaxRotations = 0
  BY DEF TypeInv, TypeOK, Calm
<1>2. /\ \A w \in Workers : ~HandlerDropped(w) /\ ~PayAnswerLost(w)
      /\ \A k \in Keysets : ~RotateKeyset(k)
      /\ ~EventFailed /\ ~Restart
  BY <1>1 DEF HandlerDropped, PayAnswerLost, RotateKeyset, EventFailed, Restart
<1>3. ASSUME NEW w \in Workers, ServerStep(w) \/ \E r \in Requests : Dispatch(w, r)
      PROVE  UNCHANGED keysetVars
  <2>1. CASE MintHandlers(w)
    <3>1. CASE MintReadQuote(w) \/ MeltProcess(w) \/ MintRemoveQuote(w)
      BY <3>1 DEF MintReadQuote, MeltProcess, MintRemoveQuote, RemoveMintQuote
    <3>2. CASE SwapReply(w) \/ MeltOverflow(w) \/ MeltReply(w)
      BY <3>2 DEF SwapReply, MeltOverflow, MeltReply
    <3>3. CASE SwapSpend(w) \/ MeltSpend(w) \/ MeltRemoveQuote(w)
      BY <3>3 DEF SwapSpend, MeltSpend, MeltRemoveQuote, AddSpentProof, RemoveMeltQuote
    <3>4. CASE MintSign(w) \/ SwapSign(w) \/ MeltChange(w)
      BY <3>4 DEF MintSign, SwapSign, MeltChange, SignOutput, AddBlindedSignature
    <3> QED BY <2>1, <3>1, <3>2, <3>3, <3>4 DEF MintHandlers
  <2>2. CASE MeltLookup(w) \/ MeltPayError(w) \/ MeltPay(w)
    BY <2>2 DEF MeltLookup, MeltPayError, MeltPay
  <2>3. CASE MeltCredit(w)
    BY <2>3 DEF MeltCredit, AddMintQuote
  <2>4. ASSUME NEW r \in Requests, Dispatch(w, r) PROVE UNCHANGED keysetVars
    BY <2>4 DEF Dispatch, MintCheckOutputs, SwapVerify, MeltVerify
  <2> QED BY <1>3, <2>1, <2>2, <2>3, <2>4 DEF ServerStep
<1>4. CASE System
  <2>1. CASE EventRead \/ EventWrite
    BY <2>1 DEF EventRead, EventWrite, AddMintQuote
  <2> QED BY <1>3, <1>4, <2>1, ServerMoves DEF System
<1>5. CASE Environment
  <2>1. ASSUME NEW q \in MintQuotes, NewMintQuote(q) \/ InvoicePaid(q)
        PROVE  UNCHANGED taskVars /\ UNCHANGED keysetVars
    BY <2>1 DEF NewMintQuote, InvoicePaid, AddMintQuote
  <2>2. ASSUME NEW m \in MeltQuotes, NewMeltQuote(m)
        PROVE  UNCHANGED taskVars /\ UNCHANGED keysetVars
    BY <2>2 DEF NewMeltQuote, AddMeltQuote
  <2> QED BY <1>2, <1>3, <1>5, <2>1, <2>2, ServerMoves DEF Environment
<1> QED BY <1>4, <1>5 DEF Next

-----------------------------------------------------------------------------
(* Payments are settled *)

\* From its first check until it spends, a melt's request stays good.
Ready(w) ==
    pc[w] \in {"melt_lookup", "melt_credit", "melt_pay", "melt_process"} =>
        MeltRequestValid(req[w])

\* A task that has paid the quote's invoice and not removed the quote yet.
Settling(m) ==
    \E w \in Workers :
        pc[w] \in {"melt_process", "melt_spend", "melt_remove"} /\ req[w].quote = m

\* Until a quote is removed, no change of a melt of it is signed.
ChangeUnsigned ==
    \A r \in Requests :
        (r.kind = "melt" /\ meltQuote[r.quote] # "removed") => NoneSigned(r.outputs)

SettledInv ==
    /\ \A w \in Workers : Ready(w)
    /\ \A m \in MeltQuotes : payment[m] # "none" => meltQuote[m] = "removed" \/ Settling(m)
    /\ ChangeUnsigned

\* A melt's task serves a melt.
LEMMA MeltTask ==
    ASSUME TypeInv, NEW w \in Workers, pc[w] \in MeltSteps
    PROVE  /\ req[w] \in Requests /\ req[w].kind = "melt"
           /\ req[w].quote \in MeltQuotes /\ req[w].quote # NoQuote
<1>1. req[w] \in Requests /\ req[w].kind = "melt"
  BY DEF TypeInv, TaskInv
<1> QED BY <1>1, RequestTyping, MintAssumption DEF MintAssumption

\* Keysets stay, signatures stay.
Lasting == UNCHANGED keysetVars /\ issued \subseteq issued'

\* Without faults no keyset changes and no signature is deleted.
LEMMA SignaturesLast ==
    ASSUME TypeInv, Calm, [Next]_vars
    PROVE  Lasting
<1>1. ASSUME QuietStep PROVE issued \subseteq issued'
  BY <1>1 DEF QuietStep
<1>2. ASSUME NEW q \in MintQuotes, InvoicePaid(q) PROVE issued \subseteq issued'
  BY <1>2 DEF InvoicePaid
<1>3. ASSUME NEW w \in Workers, MeltCredit(w) PROVE issued \subseteq issued'
  BY <1>3 DEF MeltCredit, AddMintQuote
<1>4. ASSUME NEW w \in Workers, LedgerStep(w) PROVE issued \subseteq issued'
  BY <1>4 DEF LedgerStep, SwapSpend, MeltSpend, AddSpentProof, MeltRemoveQuote, RemoveMeltQuote,
              Signs, AddBlindedSignature
<1>5. issued \subseteq issued'
  BY StepsOfTheLedger, <1>1, <1>2, <1>3, <1>4
<1> QED BY CalmMoves, <1>5 DEF Lasting

\* A request that was good is good while its quote is stored and nobody
\* spends its inputs.
LEMMA ValidStays ==
    ASSUME TypeInv, Lasting, NEW r \in Requests, MeltRequestValid(r),
           meltQuote'[r.quote] = meltQuote[r.quote],
           \A i \in DOMAIN r.inputs : spends'[r.inputs[i].coin] = spends[r.inputs[i].coin]
    PROVE  MeltRequestValid(r)'
<1> USE DEF Lasting, keysetVars
<1>1. KeysetsKnown(r.inputs)'
  BY DEF MeltRequestValid, KeysetsKnown
<1>2. ASSUME NEW p \in Range(r.inputs) PROVE VerifyProof(p)'
  <2>1. VerifyProof(p)
    BY DEF MeltRequestValid, ProofsValid
  <2>2. spends'[p.coin] = spends[p.coin]
    BY DEF Range
  <2>3. Signature(p)' = Signature(p)
    BY DEF Signature, KeysOf
  <2> QED BY <2>1, <2>2, <2>3 DEF VerifyProof, Spent
<1>3. ProofsValid(r.inputs)'
  BY <1>2 DEF ProofsValid
<1> QED BY <1>1, <1>3 DEF MeltRequestValid

\* Nobody else spends the inputs of a task in flight.
LEMMA InputsLeft ==
    ASSUME TypeInv, SpendInv, [Next]_vars, NEW v \in Workers, Busy(v), req[v] \in Requests,
           ~SwapSpend(v), ~MeltSpend(v), NEW i \in DOMAIN req[v].inputs
    PROVE  spends'[req[v].inputs[i].coin] = spends[req[v].inputs[i].coin]
<1> DEFINE c == req[v].inputs[i].coin
<1>1. CASE spends' = spends
  BY <1>1
<1>2. ASSUME NEW w \in Workers, SwapSpend(w) \/ MeltSpend(w) PROVE spends'[c] = spends[c]
  <2>1. /\ req[w] \in Requests /\ idx[w] \in DOMAIN req[w].inputs
        /\ spends' = [spends EXCEPT ![Input(w).coin] = @ + 1]
    BY <1>2, InputSpent
  <2>2. w # v /\ Busy(w)
    BY <1>2 DEF SwapSpend, MeltSpend, Busy
  <2>3. c \in AllCoins(req[v]) /\ Input(w).coin \in AllCoins(req[w])
    BY <2>1 DEF AllCoins, CoinsIn, Range, Input
  <2>4. c # Input(w).coin
    BY <2>2, <2>3 DEF SpendInv, InFlightDisjoint, Disjoint
  <2>5. c \in Coins
    BY RequestTyping DEF Output
  <2> QED BY <2>1, <2>4, <2>5 DEF TypeInv, TypeOK, StoreTypeOK
<1> QED BY <1>1, <1>2, Writers DEF Writes

\* Nor does anybody else remove the quote of a melt in flight.
LEMMA QuoteLeft ==
    ASSUME TypeInv, SpendInv, [Next]_vars, NEW v \in Workers, pc[v] \in MeltSteps,
           ~MeltRemoveQuote(v), meltQuote[req[v].quote] # "none"
    PROVE  meltQuote'[req[v].quote] = meltQuote[req[v].quote]
<1> DEFINE m == req[v].quote
<1>0. m \in MeltQuotes /\ m # NoQuote
  BY MeltTask
<1>1. ASSUME NEW n \in MeltQuotes, NewMeltQuote(n) PROVE meltQuote'[m] = meltQuote[m]
  BY <1>0, <1>1 DEF NewMeltQuote, AddMeltQuote, TypeInv, TypeOK, StoreTypeOK
<1>2. ASSUME NEW w \in Workers, MeltRemoveQuote(w) PROVE meltQuote'[m] = meltQuote[m]
  <2>1. w # v /\ pc[w] = "melt_remove"
    BY <1>2 DEF MeltRemoveQuote
  <2>2. m # req[w].quote
    BY <1>0, <2>1 DEF SpendInv, InFlightDisjoint, Disjoint, Busy, MeltSteps
  <2> QED BY <1>0, <1>2, <2>2 DEF MeltRemoveQuote, RemoveMeltQuote, TypeInv, TypeOK, StoreTypeOK
<1> QED BY <1>1, <1>2, Writers DEF Writes

\* A melt between its two verifications stays good.
LEMMA StepReady ==
    ASSUME TypeInv, SpendInv, Calm, [Next]_vars, NEW v \in Workers, Ready(v)
    PROVE  Ready(v)'
<1> USE DEF TypeInv, TypeOK
<1> DEFINE Early == {"melt_lookup", "melt_credit", "melt_pay", "melt_process"}
<1>0. Lasting
  BY SignaturesLast
<1>1. ASSUME pc[v] \in Early, req'[v] = req[v], ~SwapSpend(v), ~MeltSpend(v), ~MeltRemoveQuote(v)
      PROVE  Ready(v)'
  <2>1. req[v] \in Requests /\ Busy(v) /\ pc[v] \in MeltSteps
    BY <1>1, MeltTask DEF MeltSteps, Busy
  <2>2. MeltRequestValid(req[v]) /\ meltQuote[req[v].quote] = "stored"
    BY <1>1 DEF Ready, MeltRequestValid
  <2>3. meltQuote'[req[v].quote] = meltQuote[req[v].quote]
    BY <1>1, <2>1, <2>2, QuoteLeft
  <2>4. \A i \in DOMAIN req[v].inputs :
            spends'[req[v].inputs[i].coin] = spends[req[v].inputs[i].coin]
    BY <1>1, <2>1, InputsLeft
  <2>5. MeltRequestValid(req[v])'
    BY <1>0, <1>1, <2>1, <2>2, <2>3, <2>4, ValidStays DEF Lasting
  <2> QED BY <1>1, <2>5 DEF Ready
<1>2. CASE Stands(v)
  <2>1. CASE pc[v] \in Early
    <3>1. ~SwapSpend(v) /\ ~MeltSpend(v) /\ ~MeltRemoveQuote(v)
      BY <2>1 DEF SwapSpend, MeltSpend, MeltRemoveQuote
    <3> QED BY <1>1, <1>2, <2>1, <3>1 DEF Stands
  <2> QED BY <1>2, <2>1 DEF Stands, Ready
<1>3. ASSUME NEW r \in Requests, Dispatch(v, r) PROVE Ready(v)'
  <2>1. CASE MintCheckOutputs(v, r) \/ SwapVerify(v, r)
    BY <2>1 DEF MintCheckOutputs, SwapVerify, Accept, TaskTypeOK, Ready
  <2>2. CASE MeltVerify(v, r)
    <3>1. MeltRequestValid(r) /\ req'[v] = r /\ UNCHANGED storeVars
      BY <2>2 DEF MeltVerify, Accept, TaskTypeOK
    <3>2. \A i \in DOMAIN r.inputs : spends'[r.inputs[i].coin] = spends[r.inputs[i].coin]
      BY <3>1 DEF storeVars
    <3>3. MeltRequestValid(r)'
      BY <1>0, <3>1, <3>2, ValidStays DEF storeVars
    <3> QED BY <3>1, <3>3 DEF Ready
  <2> QED BY <1>3, <2>1, <2>2 DEF Dispatch
<1>4. CASE ServerStep(v)
  <2>1. CASE pc'[v] \notin Early
    BY <2>1 DEF Ready
  <2>2. CASE pc'[v] \in Early
    <3>1. CASE MeltLookup(v) \/ MeltCredit(v) \/ MeltPay(v)
      <4>1. pc[v] \in Early /\ req'[v] = req[v]
        BY <3>1 DEF MeltLookup, MeltCredit, MeltPay, Goto, Paid
      <4>2. ~SwapSpend(v) /\ ~MeltSpend(v) /\ ~MeltRemoveQuote(v)
        BY <4>1 DEF SwapSpend, MeltSpend, MeltRemoveQuote
      <4> QED BY <1>1, <4>1, <4>2
    <3>2. CASE MeltPayError(v)
      BY <2>2, <3>2 DEF MeltPayError, Return, TaskTypeOK
    <3>3. CASE MintHandlers(v)
      <4>1. CASE Return(v)
        BY <2>2, <4>1 DEF Return, TaskTypeOK
      <4>2. CASE Advance(v) /\ pc[v] \notin Early
        BY <2>2, <4>2 DEF Advance
      <4>3. CASE \E step \in {"mint_sign", "swap_sign", "melt_spend", "melt_remove", "melt_change"} : Goto(v, step)
        BY <2>2, <4>3 DEF Goto, TaskTypeOK
      <4>4. Return(v) \/ (Advance(v) /\ pc[v] \notin Early)
            \/ \E step \in {"mint_sign", "swap_sign", "melt_spend", "melt_remove", "melt_change"} : Goto(v, step)
        BY <3>3 DEF MintHandlers, MintReadQuote, MintSign, MintRemoveQuote, SwapSpend, SwapSign, SwapReply,
                    MeltProcess, MeltSpend, MeltRemoveQuote, MeltOverflow, MeltChange, MeltReply, SignOutput
      <4> QED BY <4>1, <4>2, <4>3, <4>4
    <3> QED BY <1>4, <3>1, <3>2, <3>3 DEF ServerStep
  <2> QED BY <2>1, <2>2
<1>5. ASSUME NEW w \in Workers, w # v, Moved(w) PROVE Stands(v)
  BY <1>5, MovedAlone DEF Still, Stands
<1>6. CASE UNCHANGED taskVars
  BY <1>2, <1>6 DEF Stands, taskVars
<1> QED BY CalmMoves, <1>2, <1>3, <1>4, <1>5, <1>6

\* A payment that was made stays settled or being settled.
LEMMA StepSettling ==
    ASSUME TypeInv, BackedInv, SpendInv, SettledInv, Calm, [Next]_vars,
           NEW m \in MeltQuotes, payment'[m] # "none"
    PROVE  meltQuote'[m] = "removed" \/ Settling(m)'
<1> USE DEF TypeInv, TypeOK
<1>0. meltQuote[m] = "removed" => meltQuote'[m] = "removed"
  BY NothingTakenBack DEF Kept
<1>1. ASSUME NEW w \in Workers, MeltCredit(w) \/ MeltPay(w), req[w].quote = m
      PROVE  Settling(m)'
  BY <1>1 DEF MeltCredit, MeltPay, Paid, Settling, TaskTypeOK
<1>2. ASSUME NEW w \in Workers, pc[w] \in {"melt_process", "melt_spend", "melt_remove"}, req[w].quote = m
      PROVE  meltQuote'[m] = "removed" \/ Settling(m)'
  <2>1. CASE Stands(w)
    BY <1>2, <2>1 DEF Stands, Settling
  <2>2. CASE MeltProcess(w)
    <3>1. pc[w] = "melt_process"
      BY <2>2 DEF MeltProcess
    <3>2. MeltRequestValid(req[w])
      BY <3>1 DEF SettledInv, Ready
    <3>3. req[w] \in Requests /\ req[w].kind = "melt"
      BY <3>1, MeltTask DEF MeltSteps
    <3>4. NoneSigned(req[w].outputs)
      BY <3>2, <3>3 DEF SettledInv, ChangeUnsigned, MeltRequestValid
    <3>5. Goto(w, "melt_spend")
      BY <2>2, <3>2, <3>4 DEF MeltProcess
    <3> QED BY <1>2, <3>5 DEF Goto, Settling, TaskTypeOK
  <2>3. CASE MeltSpend(w)
    BY <1>2, <2>3 DEF MeltSpend, Goto, Advance, Settling, TaskTypeOK
  <2>4. CASE MeltRemoveQuote(w)
    BY <1>2, <2>4 DEF MeltRemoveQuote, RemoveMeltQuote, StoreTypeOK
  <2>5. ASSUME ServerStep(w) PROVE MeltProcess(w) \/ MeltSpend(w) \/ MeltRemoveQuote(w)
    BY <1>2, <2>5 DEF ServerStep, MintHandlers, MintReadQuote, MintSign, MintRemoveQuote, SwapSpend,
         SwapSign, SwapReply, MeltOverflow, MeltChange, MeltReply, MeltLookup, MeltCredit, MeltPay, MeltPayError
  <2>6. \A r \in Requests : ~Dispatch(w, r)
    BY <1>2 DEF Dispatch, Busy
  <2>7. ASSUME NEW v \in Workers, v # w, Moved(v) PROVE Stands(w)
    BY <2>7, MovedAlone DEF Still, Stands
  <2>8. UNCHANGED taskVars => Stands(w)
    BY DEF Stands, taskVars
  <2> QED BY CalmMoves, <2>1, <2>2, <2>3, <2>4, <2>5, <2>6, <2>7, <2>8
<1>3. CASE payment[m] # "none"
  BY <1>0, <1>2, <1>3 DEF SettledInv, Settling
<1>4. CASE payment[m] = "none"
  <2>1. payment' # payment
    BY <1>4
  <2>2. \A w \in Workers : ~PayAnswerLost(w)
    BY DEF PayAnswerLost, Calm
  <2>3. PICK w \in Workers : MeltCredit(w) \/ MeltPay(w)
    BY <2>1, <2>2, Writers DEF Writes
  <2>4. req[w].quote = m
    BY <1>4, <2>3 DEF MeltCredit, MeltPay, Paid
  <2> QED BY <1>1, <2>3, <2>4
<1> QED BY <1>3, <1>4

\* Only a melt whose quote is gone signs its change.
LEMMA StepChangeUnsigned ==
    ASSUME TypeInv, BackedInv, SettledInv, FreshChange, [Next]_vars
    PROVE  ChangeUnsigned'
<1> USE DEF TypeInv, TypeOK
<1> SUFFICES ASSUME NEW r \in Requests, r.kind = "melt", meltQuote'[r.quote] # "removed"
             PROVE  NoneSigned(r.outputs)'
  BY DEF ChangeUnsigned
<1>1. r.quote \in MeltQuotes
  BY RequestTyping
<1>2. meltQuote[r.quote] # "removed"
  BY <1>1, NothingTakenBack DEF Kept
<1>3. NoneSigned(r.outputs)
  BY <1>2 DEF SettledInv, ChangeUnsigned
<1>4. CASE issued' = issued
  BY <1>3, <1>4 DEF NoneSigned, SignatureStored
<1>5. ASSUME NEW w \in Workers, Signs(w) PROVE NoneSigned(r.outputs)'
  <2>1. /\ pc[w] \in SignSteps /\ idx[w] \in DOMAIN req[w].outputs
        /\ issued' = issued \cup {Signature(ToSign(w))}
    BY <1>5 DEF Signs, AddBlindedSignature
  <2>2. ToSign(w).coin = req[w].outputs[idx[w]].coin
    <3>1. req[w] \in Requests
      BY <2>1 DEF TaskInv, SignSteps, MintSteps, SwapSteps, MeltSteps
    <3>2. req[w].outputs[idx[w]] \in Output
      BY <2>1, <3>1, RequestTyping
    <3> QED BY <3>2 DEF ToSign, Output
  <2>3. ASSUME NEW c \in CoinsIn(r.outputs), SignatureStored(c)' PROVE FALSE
    <3>1. c = req[w].outputs[idx[w]].coin
      BY <1>3, <2>1, <2>2, <2>3 DEF NoneSigned, SignatureStored, Signature
    <3>2. c \in CoinsIn(req[w].outputs) /\ req[w] \in Requests
      BY <2>1, <3>1 DEF CoinsIn, Range, TaskInv, SignSteps, MintSteps, SwapSteps, MeltSteps
    <3>3. req[w].kind = "melt" /\ req[w].quote = r.quote
      BY <2>3, <3>2 DEF FreshChange
    <3>4. pc[w] = "melt_change"
      BY <2>1, <3>3 DEF TaskInv, SignSteps, MintSteps, SwapSteps, MeltSteps
    <3> QED BY <1>2, <3>3, <3>4 DEF BackedInv, TaskBacked
  <2> QED BY <2>3 DEF NoneSigned
<1>6. issued' = issued \/ \E w \in Workers : Signs(w)
  BY StepsOfTheLedger DEF QuietStep, InvoicePaid, LedgerStep, MeltCredit, AddMintQuote,
     SwapSpend, MeltSpend, AddSpentProof, MeltRemoveQuote, RemoveMeltQuote
<1> QED BY <1>4, <1>5, <1>6

\* A mint that starts has paid nothing.
LEMMA InitSettled == FreshChange /\ Init => SettledInv
<1> SUFFICES ASSUME FreshChange, Init PROVE SettledInv
  OBVIOUS
<1>1. ASSUME NEW r \in Requests, r.kind = "melt" PROVE NoneSigned(r.outputs)
  BY <1>1 DEF Init, StoreInit, NoneSigned, SignatureStored, Signature, FreshChange
<1> QED BY <1>1 DEF Init, TaskInit, SettledInv, Ready, ChangeUnsigned

\* Every step keeps the payments settled or being settled.
LEMMA StepSettled ==
    ASSUME TypeInv, BackedInv, SpendInv, SettledInv, FreshChange, Calm, [Next]_vars
    PROVE  SettledInv'
BY StepReady, StepSettling, StepChangeUnsigned DEF SettledInv

\* In a mint without faults, and with change outputs used for nothing else,
\* a melt that paid spends its inputs and removes its quote: once nothing is
\* in flight, every payment is on the books.  Between the payment and the
\* second verification nobody else can spend the inputs or sign the change.
THEOREM AllSettled ==
    ASSUME Calm, FreshChange
    PROVE  ExclusiveSpec => []PaymentsSettled
<1>1. Init => TypeInv /\ BackedInv /\ SpendInv /\ SettledInv
  BY InitTypeInv, InitBacked, InitSpend, InitSettled
<1>2. TypeInv /\ BackedInv /\ SpendInv /\ SettledInv /\ [ExclusiveNext]_vars =>
          TypeInv' /\ BackedInv' /\ SpendInv' /\ SettledInv'
  <2> SUFFICES ASSUME TypeInv, BackedInv, SpendInv, SettledInv, [ExclusiveNext]_vars
               PROVE  TypeInv' /\ BackedInv' /\ SpendInv' /\ SettledInv'
    OBVIOUS
  <2>1. [Next]_vars
    BY DEF ExclusiveNext
  <2>2. TypeInv' /\ SpendInv'
    BY <2>1, StepTypeInv, StepSpend
  <2>3. BackedInv'
    BY <2>1, NothingTakenBack, StepTaskBacked, StepQuotesBacked DEF BackedInv
  <2>4. SettledInv'
    BY <2>1, StepSettled
  <2> QED BY <2>2, <2>3, <2>4
<1>3. SettledInv => PaymentsSettled
  BY DEF SettledInv, PaymentsSettled, Settling, Quiescent, Busy
<1> QED BY <1>1, <1>2, <1>3, PTL DEF ExclusiveSpec

-----------------------------------------------------------------------------
(* The mint stays solvent *)

\* A mint request has begun to sign for the quote's value.
Drawn(q) == \E w \in Workers : pc[w] = "mint_sign" /\ idx[w] # 1 /\ req[w].quote = q

\* The quote can be redeemed.
Open(q) == mintQuote[q] = "paid" /\ ~Drawn(q)

\* Its invoice was paid and the invoice task has still to write that down.
Coming(q) == evt = q \/ \E i \in (cursor + 1)..Len(payLog) : payLog[i] = q

\* What the escrow has to keep for the quote.  A quote that is redeemed can
\* be opened again, by a payment that came in for the second time.
Reserve(q) ==
    (IF Open(q) THEN MintAmount[q] ELSE 0) + (IF Coming(q) THEN MintAmount[q] ELSE 0)

Reserves == Sum([q \in MintQuotes |-> Reserve(q)], MintQuotes)

Reserved == escrow >= Held + Reserves

\* Each invoice is in the log once, the invoice task holds the one it read
\* last, what a quote was paid is on its row or about to be, and a task that
\* signs for a quote finds it open.
StreamInv ==
    /\ \A i, j \in DOMAIN payLog : payLog[i] = payLog[j] => i = j
    /\ evt # NoInvoice => cursor # 0 /\ evt = payLog[cursor]
    /\ \A q \in MintQuotes : Funded(q) =>
        Settled(q) \/ (mintQuote[q] = "unpaid" /\ Coming(q))
    /\ \A w \in Workers : pc[w] = "mint_sign" => mintQuote[req[w].quote] = "paid"
    /\ FirstKeyset \in known /\ active = FirstKeyset

SolventInv == KnowsInv /\ StreamInv /\ Reserved

\* The reserves are a sum of numbers.
ReservesTyped ==
    /\ \A q \in MintQuotes : Reserve(q) \in Nat
    /\ Summable([q \in MintQuotes |-> Reserve(q)], MintQuotes)
    /\ Reserves \in Nat

\* There are finitely many quotes, each with a number in reserve.
LEMMA ReservesType == LedgerAssumptions => ReservesTyped
<1> SUFFICES ASSUME LedgerAssumptions PROVE ReservesTyped
  OBVIOUS
<1> DEFINE f == [q \in MintQuotes |-> Reserve(q)]
<1>1. \A q \in MintQuotes : Reserve(q) \in Nat
  BY MintAssumption DEF MintAssumption, Reserve
<1>2. \A q \in MintQuotes : f[q] \in Nat
  BY <1>1
<1>3. IsFiniteSet(MintQuotes)
  BY DEF LedgerAssumptions, FiniteMint
<1> HIDE DEF f
<1>4. Summable(f, MintQuotes)
  BY <1>2, <1>3 DEF Summable
<1>5. Sum(f, MintQuotes) \in Nat
  BY <1>4, SumType
<1> QED BY <1>1, <1>4, <1>5 DEF ReservesTyped, Reserves, f

\* The same after a step.
LEMMA ReservesTypeNext == LedgerAssumptions' => ReservesTyped'
BY ReservesType, PTL

\* One quote's reserve changes: all together change by no more.
LEMMA ReservesChange ==
    ASSUME LedgerAssumptions, NEW q \in MintQuotes,
           \A p \in MintQuotes \ {q} : Reserve(p)' <= Reserve(p)
    PROVE  Reserves' + Reserve(q) <= Reserves + Reserve(q)'
<1> DEFINE f == [p \in MintQuotes |-> Reserve(p)]
           g == [p \in MintQuotes |-> Reserve(p)']
<1>1. Summable(f, MintQuotes) /\ Summable(g, MintQuotes)
  BY ReservesType, ReservesTypeNext DEF ReservesTyped
<1>2. \A p \in MintQuotes \ {q} : g[p] <= f[p]
  OBVIOUS
<1> HIDE DEF f, g
<1>3. Sum(g, MintQuotes) + f[q] <= Sum(f, MintQuotes) + g[q]
  BY <1>1, <1>2, SumChange
<1> QED BY <1>3 DEF Reserves, f, g

\* No quote reserves more: nor do all of them.
LEMMA ReservesKept ==
    ASSUME LedgerAssumptions, \A p \in MintQuotes : Reserve(p)' <= Reserve(p)
    PROVE  Reserves' <= Reserves
<1> DEFINE f == [p \in MintQuotes |-> Reserve(p)]
           g == [p \in MintQuotes |-> Reserve(p)']
<1>1. Summable(f, MintQuotes) /\ Summable(g, MintQuotes)
  BY ReservesType, ReservesTypeNext DEF ReservesTyped
<1>2. \A p \in MintQuotes : g[p] <= f[p]
  OBVIOUS
<1> HIDE DEF f, g
<1>3. Sum(g, MintQuotes) <= Sum(f, MintQuotes)
  BY <1>1, <1>2, SumMonotone
<1> QED BY <1>3 DEF Reserves, f, g

\* How the stream moves while nothing fails.
LEMMA CalmStream ==
    ASSUME TypeInv, Calm, [Next]_vars
    PROVE  \/ UNCHANGED <<payLog, cursor, evt>>
           \/ EventRead
           \/ EventWrite
           \/ \E q \in MintQuotes : InvoicePaid(q)
<1>1. faults \in Nat /\ MaxFaults = 0
  BY DEF TypeInv, TypeOK, Calm
<1>2. CASE System
  BY <1>2 DEF System, ServerStep, MeltLookup, MeltCredit, MeltPay, MeltPayError, Paid, lnVars
<1>3. CASE Environment
  <2>1. /\ \A w \in Workers : ~HandlerDropped(w) /\ ~PayAnswerLost(w)
        /\ ~EventFailed /\ ~Restart
    BY <1>1 DEF HandlerDropped, PayAnswerLost, EventFailed, Restart
  <2>2. ASSUME \/ \E q \in MintQuotes : NewMintQuote(q)
               \/ \E m \in MeltQuotes : NewMeltQuote(m)
               \/ \E w \in Workers, r \in Requests : Dispatch(w, r)
               \/ \E k \in Keysets : RotateKeyset(k)
        PROVE  UNCHANGED <<payLog, cursor, evt>>
    BY <2>2 DEF NewMintQuote, NewMeltQuote, Dispatch, RotateKeyset, lnVars
  <2> QED BY <1>3, <2>1, <2>2 DEF Environment
<1>4. CASE UNCHANGED vars
  BY <1>4 DEF vars, lnVars
<1> QED BY <1>2, <1>3, <1>4 DEF Next

\* Nothing but a payment to the node is on its way to a quote.
LEMMA ComingMoves ==
    ASSUME TypeInv, Calm, [Next]_vars, NEW q \in MintQuotes, Coming(q)'
    PROVE  Coming(q) \/ InvoicePaid(q)
<1> USE DEF TypeInv, TypeOK
<1>0. q # NoInvoice
  BY ServerAssumption DEF ServerAssumption
<1>1. CASE EventRead
  <2>1. cursor' = cursor + 1 /\ cursor < Len(payLog) /\ payLog' = payLog
        /\ evt' \in {payLog[cursor + 1], NoInvoice}
    BY <1>1 DEF EventRead
  <2>2. cursor \in Nat /\ Len(payLog) \in Nat
    OBVIOUS
  <2>3. CASE evt' = q
    BY <1>0, <2>1, <2>2, <2>3 DEF Coming
  <2>4. ASSUME NEW i \in (cursor' + 1)..Len(payLog'), payLog'[i] = q PROVE Coming(q)
    <3>1. i \in (cursor + 1)..Len(payLog)
      BY <2>1, <2>2
    <3> QED BY <2>1, <2>4, <3>1 DEF Coming
  <2> QED BY <2>3, <2>4 DEF Coming
<1>2. CASE EventWrite
  BY <1>0, <1>2 DEF EventWrite, Coming
<1>3. ASSUME NEW p \in MintQuotes, InvoicePaid(p), p # q PROVE Coming(q)
  <2>1. payLog' = Append(payLog, p) /\ cursor' = cursor /\ evt' = evt
    BY <1>3 DEF InvoicePaid
  <2>2. ASSUME NEW i \in (cursor' + 1)..Len(payLog'), payLog'[i] = q
        PROVE  i \in (cursor + 1)..Len(payLog) /\ payLog[i] = q
    BY <1>3, <2>1, <2>2
  <2> QED BY <2>1, <2>2 DEF Coming
<1>4. CASE UNCHANGED <<payLog, cursor, evt>>
  BY <1>4 DEF Coming
<1> QED BY CalmStream, <1>1, <1>2, <1>3, <1>4

\* Once the invoice task has written it, it is not coming any more.
LEMMA WrittenOnce ==
    ASSUME TypeInv, StreamInv, NEW q \in MintQuotes, EventWrite, evt = q
    PROVE  Coming(q) /\ ~Coming(q)'
<1> USE DEF TypeInv, TypeOK
<1>1. q # NoInvoice /\ evt' = NoInvoice /\ payLog' = payLog /\ cursor' = cursor
  BY DEF EventWrite
<1>2. cursor \in DOMAIN payLog /\ payLog[cursor] = q
  BY <1>1 DEF StreamInv
<1>3. ASSUME NEW i \in (cursor + 1)..Len(payLog) PROVE payLog[i] # q
  <2>1. i \in DOMAIN payLog /\ i # cursor
    BY <1>2
  <2> QED BY <1>2, <2>1 DEF StreamInv
<1> QED BY <1>1, <1>3 DEF Coming

\* No signature for a mint request is refused.
LEMMA SignedAtOnce ==
    ASSUME TypeInv, KnowsInv, StreamInv, Signable, NEW w \in Workers,
           pc[w] = "mint_sign", idx[w] \in DOMAIN req[w].outputs
    PROVE  LET o == req[w].outputs[idx[w]]
           IN  BlindSign(o) /\ SignatureAccepted(o)
<1>1. req[w] \in Requests /\ req[w].kind = "mint"
  BY DEF TypeInv, TaskInv, MintSteps
<1>2. BlindSign(req[w].outputs[idx[w]])
  BY <1>1 DEF Signable, StreamInv, BlindSign
<1>3. ~SignatureStored(req[w].outputs[idx[w]].coin)
  <2>1. pc[w] \in Committed /\ idx[w] >= idx[w]
    BY DEF Committed, TypeInv, TypeOK, TaskTypeOK
  <2> QED BY <1>1, <2>1 DEF KnowsInv, TaskKnows, OutputsUnsigned
<1> QED BY <1>2, <1>3 DEF SignatureAccepted

\* A mint request that has begun to sign goes on until it removes the quote.
LEMMA DrawnStays ==
    ASSUME TypeInv, KnowsInv, StreamInv, Signable, Calm, [Next]_vars,
           NEW q \in MintQuotes, Drawn(q)
    PROVE  Drawn(q)' \/ mintQuote'[q] = "removed"
<1> USE DEF TypeInv, TypeOK
<1>1. PICK w \in Workers : pc[w] = "mint_sign" /\ idx[w] # 1 /\ req[w].quote = q
  BY DEF Drawn
<1>2. CASE Still(w)
  BY <1>1, <1>2 DEF Still, Drawn
<1>3. CASE MintSign(w)
  <2>1. LET o == req[w].outputs[idx[w]] IN BlindSign(o) /\ SignatureAccepted(o)
    BY <1>1, <1>3, SignedAtOnce DEF MintSign
  <2>2. Advance(w)
    BY <1>3, <2>1 DEF MintSign, SignOutput
  <2>3. pc'[w] = pc[w] /\ req'[w] = req[w] /\ idx'[w] = idx[w] + 1 /\ idx[w] \in Nat \ {0}
    BY <2>2 DEF Advance, TaskTypeOK
  <2> QED BY <1>1, <2>3 DEF Drawn
<1>4. CASE MintRemoveQuote(w)
  BY <1>1, <1>4 DEF MintRemoveQuote, RemoveMintQuote, StoreTypeOK
<1>5. ASSUME ServerStep(w) PROVE MintSign(w) \/ MintRemoveQuote(w)
  BY <1>1, <1>5 DEF ServerStep, MintHandlers, MintReadQuote, SwapSpend, SwapSign, SwapReply, MeltProcess,
       MeltSpend, MeltRemoveQuote, MeltOverflow, MeltChange, MeltReply, MeltLookup, MeltCredit, MeltPay, MeltPayError
<1>6. \A r \in Requests : ~Dispatch(w, r)
  BY <1>1 DEF Dispatch, Busy
<1>7. ASSUME NEW v \in Workers, v # w, Moved(v) PROVE Still(w)
  BY <1>7, MovedAlone
<1>8. UNCHANGED taskVars => Still(w)
  BY DEF Still, taskVars
<1> QED BY CalmMoves, <1>2, <1>3, <1>4, <1>5, <1>6, <1>7, <1>8

\* A melt settles this quote inside the mint.
PaysInside(w, q) == MeltCredit(w) /\ MeltInvoice[req[w].quote] = q

\* Only the invoice task and a melt open a quote.
LEMMA OpenMoves ==
    ASSUME TypeInv, KnowsInv, StreamInv, Signable, Calm, [Next]_vars,
           NEW q \in MintQuotes, Open(q)'
    PROVE  Open(q) \/ (EventWrite /\ evt = q) \/ \E w \in Workers : PaysInside(w, q)
<1> USE DEF TypeInv, TypeOK
<1>1. mintQuote'[q] = "paid" /\ ~Drawn(q)
  BY DrawnStays DEF Open
<1>2. ASSUME NEW p \in MintQuotes, NewMintQuote(p) PROVE mintQuote[q] = "paid"
  BY <1>1, <1>2 DEF NewMintQuote, AddMintQuote, StoreTypeOK
<1>3. ASSUME NEW w \in Workers, MintRemoveQuote(w) PROVE mintQuote[q] = "paid"
  BY <1>1, <1>3 DEF MintRemoveQuote, RemoveMintQuote, StoreTypeOK
<1>4. ASSUME NEW w \in Workers, MeltCredit(w) PROVE mintQuote[q] = "paid" \/ PaysInside(w, q)
  BY <1>1, <1>4 DEF MeltCredit, AddMintQuote, StoreTypeOK, PaysInside
<1>5. ASSUME EventWrite PROVE mintQuote[q] = "paid" \/ evt = q
  BY <1>1, <1>5 DEF EventWrite, AddMintQuote, StoreTypeOK
<1>6. mintQuote' = mintQuote => mintQuote[q] = "paid"
  BY <1>1
<1>7. mintQuote[q] = "paid" \/ (EventWrite /\ evt = q) \/ \E w \in Workers : PaysInside(w, q)
  BY <1>2, <1>3, <1>4, <1>5, <1>6, Writers DEF Writes
<1> QED BY <1>1, <1>7 DEF Open

\* What a step can add to a quote's reserve is what it was paid.
LEMMA ReserveMoves ==
    ASSUME TypeInv, KnowsInv, StreamInv, Signable, Calm, [Next]_vars, NEW q \in MintQuotes
    PROVE  \/ Reserve(q)' <= Reserve(q)
           \/ /\ InvoicePaid(q) \/ \E w \in Workers : PaysInside(w, q)
              /\ Reserve(q)' <= Reserve(q) + MintAmount[q]
<1>0. MintAmount[q] \in Nat
  BY MintAssumption DEF MintAssumption
<1>1. CASE EventWrite /\ evt = q
  <2>1. Coming(q) /\ ~Coming(q)'
    BY <1>1, WrittenOnce
  <2> QED BY <1>0, <2>1 DEF Reserve
<1>2. CASE InvoicePaid(q)
  <2>1. ~EventWrite
    <3>1. InvoicePaid(q) => cursor' = cursor /\ payLog' # payLog
      BY DEF InvoicePaid, TypeInv, TypeOK
    <3> QED BY <1>2, <3>1 DEF EventWrite
  <2>2. \A w \in Workers : ~PaysInside(w, q)
    <3>1. InvoicePaid(q) => payLog' # payLog
      BY DEF InvoicePaid, TypeInv, TypeOK
    <3> QED BY <1>2, <3>1 DEF PaysInside, MeltCredit, Paid
  <2>3. Open(q)' => Open(q)
    BY <2>1, <2>2, OpenMoves
  <2> QED BY <1>0, <1>2, <2>3 DEF Reserve
<1>3. ASSUME ~InvoicePaid(q), ~(EventWrite /\ evt = q)
      PROVE  \/ Reserve(q)' <= Reserve(q)
             \/ /\ \E w \in Workers : PaysInside(w, q)
                /\ Reserve(q)' <= Reserve(q) + MintAmount[q]
  <2>1. Coming(q)' => Coming(q)
    BY <1>3, ComingMoves
  <2>2. Open(q)' => Open(q) \/ \E w \in Workers : PaysInside(w, q)
    BY <1>3, OpenMoves
  <2> QED BY <1>0, <2>1, <2>2 DEF Reserve
<1> QED BY <1>1, <1>2, <1>3

\* The invoice task and the log, after a step.
LEMMA StepLog ==
    ASSUME TypeInv, StreamInv, Calm, [Next]_vars
    PROVE  /\ \A i, j \in DOMAIN payLog' : payLog'[i] = payLog'[j] => i = j
           /\ evt' # NoInvoice => cursor' # 0 /\ evt' = payLog'[cursor']
<1> USE DEF TypeInv, TypeOK
<1>1. CASE UNCHANGED <<payLog, cursor, evt>>
  BY <1>1 DEF StreamInv
<1>2. CASE EventRead
  BY <1>2 DEF EventRead, StreamInv
<1>3. CASE EventWrite
  BY <1>3 DEF EventWrite, StreamInv
<1>4. ASSUME NEW q \in MintQuotes, InvoicePaid(q)
      PROVE  /\ \A i, j \in DOMAIN payLog' : payLog'[i] = payLog'[j] => i = j
             /\ evt' # NoInvoice => cursor' # 0 /\ evt' = payLog'[cursor']
  <2>1. q \notin Range(payLog) /\ payLog' = Append(payLog, q) /\ cursor' = cursor /\ evt' = evt
    BY <1>4 DEF InvoicePaid
  <2>2. \A i \in DOMAIN payLog' : /\ i = Len(payLog) + 1 => payLog'[i] = q
                                  /\ i # Len(payLog) + 1 => i \in DOMAIN payLog /\ payLog'[i] = payLog[i]
    BY <2>1
  <2>3. \A i \in DOMAIN payLog : payLog[i] # q
    BY <2>1 DEF Range
  <2>4. evt' # NoInvoice => cursor' # 0 /\ evt' = payLog'[cursor']
    BY <2>1 DEF StreamInv
  <2> QED BY <2>2, <2>3, <2>4 DEF StreamInv
<1> QED BY CalmStream, <1>1, <1>2, <1>3, <1>4

\* A settled quote stays settled: its row is written as paid or removed only.
LEMMA SettledStays ==
    ASSUME TypeInv, [Next]_vars, NEW q \in MintQuotes, Settled(q)
    PROVE  Settled(q)'
<1>1. ASSUME NEW p \in MintQuotes, NewMintQuote(p) PROVE Settled(q)'
  BY <1>1 DEF NewMintQuote, AddMintQuote, Settled, TypeInv, TypeOK, StoreTypeOK
<1>2. ASSUME NEW w \in Workers, MintRemoveQuote(w) \/ MeltCredit(w) PROVE Settled(q)'
  BY <1>2 DEF MintRemoveQuote, RemoveMintQuote, MeltCredit, AddMintQuote, Settled, TypeInv, TypeOK, StoreTypeOK
<1>3. CASE EventWrite
  BY <1>3 DEF EventWrite, AddMintQuote, Settled, TypeInv, TypeOK, StoreTypeOK
<1>4. mintQuote' = mintQuote => Settled(q)'
  BY DEF Settled
<1> QED BY <1>1, <1>2, <1>3, <1>4, Writers DEF Writes

\* What a quote was paid is on its row or about to be.
LEMMA StepFunded ==
    ASSUME TypeInv, StreamInv, Calm, [Next]_vars, NEW q \in MintQuotes, Funded(q)'
    PROVE  Settled(q)' \/ (mintQuote'[q] = "unpaid" /\ Coming(q)')
<1> USE DEF TypeInv, TypeOK
<1>1. ASSUME mintQuote[q] = "unpaid" PROVE mintQuote'[q] = "unpaid" \/ Settled(q)'
  <2>1. ASSUME NEW p \in MintQuotes, NewMintQuote(p) PROVE mintQuote'[q] = "unpaid"
    BY <1>1, <2>1 DEF NewMintQuote, AddMintQuote, StoreTypeOK
  <2>2. ASSUME NEW w \in Workers, MintRemoveQuote(w) \/ MeltCredit(w)
        PROVE  mintQuote'[q] = "unpaid" \/ Settled(q)'
    BY <1>1, <2>2 DEF MintRemoveQuote, RemoveMintQuote, MeltCredit, AddMintQuote, Settled, StoreTypeOK
  <2>3. EventWrite => mintQuote'[q] = "unpaid" \/ Settled(q)'
    BY <1>1 DEF EventWrite, AddMintQuote, Settled, StoreTypeOK
  <2> QED BY <1>1, <2>1, <2>2, <2>3, Writers DEF Writes
<1>2. ASSUME mintQuote[q] = "unpaid", Coming(q) PROVE Settled(q)' \/ Coming(q)'
  <2>1. CASE UNCHANGED <<payLog, cursor, evt>>
    BY <1>2, <2>1 DEF Coming
  <2>2. CASE EventRead
    <3>1. /\ evt = NoInvoice /\ cursor' = cursor + 1 /\ payLog' = payLog /\ cursor \in Nat
          /\ evt' = IF MintQuoteStored(payLog[cursor + 1]) THEN payLog[cursor + 1] ELSE NoInvoice
      BY <2>2 DEF EventRead
    <3>2. PICK i \in (cursor + 1)..Len(payLog) : payLog[i] = q
      BY <1>2, <3>1, ServerAssumption DEF Coming, ServerAssumption
    <3>3. CASE i = cursor + 1
      BY <1>2, <3>1, <3>2, <3>3 DEF MintQuoteStored, Coming
    <3>4. CASE i # cursor + 1
      BY <3>1, <3>2, <3>4 DEF Coming
    <3> QED BY <3>3, <3>4
  <2>3. CASE EventWrite
    <3>1. CASE evt = q
      BY <2>3, <3>1 DEF EventWrite, AddMintQuote, Settled, StoreTypeOK
    <3>2. CASE evt # q
      BY <1>2, <2>3, <3>2 DEF EventWrite, Coming
    <3> QED BY <3>1, <3>2
  <2>4. ASSUME NEW p \in MintQuotes, InvoicePaid(p) PROVE Coming(q)'
    <3>1. payLog' = Append(payLog, p) /\ cursor' = cursor /\ evt' = evt
      BY <2>4 DEF InvoicePaid
    <3>2. \A i \in (cursor + 1)..Len(payLog) :
                i \in (cursor + 1)..Len(payLog') /\ payLog'[i] = payLog[i]
      BY <3>1
    <3> QED BY <1>2, <3>1, <3>2 DEF Coming
  <2> QED BY CalmStream, <2>1, <2>2, <2>3, <2>4
<1>3. CASE Funded(q)
  BY <1>1, <1>2, <1>3, SettledStays DEF StreamInv, Settled
<1>4. ASSUME NEW p \in MintQuotes, InvoicePaid(p), ~Funded(q)
      PROVE  Settled(q)' \/ (mintQuote'[q] = "unpaid" /\ Coming(q)')
  <2>1. payLog' = Append(payLog, p) /\ payment' = payment /\ mintQuote' = mintQuote
        /\ cursor' = cursor /\ mintQuote[p] # "none"
    BY <1>4 DEF InvoicePaid, quoteVars
  <2>2. p = q
    <3>1. q \in Range(payLog')
      BY <1>4, <2>1 DEF Funded
    <3>2. q \notin Range(payLog)
      BY <1>4 DEF Funded
    <3> QED BY <2>1, <3>1, <3>2 DEF Range
  <2>3. Len(payLog) + 1 \in (cursor' + 1)..Len(payLog') /\ payLog'[Len(payLog) + 1] = q
    BY <2>1, <2>2
  <2>4. Coming(q)'
    BY <2>3 DEF Coming
  <2> QED BY <2>1, <2>2, <2>4 DEF Settled, StoreTypeOK, MintQuoteState
<1>5. ASSUME NEW w \in Workers, MeltCredit(w), ~Funded(q) PROVE Settled(q)'
  <2>1. /\ req[w].quote \in MeltQuotes /\ UNCHANGED payLog
        /\ payment' = [payment EXCEPT ![req[w].quote] = "internal"]
    BY <1>5, MeltCredits
  <2>2. MeltInvoice[req[w].quote] = q
    BY <1>5, <2>1 DEF Funded
  <2> QED BY <1>5, <2>2 DEF MeltCredit, AddMintQuote, Settled, StoreTypeOK
<1>6. NoneFunded => Funded(q)
  BY DEF NoneFunded
<1> QED BY StepsOfTheLedger, <1>3, <1>4, <1>5, <1>6 DEF QuietStep, LedgerStep

\* A task that signs for a quote finds it open: nobody else redeems it.
LEMMA StepSigning ==
    ASSUME TypeInv, SpendInv, StreamInv, [Next]_vars, NEW w \in Workers, pc'[w] = "mint_sign"
    PROVE  mintQuote'[req'[w].quote] = "paid"
<1> USE DEF TypeInv, TypeOK
<1>1. CASE MintReadQuote(w)
  <2>1. req[w].quote \in MintQuotes
    BY <1>1, RequestTyping DEF MintReadQuote, TaskInv, MintSteps
  <2>2. mintQuote[req[w].quote] = "paid" /\ mintQuote' = mintQuote /\ req' = req
    BY <1>1 DEF MintReadQuote, Goto, Return, TaskTypeOK, storeVars
  <2> QED BY <2>2
<1>2. ASSUME pc'[w] = pc[w], req'[w] = req[w] PROVE mintQuote'[req'[w].quote] = "paid"
  <2> DEFINE q == req[w].quote
  <2>1. q \in MintQuotes /\ q # NoQuote /\ mintQuote[q] = "paid" /\ pc[w] = "mint_sign"
    <3>1. pc[w] = "mint_sign" /\ req[w] \in Requests /\ req[w].kind = "mint"
      BY <1>2 DEF TaskInv, MintSteps
    <3>2. q \in MintQuotes
      BY <3>1, RequestTyping
    <3>3. q # NoQuote
      BY <3>2, MintAssumption DEF MintAssumption
    <3> QED BY <3>1, <3>2, <3>3 DEF StreamInv
  <2> HIDE DEF q
  <2>2. ASSUME NEW v \in Workers, MintRemoveQuote(v) PROVE mintQuote'[q] = "paid"
    <3>1. v # w
      BY <1>2, <2>1, <2>2 DEF MintRemoveQuote, Return, TaskTypeOK
    <3>2. req[v].quote # q
      BY <2>1, <2>2, <3>1 DEF q, MintRemoveQuote, SpendInv, InFlightDisjoint, Disjoint, Busy
    <3> QED BY <2>1, <2>2, <3>2 DEF MintRemoveQuote, RemoveMintQuote, StoreTypeOK
  <2>3. ASSUME NEW p \in MintQuotes, NewMintQuote(p) PROVE mintQuote'[q] = "paid"
    BY <2>1, <2>3 DEF NewMintQuote, AddMintQuote, StoreTypeOK
  <2>4. ASSUME EventWrite \/ \E v \in Workers : MeltCredit(v) PROVE mintQuote'[q] = "paid"
    BY <2>1, <2>4 DEF EventWrite, MeltCredit, AddMintQuote, StoreTypeOK
  <2>5. mintQuote'[q] = "paid"
    BY <2>1, <2>2, <2>3, <2>4, Writers DEF Writes
  <2> QED BY <1>2, <2>5 DEF q
<1>3. \/ \E r \in Requests : SwapVerify(w, r)
      \/ SwapSpend(w) \/ MeltProcess(w) \/ MeltSpend(w)
      \/ MeltRemoveQuote(w) \/ MeltCredit(w) \/ MeltPay(w)
      => pc'[w] # "mint_sign"
  BY DEF SwapVerify, Accept, SwapSpend, MeltProcess, MeltSpend, MeltRemoveQuote, MeltCredit,
         MeltPay, Paid, Goto, Advance, Return, TaskTypeOK
<1> QED BY <1>1, <1>2, <1>3, Moves

\* Every step keeps what is known of the invoice stream.
LEMMA StepStream ==
    ASSUME TypeInv, SpendInv, StreamInv, Calm, [Next]_vars
    PROVE  StreamInv'
<1>1. FirstKeyset \in known' /\ active' = FirstKeyset
  BY CalmMoves DEF StreamInv, keysetVars
<1>2. \A q \in MintQuotes : Funded(q)' => Settled(q)' \/ (mintQuote'[q] = "unpaid" /\ Coming(q)')
  BY StepFunded
<1>3. \A w \in Workers : pc'[w] = "mint_sign" => mintQuote'[req'[w].quote] = "paid"
  BY StepSigning
<1> QED BY <1>1, <1>2, <1>3, StepLog DEF StreamInv

-----------------------------------------------------------------------------
(* The steps and the reserves *)

\* What comes in covers what is held and reserved more.
LEMMA StaysReserved ==
    ASSUME Typed, Typed', Reserved, NEW w \in Workers,
           \A v \in Workers \ {w} : Hold(v)' <= Hold(v),
           Hold(w)' + Reserves' + escrow <= Hold(w) + Reserves + escrow'
    PROVE  Reserved'
<1> DEFINE e == escrow
           f == escrow'
           H == Held
           I == Held'
           R == Reserves
           S == Reserves'
           h == Hold(w)
           i == Hold(w)'
<1>1. H \in Nat /\ I \in Nat /\ h \in Nat /\ i \in Nat
  BY SumsType, SumsTypeNext, HoldType DEF Typed, SumsTyped
<1>2. R \in Nat /\ S \in Nat
  BY ReservesType, ReservesTypeNext DEF Typed, ReservesTyped
<1>3. e \in Int /\ f \in Int
  BY DEF Typed, TypeInv, TypeOK, StoreTypeOK
<1>4. I + h <= H + i
  BY HeldChange
<1>5. e >= H + R /\ i + S + e <= h + R + f
  BY DEF Reserved
<1> HIDE DEF e, f, H, I, R, S, h, i
<1>6. f >= I + S
  BY <1>1, <1>2, <1>3, <1>4, <1>5
<1> QED BY <1>6 DEF Reserved, f, I, S

\* So it does when no task comes to hold more.
LEMMA StaysReservedQuiet ==
    ASSUME Typed, Typed', Reserved, \A v \in Workers : Hold(v)' <= Hold(v),
           Reserves' + escrow <= Reserves + escrow'
    PROVE  Reserved'
<1> DEFINE e == escrow
           f == escrow'
           H == Held
           I == Held'
           R == Reserves
           S == Reserves'
<1>1. H \in Nat /\ I \in Nat
  BY SumsType, SumsTypeNext DEF Typed, SumsTyped
<1>2. R \in Nat /\ S \in Nat
  BY ReservesType, ReservesTypeNext DEF Typed, ReservesTyped
<1>3. e \in Int /\ f \in Int
  BY DEF Typed, TypeInv, TypeOK, StoreTypeOK
<1>4. I <= H
  BY HeldKept
<1>5. e >= H + R /\ S + e <= R + f
  BY DEF Reserved
<1> HIDE DEF e, f, H, I, R, S
<1>6. f >= I + S
  BY <1>1, <1>2, <1>3, <1>4, <1>5
<1> QED BY <1>6 DEF Reserved, f, I, S

\* A payment to a quote, over Lightning or inside: what comes in is what has
\* to be kept for it.
LEMMA PaidReserved ==
    ASSUME Typed, Typed', Reserved, NEW q \in MintQuotes,
           \A v \in Workers : Hold(v)' <= Hold(v), escrow' = escrow + MintAmount[q],
           \A p \in MintQuotes \ {q} : Reserve(p)' <= Reserve(p),
           Reserve(q)' <= Reserve(q) + MintAmount[q]
    PROVE  Reserved'
<1> DEFINE e == escrow
           f == escrow'
           R == Reserves
           S == Reserves'
           r == Reserve(q)
           s == Reserve(q)'
           a == MintAmount[q]
<1>1. R \in Nat /\ S \in Nat /\ r \in Nat /\ s \in Nat
  BY ReservesType, ReservesTypeNext DEF Typed, ReservesTyped
<1>2. e \in Int /\ f = e + a /\ a \in Nat
  BY MintAssumption DEF Typed, TypeInv, TypeOK, StoreTypeOK, MintAssumption
<1>3. S + r <= R + s
  BY ReservesChange DEF Typed
<1>4. s <= r + a
  OBVIOUS
<1> HIDE DEF e, f, R, S, r, s, a
<1>5. S + e <= R + f
  BY <1>1, <1>2, <1>3, <1>4
<1> QED BY <1>5, StaysReservedQuiet DEF e, f, R, S

\* The first signature of a mint request draws what its quote was to keep.
LEMMA FirstDraws ==
    ASSUME TypeInv, SpendInv, StreamInv, Calm, [Next]_vars,
           NEW w \in Workers, Signs(w), pc[w] = "mint_sign", idx[w] = 1,
           NEW q \in MintQuotes, q = req[w].quote, ~InvoicePaid(q)
    PROVE  Reserve(q)' + MintAmount[q] <= Reserve(q)
<1> USE DEF TypeInv, TypeOK
<1>1. q # NoQuote /\ MintAmount[q] \in Nat
  BY MintAssumption DEF MintAssumption
<1>2. Open(q)
  <2>1. ASSUME NEW v \in Workers, pc[v] = "mint_sign", idx[v] # 1, req[v].quote = q PROVE FALSE
    BY <1>1, <2>1 DEF SpendInv, InFlightDisjoint, Disjoint, Busy
  <2> QED BY <2>1 DEF StreamInv, Open, Drawn
<1>3. Drawn(q)'
  <2>1. pc'[w] = pc[w] /\ req'[w] = req[w] /\ idx'[w] = 2
    BY DEF Signs, Advance, TaskTypeOK
  <2> QED BY <2>1 DEF Drawn
<1>4. Coming(q)' => Coming(q)
  BY ComingMoves
<1> QED BY <1>1, <1>2, <1>3, <1>4 DEF Reserve, Open

\* A step in which no quote is paid keeps the escrow above what is held and
\* reserved.
LEMMA LedgerReserved ==
    ASSUME Typed, Typed', SpendInv, KnowsInv, StreamInv, Reserved, Signable, Calm, [Next]_vars,
           NEW w \in Workers, LedgerStep(w),
           \A q \in MintQuotes : ~InvoicePaid(q) /\ Reserve(q)' <= Reserve(q)
    PROVE  Reserved'
<1>0. /\ TypeInv /\ LedgerAssumptions /\ escrow \in Int
      /\ Hold(w) \in Nat /\ Hold(w)' \in Nat /\ Reserves \in Nat /\ Reserves' \in Nat
  BY HoldType, SumsTypeNext, ReservesType, ReservesTypeNext
     DEF Typed, TypeInv, TypeOK, StoreTypeOK, SumsTyped, ReservesTyped
<1>1. \A v \in Workers \ {w} : Hold(v)' <= Hold(v)
  <2>1. \A v \in Workers \ {w} : Hold(v)' = Hold(v)
    BY <1>0, OthersStill, StillHolds
  <2>2. \A v \in Workers : Hold(v) \in Nat
    BY HoldType DEF Typed
  <2> QED BY <2>1, <2>2
<1>2. Reserves' <= Reserves
  BY <1>0, ReservesKept
<1> DEFINE e == escrow
           f == escrow'
           R == Reserves
           S == Reserves'
           h == Hold(w)
           i == Hold(w)'
<1>3. ASSUME i + S + e <= h + R + f PROVE Reserved'
  BY <1>1, <1>3, StaysReserved
<1>4. /\ h \in Nat /\ i \in Nat /\ R \in Nat /\ S \in Nat /\ e \in Int /\ S <= R
  BY <1>0, <1>2
<1>5. CASE SwapSpend(w) \/ MeltSpend(w)
  <2> DEFINE a == Input(w).amount
  <2>1. a \in Nat /\ f = e + a /\ i = a + h
    BY <1>0, <1>5, SpendHolds
  <2> HIDE DEF e, f, R, S, h, i, a
  <2>2. i + S + e <= h + R + f
    BY <1>4, <2>1
  <2> QED BY <1>3, <2>2
<1>6. CASE MeltRemoveQuote(w)
  <2> DEFINE n == Value(req[w].inputs)
             d == due[w]
             chg == ChangeAmounts(w)'
             s == Sum(chg, DOMAIN chg)
  <2>1. /\ pc[w] = "melt_remove" /\ pc'[w] = "melt_change" /\ req'[w] = req[w] /\ due'[w] = d
        /\ idx'[w] = 1 /\ f = e - d
    BY <1>6 DEF MeltRemoveQuote, RemoveMeltQuote, Goto, Typed, TypeInv, TypeOK, TaskTypeOK
  <2>2. d \in Nat /\ n \in Nat /\ d <= n /\ h = n
    BY <2>1, MeltPays DEF Typed, KnowsInv
  <2>3. s <= n - d /\ DOMAIN chg = 1..Len(chg)
    BY <2>1, ChangeAfter
  <2>4. i = s
    BY <2>1, <2>3 DEF Hold
  <2> HIDE DEF e, f, R, S, h, i, n, d, chg, s
  <2>5. i + S + e <= h + R + f
    BY <1>4, <2>1, <2>2, <2>3, <2>4
  <2> QED BY <1>3, <2>5
<1>7. CASE Signs(w)
  <2> DEFINE a == ToSign(w).amount
  <2>1. a \in Nat /\ f = e - a
    BY <1>0, <1>7, SignHolds, SignedOutput
  <2>2. CASE pc[w] = "mint_sign" /\ idx[w] = 1
    <3>1. req[w] \in Requests /\ req[w].kind = "mint"
      BY <2>2 DEF Typed, TypeInv, TaskInv, MintSteps
    <3>2. PICK q \in MintQuotes : q = req[w].quote
      BY <3>1, RequestTyping
    <3> DEFINE m == MintAmount[q]
               r == Reserve(q)
               t == Reserve(q)'
               u == Value(req[w].outputs)
    <3>3. t + m <= r
      BY <1>0, <1>7, <2>2, <3>2, FirstDraws
    <3>4. S + r <= R + t
      BY <1>0, ReservesChange
    <3>5. h = 0 /\ a + i = u
      BY <1>0, <1>7, <2>2, SignHolds
    <3>6. u <= m /\ m \in Nat /\ r \in Nat /\ t \in Nat
      BY <1>0, <3>1, <3>2, MintAssumption, ReservesType, ReservesTypeNext
         DEF LedgerAssumptions, CarefulClients, MintAssumption, ReservesTyped
    <3> HIDE DEF e, f, R, S, h, i, a, m, r, t, u
    <3>7. i + S + e <= h + R + f
      BY <1>4, <2>1, <3>3, <3>4, <3>5, <3>6
    <3> QED BY <1>3, <3>7
  <2>3. CASE ~(pc[w] = "mint_sign" /\ idx[w] = 1)
    <3>1. h = a + i
      BY <1>0, <1>7, <2>3, SignHolds
    <3> HIDE DEF e, f, R, S, h, i, a
    <3>2. i + S + e <= h + R + f
      BY <1>4, <2>1, <3>1
    <3> QED BY <1>3, <3>2
  <2> QED BY <2>2, <2>3
<1> QED BY <1>5, <1>6, <1>7 DEF LedgerStep

\* Every step keeps the escrow above what is held and reserved.
LEMMA StepReserved ==
    ASSUME Typed, Typed', SpendInv, KnowsInv, StreamInv, Reserved, Signable, Calm, [Next]_vars
    PROVE  Reserved'
<1>0. /\ TypeInv /\ LedgerAssumptions /\ escrow \in Int
      /\ \A q \in MintQuotes : MintAmount[q] \in Nat /\ Reserve(q) \in Nat /\ Reserve(q)' \in Nat
  BY MintAssumption, ReservesType, ReservesTypeNext
     DEF Typed, TypeInv, TypeOK, StoreTypeOK, MintAssumption, ReservesTyped
<1>1. ASSUME NEW q \in MintQuotes, InvoicePaid(q) PROVE Reserved'
  <2>1. payLog' = Append(payLog, q) /\ payLog \in Seq(MintQuotes) /\ escrow' = escrow + MintAmount[q]
    BY <1>0, <1>1 DEF InvoicePaid, TypeInv, TypeOK
  <2>2. \A v \in Workers : Hold(v)' <= Hold(v)
    <3>1. \A v \in Workers : Hold(v)' = Hold(v) /\ Hold(v) \in Nat
      BY <1>1, PaidKnows, HoldType DEF Typed
    <3> QED BY <3>1
  <2>3. ASSUME NEW p \in MintQuotes \ {q} PROVE Reserve(p)' <= Reserve(p)
    <3>1. ~InvoicePaid(p)
      <4>1. payLog'[Len(payLog) + 1] = q
        BY <2>1
      <4>2. InvoicePaid(p) => payLog'[Len(payLog) + 1] = p
        BY <2>1 DEF InvoicePaid
      <4> QED BY <4>1, <4>2
    <3>2. \A w \in Workers : ~PaysInside(w, p)
      <4>1. payLog' # payLog
        BY <2>1
      <4> QED BY <4>1 DEF PaysInside, MeltCredit, Paid
    <3> QED BY <1>0, <3>1, <3>2, ReserveMoves
  <2>4. Reserve(q)' <= Reserve(q) + MintAmount[q]
    BY <1>0, ReserveMoves
  <2> QED BY <2>1, <2>2, <2>3, <2>4, PaidReserved
<1>2. ASSUME NEW w \in Workers, MeltCredit(w) PROVE Reserved'
  <2>1. PICK q \in MintQuotes : q = MeltInvoice[req[w].quote]
    BY <1>0, <1>2, MeltCredits
  <2>2. UNCHANGED payLog /\ escrow' = escrow + MintAmount[q] /\ pc'[w] = "melt_process"
    BY <1>0, <1>2, <2>1, MeltCredits
  <2>3. \A v \in Workers : Hold(v)' <= Hold(v)
    <3>1. Hold(w)' = 0
      BY <2>2 DEF Hold
    <3>2. \A v \in Workers : Hold(v) \in Nat
      BY HoldType DEF Typed
    <3>3. \A v \in Workers \ {w} : Hold(v)' = Hold(v)
      BY <1>0, <1>2, OthersStill, StillHolds
    <3> QED BY <3>1, <3>2, <3>3
  <2>4. ASSUME NEW p \in MintQuotes PROVE ~InvoicePaid(p)
    BY <1>0, <2>2 DEF InvoicePaid, TypeInv, TypeOK
  <2>5. ASSUME NEW p \in MintQuotes \ {q}, NEW v \in Workers, PaysInside(v, p) PROVE FALSE
    <3>1. v # w
      BY <2>1, <2>5 DEF PaysInside
    <3>2. pc'[v] = pc[v]
      BY <1>0, <1>2, <3>1, OthersStill DEF Still
    <3>3. pc[v] = "melt_credit" /\ pc'[v] = "melt_process"
      BY <1>0, <2>5 DEF PaysInside, MeltCredit, Paid, TypeInv, TypeOK, TaskTypeOK
    <3> QED BY <3>2, <3>3
  <2>6. \A p \in MintQuotes \ {q} : Reserve(p)' <= Reserve(p)
    BY <1>0, <2>4, <2>5, ReserveMoves
  <2>7. Reserve(q)' <= Reserve(q) + MintAmount[q]
    BY <1>0, ReserveMoves
  <2> QED BY <2>2, <2>3, <2>6, <2>7, PaidReserved
<1>3. ASSUME \A q \in MintQuotes : ~InvoicePaid(q), \A w \in Workers : ~MeltCredit(w) PROVE Reserved'
  <2>1. \A q \in MintQuotes : Reserve(q)' <= Reserve(q)
    BY <1>0, <1>3, ReserveMoves DEF PaysInside
  <2>2. CASE QuietStep
    <3>1. \A v \in Workers : Hold(v)' <= Hold(v)
      BY <1>0, <2>2, QuietKeeps
    <3>2. Reserves' <= Reserves /\ escrow' = escrow
      BY <1>0, <2>1, <2>2, ReservesKept DEF QuietStep
    <3>3. Reserves \in Nat /\ Reserves' \in Nat
      BY <1>0, ReservesType, ReservesTypeNext DEF ReservesTyped
    <3>4. Reserves' + escrow <= Reserves + escrow'
      <4> DEFINE R == Reserves
                 S == Reserves'
                 e == escrow
                 f == escrow'
      <4>1. R \in Nat /\ S \in Nat /\ e \in Int /\ S <= R /\ f = e
        BY <1>0, <3>2, <3>3
      <4> HIDE DEF R, S, e, f
      <4>2. S + e <= R + f
        BY <4>1
      <4> QED BY <4>2 DEF R, S, e, f
    <3> QED BY <3>1, <3>4, StaysReservedQuiet
  <2>3. ASSUME NEW w \in Workers, LedgerStep(w) PROVE Reserved'
    BY <1>3, <2>1, <2>3, LedgerReserved
  <2> QED BY <1>0, <1>3, <2>2, <2>3, StepsOfTheLedger
<1> QED BY <1>1, <1>2, <1>3

\* A mint that starts holds nothing and owes nothing.
LEMMA InitSolvent ==
    ASSUME LedgerAssumptions, Init
    PROVE  SolventInv
<1>1. TypeInv /\ KnowsInv
  BY InitTypeInv, InitLedger DEF LedgerInv
<1>2. \A w \in Workers : Hold(w) = 0
  BY DEF Init, TaskInit, Hold
<1>3. \A q \in MintQuotes : Reserve(q) = 0
  BY ServerAssumption DEF Init, StoreInit, Reserve, Open, Coming, ServerAssumption
<1>4. Held = 0 /\ Reserves = 0
  <2>1. Summable([w \in Workers |-> Hold(w)], Workers)
    BY <1>1, SumsType DEF KnowsInv
  <2>2. Summable([q \in MintQuotes |-> Reserve(q)], MintQuotes)
    BY ReservesType DEF ReservesTyped
  <2> QED BY <1>2, <1>3, <2>1, <2>2, SumZero DEF Held, Reserves
<1>5. StreamInv
  BY DEF Init, StoreInit, TaskInit, StreamInv, Funded, Range
<1> QED BY <1>1, <1>4, <1>5 DEF SolventInv, Reserved, Init, StoreInit

\* Every step keeps the invariant of solvency.
LEMMA StepSolvent ==
    ASSUME LedgerAssumptions, Signable, Calm, TypeInv, SpendInv, SolventInv, [Next]_vars
    PROVE  SolventInv'
<1>1. TypeInv' /\ Signatures' /\ \A v \in Workers : TaskKnows(v)'
  BY StepTypeInv, StepKnows DEF SolventInv
<1>2. KnowsInv'
  BY <1>1 DEF KnowsInv
<1>3. Typed /\ Typed'
  BY <1>1 DEF Typed, SolventInv, KnowsInv
<1>4. StreamInv'
  BY StepStream DEF SolventInv
<1>5. Reserved'
  BY <1>3, StepReserved DEF SolventInv
<1> QED BY <1>2, <1>4, <1>5 DEF SolventInv

\* With nothing in flight, what is kept for the quotes that can be redeemed
\* is what they are for.
LEMMA QuietSolvent ==
    ASSUME LedgerAssumptions, TypeInv, SolventInv
    PROVE  Solvent
<1> SUFFICES ASSUME Quiescent
             PROVE  escrow >= SumFunctionOnSet(MintAmount, {q \in MintQuotes : Funded(q) /\ mintQuote[q] # "removed"})
  BY DEF Solvent
<1> DEFINE S == {q \in MintQuotes : Funded(q) /\ mintQuote[q] # "removed"}
           f == [q \in MintQuotes |-> Reserve(q)]
<1>1. Held = 0
  <2>1. \A w \in Workers : Hold(w) = 0
    BY DEF Quiescent, Busy, Hold
  <2>2. Summable([w \in Workers |-> Hold(w)], Workers)
    BY SumsType DEF SolventInv, KnowsInv
  <2> QED BY <2>1, <2>2, SumZero DEF Held
<1>2. ASSUME NEW q \in S PROVE MintAmount[q] <= f[q]
  <2>1. Open(q) \/ Coming(q)
    BY DEF SolventInv, StreamInv, Settled, Open, Drawn, Quiescent, Busy
  <2> QED BY <2>1, MintAssumption DEF Reserve, MintAssumption
<1>3. Summable(f, MintQuotes) /\ IsFiniteSet(MintQuotes)
  BY ReservesType DEF ReservesTyped, LedgerAssumptions, FiniteMint
<1>4. S \subseteq MintQuotes /\ \A q \in MintQuotes : MintAmount[q] \in Nat
  BY MintAssumption DEF MintAssumption
<1>5. Reserves = Sum(f, MintQuotes)
  BY DEF Reserves
<1> HIDE DEF f, S
<1>6. Summable(f, S) /\ Summable(MintAmount, S)
  BY <1>3, <1>4, SubsetSummable, FS_Subset DEF Summable
<1>7. Sum(MintAmount, S) <= Sum(f, S)
  BY <1>2, <1>6, SumMonotone
<1>8. Sum(f, S) <= Sum(f, MintQuotes)
  BY <1>3, <1>4, SumSubset
<1>9. escrow >= Sum(MintAmount, S)
  <2>1. /\ Sum(MintAmount, S) \in Nat /\ Sum(f, S) \in Nat /\ Sum(f, MintQuotes) \in Nat
        /\ escrow \in Int
    BY <1>3, <1>6, SumType DEF TypeInv, TypeOK, StoreTypeOK
  <2>2. escrow >= 0 + Sum(f, MintQuotes)
    BY <1>1, <1>5 DEF SolventInv, Reserved
  <2> QED BY <1>7, <1>8, <2>1, <2>2
<1> QED BY <1>9 DEF S, Sum

\* In a mint without faults that never refuses a signature half way, nothing
\* in flight means that the value the mint holds covers every paid quote that
\* can be redeemed: also one whose row the invoice task or a melt has brought
\* back, for that takes a second payment.
THEOREM StaysSolvent ==
    ASSUME LedgerAssumptions, Signable, Calm
    PROVE  ExclusiveSpec => []Solvent
<1>1. Init => TypeInv /\ SpendInv /\ SolventInv
  BY InitTypeInv, InitSpend, InitSolvent
<1>2. TypeInv /\ SpendInv /\ SolventInv /\ [ExclusiveNext]_vars => TypeInv' /\ SpendInv' /\ SolventInv'
  <2> SUFFICES ASSUME TypeInv, SpendInv, SolventInv, [ExclusiveNext]_vars
               PROVE  TypeInv' /\ SpendInv' /\ SolventInv'
    OBVIOUS
  <2>1. [Next]_vars
    BY DEF ExclusiveNext
  <2> QED BY <2>1, StepTypeInv, StepSpend, StepSolvent
<1>3. TypeInv /\ SolventInv => Solvent
  BY QuietSolvent
<1> QED BY <1>1, <1>2, <1>3, PTL DEF ExclusiveSpec

-----------------------------------------------------------------------------
(* Nothing is lost *)

\* The quote's value has been used: it is gone, or being signed for.
Used(q) == mintQuote[q] = "removed" \/ Drawn(q)

UsedAmount(q) == IF Used(q) THEN MintAmount[q] ELSE 0

Uses == Sum([q \in MintQuotes |-> UsedAmount(q)], MintQuotes)

\* What was paid over Lightning, and what melts have settled inside.
Received == Sum(MintAmount, Range(payLog))

Settlements == {m \in MeltQuotes : payment[m] = "internal"}

Inside == Sum(MeltAmount, Settlements)

\* The escrow has nothing but what came in and was not used, and what tasks
\* hold.
Accounted == escrow + Uses <= (Received + Inside) + Held

\* The change outputs of a melt are for the first keyset, and what it owes is
\* no less than the quote's amount.
TaskFull(w) ==
    /\ pc[w] \in MeltSteps =>
        \A i \in DOMAIN req[w].outputs : req[w].outputs[i].keyset = FirstKeyset
    /\ pc[w] \in {"melt_process", "melt_spend", "melt_remove", "melt_change"} =>
        MeltAmount[req[w].quote] <= due[w]

\* What is settled inside was an invoice of the mint.
OwnInvoices == \A m \in Settlements : MeltInvoice[m] # External

FullInv ==
    /\ \A w \in Workers : TaskFull(w)
    /\ OwnInvoices

\* What is asked of clients and of the keys, in one formula.
FullAssumptions == LedgerAssumptions /\ Signable /\ FullValue /\ Halving /\ IsFiniteSet(MeltQuotes)

\* A melt that has come to its change has all of it in the list, and an output
\* for each part.
ChangeFull ==
    \A w \in Workers : pc[w] = "melt_change" =>
        LET chg == ChangeAmounts(w)
        IN  /\ chg \in Seq(KeyAmounts)
            /\ DOMAIN chg = 1..Len(chg) /\ Len(chg) <= Len(req[w].outputs)
            /\ due[w] <= Value(req[w].inputs)
            /\ Sum(chg, DOMAIN chg) = Value(req[w].inputs) - due[w]

\* It follows from what is asked of keys and clients.
LEMMA ChangeIsFull ==
    ASSUME FullAssumptions, Typed, FullInv
    PROVE  ChangeFull
<1> SUFFICES ASSUME NEW w \in Workers, pc[w] = "melt_change"
             PROVE  LET chg == ChangeAmounts(w)
                    IN  /\ chg \in Seq(KeyAmounts)
                        /\ DOMAIN chg = 1..Len(chg) /\ Len(chg) <= Len(req[w].outputs)
                        /\ due[w] <= Value(req[w].inputs)
                        /\ Sum(chg, DOMAIN chg) = Value(req[w].inputs) - due[w]
  BY DEF ChangeFull
<1> DEFINE r == req[w]
           v == Value(r.inputs)
           d == due[w]
           m == MeltAmount[r.quote]
           chg == ChangeAmounts(w)
<1>1. r \in Requests /\ r.kind = "melt" /\ r.quote \in MeltQuotes /\ d \in Nat
  BY MeltTask DEF Typed, MeltSteps, TypeInv, TypeOK, TaskTypeOK
<1>2. m \in Nat /\ FeeReserve[r.quote] \in Nat /\ v \in Nat /\ Total(r.inputs) = v
  BY <1>1, Totals, MintAssumption DEF Typed, MintAssumption
<1>3. m <= d /\ d <= v
  BY <1>1, <1>2 DEF FullInv, TaskFull, Typed, TaskKnows, Balanced
<1>4. v < Word /\ Word \in Nat \ {0}
  BY <1>1, StoreAssumption DEF Typed, LedgerAssumptions, CarefulClients, StoreAssumption
<1> DEFINE n == v - d
<1>5. n \in 0..(v - m) /\ n \in Nat /\ n < Word
  <2> HIDE DEF v, d, m
  <2> QED BY <1>1, <1>2, <1>3, <1>4
<1>6. chg = SplitOverKeys(n)
  <2>1. (Total(r.inputs) - d) % Word = n
    <3>1. Total(r.inputs) - d = n
      BY <1>2
    <3> HIDE DEF n
    <3> QED BY <1>4, <1>5, <3>1
  <2> HIDE DEF n
  <2> QED BY <2>1 DEF ChangeAmounts
<1>7. Doubling(KeyAmounts) /\ IsFiniteSet(KeyAmounts) /\ Halving
  BY DEF FullAssumptions, LedgerAssumptions, FiniteMint
<1>8. Len(SplitOverKeys(n)) <= Len(r.outputs)
  BY <1>1, <1>5 DEF FullAssumptions, FullValue
<1> HIDE DEF n, chg
<1>9. chg \in Seq(KeyAmounts) /\ Sum(chg, DOMAIN chg) = n
  BY <1>5, <1>6, <1>7, SplitIsWithin, SplitIsAll
<1>10. DOMAIN chg = 1..Len(chg)
  BY <1>9
<1> QED BY <1>3, <1>6, <1>8, <1>9, <1>10 DEF n, chg

\* The same after a step.
LEMMA ChangeIsFullNext == FullAssumptions' /\ Typed' /\ FullInv' => ChangeFull'
<1>1. FullAssumptions /\ Typed /\ FullInv => ChangeFull
  BY ChangeIsFull
<1> QED BY <1>1, PTL

\* Nothing a task signs is refused.
LEMMA NeverRefused ==
    ASSUME FullAssumptions, Typed, KnowsInv, StreamInv, FullInv, NEW w \in Workers,
           pc[w] \in SignSteps, idx[w] \in DOMAIN req[w].outputs,
           pc[w] = "melt_change" => idx[w] \in DOMAIN ChangeAmounts(w)
    PROVE  BlindSign(ToSign(w)) /\ SignatureAccepted(ToSign(w))
<1> DEFINE o == req[w].outputs[idx[w]]
<1>1. req[w] \in Requests /\ o \in Output
  <2>1. req[w] \in Requests
    BY DEF Typed, TypeInv, TaskInv, SignSteps, MintSteps, SwapSteps, MeltSteps
  <2> QED BY <2>1, RequestTyping
<1>2. ToSign(w).coin = o.coin /\ ToSign(w).keyset = o.keyset
  BY <1>1 DEF ToSign, Output
<1>3. ~SignatureStored(o.coin)
  <2>1. pc[w] \in Committed /\ idx[w] >= idx[w]
    BY DEF SignSteps, Committed, Typed, TypeInv, TypeOK, TaskTypeOK
  <2> QED BY <1>1, <2>1 DEF KnowsInv, TaskKnows, OutputsUnsigned
<1>4. o.keyset = FirstKeyset /\ ToSign(w).amount \in KeyAmounts
  <2>1. CASE pc[w] = "mint_sign"
    <3>1. req[w].kind = "mint"
      BY <2>1 DEF Typed, TypeInv, TaskInv, MintSteps
    <3> QED BY <1>1, <2>1, <3>1 DEF FullAssumptions, Signable, ToSign
  <2>2. CASE pc[w] = "swap_sign"
    <3>1. req[w].kind = "swap"
      BY <2>2 DEF Typed, TypeInv, TaskInv, SwapSteps
    <3> QED BY <1>1, <2>2, <3>1 DEF FullAssumptions, FullValue, ToSign
  <2>3. CASE pc[w] = "melt_change"
    <3>1. o.keyset = FirstKeyset
      BY <2>3 DEF FullInv, TaskFull, MeltSteps
    <3>2. ChangeAmounts(w)[idx[w]] \in KeyAmounts
      <4> DEFINE chg == ChangeAmounts(w)
      <4>1. chg \in Seq(KeyAmounts) /\ idx[w] \in DOMAIN chg
        BY <2>3, ChangeIsFull DEF ChangeFull
      <4> HIDE DEF chg
      <4>2. chg[idx[w]] \in KeyAmounts
        BY <4>1
      <4> QED BY <4>2 DEF chg
    <3> QED BY <1>1, <2>3, <3>1, <3>2 DEF ToSign, Output
  <2> QED BY <2>1, <2>2, <2>3 DEF SignSteps
<1> QED BY <1>2, <1>3, <1>4 DEF BlindSign, SignatureAccepted, StreamInv

\* A task that moves no value holds none.
LEMMA HoldEnds ==
    ASSUME FullAssumptions, Typed, KnowsInv, StreamInv, FullInv, NEW w \in Workers, ServerStep(w),
           ~SwapSpend(w), ~MeltSpend(w), ~MeltRemoveQuote(w), ~Signs(w)
    PROVE  Hold(w) = 0
<1>0. idx[w] \in Nat \ {0} /\ ~(pc[w] \in SignSteps /\ req[w] \notin Requests)
  BY DEF Typed, TypeInv, TypeOK, TaskTypeOK, TaskInv, SignSteps, MintSteps, SwapSteps, MeltSteps
<1>1. ASSUME pc[w] \in SignSteps, idx[w] \in DOMAIN req[w].outputs,
             pc[w] = "melt_change" => idx[w] \in DOMAIN ChangeAmounts(w), SignOutput(w, ToSign(w))
      PROVE  FALSE
  <2>1. BlindSign(ToSign(w)) /\ SignatureAccepted(ToSign(w))
    BY <1>1, NeverRefused
  <2> QED BY <1>1, <2>1 DEF SignOutput, Signs
<1>2. ~MintSign(w) /\ ~SwapSign(w) /\ ~MeltChange(w)
  BY <1>1 DEF MintSign, SwapSign, MeltChange, ChangeIndices, SignSteps, ToSign
<1>3. ASSUME NEW ps \in Seq(Output), idx[w] \notin DOMAIN ps PROVE Worth(ps, idx[w]..Len(ps)) = 0
  <2>1. idx[w]..Len(ps) = {}
    BY <1>0, <1>3
  <2> QED BY <2>1, SumEmpty, Zenon DEF Worth
<1>4. CASE MintRemoveQuote(w) \/ SwapReply(w)
  <2>1. pc[w] \in {"mint_sign", "swap_sign"} /\ idx[w] \notin DOMAIN req[w].outputs
    BY <1>4 DEF MintRemoveQuote, SwapReply
  <2>2. req[w].outputs \in Seq(Output)
    BY <1>0, <2>1, Served DEF SignSteps
  <2> QED BY <1>3, <2>1, <2>2 DEF Hold
<1>5. CASE MeltReply(w)
  <2> DEFINE chg == ChangeAmounts(w)
  <2>1. pc[w] = "melt_change" /\ idx[w] \notin DOMAIN chg \cap DOMAIN req[w].outputs
    BY <1>5 DEF MeltReply, ChangeIndices
  <2>2. DOMAIN chg = 1..Len(chg) /\ Len(chg) <= Len(req[w].outputs) /\ chg \in Seq(KeyAmounts)
    BY <2>1, ChangeIsFull DEF ChangeFull
  <2>3. req[w].outputs \in Seq(Output)
    BY <1>0, <2>1, Served DEF SignSteps
  <2> HIDE DEF chg
  <2>4. idx[w]..Len(chg) = {}
    BY <1>0, <2>1, <2>2, <2>3
  <2>5. Sum(chg, idx[w]..Len(chg)) = 0
    BY <2>4, SumEmpty, Zenon
  <2> QED BY <2>1, <2>5 DEF Hold, chg
<1>6. ~MeltOverflow(w)
  <2>1. SUFFICES ASSUME MeltOverflow(w) PROVE FALSE
    OBVIOUS
  <2>2. pc[w] = "melt_change" /\ Total(req[w].inputs) < due[w] /\ req[w] \in Requests
    BY <1>0, <2>1 DEF MeltOverflow, SignSteps
  <2>3. due[w] <= Value(req[w].inputs) /\ due[w] \in Nat
    BY <2>2, ChangeIsFull DEF ChangeFull, Typed, TypeInv, TypeOK, TaskTypeOK
  <2>4. Total(req[w].inputs) = Value(req[w].inputs) /\ Value(req[w].inputs) \in Nat
    BY <2>2, Totals DEF Typed
  <2> QED BY <2>2, <2>3, <2>4
<1>7. CASE MintReadQuote(w) \/ MeltProcess(w) \/ MeltLookup(w) \/ MeltCredit(w) \/ MeltPay(w) \/ MeltPayError(w)
  BY <1>7 DEF MintReadQuote, MeltProcess, MeltLookup, MeltCredit, MeltPay, MeltPayError, Hold
<1> QED BY <1>2, <1>4, <1>5, <1>6, <1>7 DEF ServerStep, MintHandlers

\* The value used is a sum of numbers.
UsesTyped ==
    /\ \A q \in MintQuotes : UsedAmount(q) \in Nat
    /\ Summable([q \in MintQuotes |-> UsedAmount(q)], MintQuotes)
    /\ Uses \in Nat

\* There are finitely many quotes, each for a number.
LEMMA UsesType == LedgerAssumptions => UsesTyped
<1> SUFFICES ASSUME LedgerAssumptions PROVE UsesTyped
  OBVIOUS
<1> DEFINE f == [q \in MintQuotes |-> UsedAmount(q)]
<1>1. \A q \in MintQuotes : UsedAmount(q) \in Nat
  BY MintAssumption DEF MintAssumption, UsedAmount
<1>2. \A q \in MintQuotes : f[q] \in Nat
  BY <1>1
<1>3. IsFiniteSet(MintQuotes)
  BY DEF LedgerAssumptions, FiniteMint
<1> HIDE DEF f
<1>4. Summable(f, MintQuotes)
  BY <1>2, <1>3 DEF Summable
<1>5. Sum(f, MintQuotes) \in Nat
  BY <1>4, SumType
<1> QED BY <1>1, <1>4, <1>5 DEF UsesTyped, Uses, f

\* The same after a step.
LEMMA UsesTypeNext == LedgerAssumptions' => UsesTyped'
BY UsesType, PTL

\* One quote is used: so much more is used in all.
LEMMA UsesChange ==
    ASSUME LedgerAssumptions, NEW q \in MintQuotes,
           \A p \in MintQuotes \ {q} : UsedAmount(p)' <= UsedAmount(p)
    PROVE  Uses' + UsedAmount(q) <= Uses + UsedAmount(q)'
<1> DEFINE f == [p \in MintQuotes |-> UsedAmount(p)]
           g == [p \in MintQuotes |-> UsedAmount(p)']
<1>1. Summable(f, MintQuotes) /\ Summable(g, MintQuotes)
  BY UsesType, UsesTypeNext DEF UsesTyped
<1>2. \A p \in MintQuotes \ {q} : g[p] <= f[p]
  OBVIOUS
<1> HIDE DEF f, g
<1>3. Sum(g, MintQuotes) + f[q] <= Sum(f, MintQuotes) + g[q]
  BY <1>1, <1>2, SumChange
<1> QED BY <1>3 DEF Uses, f, g

\* No quote is: no more is used.
LEMMA UsesKept ==
    ASSUME LedgerAssumptions, \A p \in MintQuotes : UsedAmount(p)' <= UsedAmount(p)
    PROVE  Uses' <= Uses
<1> DEFINE f == [p \in MintQuotes |-> UsedAmount(p)]
           g == [p \in MintQuotes |-> UsedAmount(p)']
<1>1. Summable(f, MintQuotes) /\ Summable(g, MintQuotes)
  BY UsesType, UsesTypeNext DEF UsesTyped
<1>2. \A p \in MintQuotes : g[p] <= f[p]
  OBVIOUS
<1> HIDE DEF f, g
<1>3. Sum(g, MintQuotes) <= Sum(f, MintQuotes)
  BY <1>1, <1>2, SumMonotone
<1> QED BY <1>3 DEF Uses, f, g

\* One task moves and the others hold no less: what is held changes by no
\* less than what that task holds.
LEMMA HeldChangeBack ==
    ASSUME Typed, Typed', NEW w \in Workers,
           \A v \in Workers \ {w} : Hold(v) <= Hold(v)'
    PROVE  Held + Hold(w)' <= Held' + Hold(w)
<1> DEFINE f == [v \in Workers |-> Hold(v)]
           g == [v \in Workers |-> Hold(v)']
<1>1. Summable(f, Workers)
  BY SumsType DEF Typed
<1>2. Summable(g, Workers)
  BY <1>1, SumsTypeNext DEF SumsTyped, Summable
<1>3. \A v \in Workers \ {w} : f[v] <= g[v]
  OBVIOUS
<1> HIDE DEF f, g
<1>4. Sum(f, Workers) + g[w] <= Sum(g, Workers) + f[w]
  BY <1>1, <1>2, <1>3, SumChange
<1> QED BY <1>4 DEF Held, f, g

\* No task holds less: nor do all of them.
LEMMA HeldNotLess ==
    ASSUME Typed, Typed', \A v \in Workers : Hold(v) <= Hold(v)'
    PROVE  Held <= Held'
<1> DEFINE f == [v \in Workers |-> Hold(v)]
           g == [v \in Workers |-> Hold(v)']
<1>1. Summable(f, Workers)
  BY SumsType DEF Typed
<1>2. Summable(g, Workers)
  BY <1>1, SumsTypeNext DEF SumsTyped, Summable
<1>3. \A v \in Workers : f[v] <= g[v]
  OBVIOUS
<1> HIDE DEF f, g
<1>4. Sum(f, Workers) <= Sum(g, Workers)
  BY <1>1, <1>2, <1>3, SumMonotone
<1> QED BY <1>4 DEF Held, f, g

\* Task w gives the first signature for quote q.
Draws(w, q) ==
    Signs(w) /\ pc[w] = "mint_sign" /\ idx[w] = 1 /\ req[w].quote = q

\* It takes that, or a quote worth nothing, for a quote to be used.
LEMMA UsedMoves ==
    ASSUME FullAssumptions, Calm, Typed, [Next]_vars, NEW q \in MintQuotes, Used(q)', ~Used(q)
    PROVE  MintAmount[q] = 0 \/ \E w \in Workers : Draws(w, q)
<1>0. /\ mintQuote \in [MintQuotes -> MintQuoteState] /\ TaskTypeOK /\ TypeInv
      /\ ~Drawn(q) /\ mintQuote[q] # "removed"
  BY DEF Typed, TypeInv, TypeOK, StoreTypeOK, Used
<1>1. CASE mintQuote'[q] = "removed"
  <2>1. ASSUME NEW p \in MintQuotes, NewMintQuote(p) PROVE FALSE
    BY <1>0, <1>1, <2>1 DEF NewMintQuote, AddMintQuote
  <2>2. ASSUME NEW w \in Workers, MeltCredit(w) PROVE FALSE
    BY <1>0, <1>1, <2>2 DEF MeltCredit, AddMintQuote
  <2>3. ~EventWrite
    BY <1>0, <1>1 DEF EventWrite, AddMintQuote
  <2>4. PICK w \in Workers : MintRemoveQuote(w)
    BY <1>0, <1>1, <2>1, <2>2, <2>3, Writers DEF Writes
  <2>5. pc[w] = "mint_sign" /\ idx[w] \notin DOMAIN req[w].outputs /\ req[w].quote = q
    BY <1>0, <1>1, <2>4 DEF MintRemoveQuote, RemoveMintQuote
  <2>6. idx[w] = 1
    BY <1>0, <2>5 DEF Drawn
  <2>7. req[w] \in Requests /\ req[w].kind = "mint" /\ req[w].outputs \in Seq(Output)
    BY <1>0, <2>5, Served DEF TypeInv, TaskInv, MintSteps
  <2>8. DOMAIN req[w].outputs = {}
    BY <2>5, <2>6, <2>7
  <2>9. Value(req[w].outputs) = 0
    <3>1. Sum(AmountsOf(req[w].outputs), {}) = 0
      BY SumEmpty, Zenon
    <3> QED BY <2>8, <3>1 DEF Value, Sum
  <2> QED BY <2>5, <2>7, <2>9 DEF FullAssumptions, FullValue
<1>2. CASE Drawn(q)'
  <2>1. PICK w \in Workers : pc'[w] = "mint_sign" /\ idx'[w] # 1 /\ req'[w].quote = q
    BY <1>2 DEF Drawn
  <2>2. ~Still(w)
    BY <1>0, <2>1 DEF Still, Drawn
  <2>3. \A r \in Requests : ~Dispatch(w, r)
    BY <1>0, <2>1 DEF Dispatch, MintCheckOutputs, SwapVerify, MeltVerify, Accept, TaskTypeOK
  <2>4. ASSUME ServerStep(w) PROVE MintSign(w) /\ Advance(w)
    <3>1. ~Return(w) /\ \A step : ~Goto(w, step)
      BY <1>0, <2>1 DEF Return, Goto, TaskTypeOK
    <3>2. CASE MintHandlers(w)
      <4>1. Advance(w)
        BY <3>1, <3>2 DEF MintHandlers, MintReadQuote, MintSign, MintRemoveQuote, SwapSpend, SwapSign, SwapReply,
                    MeltProcess, MeltSpend, MeltRemoveQuote, MeltOverflow, MeltChange, MeltReply, SignOutput
      <4>2. pc[w] = "mint_sign"
        BY <1>0, <2>1, <4>1 DEF Advance
      <4>3. MintSign(w)
        BY <3>1, <3>2, <4>2 DEF MintHandlers, MintReadQuote, MintRemoveQuote, SwapSpend, SwapSign, SwapReply,
                    MeltProcess, MeltSpend, MeltRemoveQuote, MeltOverflow, MeltChange, MeltReply
      <4> QED BY <4>1, <4>3
    <3>3. CASE MeltLookup(w) \/ MeltPayError(w)
      BY <3>1, <3>3 DEF MeltLookup, MeltPayError
    <3>4. CASE MeltCredit(w) \/ MeltPay(w)
      BY <1>0, <2>1, <3>4 DEF MeltCredit, MeltPay, Paid, TaskTypeOK
    <3> QED BY <2>4, <3>2, <3>3, <3>4 DEF ServerStep
  <2>5. ASSUME NEW v \in Workers, v # w, Moved(v) PROVE Still(w)
    BY <1>0, <2>5, MovedAlone
  <2>6. UNCHANGED taskVars => Still(w)
    BY DEF Still, taskVars
  <2>7. MintSign(w) /\ Advance(w)
    BY <1>0, <2>2, <2>3, <2>4, <2>5, <2>6, CalmMoves
  <2>8. pc[w] = "mint_sign" /\ req[w].quote = q
    BY <2>1, <2>7 DEF Advance
  <2>9. Signs(w)
    <3>1. ~Return(w)
      BY <1>0, <2>1 DEF Return, TaskTypeOK
    <3> QED BY <2>7, <2>8, <3>1 DEF MintSign, SignOutput, Signs, ToSign, SignSteps
  <2>10. idx[w] = 1
    BY <1>0, <2>8 DEF Drawn
  <2> QED BY <2>8, <2>9, <2>10 DEF Draws
<1> QED BY <1>1, <1>2 DEF Used

\* No other task moves while one draws.
LEMMA DrawsAlone ==
    ASSUME TypeInv, NEW w \in Workers, Quiet(w) \/ LedgerStep(w) \/ MeltCredit(w),
           NEW v \in Workers, NEW q, Draws(v, q)
    PROVE  v = w
<1>1. idx'[v] # idx[v]
  BY DEF Draws, Signs, Advance, TypeInv, TypeOK, TaskTypeOK
<1> QED BY <1>1, OthersStill DEF Still

\* A quote's use goes up by its first signature only.
LEMMA UsedAmountMoves ==
    ASSUME FullAssumptions, Calm, Typed, [Next]_vars, NEW q \in MintQuotes,
           \A w \in Workers : ~Draws(w, q)
    PROVE  UsedAmount(q)' <= UsedAmount(q)
<1>1. MintAmount[q] \in Nat
  BY MintAssumption DEF MintAssumption
<1>2. Used(q)' /\ ~Used(q) => MintAmount[q] = 0
  BY UsedMoves
<1> QED BY <1>1, <1>2 DEF UsedAmount

\* What came in can be summed.
LEMMA IncomeType ==
    ASSUME FullAssumptions, TypeInv
    PROVE  /\ Summable(MintAmount, Range(payLog)) /\ Received \in Nat
           /\ Summable(MeltAmount, Settlements) /\ Inside \in Nat
           /\ Range(payLog) \subseteq MintQuotes /\ Settlements \subseteq MeltQuotes
<1>1. /\ \A q \in MintQuotes : MintAmount[q] \in Nat
      /\ \A m \in MeltQuotes : MeltAmount[m] \in Nat
  BY MintAssumption DEF MintAssumption
<1>2. Range(payLog) \subseteq MintQuotes /\ Settlements \subseteq MeltQuotes
  BY DEF Range, Settlements, TypeInv, TypeOK
<1>3. IsFiniteSet(MintQuotes) /\ IsFiniteSet(MeltQuotes)
  BY DEF FullAssumptions, LedgerAssumptions, FiniteMint
<1>4. IsFiniteSet(Range(payLog)) /\ IsFiniteSet(Settlements)
  BY <1>2, <1>3, FS_Subset
<1>5. Summable(MintAmount, Range(payLog)) /\ Summable(MeltAmount, Settlements)
  BY <1>1, <1>2, <1>4 DEF Summable
<1> QED BY <1>2, <1>5, SumType DEF Received, Inside

\* The same after a step.
LEMMA IncomeTypeNext ==
    FullAssumptions' /\ TypeInv' =>
        /\ Summable(MintAmount, Range(payLog)') /\ Received' \in Nat
        /\ Summable(MeltAmount, Settlements') /\ Inside' \in Nat
<1> DEFINE Good ==
        /\ Summable(MintAmount, Range(payLog)) /\ Received \in Nat
        /\ Summable(MeltAmount, Settlements) /\ Inside \in Nat
<1>1. FullAssumptions /\ TypeInv => Good
  BY IncomeType
<1> HIDE DEF Good
<1>2. FullAssumptions' /\ TypeInv' => Good'
  BY <1>1, PTL
<1> QED BY <1>2 DEF Good

\* What was settled inside stays so.
LEMMA SettlementsStay ==
    ASSUME TypeInv, FullInv, Calm, [Next]_vars
    PROVE  /\ Settlements \subseteq Settlements'
           /\ payment' = payment \/ \E w \in Workers : MeltCredit(w) \/ MeltPay(w)
<1>1. faults \in Nat /\ MaxFaults = 0 /\ payment \in [MeltQuotes -> PaymentStatus \cup {"none", "internal"}]
  BY DEF TypeInv, TypeOK, Calm
<1>2. \A w \in Workers : ~PayAnswerLost(w)
  BY <1>1 DEF PayAnswerLost
<1>3. payment' = payment \/ \E w \in Workers : MeltCredit(w) \/ MeltPay(w)
  BY <1>2, Writers DEF Writes
<1>4. ASSUME NEW w \in Workers, MeltCredit(w) PROVE Settlements \subseteq Settlements'
  BY <1>1, <1>4 DEF MeltCredit, Paid, Settlements
<1>5. ASSUME NEW w \in Workers, MeltPay(w) PROVE Settlements \subseteq Settlements'
  <2>1. MeltInvoice[req[w].quote] = External /\ \A m \in MeltQuotes : m # req[w].quote => payment'[m] = payment[m]
    BY <1>1, <1>5 DEF MeltPay, Paid
  <2> QED BY <2>1 DEF FullInv, OwnInvoices, Settlements
<1>6. payment' = payment => Settlements \subseteq Settlements'
  BY DEF Settlements
<1> QED BY <1>3, <1>4, <1>5, <1>6

\* No step takes back what came in.
LEMMA IncomeKept ==
    ASSUME FullAssumptions, TypeInv, TypeInv', FullInv, Calm, [Next]_vars
    PROVE  Received <= Received' /\ Inside <= Inside'
<1>1. Range(payLog) \subseteq Range(payLog)'
  <2>1. ASSUME NEW q \in MintQuotes, InvoicePaid(q) PROVE Range(payLog) \subseteq Range(payLog)'
    BY <2>1 DEF InvoicePaid, TypeInv, TypeOK, Range
  <2>2. payLog' = payLog => Range(payLog) \subseteq Range(payLog)'
    BY DEF Range
  <2> QED BY <2>1, <2>2, Writers DEF Writes
<1>2. Settlements \subseteq Settlements'
  BY SettlementsStay
<1>3. Summable(MintAmount, Range(payLog)') /\ Summable(MeltAmount, Settlements')
  BY IncomeTypeNext
<1> QED BY <1>1, <1>2, <1>3, SumSubset DEF Received, Inside

\* An invoice paid adds its amount.
LEMMA InvoiceReceived ==
    ASSUME FullAssumptions, TypeInv, TypeInv', NEW q \in MintQuotes, InvoicePaid(q)
    PROVE  Received' = MintAmount[q] + Received
<1>1. /\ q \notin Range(payLog) /\ payLog \in Seq(MintQuotes) /\ payLog' = Append(payLog, q)
  BY DEF InvoicePaid, TypeInv, TypeOK
<1>2. q \in Range(payLog)' /\ Range(payLog)' \ {q} = Range(payLog)
  BY <1>1 DEF Range
<1>3. Summable(MintAmount, Range(payLog)')
  BY IncomeTypeNext
<1> QED BY <1>2, <1>3, SumElement DEF Received

\* A melt that credits a quote of the mint's own has not done so before.
LEMMA CreditedOnce ==
    ASSUME TypeInv, SpendInv, SettledInv, NEW w \in Workers, MeltCredit(w)
    PROVE  req[w].quote \in MeltQuotes \ Settlements
<1> DEFINE m == req[w].quote
<1>1. pc[w] = "melt_credit" /\ m \in MeltQuotes /\ m # NoQuote
  BY MeltTask DEF MeltCredit, MeltSteps
<1>2. meltQuote[m] = "stored"
  BY <1>1 DEF SettledInv, Ready, MeltRequestValid
<1>3. ASSUME payment[m] = "internal" PROVE FALSE
  <2>1. Settling(m)
    BY <1>1, <1>2, <1>3 DEF SettledInv
  <2>2. PICK v \in Workers : pc[v] \in {"melt_process", "melt_spend", "melt_remove"} /\ req[v].quote = m
    BY <2>1 DEF Settling
  <2>3. v # w /\ Busy(v) /\ Busy(w)
    BY <1>1, <2>2 DEF Busy
  <2> QED BY <1>1, <2>2, <2>3 DEF SpendInv, InFlightDisjoint, Disjoint
<1> QED BY <1>1, <1>3 DEF Settlements

\* It adds the amount of the quote.
LEMMA CreditReceived ==
    ASSUME FullAssumptions, TypeInv, TypeInv', SpendInv, SettledInv, NEW w \in Workers, MeltCredit(w)
    PROVE  Inside' = MeltAmount[req[w].quote] + Inside
<1> DEFINE m == req[w].quote
<1>1. m \in MeltQuotes /\ m \notin Settlements
  BY CreditedOnce
<1>2. payment' = [payment EXCEPT ![m] = "internal"] /\ payment \in [MeltQuotes -> PaymentStatus \cup {"none", "internal"}]
  BY DEF MeltCredit, Paid, TypeInv, TypeOK
<1>3. m \in Settlements' /\ Settlements' \ {m} = Settlements
  BY <1>1, <1>2 DEF Settlements
<1>4. Summable(MeltAmount, Settlements')
  BY IncomeTypeNext
<1> QED BY <1>3, <1>4, SumElement DEF Inside

\* A melt accepted has its change outputs in the first keyset, and one that
\* has paid owes the quote's amount and the fee.
LEMMA StepTaskFull ==
    ASSUME TypeInv, StreamInv, FullInv, Calm, [Next]_vars, NEW v \in Workers
    PROVE  TaskFull(v)'
<1> USE DEF TypeInv, TypeOK
<1> DEFINE Late == {"melt_process", "melt_spend", "melt_remove", "melt_change"}
<1>0. TaskFull(v)
  BY DEF FullInv
<1>1. ASSUME req'[v] = req[v], due'[v] = due[v],
             pc'[v] \in MeltSteps => pc[v] \in MeltSteps, pc'[v] \in Late => pc[v] \in Late
      PROVE  TaskFull(v)'
  BY <1>0, <1>1 DEF TaskFull
<1>2. CASE Still(v)
  BY <1>1, <1>2 DEF Still
<1>3. CASE Return(v)
  BY <1>3 DEF Return, TaskTypeOK, TaskFull, MeltSteps
<1>4. ASSUME NEW r \in Requests, Dispatch(v, r) PROVE TaskFull(v)'
  <2>1. CASE MintCheckOutputs(v, r) \/ SwapVerify(v, r)
    BY <2>1 DEF MintCheckOutputs, SwapVerify, Accept, TaskTypeOK, TaskFull, MeltSteps
  <2>2. CASE MeltVerify(v, r)
    <3>1. pc'[v] = "melt_lookup" /\ req'[v] = r
      BY <2>2 DEF MeltVerify, Accept, TaskTypeOK
    <3>2. \A i \in DOMAIN r.outputs : r.outputs[i].keyset = FirstKeyset
      BY <2>2 DEF MeltVerify, MeltRequestValid, Range, StreamInv
    <3> QED BY <3>1, <3>2 DEF TaskFull
  <2> QED BY <1>4, <2>1, <2>2 DEF Dispatch
<1>5. CASE MintHandlers(v)
  <2>1. CASE Advance(v)
    BY <1>1, <2>1 DEF Advance, TaskTypeOK
  <2>2. CASE MintReadQuote(v) \/ SwapSpend(v)
    <3>1. pc'[v] \notin MeltSteps \/ Return(v)
      BY <2>2 DEF MintReadQuote, SwapSpend, Goto, Advance, TaskTypeOK, MeltSteps
    <3> QED BY <1>3, <3>1 DEF TaskFull, MeltSteps
  <2>3. CASE MeltProcess(v) \/ MeltSpend(v) \/ MeltRemoveQuote(v)
    <3>1. pc[v] \in Late /\ pc[v] \in MeltSteps
      BY <2>3 DEF MeltProcess, MeltSpend, MeltRemoveQuote, MeltSteps
    <3>2. Return(v) \/ Advance(v) \/ \E step : Goto(v, step)
      BY <2>3 DEF MeltProcess, MeltSpend, MeltRemoveQuote
    <3>3. (\E step : Goto(v, step)) => req'[v] = req[v] /\ due'[v] = due[v]
      BY DEF Goto
    <3> QED BY <1>1, <1>3, <2>1, <3>1, <3>2, <3>3
  <2> QED BY <1>3, <1>5, <2>1, <2>2, <2>3 DEF MintHandlers, MintSign, MintRemoveQuote, SwapSign, SwapReply,
         MeltOverflow, MeltChange, MeltReply, SignOutput
<1>6. CASE MeltLookup(v)
  <2>1. pc[v] = "melt_lookup" /\ req'[v] = req[v] /\ pc'[v] \in {"melt_credit", "melt_pay"} 
    BY <1>6 DEF MeltLookup, Goto, TaskTypeOK
  <2>2. due'[v] = due[v]
    BY <1>6 DEF MeltLookup, Goto
  <2> QED BY <1>1, <2>1, <2>2 DEF MeltSteps
<1>7. CASE MeltCredit(v) \/ MeltPay(v)
  <2>1. pc[v] \in MeltSteps /\ req'[v] = req[v] /\ pc'[v] = "melt_process"
    BY <1>7 DEF MeltCredit, MeltPay, Paid, TaskTypeOK, MeltSteps
  <2>2. PICK m \in MeltQuotes : m = req[v].quote
    BY <2>1, MeltTask
  <2>3. \E fee \in Nat : due'[v] = MeltAmount[m] + fee
    <3>1. MeltAmount[m] \in Nat /\ Fees \subseteq Nat
      BY MintAssumption, ServerAssumption DEF MintAssumption, ServerAssumption
    <3>2. CASE MeltCredit(v)
      <4>1. due'[v] = MeltAmount[m]
        BY <2>2, <3>2 DEF MeltCredit, Paid, TaskTypeOK
      <4>2. MeltAmount[m] = MeltAmount[m] + 0
        BY <3>1
      <4> QED BY <4>1, <4>2
    <3>3. CASE MeltPay(v)
      BY <2>2, <3>1, <3>3 DEF MeltPay, Paid, TaskTypeOK
    <3> QED BY <1>7, <3>2, <3>3
  <2>4. MeltAmount[m] <= due'[v]
    BY <2>3, MintAssumption DEF MintAssumption
  <2> QED BY <1>0, <2>1, <2>2, <2>4 DEF TaskFull
<1>8. CASE ServerStep(v)
  BY <1>3, <1>5, <1>6, <1>7, <1>8 DEF ServerStep, MeltPayError
<1>9. ASSUME NEW w \in Workers, w # v, Moved(w) PROVE TaskFull(v)'
  BY <1>2, <1>9, MovedAlone
<1>10. UNCHANGED taskVars => Still(v)
  BY DEF Still, taskVars
<1> QED BY CalmMoves, <1>2, <1>4, <1>8, <1>9, <1>10

\* Only a melt for an invoice of the mint settles it inside.
LEMMA StepOwnInvoices ==
    ASSUME TypeInv, FullInv, Calm, [Next]_vars
    PROVE  OwnInvoices'
<1> USE DEF TypeInv, TypeOK
<1>1. CASE payment' = payment
  BY <1>1 DEF FullInv, OwnInvoices, Settlements
<1>2. ASSUME NEW w \in Workers, MeltCredit(w) PROVE OwnInvoices'
  <2>1. /\ payment' = [payment EXCEPT ![req[w].quote] = "internal"]
        /\ MeltInvoice[req[w].quote] \in MintQuotes
    BY <1>2, MeltCredits
  <2>2. MeltInvoice[req[w].quote] # External
    BY <2>1, ServerAssumption DEF ServerAssumption
  <2> QED BY <2>1, <2>2 DEF FullInv, OwnInvoices, Settlements
<1>3. ASSUME NEW w \in Workers, MeltPay(w) PROVE OwnInvoices'
  <2>1. \A status \in PayStatuses : status # "internal"
    BY ServerAssumption DEF ServerAssumption, PaymentStatus
  <2>2. PICK status : /\ payment' = [payment EXCEPT ![req[w].quote] = status]
                      /\ status # "internal"
    BY <1>3, <2>1 DEF MeltPay, Paid
  <2>3. \A m \in MeltQuotes : payment'[m] = "internal" => payment[m] = "internal"
    BY <2>2
  <2> QED BY <2>3 DEF FullInv, OwnInvoices, Settlements
<1> QED BY <1>1, <1>2, <1>3, SettlementsStay

\* Every step keeps what is known of melts and of what they settled.
LEMMA StepFull ==
    ASSUME TypeInv, StreamInv, FullInv, Calm, [Next]_vars
    PROVE  FullInv'
BY StepTaskFull, StepOwnInvoices DEF FullInv

-----------------------------------------------------------------------------
(* The steps and the account *)

\* A step keeps the account when it takes no more into the escrow, and sets no
\* more aside, than comes in and is held.
LEMMA AccountedKept ==
    ASSUME FullAssumptions, Typed, Typed', Accounted,
           escrow' + Uses' + ((Received + Inside) + Held) <= escrow + Uses + ((Received' + Inside') + Held')
    PROVE  Accounted'
<1> DEFINE e == escrow
           f == escrow'
           U == Uses
           V == Uses'
           R == Received + Inside
           S == Received' + Inside'
           H == Held
           I == Held'
<1>1. H \in Nat /\ I \in Nat
  BY SumsType, SumsTypeNext DEF Typed, SumsTyped
<1>2. U \in Nat /\ V \in Nat
  BY UsesType, UsesTypeNext DEF UsesTyped, Typed
<1>3. R \in Nat /\ S \in Nat
  BY IncomeType, IncomeTypeNext DEF Typed
<1>4. e \in Int /\ f \in Int
  BY DEF Typed, TypeInv, TypeOK, StoreTypeOK
<1>5. e + U <= R + H /\ f + V + (R + H) <= e + U + (S + I)
  BY DEF Accounted
<1> HIDE DEF e, f, U, V, R, S, H, I
<1>6. f + V <= S + I
  BY <1>1, <1>2, <1>3, <1>4, <1>5
<1> QED BY <1>6 DEF Accounted, f, V, S, I

\* A task moves value: what leaves the escrow and what is used come out of what
\* it holds.
LEMMA TaskAccounted ==
    ASSUME FullAssumptions, Typed, Typed', Accounted, NEW w \in Workers,
           \A v \in Workers \ {w} : Hold(v) <= Hold(v)',
           Received <= Received' /\ Inside <= Inside',
           escrow' + Uses' + Hold(w) <= escrow + Uses + Hold(w)'
    PROVE  Accounted'
<1> DEFINE e == escrow
           f == escrow'
           U == Uses
           V == Uses'
           r == Received
           i == Inside
           s == Received'
           j == Inside'
           H == Held
           I == Held'
           h == Hold(w)
           k == Hold(w)'
<1>1. H \in Nat /\ I \in Nat /\ h \in Nat /\ k \in Nat
  BY SumsType, SumsTypeNext, HoldType DEF Typed, SumsTyped
<1>2. U \in Nat /\ V \in Nat
  BY UsesType, UsesTypeNext DEF UsesTyped, Typed
<1>3. r \in Nat /\ s \in Nat /\ i \in Nat /\ j \in Nat
  BY IncomeType, IncomeTypeNext DEF Typed
<1>4. e \in Int /\ f \in Int
  BY DEF Typed, TypeInv, TypeOK, StoreTypeOK
<1>5. H + k <= I + h
  BY HeldChangeBack
<1>6. f + V + h <= e + U + k /\ r <= s /\ i <= j
  OBVIOUS
<1> HIDE DEF e, f, U, V, r, s, i, j, H, I, h, k
<1>7. f + V + ((r + i) + H) <= e + U + ((s + j) + I)
  BY <1>1, <1>2, <1>3, <1>4, <1>5, <1>6
<1> QED BY <1>7, AccountedKept DEF e, f, U, V, r, s, i, j, H, I

\* No task moves value, and what the escrow takes has come in.
LEMMA QuietAccounted ==
    ASSUME FullAssumptions, Typed, Typed', Accounted,
           \A v \in Workers : Hold(v) <= Hold(v)', Uses' <= Uses,
           escrow' + (Received + Inside) <= escrow + (Received' + Inside')
    PROVE  Accounted'
<1> DEFINE e == escrow
           f == escrow'
           U == Uses
           V == Uses'
           R == Received + Inside
           S == Received' + Inside'
           H == Held
           I == Held'
<1>1. H \in Nat /\ I \in Nat
  BY SumsType, SumsTypeNext DEF Typed, SumsTyped
<1>2. U \in Nat /\ V \in Nat
  BY UsesType, UsesTypeNext DEF UsesTyped, Typed
<1>3. R \in Nat /\ S \in Nat
  BY IncomeType, IncomeTypeNext DEF Typed
<1>4. e \in Int /\ f \in Int
  BY DEF Typed, TypeInv, TypeOK, StoreTypeOK
<1>5. H <= I
  BY HeldNotLess
<1>6. f + R <= e + S /\ V <= U
  OBVIOUS
<1> HIDE DEF e, f, U, V, R, S, H, I
<1>7. f + V + (R + H) <= e + U + (S + I)
  BY <1>1, <1>2, <1>3, <1>4, <1>5, <1>6
<1> QED BY <1>7, AccountedKept DEF e, f, U, V, R, S, H, I

\* An input spent goes to the escrow and is held, a melt that removes its quote
\* holds the change from then on, and what is signed was held, or is all that
\* its quote was for.
LEMMA LedgerAccounted ==
    ASSUME FullAssumptions, Calm, Typed, Typed', SpendInv, KnowsInv, FullInv, FullInv', Accounted,
           [Next]_vars, NEW w \in Workers, LedgerStep(w)
    PROVE  Accounted'
<1>0. /\ TypeInv /\ TypeInv' /\ LedgerAssumptions /\ escrow \in Int
      /\ Hold(w) \in Nat /\ Hold(w)' \in Nat /\ Uses \in Nat /\ Uses' \in Nat
  BY HoldType, SumsTypeNext, UsesType, UsesTypeNext
     DEF Typed, TypeInv, TypeOK, StoreTypeOK, SumsTyped, UsesTyped
<1>1. \A v \in Workers \ {w} : Hold(v) <= Hold(v)'
  <2>1. \A v \in Workers \ {w} : Hold(v)' = Hold(v)
    BY <1>0, OthersStill, StillHolds
  <2>2. \A v \in Workers : Hold(v) \in Nat
    BY HoldType DEF Typed
  <2> QED BY <2>1, <2>2
<1>2. Received <= Received' /\ Inside <= Inside'
  BY <1>0, IncomeKept
<1> DEFINE e == escrow
           f == escrow'
           U == Uses
           V == Uses'
           h == Hold(w)
           i == Hold(w)'
<1>3. ASSUME f + V + h <= e + U + i PROVE Accounted'
  BY <1>1, <1>2, <1>3, TaskAccounted
<1>4. /\ h \in Nat /\ i \in Nat /\ U \in Nat /\ V \in Nat /\ e \in Int
  BY <1>0
<1>5. ASSUME NEW p \in MintQuotes, ~Draws(w, p) PROVE UsedAmount(p)' <= UsedAmount(p)
  <2>1. \A v \in Workers : ~Draws(v, p)
    BY <1>0, <1>5, DrawsAlone
  <2> QED BY <1>0, <2>1, UsedAmountMoves
<1>6. ASSUME \A p \in MintQuotes : ~Draws(w, p) PROVE V <= U
  BY <1>0, <1>5, <1>6, UsesKept
<1>7. CASE SwapSpend(w) \/ MeltSpend(w)
  <2> DEFINE a == Input(w).amount
  <2>1. a \in Nat /\ f = e + a /\ i = a + h
    BY <1>0, <1>7, SpendHolds
  <2>2. V <= U
    BY <1>6, <1>7 DEF Draws, SwapSpend, MeltSpend
  <2> HIDE DEF e, f, U, V, h, i, a
  <2>3. f + V + h <= e + U + i
    BY <1>4, <2>1, <2>2
  <2> QED BY <1>3, <2>3
<1>8. CASE MeltRemoveQuote(w)
  <2> DEFINE n == Value(req[w].inputs)
             d == due[w]
             chg == ChangeAmounts(w)'
             s == Sum(chg, DOMAIN chg)
  <2>1. /\ pc[w] = "melt_remove" /\ pc'[w] = "melt_change" /\ req'[w] = req[w] /\ due'[w] = d
        /\ idx'[w] = 1 /\ f = e - d
    BY <1>8 DEF MeltRemoveQuote, RemoveMeltQuote, Goto, Typed, TypeInv, TypeOK, TaskTypeOK
  <2>2. d \in Nat /\ n \in Nat /\ d <= n /\ h = n
    BY <1>0, <2>1, MeltPays DEF KnowsInv
  <2>3. s = n - d /\ DOMAIN chg = 1..Len(chg)
    <3>1. ChangeFull'
      BY ChangeIsFullNext DEF FullAssumptions, FullValue, LedgerAssumptions, Signable, Halving,
         FiniteMint, CarefulClients, FeesReserved, Doubling, SignedBefore
    <3> QED BY <2>1, <3>1 DEF ChangeFull
  <2>4. i = s
    BY <2>1, <2>3 DEF Hold
  <2>5. V <= U
    BY <1>6, <2>1 DEF Draws
  <2> HIDE DEF e, f, U, V, h, i, n, d, chg, s
  <2>6. f + V + h <= e + U + i
    <3>1. f = e - d /\ h = n /\ i = n - d /\ V <= U
      BY <2>1, <2>2, <2>3, <2>4, <2>5
    <3>2. d \in Nat /\ n \in Nat
      BY <2>2
    <3> QED BY <1>4, <3>1, <3>2
  <2> QED BY <1>3, <2>6
<1>9. CASE Signs(w)
  <2> DEFINE a == ToSign(w).amount
  <2>1. a \in Nat /\ f = e - a
    BY <1>0, <1>9, SignHolds, SignedOutput
  <2>2. CASE pc[w] = "mint_sign" /\ idx[w] = 1
    <3>1. req[w] \in Requests /\ req[w].kind = "mint"
      BY <1>0, <2>2 DEF TypeInv, TaskInv, MintSteps
    <3>2. PICK q \in MintQuotes : q = req[w].quote
      BY <3>1, RequestTyping
    <3> DEFINE m == MintAmount[q]
               t == UsedAmount(q)
               u == UsedAmount(q)'
    <3>3. V + t <= U + u
      <4>1. \A p \in MintQuotes \ {q} : UsedAmount(p)' <= UsedAmount(p)
        BY <1>5, <3>2 DEF Draws
      <4> QED BY <1>0, <4>1, UsesChange
    <3>4. h = 0 /\ a + i = m
      BY <1>0, <1>9, <2>2, <3>1, <3>2, SignHolds DEF FullAssumptions, FullValue
    <3>5. t \in Nat /\ u \in Nat /\ u <= m /\ m \in Nat
      <4>1. m \in Nat
        BY MintAssumption DEF MintAssumption
      <4> QED BY <4>1 DEF UsedAmount
    <3> HIDE DEF e, f, U, V, h, i, a, m, t, u
    <3>6. f + V + h <= e + U + i
      BY <1>4, <2>1, <3>3, <3>4, <3>5
    <3> QED BY <1>3, <3>6
  <2>3. CASE ~(pc[w] = "mint_sign" /\ idx[w] = 1)
    <3>1. h = a + i
      BY <1>0, <1>9, <2>3, SignHolds
    <3>2. V <= U
      BY <1>6, <2>3 DEF Draws
    <3> HIDE DEF e, f, U, V, h, i, a
    <3>3. f + V + h <= e + U + i
      BY <1>4, <2>1, <3>1, <3>2
    <3> QED BY <1>3, <3>3
  <2> QED BY <2>2, <2>3
<1> QED BY <1>7, <1>8, <1>9 DEF LedgerStep

\* When no value moves, no task that held any has stopped, and no quote is
\* used.
LEMMA StillAccounted ==
    ASSUME FullAssumptions, Calm, Typed, Typed', KnowsInv, StreamInv, FullInv, Accounted, [Next]_vars,
           QuietStep, \A w \in Workers : ~LedgerStep(w)
    PROVE  Accounted'
<1>0. /\ TypeInv /\ TypeInv' /\ LedgerAssumptions /\ escrow' = escrow /\ escrow \in Int /\ NoneFunded
      /\ \A v \in Workers : Hold(v) \in Nat /\ Hold(v)' \in Nat
  BY HoldType, SumsTypeNext DEF Typed, TypeInv, TypeOK, StoreTypeOK, SumsTyped, QuietStep
<1>1. ASSUME NEW v \in Workers PROVE Hold(v) <= Hold(v)'
  <2>1. Still(v) => Hold(v) <= Hold(v)'
    <3>1. Still(v) => Hold(v)' = Hold(v)
      BY StillHolds
    <3> QED BY <1>0, <3>1
  <2>2. UNCHANGED taskVars => Still(v)
    BY DEF Still, taskVars
  <2>3. ASSUME NEW w \in Workers, w # v, Moved(w) PROVE Still(v)
    BY <1>0, <2>3, MovedAlone
  <2>4. ASSUME ServerStep(v) PROVE Hold(v) = 0
    <3>1. ~SwapSpend(v) /\ ~MeltSpend(v) /\ ~MeltRemoveQuote(v) /\ ~Signs(v)
      BY <1>0 DEF LedgerStep
    <3> QED BY <2>4, <3>1, HoldEnds
  <2>5. ASSUME NEW r \in Requests, Dispatch(v, r) PROVE Hold(v) = 0
    BY <2>5 DEF Dispatch, Busy, Hold
  <2>6. Hold(v) = 0 => Hold(v) <= Hold(v)'
    BY <1>0
  <2> QED BY <1>0, <2>1, <2>2, <2>3, <2>4, <2>5, <2>6, CalmMoves
<1>2. Uses' <= Uses
  <2>1. \A p \in MintQuotes, w \in Workers : ~Draws(w, p)
    BY <1>0 DEF Draws, LedgerStep
  <2>2. \A p \in MintQuotes : UsedAmount(p)' <= UsedAmount(p)
    BY <2>1, UsedAmountMoves
  <2> QED BY <1>0, <2>2, UsesKept
<1>3. escrow' + (Received + Inside) <= escrow + (Received' + Inside')
  <2> DEFINE r == Received
             i == Inside
             s == Received'
             j == Inside'
             e == escrow
             f == escrow'
  <2>1. r \in Nat /\ i \in Nat /\ s \in Nat /\ j \in Nat
    BY <1>0, IncomeType, IncomeTypeNext
  <2>2. r <= s /\ i <= j /\ f = e /\ e \in Int
    BY <1>0, IncomeKept
  <2> HIDE DEF r, i, s, j, e, f
  <2>3. f + (r + i) <= e + (s + j)
    BY <2>1, <2>2
  <2> QED BY <2>3 DEF r, i, s, j, e, f
<1> QED BY <1>1, <1>2, <1>3, QuietAccounted

\* What comes in, over Lightning or inside, is accounted for.
LEMMA IncomeAccounted ==
    ASSUME FullAssumptions, Calm, Typed, Typed', Accounted, [Next]_vars,
           \A v \in Workers : Hold(v) <= Hold(v)', NEW a \in Nat, escrow' = escrow + a,
           \A q \in MintQuotes, w \in Workers : ~Draws(w, q),
           Received <= Received' /\ Inside <= Inside',
           Received' = a + Received \/ Inside' = a + Inside
    PROVE  Accounted'
<1>1. Uses' <= Uses
  <2>1. \A p \in MintQuotes : UsedAmount(p)' <= UsedAmount(p)
    BY UsedAmountMoves
  <2> QED BY <2>1, UsesKept DEF Typed
<1>2. escrow' + (Received + Inside) <= escrow + (Received' + Inside')
  <2> DEFINE r == Received
             i == Inside
             s == Received'
             j == Inside'
             e == escrow
             f == escrow'
  <2>1. r \in Nat /\ i \in Nat /\ s \in Nat /\ j \in Nat
    BY IncomeType, IncomeTypeNext DEF Typed
  <2>2. r <= s /\ i <= j /\ f = e + a /\ e \in Int /\ (s = a + r \/ j = a + i)
    BY DEF Typed, TypeInv, TypeOK, StoreTypeOK
  <2> HIDE DEF r, i, s, j, e, f
  <2>3. f + (r + i) <= e + (s + j)
    BY <2>1, <2>2
  <2> QED BY <2>3 DEF r, i, s, j, e, f
<1> QED BY <1>1, <1>2, QuietAccounted

\* Every step keeps the account.
LEMMA StepAccounted ==
    ASSUME FullAssumptions, Calm, Typed, Typed', SpendInv, SettledInv, KnowsInv, StreamInv,
           FullInv, FullInv', Accounted, [Next]_vars
    PROVE  Accounted'
<1>0. /\ TypeInv /\ TypeInv' /\ LedgerAssumptions
      /\ \A q \in MintQuotes : MintAmount[q] \in Nat
      /\ \A v \in Workers : Hold(v) \in Nat /\ Hold(v)' \in Nat
      /\ Received <= Received' /\ Inside <= Inside'
  BY MintAssumption, HoldType, SumsTypeNext, IncomeKept DEF Typed, MintAssumption, SumsTyped
<1>1. ASSUME NEW q \in MintQuotes, InvoicePaid(q) PROVE Accounted'
  <2>1. \A v \in Workers : Hold(v) <= Hold(v)'
    <3>1. \A v \in Workers : Hold(v)' = Hold(v)
      BY <1>1, PaidKnows DEF Typed
    <3> QED BY <1>0, <3>1
  <2>2. \A p \in MintQuotes, w \in Workers : ~Draws(w, p)
    <3>1. pc' = pc /\ idx' = idx
      BY <1>1 DEF InvoicePaid, taskVars
    <3> QED BY <1>0, <3>1 DEF Draws, Signs, Advance, TypeInv, TypeOK, TaskTypeOK
  <2>3. escrow' = escrow + MintAmount[q]
    BY <1>1 DEF InvoicePaid
  <2>4. Received' = MintAmount[q] + Received
    BY <1>0, <1>1, InvoiceReceived
  <2> QED BY <1>0, <2>1, <2>2, <2>3, <2>4, IncomeAccounted
<1>2. ASSUME NEW w \in Workers, MeltCredit(w) PROVE Accounted'
  <2>1. PICK m \in MeltQuotes : m = req[w].quote
    BY <1>0, <1>2, MeltCredits
  <2>2. MeltInvoice[m] \in MintQuotes /\ escrow' = escrow + MintAmount[MeltInvoice[m]]
    BY <1>0, <1>2, <2>1, MeltCredits
  <2>3. MeltAmount[m] = MintAmount[MeltInvoice[m]]
    BY <2>2, ServerAssumption DEF ServerAssumption
  <2>4. Inside' = MeltAmount[m] + Inside
    BY <1>0, <1>2, <2>1, CreditReceived
  <2>5. \A v \in Workers : Hold(v) <= Hold(v)'
    <3>1. Hold(w) = 0
      BY <1>2 DEF MeltCredit, Hold
    <3>2. \A v \in Workers \ {w} : Hold(v)' = Hold(v)
      BY <1>0, <1>2, OthersStill, StillHolds
    <3> QED BY <1>0, <3>1, <3>2
  <2>6. \A p \in MintQuotes, v \in Workers : ~Draws(v, p)
    <3>1. ASSUME NEW p \in MintQuotes, NEW v \in Workers, Draws(v, p) PROVE FALSE
      <4>1. v = w
        BY <1>0, <1>2, <3>1, DrawsAlone
      <4> QED BY <1>2, <3>1, <4>1 DEF Draws, MeltCredit
    <3> QED BY <3>1
  <2> QED BY <1>0, <2>2, <2>3, <2>4, <2>5, <2>6, IncomeAccounted
<1>3. ASSUME NEW w \in Workers, LedgerStep(w) PROVE Accounted'
  BY <1>3, LedgerAccounted
<1>4. ASSUME QuietStep, \A w \in Workers : ~LedgerStep(w) PROVE Accounted'
  BY <1>4, StillAccounted
<1> QED BY <1>0, <1>1, <1>2, <1>3, <1>4, StepsOfTheLedger

\* A mint that starts has taken nothing in, and no quote of it is used.
LEMMA InitAccounted ==
    ASSUME FullAssumptions, Init
    PROVE  FullInv /\ Accounted
<1>1. TypeInv /\ KnowsInv /\ LedgerAssumptions
  BY InitTypeInv, InitLedger DEF LedgerInv, FullAssumptions
<1>2. \A w \in Workers : Hold(w) = 0
  BY DEF Init, TaskInit, Hold
<1>3. \A q \in MintQuotes : UsedAmount(q) = 0
  BY DEF Init, StoreInit, TaskInit, UsedAmount, Used, Drawn
<1>4. Held = 0 /\ Uses = 0
  <2>1. Summable([w \in Workers |-> Hold(w)], Workers)
    BY <1>1, SumsType DEF KnowsInv
  <2>2. Summable([q \in MintQuotes |-> UsedAmount(q)], MintQuotes)
    BY <1>1, UsesType DEF UsesTyped
  <2> QED BY <1>2, <1>3, <2>1, <2>2, SumZero DEF Held, Uses
<1>5. Accounted
  <2>1. Received \in Nat /\ Inside \in Nat
    BY <1>1, IncomeType
  <2>2. escrow = 0
    BY DEF Init, StoreInit
  <2> HIDE DEF Received, Inside
  <2> QED BY <1>4, <2>1, <2>2 DEF Accounted
<1>6. FullInv
  BY DEF Init, TaskInit, FullInv, TaskFull, MeltSteps, OwnInvoices, Settlements
<1> QED BY <1>5, <1>6

\* With nothing in flight, all that came in is in the escrow or was used.
LEMMA QuietLost ==
    ASSUME FullAssumptions, TypeInv, KnowsInv, Accounted
    PROVE  NothingLost
<1> DEFINE S == {q \in MintQuotes : mintQuote[q] = "removed"}
           f == [q \in MintQuotes |-> UsedAmount(q)]
<1> SUFFICES ASSUME Quiescent PROVE escrow <= Received + Inside - Sum(MintAmount, S)
  BY DEF NothingLost, Received, Inside, Settlements, Sum
<1>0. LedgerAssumptions
  BY DEF FullAssumptions
<1>1. Held = 0
  <2>1. \A w \in Workers : Hold(w) = 0
    BY DEF Quiescent, Busy, Hold
  <2>2. Summable([w \in Workers |-> Hold(w)], Workers)
    BY <1>0, SumsType DEF KnowsInv
  <2> QED BY <2>1, <2>2, SumZero DEF Held
<1>2. ASSUME NEW q \in S PROVE MintAmount[q] <= f[q]
  BY MintAssumption DEF UsedAmount, Used, MintAssumption
<1>3. Summable(f, MintQuotes) /\ IsFiniteSet(MintQuotes)
  BY <1>0, UsesType DEF UsesTyped, LedgerAssumptions, FiniteMint
<1>4. S \subseteq MintQuotes /\ \A q \in MintQuotes : MintAmount[q] \in Nat
  BY MintAssumption DEF MintAssumption
<1>5. Uses = Sum(f, MintQuotes)
  BY DEF Uses
<1> HIDE DEF f, S
<1>6. Summable(f, S) /\ Summable(MintAmount, S)
  BY <1>3, <1>4, SubsetSummable, FS_Subset DEF Summable
<1>7. Sum(MintAmount, S) <= Sum(f, S)
  BY <1>2, <1>6, SumMonotone
<1>8. Sum(f, S) <= Sum(f, MintQuotes)
  BY <1>3, <1>4, SumSubset
<1> DEFINE m == Sum(MintAmount, S)
           u == Sum(f, S)
           U == Uses
           r == Received
           i == Inside
           e == escrow
<1>9. /\ m \in Nat /\ u \in Nat /\ U \in Nat /\ m <= u /\ u <= U
      /\ r \in Nat /\ i \in Nat /\ e \in Int
  BY <1>3, <1>5, <1>6, <1>7, <1>8, SumType, IncomeType DEF TypeInv, TypeOK, StoreTypeOK
<1>10. e + U <= (r + i) + 0
  BY <1>1 DEF Accounted
<1> HIDE DEF m, u, U, r, i, e
<1>11. e <= r + i - m
  BY <1>9, <1>10
<1> QED BY <1>11 DEF m, r, i, e

\* In a mint without faults whose keys and requests fit, no value stays behind:
\* with nothing in flight the mint holds, beyond the coins in circulation, no
\* more than was paid to its quotes and not redeemed.  Every signature a swap
\* or a mint request asks for is given, and a melt's change is all that the
\* payment left.
THEOREM NoneStaysBehind ==
    ASSUME LedgerAssumptions, Signable, FullValue, Halving, FreshChange, Calm, IsFiniteSet(MeltQuotes)
    PROVE  ExclusiveSpec => []NothingLost
<1> DEFINE Inv == /\ TypeInv /\ BackedInv /\ SpendInv /\ SettledInv
                  /\ KnowsInv /\ StreamInv /\ FullInv /\ Accounted
<1>0. FullAssumptions
  BY DEF FullAssumptions
<1>1. Init => Inv
  BY <1>0, InitTypeInv, InitBacked, InitSpend, InitSettled, InitSolvent, InitAccounted DEF SolventInv
<1>2. Inv /\ [ExclusiveNext]_vars => Inv'
  <2> SUFFICES ASSUME Inv, [ExclusiveNext]_vars PROVE Inv'
    OBVIOUS
  <2>1. [Next]_vars
    BY DEF ExclusiveNext
  <2>2. TypeInv' /\ SpendInv'
    BY <2>1, StepTypeInv, StepSpend
  <2>3. BackedInv'
    BY <2>1, NothingTakenBack, StepTaskBacked, StepQuotesBacked DEF BackedInv
  <2>4. SettledInv'
    BY <2>1, StepSettled
  <2>5. Signatures' /\ \A v \in Workers : TaskKnows(v)'
    BY <2>1, StepKnows
  <2>6. KnowsInv'
    BY <2>5 DEF KnowsInv
  <2>7. Typed /\ Typed'
    BY <2>2, <2>5 DEF Typed, KnowsInv
  <2>8. StreamInv' /\ FullInv'
    BY <2>1, StepStream, StepFull
  <2>9. Accounted'
    BY <1>0, <2>1, <2>7, <2>8, StepAccounted
  <2> QED BY <2>2, <2>3, <2>4, <2>6, <2>8, <2>9
<1>3. Inv => NothingLost
  BY <1>0, QuietLost
<1> QED BY <1>1, <1>2, <1>3, PTL DEF ExclusiveSpec
=============================================================================
