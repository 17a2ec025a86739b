--------------------------- MODULE FedimintProofs ---------------------------
(***************************************************************************)
(* The Fedimint routes, for any number of requests, bundles and tasks:     *)
(* notes of the federation back one request, the types of the state, and   *)
(* that the mint signs no more than it took in.                            *)
(***************************************************************************)
EXTENDS MintFedimint, Lemmas

-----------------------------------------------------------------------------
(* What proofs and outputs are worth *)

\* The value of the elements of ps at some places.
Worth(ps, S) == Sum(AmountsOf(ps), S)

\* The amounts of a list can be summed, and the sum is a number.
LEMMA OutputsSummable ==
    ASSUME NEW ps \in Seq(Output)
    PROVE  /\ Summable(AmountsOf(ps), DOMAIN ps)
           /\ Value(ps) = Sum(AmountsOf(ps), DOMAIN ps)
           /\ Value(ps) \in Nat
<1>1. IsFiniteSet(1..Len(ps)) /\ DOMAIN ps = 1..Len(ps)
  <2>1. Len(ps) \in Nat /\ DOMAIN ps = 1..Len(ps)
    OBVIOUS
  <2> QED BY <2>1, FS_Interval
<1>2. \A i \in DOMAIN ps : ps[i] \in Output
  OBVIOUS
<1>3. \A i \in DOMAIN ps : AmountsOf(ps)[i] \in Nat
  BY <1>2 DEF AmountsOf, Output
<1>4. Summable(AmountsOf(ps), DOMAIN ps)
  BY <1>1, <1>3 DEF Summable
<1> QED BY <1>4, SumType DEF Value, Sum

\* Sums of u64 that stay below 2^64 are sums.
LEMMA TotalIsValue ==
    ASSUME NEW ps \in Seq(Output), Value(ps) < Word
    PROVE  Total(ps) = Value(ps)
<1>1. Total(ps) = WrappedSum(ps, Word)
  BY DEF Total, FoldSeq, FoldFunction, FoldFunctionOnSet, MapThenFoldSet, Chosen, WrappedSum
<1>2. Word \in Nat \ {0}
  BY StoreAssumption DEF StoreAssumption
<1> QED BY <1>1, <1>2, OutputsSummable, WrappedSumIs DEF AmountsOf

\* So can those at some of its places.
LEMMA WorthLemma ==
    ASSUME NEW ps \in Seq(Output), NEW S, S \subseteq DOMAIN ps
    PROVE  /\ Summable(AmountsOf(ps), S)
           /\ Worth(ps, S) \in Nat
           /\ \A i \in S : Worth(ps, S) = ps[i].amount + Worth(ps, S \ {i})
<1>1. Summable(AmountsOf(ps), DOMAIN ps)
  BY OutputsSummable
<1>2. Summable(AmountsOf(ps), S)
  BY <1>1, SubsetSummable
<1>3. Worth(ps, S) \in Nat
  BY <1>2, SumType DEF Worth
<1>4. ASSUME NEW i \in S PROVE Worth(ps, S) = ps[i].amount + Worth(ps, S \ {i})
  <2>1. AmountsOf(ps)[i] = ps[i].amount
    BY DEF AmountsOf
  <2> QED BY <1>2, <2>1, SumElement DEF Worth
<1> QED BY <1>2, <1>3, <1>4

\* With as many secrets as proofs, no two proofs share a secret.
LEMMA NoDuplicatesInjective ==
    ASSUME NEW ps \in Seq(Output), NoDuplicates(ps),
           NEW i \in DOMAIN ps, NEW j \in DOMAIN ps, ps[i].coin = ps[j].coin
    PROVE  i = j
<1> DEFINE f == [k \in 1..Len(ps) |-> ps[k].coin]
<1>1. DOMAIN ps = 1..Len(ps) /\ Len(ps) \in Nat
  OBVIOUS
<1>2. CoinsIn(ps) = {f[k] : k \in 1..Len(ps)}
  BY <1>1 DEF CoinsIn, Range
<1>3. IsFiniteSet(1..Len(ps)) /\ Cardinality(1..Len(ps)) = Len(ps)
  <2>1. IsFiniteSet(1..Len(ps))
        /\ Cardinality(1..Len(ps)) = IF 1 > Len(ps) THEN 0 ELSE Len(ps) - 1 + 1
    BY <1>1, FS_Interval
  <2> QED BY <1>1, <2>1
<1>4. f \in Surjection(1..Len(ps), CoinsIn(ps))
  BY <1>2 DEF Surjection
<1>5. f \in Injection(1..Len(ps), CoinsIn(ps))
  BY <1>3, <1>4, FS_SurjSameCardinalityImpliesInj DEF NoDuplicates
<1> QED BY <1>1, <1>5 DEF Injection, IsInjective

-----------------------------------------------------------------------------
(* Types *)

\* The four ways a task moves keep its variables in their types.
LEMMA TaskMoveTyping ==
    ASSUME TaskTypeOK, NEW w \in Workers,
           \/ \E r \in Requests, step \in Steps : Accept(w, r, step)
           \/ \E step \in Steps : Goto(w, step)
           \/ Advance(w)
           \/ Return(w)
    PROVE  TaskTypeOK'
<1>1. ASSUME NEW r \in Requests, NEW step \in Steps, Accept(w, r, step)
      PROVE  TaskTypeOK'
  BY <1>1 DEF TaskTypeOK, Accept
<1>2. ASSUME NEW step \in Steps, Goto(w, step)
      PROVE  TaskTypeOK'
  BY <1>2 DEF TaskTypeOK, Goto
<1>3. CASE Advance(w)
  BY <1>3 DEF TaskTypeOK, Advance
<1>4. CASE Return(w)
  BY <1>4 DEF TaskTypeOK, Return
<1> QED BY <1>1, <1>2, <1>3, <1>4

\* A signature on an output has the type of a row of the signature table.
LEMMA SignatureTyping ==
    ASSUME NEW o \in Output
    PROVE  Signature(o) \in BlindSignature
BY DEF Output, BlindSignature, Signature, KeysOf

\* So do the writes of the store, for rows of the right type.
LEMMA StoreWriteTyping ==
    ASSUME StoreTypeOK, StoreAssumption,
           \/ \E p \in Output : AddSpentProof(p)
           \/ \E o \in Output : AddBlindedSignature(o)
           \/ \E q \in MintQuotes, state \in MintQuoteState, value \in Nat :
                AddMintQuote(q, state, value)
           \/ \E q \in MintQuotes : RemoveMintQuote(q)
           \/ \E m \in MeltQuotes : AddMeltQuote(m)
           \/ \E m \in MeltQuotes, value \in Nat : RemoveMeltQuote(m, value)
           \/ \E k \in Keysets : ActivateKeyset(k)
    PROVE  StoreTypeOK'
<1> USE DEF StoreTypeOK, quoteVars, keysetVars, proofVars
<1>1. ASSUME NEW p \in Output, AddSpentProof(p)
      PROVE  StoreTypeOK'
  BY <1>1 DEF AddSpentProof, Output
<1>2. ASSUME NEW o \in Output, AddBlindedSignature(o)
      PROVE  StoreTypeOK'
  <2>1. issued' \subseteq BlindSignature
    BY <1>2, SignatureTyping DEF AddBlindedSignature
  <2>2. escrow' \in Int
    BY <1>2 DEF AddBlindedSignature, Output
  <2> QED BY <1>2, <2>1, <2>2 DEF AddBlindedSignature
<1>3. ASSUME NEW q \in MintQuotes, NEW state \in MintQuoteState, NEW value \in Nat,
             AddMintQuote(q, state, value)
      PROVE  StoreTypeOK'
  BY <1>3 DEF AddMintQuote
<1>4. ASSUME NEW q \in MintQuotes, RemoveMintQuote(q)
      PROVE  StoreTypeOK'
  BY <1>4 DEF RemoveMintQuote, MintQuoteState
<1>5. ASSUME NEW m \in MeltQuotes, AddMeltQuote(m)
      PROVE  StoreTypeOK'
  BY <1>5 DEF AddMeltQuote, MeltQuoteState
<1>6. ASSUME NEW m \in MeltQuotes, NEW value \in Nat, RemoveMeltQuote(m, value)
      PROVE  StoreTypeOK'
  BY <1>6 DEF RemoveMeltQuote, MeltQuoteState
<1>7. ASSUME NEW k \in Keysets, ActivateKeyset(k)
      PROVE  StoreTypeOK'
  BY <1>7 DEF ActivateKeyset
<1> QED BY <1>1, <1>2, <1>3, <1>4, <1>5, <1>6, <1>7

\* A served request is of the type its kind promises.
LEMMA RequestTyping ==
    ASSUME NEW r \in Requests
    PROVE  /\ r \in Request
           /\ r.kind = "mint" => r.quote \in MintQuotes
           /\ r.kind = "melt" => r.quote \in MeltQuotes /\ r.inputs # <<>>
           /\ r.kind = "swap" => r.inputs # <<>>
           /\ \A i \in DOMAIN r.inputs : r.inputs[i] \in Output
           /\ \A i \in DOMAIN r.outputs : r.outputs[i] \in Output
           /\ DOMAIN r.inputs = 1..Len(r.inputs) /\ Len(r.inputs) \in Nat
           /\ DOMAIN r.outputs = 1..Len(r.outputs) /\ Len(r.outputs) \in Nat
           /\ r.inputs # <<>> => 1 \in DOMAIN r.inputs
<1>1. r \in Request
  BY MintAssumption
<1>2. r.inputs \in Seq(Output) /\ r.outputs \in Seq(Output)
  BY <1>1 DEF Request
<1> QED BY <1>1, <1>2, MintAssumption

\* A request a task serves, its inputs and its outputs.
LEMMA Served ==
    ASSUME NEW r \in Requests
    PROVE  r.inputs \in Seq(Output) /\ r.outputs \in Seq(Output)
BY RequestTyping DEF Request

-----------------------------------------------------------------------------
(* Notes and those who hold them *)

USE FedAssumption

\* The part of the state the wait for notes turns on, and its types.
WaitTypes ==
    /\ fpc \in [FedWorkers -> {"idle", "reissue", "fed_sign", "pay_out"}]
    /\ freq \in [FedWorkers -> FedRequests \cup {NoRequest}]
    /\ notes \in [Notes -> {"client", "reissue", "failed", "mint"}]

\* A request between handing notes in and its last signature.
HoldsNotes(w) == fpc[w] \in {"reissue", "fed_sign"}

\* Its notes have left the client, so no later request can hand them in, and
\* once it signs they are the mint's.
HolderInv ==
    \A w \in FedWorkers : HoldsNotes(w) =>
        /\ freq[w] \in FedRequests
        /\ freq[w].notes \in Notes
        /\ notes[freq[w].notes] # "client"
        /\ fpc[w] = "fed_sign" => notes[freq[w].notes] = "mint"

\* No two of them wait for the same bundle.
OneHolder ==
    \A v, w \in FedWorkers :
        (v # w /\ HoldsNotes(v) /\ HoldsNotes(w)) => freq[v].notes # freq[w].notes

WaitInv == WaitTypes /\ HolderInv /\ OneHolder

waitVars == <<fpc, freq, notes>>

\* A mint that starts waits for no notes.
LEMMA InitWait == Init => WaitInv
BY DEF Init, WaitInv, WaitTypes, HolderInv, OneHolder, HoldsNotes

\* A task that returns lets go of its notes; nothing else changes hands.
LEMMA ReturnKeeps ==
    ASSUME WaitInv, NEW w \in FedWorkers, FedReturn(w), UNCHANGED notes
    PROVE  WaitInv'
BY DEF WaitInv, WaitTypes, HolderInv, OneHolder, HoldsNotes, FedReturn

\* Every step keeps the waiting requests apart.
LEMMA StepWait == WaitInv /\ [Next]_vars => WaitInv'
<1> SUFFICES ASSUME WaitInv, [Next]_vars PROVE WaitInv'
  OBVIOUS
<1> USE DEF WaitInv, WaitTypes, HolderInv, OneHolder, HoldsNotes
<1>1. CASE UNCHANGED waitVars
  BY <1>1 DEF waitVars
<1>2. ASSUME NEW w \in FedWorkers, NEW r \in FedRequests, Reissue(w, r)
      PROVE  WaitInv'
  <2>1. /\ r.notes \in Notes
        /\ notes[r.notes] = "client"
        /\ notes' = [notes EXCEPT ![r.notes] = "reissue"]
    BY <1>2 DEF Reissue
  <2>2. /\ fpc[w] = "idle"
        /\ fpc' = [fpc EXCEPT ![w] = "reissue"]
        /\ freq' = [freq EXCEPT ![w] = r]
    BY <1>2 DEF Reissue, FedAccept
  <2>3. \A v \in FedWorkers \ {w} : HoldsNotes(v) => freq[v].notes # r.notes
    BY <2>1
  <2>4. WaitTypes'
    BY <2>1, <2>2
  <2>5. HolderInv'
    BY <2>1, <2>2, <2>3
  <2>6. OneHolder'
    BY <2>2, <2>3
  <2> QED BY <2>4, <2>5, <2>6
<1>3. ASSUME NEW w \in FedWorkers, NEW r \in FedRequests, FedMeltVerify(w, r)
      PROVE  WaitInv'
  BY <1>3 DEF FedMeltVerify, FedAccept, fedVars
<1>4. ASSUME NEW n \in Notes, ReissueDone(n)
      PROVE  WaitInv'
  BY <1>4 DEF ReissueDone, fedTaskVars
<1>5. ASSUME NEW w \in FedWorkers, ReissueSeen(w)
      PROVE  WaitInv'
  <2>1. CASE FedReturn(w)
    BY <1>5, <2>1, ReturnKeeps DEF ReissueSeen, fedVars
  <2>2. CASE /\ notes[freq[w].notes] = "mint"
             /\ fpc' = [fpc EXCEPT ![w] = "fed_sign"]
             /\ UNCHANGED freq
    BY <1>5, <2>2 DEF ReissueSeen, fedVars
  <2> QED BY <1>5, <2>1, <2>2 DEF ReissueSeen
<1>6. ASSUME NEW w \in FedWorkers, FedReturn(w), UNCHANGED notes
      PROVE  WaitInv'
  BY <1>6, ReturnKeeps
<1>7. ASSUME NEW w \in FedWorkers,
             \/ FedSignPanic(w) \/ FedMintReply(w)
             \/ PayOut(w) \/ PayOutError(w) \/ FedHandlerDropped(w)
      PROVE  FedReturn(w) /\ UNCHANGED notes
  BY <1>7 DEF FedSignPanic, FedMintReply, PayOut, PayOutError, FedHandlerDropped, fedVars
<1>8. ASSUME NEW w \in FedWorkers, FedSign(w)
      PROVE  UNCHANGED waitVars
  BY <1>8 DEF FedSign, waitVars, fedVars
<1>9. ASSUME NEW w \in Workers, SwapStep(w) \/ \E r \in Requests : Swap(w, r)
      PROVE  UNCHANGED waitVars
  BY <1>9 DEF SwapStep, Swap, waitVars, fedTaskVars, fedVars
<1>10. CASE UNCHANGED vars
  BY <1>1, <1>10 DEF vars, waitVars, fedTaskVars, fedVars
<1> QED
  BY <1>1, <1>2, <1>3, <1>4, <1>5, <1>6, <1>7, <1>8, <1>9, <1>10 DEF Next

\* However requests race for the same notes, the mint signs for at most one
\* of them at a time, and only when the notes are its own.
THEOREM NotesHeldOnce == Spec => []NotesBackOneRequest
<1>1. WaitInv => NotesBackOneRequest
  BY DEF WaitInv, HolderInv, OneHolder, HoldsNotes, NotesBackOneRequest
<1> QED BY <1>1, InitWait, StepWait, PTL DEF Spec

-----------------------------------------------------------------------------
(* Types *)

\* The tasks of Mint serve swaps only.
SwapTaskOK(w) ==
    /\ pc[w] \in SwapSteps \cup {"idle"}
    /\ pc[w] = "idle" => idx[w] = 1
    /\ pc[w] # "idle" => req[w] \in Requests /\ req[w].kind = "swap"
    /\ pc[w] = "swap_spend" => idx[w] \in DOMAIN req[w].inputs

\* A task of a route serves a request of it, and has signed nothing before its
\* notes have come.
FedTaskOK(v) ==
    /\ fpc[v] # "idle" => freq[v] \in FedRequests
    /\ fpc[v] \in {"reissue", "fed_sign"} => freq[v].kind = "fed_mint"
    /\ fpc[v] # "fed_sign" => fidx[v] = 1

TypeInv ==
    /\ FedTypeOK
    /\ \A w \in Workers : SwapTaskOK(w)
    /\ \A v \in FedWorkers : FedTaskOK(v)

\* A list of proofs adds up to a number of u64.
LEMMA TotalType ==
    ASSUME NEW ps \in Seq(Output)
    PROVE  Total(ps) \in Nat
<1>1. Total(ps) = WrappedSum(ps, Word)
  BY DEF Total, FoldSeq, FoldFunction, FoldFunctionOnSet, MapThenFoldSet, Chosen, WrappedSum
<1>2. Word \in Nat \ {0}
  BY StoreAssumption DEF StoreAssumption
<1> QED BY <1>1, <1>2, OutputsSummable, WrappedSumIs DEF AmountsOf

\* What a request of these routes is made of.
LEMMA FedServed ==
    ASSUME NEW r \in FedRequests
    PROVE  /\ r.inputs \in Seq(Output) /\ r.outputs \in Seq(Output)
           /\ r.kind = "fed_mint" => r.notes \in Notes
BY DEF FedRequest

\* A task of the routes stands still; a task of Mint does.
FedStands(v) == fpc'[v] = fpc[v] /\ freq'[v] = freq[v] /\ fidx'[v] = fidx[v]
Stands(w) == pc'[w] = pc[w] /\ req'[w] = req[w] /\ idx'[w] = idx[w]

\* What a request of the routes can do to its own task.
FedMove(v) ==
    \/ FedReturn(v)
    \/ fpc[v] = "idle" /\ \E r \in FedRequests :
        /\ \/ r.kind = "fed_mint" /\ fpc' = [fpc EXCEPT ![v] = "reissue"]
           \/ r.kind = "fed_melt" /\ fpc' = [fpc EXCEPT ![v] = "pay_out"]
        /\ freq' = [freq EXCEPT ![v] = r] /\ UNCHANGED fidx
    \/ fpc[v] = "reissue" /\ fpc' = [fpc EXCEPT ![v] = "fed_sign"] /\ UNCHANGED <<freq, fidx>>
    \/ fpc[v] = "fed_sign" /\ fidx' = [fidx EXCEPT ![v] = @ + 1] /\ UNCHANGED <<fpc, freq>>

\* And a swap to its.
SwapMove(w) ==
    \/ Return(w)
    \/ ~Busy(w) /\ \E r \in Requests : r.kind = "swap" /\ Accept(w, r, "swap_spend")
    \/ pc[w] = "swap_spend" /\ idx[w] = Len(req[w].inputs) /\ Goto(w, "swap_sign")
    \/ pc[w] = "swap_spend" /\ idx[w] # Len(req[w].inputs) /\ Advance(w)
    \/ pc[w] = "swap_sign" /\ Advance(w)

\* The handlers a swap's task can be in.
LEMMA SwapHandlers ==
    ASSUME TypeInv, NEW w \in Workers, SwapStep(w)
    PROVE  \/ SwapSpend(w) \/ SwapSign(w) \/ SwapReply(w)
<1>1. SwapTaskOK(w)
  BY DEF TypeInv
<1> QED BY <1>1 DEF SwapTaskOK, SwapSteps, SwapStep, MintHandlers, MintReadQuote, MintSign,
       MintRemoveQuote, MeltProcess, MeltSpend, MeltRemoveQuote, MeltOverflow, MeltChange, MeltReply

\* Every step moves a swap, a request of the routes, or no task at all.
LEMMA Moves ==
    ASSUME TypeInv, [Next]_vars
    PROVE  \/ UNCHANGED <<taskVars, fedTaskVars>>
           \/ UNCHANGED fedTaskVars /\ \E w \in Workers : SwapMove(w)
           \/ UNCHANGED taskVars /\ \E v \in FedWorkers : FedMove(v)
<1>1. ASSUME NEW w \in Workers, SwapStep(w) PROVE UNCHANGED fedTaskVars /\ SwapMove(w)
  BY <1>1, SwapHandlers DEF SwapStep, SwapMove, SwapSpend, SwapSign, SwapReply, SignOutput
<1>2. ASSUME NEW w \in Workers, NEW r \in Requests, Swap(w, r)
      PROVE  UNCHANGED fedTaskVars /\ SwapMove(w)
  BY <1>2 DEF Swap, SwapMove, SwapVerify
<1>3. ASSUME NEW n \in Notes, ReissueDone(n) PROVE UNCHANGED <<taskVars, fedTaskVars>>
  BY <1>3 DEF ReissueDone
<1>4. ASSUME NEW v \in FedWorkers,
             \/ ReissueSeen(v) \/ FedSign(v) \/ FedSignPanic(v) \/ FedMintReply(v)
             \/ PayOut(v) \/ PayOutError(v) \/ FedHandlerDropped(v)
      PROVE  UNCHANGED taskVars /\ FedMove(v)
  BY <1>4 DEF ReissueSeen, FedSign, FedSignPanic, FedMintReply, PayOut, PayOutError,
              FedHandlerDropped, FedMove
<1>5. ASSUME NEW v \in FedWorkers, NEW r \in FedRequests, Reissue(v, r) \/ FedMeltVerify(v, r)
      PROVE  UNCHANGED taskVars /\ FedMove(v)
  BY <1>5 DEF Reissue, FedMeltVerify, FedAccept, FedMove
<1>6. CASE UNCHANGED vars
  BY <1>6 DEF vars
<1> QED BY <1>1, <1>2, <1>3, <1>4, <1>5, <1>6 DEF Next

\* The moves keep the tasks in their types.
LEMMA SwapMoveTyping ==
    ASSUME TypeInv, NEW w \in Workers, SwapMove(w)
    PROVE  /\ TaskTypeOK' /\ \A u \in Workers : SwapTaskOK(u)'
           /\ \A u \in Workers \ {w} : Stands(u)
<1> USE DEF TypeInv, FedTypeOK
<1>1. TaskTypeOK'
  BY TaskMoveTyping DEF SwapMove, Steps, SwapSteps
<1>2. \A u \in Workers \ {w} : Stands(u)
  BY DEF SwapMove, Stands, Return, Accept, Goto, Advance, TaskTypeOK
<1>3. \A u \in Workers \ {w} : SwapTaskOK(u)'
  BY <1>2 DEF Stands, SwapTaskOK
<1>4. SwapTaskOK(w)'
  <2>1. SwapTaskOK(w)
    OBVIOUS
  <2>2. CASE Return(w)
    BY <2>2 DEF Return, TaskTypeOK, SwapTaskOK
  <2>3. ASSUME ~Busy(w), NEW r \in Requests, r.kind = "swap", Accept(w, r, "swap_spend")
        PROVE  SwapTaskOK(w)'
    <3>1. 1 \in DOMAIN r.inputs
      BY <2>3, RequestTyping
    <3> QED BY <2>1, <2>3, <3>1 DEF Accept, TaskTypeOK, SwapTaskOK, SwapSteps, Busy
  <2>4. CASE pc[w] = "swap_spend" /\ Goto(w, "swap_sign")
    BY <2>1, <2>4 DEF Goto, TaskTypeOK, SwapTaskOK, SwapSteps
  <2>5. CASE pc[w] = "swap_spend" /\ idx[w] # Len(req[w].inputs) /\ Advance(w)
    <3>1. DOMAIN req[w].inputs = 1..Len(req[w].inputs) /\ Len(req[w].inputs) \in Nat
      BY <2>1, <2>5, RequestTyping DEF SwapTaskOK
    <3> QED BY <2>1, <2>5, <3>1 DEF Advance, TaskTypeOK, SwapTaskOK, SwapSteps
  <2>6. CASE pc[w] = "swap_sign" /\ Advance(w)
    BY <2>1, <2>6 DEF Advance, TaskTypeOK, SwapTaskOK, SwapSteps
  <2> QED BY <2>2, <2>3, <2>4, <2>5, <2>6 DEF SwapMove
<1> QED BY <1>1, <1>2, <1>3, <1>4

FedTasksTyped ==
    /\ fpc \in [FedWorkers -> {"idle", "reissue", "fed_sign", "pay_out"}]
    /\ freq \in [FedWorkers -> FedRequests \cup {NoRequest}]
    /\ fidx \in [FedWorkers -> Nat \ {0}]

\* A task that moves keeps the types, and leaves the others alone.
LEMMA FedMoveTyping ==
    ASSUME TypeInv, NEW v \in FedWorkers, FedMove(v)
    PROVE  /\ FedTasksTyped' /\ \A u \in FedWorkers : FedTaskOK(u)'
           /\ \A u \in FedWorkers \ {v} : FedStands(u)
<1> USE DEF TypeInv, FedTypeOK, FedTasksTyped, FedTaskOK
<1>1. CASE FedReturn(v)
  BY <1>1 DEF FedReturn, FedStands
<1>2. ASSUME fpc[v] = "idle", NEW r \in FedRequests,
             \/ r.kind = "fed_mint" /\ fpc' = [fpc EXCEPT ![v] = "reissue"]
             \/ r.kind = "fed_melt" /\ fpc' = [fpc EXCEPT ![v] = "pay_out"],
             freq' = [freq EXCEPT ![v] = r], UNCHANGED fidx
      PROVE  /\ FedTasksTyped' /\ \A u \in FedWorkers : FedTaskOK(u)'
             /\ \A u \in FedWorkers \ {v} : FedStands(u)
  BY <1>2 DEF FedStands
<1>3. CASE fpc[v] = "reissue" /\ fpc' = [fpc EXCEPT ![v] = "fed_sign"] /\ UNCHANGED <<freq, fidx>>
  BY <1>3 DEF FedStands
<1>4. CASE fpc[v] = "fed_sign" /\ fidx' = [fidx EXCEPT ![v] = @ + 1] /\ UNCHANGED <<fpc, freq>>
  BY <1>4 DEF FedStands
<1> QED BY <1>1, <1>2, <1>3, <1>4 DEF FedMove

\* The store keeps its types: only spending and signing write it.
LEMMA StoreTyping ==
    ASSUME TypeInv, [Next]_vars
    PROVE  StoreTypeOK'
<1> USE DEF TypeInv, FedTypeOK
<1>1. CASE UNCHANGED storeVars
  BY <1>1 DEF storeVars, StoreTypeOK
<1>2. ASSUME NEW w \in Workers, SwapStep(w) PROVE StoreTypeOK'
  <2>0. SwapTaskOK(w)
    OBVIOUS
  <2>1. CASE SwapSpend(w)
    <3>1. Input(w) \in Output
      BY <2>0, <2>1, RequestTyping DEF SwapSpend, SwapTaskOK, Input
    <3> QED BY <2>1, <3>1, StoreWriteTyping, StoreAssumption DEF SwapSpend
  <2>2. CASE SwapSign(w)
    <3>1. req[w].outputs[idx[w]] \in Output
      BY <2>0, <2>2, RequestTyping DEF SwapSign, SwapTaskOK
    <3> QED BY <1>1, <2>2, <3>1, StoreWriteTyping, StoreAssumption DEF SwapSign, SignOutput
  <2>3. CASE SwapReply(w)
    BY <1>1, <2>3 DEF SwapReply
  <2> QED BY <1>2, <2>1, <2>2, <2>3, SwapHandlers
<1>3. ASSUME NEW v \in FedWorkers, FedSign(v) PROVE StoreTypeOK'
  <2>1. freq[v].outputs[fidx[v]] \in Output
    <3>1. freq[v] \in FedRequests /\ fidx[v] \in DOMAIN freq[v].outputs
      BY <1>3 DEF FedSign, FedTaskOK
    <3>2. freq[v].outputs \in Seq(Output)
      BY <3>1, FedServed
    <3> QED BY <3>1, <3>2
  <2> QED BY <1>3, <2>1, StoreWriteTyping, StoreAssumption DEF FedSign
<1>4. ASSUME NEW n \in Notes, ReissueDone(n) PROVE StoreTypeOK'
  <2>1. NotesValue[n] \in Nat
    OBVIOUS
  <2> QED BY <1>4, <2>1 DEF ReissueDone, StoreTypeOK, proofVars, quoteVars, keysetVars
<1>5. ASSUME NEW w \in Workers, NEW r \in Requests, Swap(w, r) PROVE UNCHANGED storeVars
  BY <1>5 DEF Swap, SwapVerify
<1>6. ASSUME NEW v \in FedWorkers,
             \/ ReissueSeen(v) \/ FedSignPanic(v) \/ FedMintReply(v)
             \/ PayOut(v) \/ PayOutError(v) \/ FedHandlerDropped(v)
             \/ \E r \in FedRequests : Reissue(v, r) \/ FedMeltVerify(v, r)
      PROVE  UNCHANGED storeVars
  BY <1>6 DEF ReissueSeen, FedSignPanic, FedMintReply, PayOut, PayOutError, FedHandlerDropped,
              Reissue, FedMeltVerify
<1>7. CASE UNCHANGED vars
  BY <1>1, <1>7 DEF vars
<1> QED BY <1>1, <1>2, <1>3, <1>4, <1>5, <1>6, <1>7 DEF Next

\* What the mint's federation client holds stays a number: it pays out of
\* what it has.
LEMMA FedStoreTyping ==
    ASSUME TypeInv, [Next]_vars
    PROVE  /\ notes' \in [Notes -> {"client", "reissue", "failed", "mint"}]
           /\ balance' \in Nat
           /\ paidOut' \in [Coins -> Nat]
<1> USE DEF TypeInv, FedTypeOK
<1>1. CASE UNCHANGED fedVars
  BY <1>1 DEF fedVars
<1>2. ASSUME NEW v \in FedWorkers, NEW r \in FedRequests, Reissue(v, r)
      PROVE  /\ notes' \in [Notes -> {"client", "reissue", "failed", "mint"}]
             /\ UNCHANGED <<balance, paidOut>>
  BY <1>2, FedServed DEF Reissue
<1>3. ASSUME NEW n \in Notes, ReissueDone(n)
      PROVE  /\ notes' \in [Notes -> {"client", "reissue", "failed", "mint"}]
             /\ balance' \in Nat /\ UNCHANGED paidOut
  <2>1. NotesValue[n] \in Nat
    OBVIOUS
  <2> QED BY <1>3, <2>1 DEF ReissueDone
<1>4. ASSUME NEW v \in FedWorkers, PayOut(v)
      PROVE  UNCHANGED notes /\ balance' \in Nat /\ paidOut' \in [Coins -> Nat]
  <2>1. Total(freq[v].inputs) \in Nat
    BY <1>4, FedServed, TotalType DEF PayOut, FedTaskOK
  <2>2. balance' \in Nat
    BY <1>4, <2>1 DEF PayOut
  <2>3. paidOut' \in [Coins -> Nat]
    BY <1>4 DEF PayOut
  <2> QED BY <1>4, <2>2, <2>3 DEF PayOut
<1>5. ASSUME NEW v \in FedWorkers,
             \/ ReissueSeen(v) \/ FedSign(v) \/ FedSignPanic(v) \/ FedMintReply(v)
             \/ PayOutError(v) \/ FedHandlerDropped(v) \/ \E r \in FedRequests : FedMeltVerify(v, r)
      PROVE  UNCHANGED fedVars
  BY <1>5 DEF ReissueSeen, FedSign, FedSignPanic, FedMintReply, PayOutError, FedHandlerDropped,
              FedMeltVerify
<1>6. ASSUME NEW w \in Workers, SwapStep(w) \/ \E r \in Requests : Swap(w, r)
      PROVE  UNCHANGED fedVars
  BY <1>6 DEF SwapStep, Swap
<1>7. CASE UNCHANGED vars
  BY <1>1, <1>7 DEF vars
<1> QED BY <1>1, <1>2, <1>3, <1>4, <1>5, <1>6, <1>7 DEF Next

\* A mint that starts is well typed.
LEMMA InitTypes == Init => TypeInv
<1> SUFFICES ASSUME Init PROVE TypeInv
  OBVIOUS
<1>1. StoreTypeOK
  <2>1. issued \subseteq BlindSignature
    BY StoreAssumption, SignatureTyping DEF Init, StoreInit, StoreAssumption
  <2> QED
    BY <2>1, StoreAssumption
    DEF Init, StoreInit, StoreTypeOK, MintQuoteState, MeltQuoteState, Output, StoreAssumption
<1>2. TaskTypeOK /\ \A w \in Workers : SwapTaskOK(w)
  BY DEF Init, TaskInit, TaskTypeOK, SwapTaskOK
<1> QED BY <1>1, <1>2 DEF Init, FedTypeOK, TypeInv, FedTaskOK

\* Every step keeps the types.
LEMMA StepTypes == TypeInv /\ [Next]_vars => TypeInv'
<1> SUFFICES ASSUME TypeInv, [Next]_vars PROVE TypeInv'
  OBVIOUS
<1>1. TaskTypeOK' /\ \A w \in Workers : SwapTaskOK(w)'
  <2>1. CASE UNCHANGED taskVars
    BY <2>1 DEF TypeInv, FedTypeOK, taskVars, TaskTypeOK, SwapTaskOK
  <2> QED BY <2>1, Moves, SwapMoveTyping
<1>2. FedTasksTyped' /\ \A v \in FedWorkers : FedTaskOK(v)'
  <2>1. CASE UNCHANGED fedTaskVars
    BY <2>1 DEF TypeInv, FedTypeOK, fedTaskVars, FedTasksTyped, FedTaskOK
  <2> QED BY <2>1, Moves, FedMoveTyping
<1> QED BY <1>1, <1>2, StoreTyping, FedStoreTyping DEF TypeInv, FedTypeOK, FedTasksTyped

\* Every variable of the routes and of the store stays in its type; the
\* federation client never pays out more than it holds.
THEOREM FedTypeCorrect == Spec => []FedTypeOK
<1>1. TypeInv => FedTypeOK
  BY DEF TypeInv
<1> QED BY <1>1, InitTypes, StepTypes, PTL DEF Spec

-----------------------------------------------------------------------------
(* The mint signs no more than it took in *)

\* Sums over tasks need finitely many of them.
FedAssumptions == WithinNotes /\ IsFiniteSet(Workers) /\ IsFiniteSet(FedWorkers)

\* The inputs a swap has still to spend are unspent, no coin is in it twice,
\* and what it takes in is what it gives out.
SwapKnows(w) ==
    /\ pc[w] = "swap_spend" =>
        /\ NoDuplicates(req[w].inputs)
        /\ \A i \in idx[w]..Len(req[w].inputs) : ~Spent(req[w].inputs[i].coin)
    /\ pc[w] # "idle" => Value(req[w].inputs) = Value(req[w].outputs)

InFlightApart ==
    \A v, w \in Workers :
        (v # w /\ pc[v] # "idle" /\ pc[w] # "idle") =>
            CoinsIn(req[v].inputs) \cap CoinsIn(req[w].inputs) = {}

KnowsInv == InFlightApart /\ \A w \in Workers : SwapKnows(w)

\* The value a swap has taken in and not given out.
Hold(w) ==
    CASE pc[w] = "swap_spend" -> Worth(req[w].inputs, 1..(idx[w] - 1))
      [] pc[w] = "swap_sign" -> Worth(req[w].outputs, idx[w]..Len(req[w].outputs))
      [] OTHER -> 0

\* What a mint request has still to sign for notes that are the mint's.
FedHold(v) ==
    IF HoldsNotes(v) /\ notes[freq[v].notes] = "mint"
    THEN Worth(freq[v].outputs, fidx[v]..Len(freq[v].outputs)) ELSE 0

Held == Sum([w \in Workers |-> Hold(w)], Workers)
FedHeld == Sum([v \in FedWorkers |-> FedHold(v)], FedWorkers)

Covered == escrow >= Held + FedHeld

Typed == FedAssumptions /\ TypeInv

HoldsTyped ==
    /\ \A w \in Workers : Hold(w) \in Nat
    /\ \A v \in FedWorkers : FedHold(v) \in Nat

\* The rest of a list from place i on is the element at i and the rest after.
LEMMA Places ==
    ASSUME NEW ps \in Seq(Output), NEW i \in Nat \ {0}
    PROVE  /\ Worth(ps, i..Len(ps)) \in Nat
           /\ i \in DOMAIN ps =>
                /\ Worth(ps, 1..(i - 1)) \in Nat
                /\ Worth(ps, i..Len(ps)) = ps[i].amount + Worth(ps, (i + 1)..Len(ps))
                /\ Worth(ps, 1..i) = ps[i].amount + Worth(ps, 1..(i - 1))
           /\ Worth(ps, 1..Len(ps)) = Value(ps)
           /\ Worth(ps, 1..0) = 0
<1>1. i..Len(ps) \subseteq DOMAIN ps /\ DOMAIN ps = 1..Len(ps)
  OBVIOUS
<1>2. Worth(ps, i..Len(ps)) \in Nat
  BY <1>1, WorthLemma
<1>3. ASSUME i \in DOMAIN ps
      PROVE  /\ Worth(ps, 1..(i - 1)) \in Nat
             /\ Worth(ps, i..Len(ps)) = ps[i].amount + Worth(ps, (i + 1)..Len(ps))
             /\ Worth(ps, 1..i) = ps[i].amount + Worth(ps, 1..(i - 1))
  <2> DEFINE S == i..Len(ps)
             T == 1..i
  <2>1. /\ 1..(i - 1) \subseteq DOMAIN ps /\ T \subseteq DOMAIN ps /\ S \subseteq DOMAIN ps
        /\ i \in S /\ i \in T /\ S \ {i} = (i + 1)..Len(ps) /\ T \ {i} = 1..(i - 1)
    BY <1>3
  <2> HIDE DEF S, T
  <2>2. Worth(ps, S) = ps[i].amount + Worth(ps, S \ {i})
    BY <2>1, WorthLemma
  <2>3. Worth(ps, T) = ps[i].amount + Worth(ps, T \ {i})
    BY <2>1, WorthLemma
  <2>4. Worth(ps, 1..(i - 1)) \in Nat
    BY <2>1, WorthLemma
  <2> QED BY <2>1, <2>2, <2>3, <2>4 DEF S, T
<1>4. Worth(ps, 1..Len(ps)) = Value(ps)
  BY <1>1, OutputsSummable DEF Worth
<1>5. Worth(ps, 1..0) = 0
  <2>1. 1..0 = {}
    OBVIOUS
  <2>2. Worth(ps, {}) = 0
    BY SumEmpty DEF Worth
  <2> QED BY <2>1, <2>2, Zenon
<1> QED BY <1>2, <1>3, <1>4, <1>5

\* What a task holds is a number.
LEMMA HoldTypes == Typed => HoldsTyped
<1> SUFFICES ASSUME Typed PROVE HoldsTyped
  OBVIOUS
<1> USE DEF Typed, TypeInv, FedTypeOK
<1>1. ASSUME NEW w \in Workers PROVE Hold(w) \in Nat
  <2>1. SwapTaskOK(w) /\ idx[w] \in Nat \ {0}
    BY DEF TaskTypeOK
  <2>2. CASE pc[w] = "swap_spend"
    <3>1. req[w] \in Requests /\ idx[w] \in DOMAIN req[w].inputs
      BY <2>1, <2>2 DEF SwapTaskOK
    <3>2. req[w].inputs \in Seq(Output)
      BY <3>1, Served
    <3> HIDE DEF Typed, TypeInv, FedTypeOK
    <3> QED BY <2>1, <2>2, <3>1, <3>2, Places DEF Hold
  <2>3. CASE pc[w] = "swap_sign"
    <3>1. req[w].outputs \in Seq(Output)
      BY <2>1, <2>3, Served DEF SwapTaskOK
    <3> HIDE DEF Typed, TypeInv, FedTypeOK
    <3> QED BY <2>1, <2>3, <3>1, Places DEF Hold
  <2> QED BY <2>2, <2>3 DEF Hold
<1>2. ASSUME NEW v \in FedWorkers PROVE FedHold(v) \in Nat
  <2>1. CASE HoldsNotes(v)
    <3>1. freq[v].outputs \in Seq(Output) /\ fidx[v] \in Nat \ {0}
      BY <2>1, FedServed DEF HoldsNotes, FedTaskOK
    <3> HIDE DEF Typed, TypeInv, FedTypeOK
    <3> QED BY <3>1, Places DEF FedHold
  <2> QED BY <2>1 DEF FedHold
<1> QED BY <1>1, <1>2 DEF HoldsTyped

\* The same after a step.
LEMMA HoldTypesNext == Typed' => HoldsTyped'
BY HoldTypes, PTL

\* A swap moves: what is held changes by what it holds.
LEMMA HeldChange ==
    ASSUME Typed, Typed', NEW w \in Workers, \A u \in Workers \ {w} : Hold(u)' <= Hold(u)
    PROVE  /\ Held' + Hold(w) <= Held + Hold(w)'
           /\ Held \in Nat /\ Held' \in Nat /\ Hold(w) \in Nat /\ Hold(w)' \in Nat
<1> DEFINE f == [u \in Workers |-> Hold(u)]
           g == [u \in Workers |-> Hold(u)']
<1>1. Summable(f, Workers) /\ Summable(g, Workers)
  BY HoldTypes, HoldTypesNext DEF HoldsTyped, Typed, FedAssumptions, Summable
<1>2. \A u \in Workers \ {w} : g[u] <= f[u]
  OBVIOUS
<1>3. f[w] = Hold(w) /\ g[w] = Hold(w)'
  OBVIOUS
<1> HIDE DEF f, g
<1>4. Sum(g, Workers) + f[w] <= Sum(f, Workers) + g[w]
  BY <1>1, <1>2, SumChange
<1>5. Sum(f, Workers) \in Nat /\ Sum(g, Workers) \in Nat
  BY <1>1, SumType
<1>6. Hold(w) \in Nat /\ Hold(w)' \in Nat
  BY HoldTypes, HoldTypesNext DEF HoldsTyped
<1> QED BY <1>3, <1>4, <1>5, <1>6 DEF Held, f, g

\* A request of the routes moves.
LEMMA FedHeldChange ==
    ASSUME Typed, Typed', NEW v \in FedWorkers,
           \A u \in FedWorkers \ {v} : FedHold(u)' <= FedHold(u)
    PROVE  /\ FedHeld' + FedHold(v) <= FedHeld + FedHold(v)'
           /\ FedHeld \in Nat /\ FedHeld' \in Nat /\ FedHold(v) \in Nat /\ FedHold(v)' \in Nat
<1> DEFINE f == [u \in FedWorkers |-> FedHold(u)]
           g == [u \in FedWorkers |-> FedHold(u)']
<1>1. Summable(f, FedWorkers) /\ Summable(g, FedWorkers)
  BY HoldTypes, HoldTypesNext DEF HoldsTyped, Typed, FedAssumptions, Summable
<1>2. \A u \in FedWorkers \ {v} : g[u] <= f[u]
  OBVIOUS
<1>3. f[v] = FedHold(v) /\ g[v] = FedHold(v)'
  OBVIOUS
<1> HIDE DEF f, g
<1>4. Sum(g, FedWorkers) + f[v] <= Sum(f, FedWorkers) + g[v]
  BY <1>1, <1>2, SumChange
<1>5. Sum(f, FedWorkers) \in Nat /\ Sum(g, FedWorkers) \in Nat
  BY <1>1, SumType
<1>6. FedHold(v) \in Nat /\ FedHold(v)' \in Nat
  BY HoldTypes, HoldTypesNext DEF HoldsTyped
<1> QED BY <1>3, <1>4, <1>5, <1>6 DEF FedHeld, f, g

\* Nothing comes to be held.
LEMMA HeldKept ==
    ASSUME Typed, Typed', \A u \in Workers : Hold(u)' <= Hold(u)
    PROVE  Held' <= Held /\ Held \in Nat /\ Held' \in Nat
<1> DEFINE f == [u \in Workers |-> Hold(u)]
           g == [u \in Workers |-> Hold(u)']
<1>1. Summable(f, Workers) /\ Summable(g, Workers)
  BY HoldTypes, HoldTypesNext DEF HoldsTyped, Typed, FedAssumptions, Summable
<1>2. \A u \in Workers : g[u] <= f[u]
  OBVIOUS
<1> HIDE DEF f, g
<1> QED BY <1>1, <1>2, SumMonotone, SumType DEF Held, f, g

\* No task holds more: nor do all of them.
LEMMA FedHeldKept ==
    ASSUME Typed, Typed', \A u \in FedWorkers : FedHold(u)' <= FedHold(u)
    PROVE  FedHeld' <= FedHeld /\ FedHeld \in Nat /\ FedHeld' \in Nat
<1> DEFINE f == [u \in FedWorkers |-> FedHold(u)]
           g == [u \in FedWorkers |-> FedHold(u)']
<1>1. Summable(f, FedWorkers) /\ Summable(g, FedWorkers)
  BY HoldTypes, HoldTypesNext DEF HoldsTyped, Typed, FedAssumptions, Summable
<1>2. \A u \in FedWorkers : g[u] <= f[u]
  OBVIOUS
<1> HIDE DEF f, g
<1> QED BY <1>1, <1>2, SumMonotone, SumType DEF FedHeld, f, g

\* Where the tasks stand still and no notes come in, nothing more is held.
LEMMA StandsHolds ==
    ASSUME NEW w \in Workers, Stands(w)
    PROVE  Hold(w)' = Hold(w)
BY DEF Stands, Hold

\* A task that stands still holds what it held.
LEMMA FedStandsHolds ==
    ASSUME NEW v \in FedWorkers, FedStands(v), notes' = notes
    PROVE  FedHold(v)' = FedHold(v)
BY DEF FedStands, FedHold, HoldsNotes

\* The swap's side of a step that leaves the routes and their notes alone.
LEMMA SwapCovers ==
    ASSUME Typed, Typed', Covered, UNCHANGED <<fedTaskVars, notes>>, NEW w \in Workers,
           \A u \in Workers \ {w} : Stands(u), escrow' - Hold(w)' >= escrow - Hold(w)
    PROVE  Covered'
<1>1. \A u \in Workers \ {w} : Hold(u)' <= Hold(u)
  BY StandsHolds, HoldTypes DEF HoldsTyped
<1>2. \A v \in FedWorkers : FedHold(v)' <= FedHold(v)
  BY FedStandsHolds, HoldTypes DEF HoldsTyped, FedStands, fedTaskVars
<1>3. /\ Held' + Hold(w) <= Held + Hold(w)'
      /\ Held \in Nat /\ Held' \in Nat /\ Hold(w) \in Nat /\ Hold(w)' \in Nat
  BY <1>1, HeldChange
<1>4. FedHeld' <= FedHeld /\ FedHeld \in Nat /\ FedHeld' \in Nat
  BY <1>2, FedHeldKept
<1>5. escrow \in Int /\ escrow' \in Int
  BY DEF Typed, TypeInv, FedTypeOK, StoreTypeOK
<1> DEFINE h == Hold(w)
           g == Hold(w)'
           H == Held
           G == Held'
           F == FedHeld
           E == FedHeld'
<1>6. /\ G + h <= H + g /\ H \in Nat /\ G \in Nat /\ h \in Nat /\ g \in Nat
      /\ E <= F /\ F \in Nat /\ E \in Nat
      /\ escrow' - g >= escrow - h /\ escrow >= H + F
  BY <1>3, <1>4 DEF Covered
<1> DEFINE e == escrow
           d == escrow'
<1>7. e \in Int /\ d \in Int /\ d - g >= e - h /\ e >= H + F
  BY <1>5, <1>6
<1> HIDE DEF h, g, H, G, F, E, e, d
<1>8. d >= G + E
  BY <1>6, <1>7
<1> QED BY <1>8 DEF Covered, G, E, d

\* The routes' side of one that leaves the swaps alone.
LEMMA FedCovers ==
    ASSUME Typed, Typed', Covered, UNCHANGED taskVars, NEW v \in FedWorkers,
           \A u \in FedWorkers \ {v} : FedHold(u)' <= FedHold(u),
           escrow' - FedHold(v)' >= escrow - FedHold(v)
    PROVE  Covered'
<1>1. \A u \in Workers : Hold(u)' <= Hold(u)
  BY StandsHolds, HoldTypes DEF HoldsTyped, Stands, taskVars
<1>2. Held' <= Held /\ Held \in Nat /\ Held' \in Nat
  BY <1>1, HeldKept
<1>3. /\ FedHeld' + FedHold(v) <= FedHeld + FedHold(v)'
      /\ FedHeld \in Nat /\ FedHeld' \in Nat /\ FedHold(v) \in Nat /\ FedHold(v)' \in Nat
  BY FedHeldChange
<1>4. escrow \in Int /\ escrow' \in Int
  BY DEF Typed, TypeInv, FedTypeOK, StoreTypeOK
<1> QED BY <1>2, <1>3, <1>4 DEF Covered

\* A signature takes no more from the escrow than the output's amount.
LEMMA SignCosts ==
    ASSUME TypeInv, NEW o \in Output, AddBlindedSignature(o)
    PROVE  o.amount \in Nat /\ escrow' >= escrow - o.amount
BY DEF AddBlindedSignature, Output, TypeInv, FedTypeOK, StoreTypeOK

\* A swap that spends keeps what it takes, and it takes each coin once.
LEMMA SpendCovered ==
    ASSUME Typed, Typed', Covered, KnowsInv, UNCHANGED <<fedTaskVars, notes>>,
           NEW w \in Workers, SwapSpend(w)
    PROVE  Covered'
<1> DEFINE ins == req[w].inputs
           outs == req[w].outputs
           i == idx[w]
<1>1. /\ SwapTaskOK(w) /\ req[w] \in Requests /\ i \in DOMAIN ins /\ i \in Nat \ {0}
      /\ ins \in Seq(Output) /\ outs \in Seq(Output) /\ TaskTypeOK /\ escrow \in Int
  BY Served DEF Typed, TypeInv, FedTypeOK, SwapTaskOK, SwapSpend, TaskTypeOK, StoreTypeOK
<1>2. i \in i..Len(ins) /\ Len(ins) \in Nat
  <2> HIDE DEF ins
  <2> QED BY <1>1
<1>3. ~Spent(ins[i].coin) /\ Value(ins) = Value(outs)
  BY <1>2 DEF SwapSpend, KnowsInv, SwapKnows
<1>4. escrow' = escrow + ins[i].amount /\ ins[i].amount \in Nat
  <2>1. ins[i] \in Output
    BY <1>1
  <2> QED BY <1>3, <2>1 DEF SwapSpend, AddSpentProof, Input, Output
<1>5. Hold(w) = Worth(ins, 1..(i - 1))
  BY DEF SwapSpend, Hold
<1>6. Worth(ins, 1..i) = ins[i].amount + Worth(ins, 1..(i - 1)) /\ Worth(ins, 1..(i - 1)) \in Nat
  BY <1>1, Places
<1>7. Hold(w)' = Worth(ins, 1..i)
  <2>1. CASE i = Len(ins)
    <3>1. pc'[w] = "swap_sign" /\ req'[w] = req[w] /\ idx'[w] = 1
      BY <1>1, <2>1 DEF SwapSpend, Goto, TaskTypeOK
    <3>2. Hold(w)' = Worth(outs, 1..Len(outs))
      BY <3>1 DEF Hold
    <3> QED BY <1>1, <1>3, <2>1, <3>2, Places
  <2>2. CASE i # Len(ins)
    <3>1. pc'[w] = "swap_spend" /\ req'[w] = req[w] /\ idx'[w] = i + 1
      BY <1>1, <2>2 DEF SwapSpend, Advance, TaskTypeOK
    <3>2. (i + 1) - 1 = i
      BY <1>1
    <3> QED BY <3>1, <3>2 DEF Hold
  <2> QED BY <2>1, <2>2
<1>8. \A u \in Workers \ {w} : Stands(u)
  BY <1>1 DEF SwapSpend, Goto, Advance, Stands, TaskTypeOK
<1>9. escrow' - Hold(w)' >= escrow - Hold(w)
  <2> DEFINE a == ins[i].amount
             h == Hold(w)
             k == Hold(w)'
  <2>1. h \in Nat /\ k = a + h /\ a \in Nat /\ escrow' = escrow + a /\ escrow \in Int
    BY <1>1, <1>4, <1>5, <1>6, <1>7
  <2> HIDE DEF a, h, k
  <2>2. escrow' - k >= escrow - h
    BY <2>1
  <2> QED BY <2>2 DEF h, k
<1> QED BY <1>8, <1>9, SwapCovers

\* A swap that signs pays with what it holds.
LEMMA SwapSignCovered ==
    ASSUME Typed, Typed', Covered, UNCHANGED <<fedTaskVars, notes>>,
           NEW w \in Workers, SwapSign(w), AddBlindedSignature(req[w].outputs[idx[w]]), Advance(w)
    PROVE  Covered'
<1> DEFINE outs == req[w].outputs
           i == idx[w]
<1>1. /\ SwapTaskOK(w) /\ req[w] \in Requests /\ i \in DOMAIN outs /\ i \in Nat \ {0}
      /\ outs \in Seq(Output) /\ TaskTypeOK /\ escrow \in Int /\ TypeInv
  BY Served DEF Typed, TypeInv, FedTypeOK, SwapTaskOK, SwapSign, TaskTypeOK, StoreTypeOK
<1>2. escrow' >= escrow - outs[i].amount /\ outs[i].amount \in Nat /\ escrow' \in Int
  <2>1. outs[i] \in Output
    BY <1>1
  <2>2. escrow' \in Int
    BY DEF Typed, TypeInv, FedTypeOK, StoreTypeOK
  <2> QED BY <1>1, <2>1, <2>2, SignCosts
<1>3. Hold(w) = Worth(outs, i..Len(outs))
  BY DEF SwapSign, Hold
<1>4. Worth(outs, i..Len(outs)) = outs[i].amount + Worth(outs, (i + 1)..Len(outs))
  BY <1>1, Places
<1>5. Worth(outs, (i + 1)..Len(outs)) \in Nat
  <2>1. i + 1 \in Nat \ {0}
    BY <1>1
  <2> QED BY <1>1, <2>1, Places
<1>6. Hold(w)' = Worth(outs, (i + 1)..Len(outs))
  <2>1. pc'[w] = "swap_sign" /\ req'[w] = req[w] /\ idx'[w] = i + 1
    BY <1>1 DEF SwapSign, Advance, TaskTypeOK
  <2> QED BY <2>1 DEF Hold
<1>7. \A u \in Workers \ {w} : Stands(u)
  BY <1>1 DEF Advance, Stands, TaskTypeOK
<1>8. escrow' - Hold(w)' >= escrow - Hold(w)
  <2> DEFINE a == outs[i].amount
             h == Hold(w)
             k == Hold(w)'
  <2>1. k \in Nat /\ h = a + k /\ a \in Nat /\ escrow' >= escrow - a /\ escrow \in Int /\ escrow' \in Int
    BY <1>1, <1>2, <1>3, <1>4, <1>5, <1>6
  <2> HIDE DEF a, h, k
  <2>2. escrow' - k >= escrow - h
    BY <2>1
  <2> QED BY <2>2 DEF h, k
<1> QED BY <1>7, <1>8, SwapCovers

\* So does a mint request.
LEMMA FedSignCovered ==
    ASSUME Typed, Typed', Covered, WaitInv, NEW v \in FedWorkers, FedSign(v)
    PROVE  Covered'
<1> DEFINE outs == freq[v].outputs
           i == fidx[v]
<1>1. /\ freq[v] \in FedRequests /\ i \in DOMAIN outs /\ i \in Nat \ {0}
      /\ outs \in Seq(Output) /\ escrow \in Int /\ TypeInv
      /\ fidx \in [FedWorkers -> Nat \ {0}]
  BY FedServed DEF Typed, TypeInv, FedTypeOK, FedTaskOK, FedSign, StoreTypeOK
<1>2. escrow' >= escrow - outs[i].amount /\ outs[i].amount \in Nat /\ escrow' \in Int
  <2>1. outs[i] \in Output
    BY <1>1
  <2>2. escrow' \in Int
    BY DEF Typed, TypeInv, FedTypeOK, StoreTypeOK
  <2> QED BY <1>1, <2>1, <2>2, SignCosts DEF FedSign
<1>3. HoldsNotes(v) /\ notes[freq[v].notes] = "mint"
  BY DEF FedSign, WaitInv, HolderInv, HoldsNotes
<1>4. FedHold(v) = Worth(outs, i..Len(outs))
  BY <1>3 DEF FedHold
<1>5. Worth(outs, i..Len(outs)) = outs[i].amount + Worth(outs, (i + 1)..Len(outs))
  BY <1>1, Places
<1>6. Worth(outs, (i + 1)..Len(outs)) \in Nat
  <2>1. i + 1 \in Nat \ {0}
    BY <1>1
  <2> QED BY <1>1, <2>1, Places
<1>7. FedHold(v)' = Worth(outs, (i + 1)..Len(outs))
  <2>1. UNCHANGED <<fpc, freq, notes, taskVars>> /\ fidx'[v] = i + 1
    BY <1>1 DEF FedSign, fedVars
  <2> QED BY <1>3, <2>1 DEF FedHold, HoldsNotes
<1>8. \A u \in FedWorkers \ {v} : FedHold(u)' <= FedHold(u)
  <2>1. \A u \in FedWorkers \ {v} : FedStands(u) /\ notes' = notes
    BY <1>1 DEF FedSign, fedVars, FedStands
  <2> QED BY <2>1, FedStandsHolds, HoldTypes DEF HoldsTyped
<1>9. escrow' - FedHold(v)' >= escrow - FedHold(v)
  <2> DEFINE a == outs[i].amount
             h == FedHold(v)
             k == FedHold(v)'
  <2>1. k \in Nat /\ h = a + k /\ a \in Nat /\ escrow' >= escrow - a /\ escrow \in Int /\ escrow' \in Int
    BY <1>1, <1>2, <1>4, <1>5, <1>6, <1>7
  <2> HIDE DEF a, h, k
  <2>2. escrow' - k >= escrow - h
    BY <2>1
  <2> QED BY <2>2 DEF h, k
<1>10. UNCHANGED taskVars
  BY DEF FedSign
<1> QED BY <1>8, <1>9, <1>10, FedCovers

\* Notes that come in are worth what the one request that waits for them asks.
LEMMA NotesCovered ==
    ASSUME Typed, Typed', Covered, WaitInv, NEW n \in Notes, ReissueDone(n)
    PROVE  Covered'
<1>1. /\ escrow \in Int /\ NotesValue[n] \in Nat
      /\ notes \in [Notes -> {"client", "reissue", "failed", "mint"}]
      /\ \A v \in FedWorkers : FedHold(v) \in Nat
  BY HoldTypes DEF Typed, TypeInv, FedTypeOK, StoreTypeOK, HoldsTyped
<1>2. /\ notes[n] = "reissue" /\ UNCHANGED <<taskVars, fedTaskVars>>
      /\ \A u \in FedWorkers : FedStands(u)
  BY DEF ReissueDone, fedTaskVars, FedStands
<1>3. ASSUME NEW u \in FedWorkers, ~(HoldsNotes(u) /\ freq[u].notes = n)
      PROVE  FedHold(u)' <= FedHold(u)
  <2>1. CASE HoldsNotes(u)
    <3>1. freq[u].notes # n /\ freq[u].notes \in Notes
      BY <1>3, <2>1 DEF WaitInv, HolderInv
    <3>2. notes'[freq[u].notes] = notes[freq[u].notes]
      BY <1>1, <3>1 DEF ReissueDone
    <3>3. FedHold(u)' = FedHold(u)
      BY <1>2, <3>2 DEF FedHold, HoldsNotes, FedStands
    <3> QED BY <1>1, <3>3
  <2>2. CASE ~HoldsNotes(u)
    <3>1. FedHold(u)' = 0 /\ FedHold(u) = 0
      BY <1>2, <2>2 DEF FedHold, HoldsNotes, FedStands
    <3> QED BY <3>1
  <2> QED BY <2>1, <2>2
<1>4. \A u \in Workers : Hold(u)' <= Hold(u)
  BY <1>2, StandsHolds, HoldTypes DEF Stands, taskVars, HoldsTyped
<1>5. escrow' >= escrow
  BY <1>1 DEF ReissueDone
<1>6. CASE \E v \in FedWorkers : HoldsNotes(v) /\ freq[v].notes = n
  <2>1. PICK v \in FedWorkers : HoldsNotes(v) /\ freq[v].notes = n
    BY <1>6
  <2>2. \A u \in FedWorkers \ {v} : FedHold(u)' <= FedHold(u)
    BY <1>3, <2>1 DEF WaitInv, OneHolder
  <2>3. FedHold(v) = 0
    BY <1>2, <2>1 DEF FedHold
  <2>4. fpc[v] = "reissue"
    BY <1>2, <2>1 DEF WaitInv, HolderInv, HoldsNotes
  <2>5. freq[v] \in FedRequests /\ freq[v].kind = "fed_mint" /\ fidx[v] = 1
        /\ freq[v].outputs \in Seq(Output)
    BY <2>4, FedServed DEF Typed, TypeInv, FedTaskOK
  <2>6. FedHold(v)' <= escrow' - escrow
    <3>1. CASE notes'[n] = "mint" /\ escrow' = escrow + NotesValue[n]
      <4>1. FedHold(v)' = Worth(freq[v].outputs, 1..Len(freq[v].outputs))
        BY <1>2, <2>1, <2>4, <2>5, <3>1 DEF FedHold, HoldsNotes, FedStands
      <4>2. FedHold(v)' = Value(freq[v].outputs) /\ Value(freq[v].outputs) \in Nat
        BY <2>5, <4>1, Places, OutputsSummable
      <4>3. Value(freq[v].outputs) <= NotesValue[n]
        BY <2>1, <2>5 DEF Typed, FedAssumptions, WithinNotes
      <4> QED BY <1>1, <3>1, <4>2, <4>3
    <3>2. CASE notes'[n] = "failed" /\ escrow' = escrow
      <4>1. FedHold(v)' = 0
        BY <1>2, <2>1, <3>2 DEF FedHold, FedStands
      <4> QED BY <1>1, <3>2, <4>1
    <3> QED BY <1>1, <3>1, <3>2 DEF ReissueDone
  <2>7. escrow' \in Int /\ FedHold(v)' \in Nat
    BY HoldTypesNext DEF Typed, TypeInv, FedTypeOK, StoreTypeOK, HoldsTyped
  <2>8. escrow' - FedHold(v)' >= escrow - FedHold(v)
    BY <1>1, <2>3, <2>6, <2>7
  <2> QED BY <1>2, <2>2, <2>8, FedCovers
<1>7. CASE ~ \E v \in FedWorkers : HoldsNotes(v) /\ freq[v].notes = n
  <2>1. FedHeld' <= FedHeld /\ FedHeld \in Nat /\ FedHeld' \in Nat
    BY <1>3, <1>7, FedHeldKept
  <2>2. Held' <= Held /\ Held \in Nat /\ Held' \in Nat
    BY <1>4, HeldKept
  <2>3. escrow' \in Int
    BY DEF Typed, TypeInv, FedTypeOK, StoreTypeOK
  <2> QED BY <1>1, <1>5, <2>1, <2>2, <2>3 DEF Covered
<1> QED BY <1>6, <1>7

\* A step that moves no value and in which no task comes to hold any.
LEMMA IdleCovered ==
    ASSUME Typed, Typed', Covered, escrow' = escrow,
           \A w \in Workers : Hold(w)' <= Hold(w),
           \A v \in FedWorkers : FedHold(v)' <= FedHold(v)
    PROVE  Covered'
<1>1. Held' <= Held /\ Held \in Nat /\ Held' \in Nat
  BY HeldKept
<1>2. FedHeld' <= FedHeld /\ FedHeld \in Nat /\ FedHeld' \in Nat
  BY FedHeldKept
<1>3. escrow \in Int
  BY DEF Typed, TypeInv, FedTypeOK, StoreTypeOK
<1> QED BY <1>1, <1>2, <1>3 DEF Covered

\* A task that starts, that returns or whose notes have come holds no more
\* than before.
LEMMA SwapQuiet ==
    ASSUME Typed, NEW w \in Workers,
           Return(w) \/ \E r \in Requests : r.kind = "swap" /\ Accept(w, r, "swap_spend") /\ ~Busy(w)
    PROVE  \A u \in Workers : Hold(u)' <= Hold(u)
<1>1. TypeInv /\ TaskTypeOK /\ \A u \in Workers : Hold(u) \in Nat
  BY HoldTypes DEF Typed, TypeInv, FedTypeOK, HoldsTyped
<1>2. SwapMove(w)
  BY DEF SwapMove
<1>3. \A u \in Workers \ {w} : Hold(u)' = Hold(u)
  BY <1>1, <1>2, SwapMoveTyping, StandsHolds
<1>4. Hold(w)' = 0
  <2>1. CASE Return(w)
    BY <1>1, <2>1 DEF Return, TaskTypeOK, Hold
  <2>2. ASSUME NEW r \in Requests, r.kind = "swap", Accept(w, r, "swap_spend"), ~Busy(w)
        PROVE  Hold(w)' = 0
    <3>1. idx[w] = 1
      BY <1>1, <2>2 DEF TypeInv, SwapTaskOK, Busy
    <3>2. pc'[w] = "swap_spend" /\ req'[w] = r /\ idx'[w] = 1
      BY <1>1, <2>2, <3>1 DEF Accept, TaskTypeOK
    <3>3. Hold(w)' = Worth(r.inputs, 1..0)
      BY <3>2 DEF Hold
    <3>4. r.inputs \in Seq(Output)
      BY Served
    <3> QED BY <3>3, <3>4, Places
  <2> QED BY <2>1, <2>2
<1> QED BY <1>1, <1>3, <1>4

\* These steps leave the escrow alone, and no task holds more after them.
LEMMA FedQuiet ==
    ASSUME Typed, WaitInv, [Next]_vars, NEW v \in FedWorkers,
           \/ ReissueSeen(v) \/ FedSignPanic(v) \/ FedMintReply(v)
           \/ PayOut(v) \/ PayOutError(v) \/ FedHandlerDropped(v)
           \/ \E r \in FedRequests : Reissue(v, r) \/ FedMeltVerify(v, r)
    PROVE  /\ UNCHANGED <<taskVars, escrow>>
           /\ \A u \in FedWorkers : FedHold(u)' <= FedHold(u)
<1>1. /\ TypeInv /\ \A u \in FedWorkers : FedHold(u) \in Nat
      /\ fpc \in [FedWorkers -> {"idle", "reissue", "fed_sign", "pay_out"}]
      /\ freq \in [FedWorkers -> FedRequests \cup {NoRequest}]
      /\ notes \in [Notes -> {"client", "reissue", "failed", "mint"}]
  BY HoldTypes DEF Typed, TypeInv, FedTypeOK, HoldsTyped
<1>2. UNCHANGED <<taskVars, escrow>>
  BY DEF ReissueSeen, FedSignPanic, FedMintReply, PayOut, PayOutError, FedHandlerDropped, Reissue,
         FedMeltVerify, storeVars
<1>3. FedMove(v)
  BY DEF ReissueSeen, FedSignPanic, FedMintReply, PayOut, PayOutError, FedHandlerDropped,
         Reissue, FedMeltVerify, FedAccept, FedMove
<1>4. \A u \in FedWorkers \ {v} : FedStands(u)
  BY <1>1, <1>3, FedMoveTyping
<1>5. ASSUME NEW r \in FedRequests, Reissue(v, r)
      PROVE  \A u \in FedWorkers : FedHold(u)' <= FedHold(u)
  <2>1. r.notes \in Notes /\ notes[r.notes] = "client" /\ notes'[r.notes] = "reissue"
        /\ notes' = [notes EXCEPT ![r.notes] = "reissue"]
    BY <1>1, <1>5, FedServed DEF Reissue
  <2>2. FedHold(v)' = 0
    BY <1>1, <1>5, <2>1 DEF Reissue, FedAccept, FedHold
  <2>3. ASSUME NEW u \in FedWorkers \ {v} PROVE FedHold(u)' = FedHold(u)
    <3>1. CASE HoldsNotes(u)
      <4>1. freq[u].notes # r.notes /\ freq[u].notes \in Notes
        BY <2>1, <3>1 DEF WaitInv, HolderInv
      <4>2. notes'[freq[u].notes] = notes[freq[u].notes]
        BY <1>1, <2>1, <4>1
      <4> QED BY <1>4, <4>2 DEF FedStands, FedHold, HoldsNotes
    <3>2. CASE ~HoldsNotes(u)
      BY <1>4, <3>2 DEF FedStands, FedHold, HoldsNotes
    <3> QED BY <3>1, <3>2
  <2> QED BY <1>1, <2>2, <2>3
<1>6. ASSUME notes' = notes, FedHold(v)' = FedHold(v) \/ FedHold(v)' = 0
      PROVE  \A u \in FedWorkers : FedHold(u)' <= FedHold(u)
  BY <1>1, <1>4, <1>6, FedStandsHolds
<1>7. ASSUME FedReturn(v) PROVE FedHold(v)' = 0
  BY <1>1, <1>7 DEF FedReturn, FedHold, HoldsNotes
<1>8. ASSUME NEW r \in FedRequests, FedMeltVerify(v, r)
      PROVE  notes' = notes /\ FedHold(v)' = 0
  BY <1>1, <1>8 DEF FedMeltVerify, FedAccept, FedHold, HoldsNotes, fedVars
<1>9. ASSUME ReissueSeen(v)
      PROVE  notes' = notes /\ (FedHold(v)' = FedHold(v) \/ FedHold(v)' = 0)
  <2>1. CASE FedReturn(v)
    BY <1>7, <1>9, <2>1 DEF ReissueSeen, fedVars
  <2>2. CASE ~FedReturn(v)
    <3>1. fpc[v] = "reissue" /\ fpc'[v] = "fed_sign" /\ UNCHANGED <<freq, fidx, notes>>
      BY <1>1, <1>9, <2>2 DEF ReissueSeen, fedVars
    <3> QED BY <3>1 DEF FedHold, HoldsNotes
  <2> QED BY <2>1, <2>2
<1>10. ASSUME \/ FedSignPanic(v) \/ FedMintReply(v)
              \/ PayOut(v) \/ PayOutError(v) \/ FedHandlerDropped(v)
       PROVE  notes' = notes /\ FedReturn(v)
  BY <1>10 DEF FedSignPanic, FedMintReply, PayOut, PayOutError, FedHandlerDropped, fedVars
<1> QED BY <1>2, <1>5, <1>6, <1>7, <1>8, <1>9, <1>10

\* Every step keeps the escrow above what is held.
LEMMA StepCovered ==
    ASSUME Typed, Typed', KnowsInv, WaitInv, Covered, [Next]_vars
    PROVE  Covered'
<1>0. TypeInv /\ escrow \in Int /\ HoldsTyped
  BY HoldTypes DEF Typed, TypeInv, FedTypeOK, StoreTypeOK
<1>f. ASSUME UNCHANGED <<fedTaskVars, notes>>
      PROVE  \A v \in FedWorkers : FedHold(v)' <= FedHold(v)
  BY <1>0, <1>f, FedStandsHolds DEF HoldsTyped, FedStands, fedTaskVars
<1>s. ASSUME UNCHANGED taskVars
      PROVE  \A w \in Workers : Hold(w)' <= Hold(w)
  BY <1>0, <1>s, StandsHolds DEF HoldsTyped, Stands, taskVars
<1>1. ASSUME NEW w \in Workers, SwapStep(w) PROVE Covered'
  <2>1. UNCHANGED <<fedTaskVars, notes>>
    BY <1>1 DEF SwapStep, fedVars
  <2>2. CASE SwapSpend(w)
    BY <2>1, <2>2, SpendCovered
  <2>3. CASE SwapSign(w) /\ AddBlindedSignature(req[w].outputs[idx[w]]) /\ Advance(w)
    BY <2>1, <2>3, SwapSignCovered
  <2>4. CASE Return(w) /\ UNCHANGED storeVars
    <3>1. escrow' = escrow
      BY <2>4 DEF storeVars
    <3> QED BY <1>f, <2>1, <2>4, <3>1, SwapQuiet, IdleCovered
  <2> QED BY <1>0, <1>1, <2>2, <2>3, <2>4, SwapHandlers DEF SwapSign, SwapReply, SignOutput
<1>2. ASSUME NEW w \in Workers, NEW r \in Requests, Swap(w, r) PROVE Covered'
  <2>1. UNCHANGED <<fedTaskVars, notes>> /\ escrow' = escrow
    BY <1>2 DEF Swap, SwapVerify, fedVars, storeVars
  <2>2. r.kind = "swap" /\ Accept(w, r, "swap_spend") /\ ~Busy(w)
    BY <1>2 DEF Swap, SwapVerify
  <2> QED BY <1>f, <2>1, <2>2, SwapQuiet, IdleCovered
<1>3. ASSUME NEW n \in Notes, ReissueDone(n) PROVE Covered'
  BY <1>3, NotesCovered
<1>4. ASSUME NEW v \in FedWorkers, FedSign(v) PROVE Covered'
  BY <1>4, FedSignCovered
<1>5. ASSUME NEW v \in FedWorkers,
             \/ ReissueSeen(v) \/ FedSignPanic(v) \/ FedMintReply(v)
             \/ PayOut(v) \/ PayOutError(v) \/ FedHandlerDropped(v)
             \/ \E r \in FedRequests : Reissue(v, r) \/ FedMeltVerify(v, r)
      PROVE  Covered'
  BY <1>s, <1>5, FedQuiet, IdleCovered
<1>6. CASE UNCHANGED vars
  <2>1. UNCHANGED <<fedTaskVars, notes, taskVars, escrow>>
    BY <1>6 DEF vars, fedVars, storeVars
  <2> QED BY <1>f, <1>s, <2>1, IdleCovered
<1> QED BY <1>1, <1>2, <1>3, <1>4, <1>5, <1>6 DEF Next

\* What a swap knows when it starts stays true while nobody else has its coins.
LEMMA StepKnows ==
    ASSUME Typed, Typed', KnowsInv, [ExclusiveNext]_vars
    PROVE  KnowsInv'
<1>0. /\ TypeInv /\ TypeInv' /\ TaskTypeOK /\ spends \in [Coins -> Nat]
      /\ [Next]_vars
  BY DEF Typed, TypeInv, FedTypeOK, StoreTypeOK, ExclusiveNext
<1>a. InFlightApart'
  <2>1. CASE UNCHANGED vars
    BY <2>1 DEF KnowsInv, InFlightApart, vars, taskVars
  <2>2. CASE SwapsApart
    BY <2>2 DEF SwapsApart, InFlightApart
  <2> QED BY <2>1, <2>2 DEF ExclusiveNext
<1>b. ASSUME NEW w \in Workers, Stands(w), spends' = spends PROVE SwapKnows(w)'
  BY <1>b DEF KnowsInv, SwapKnows, Stands, Spent
<1>c. ASSUME NEW w \in Workers, pc'[w] = "swap_sign", pc[w] # "idle", req'[w] = req[w]
      PROVE  SwapKnows(w)'
  BY <1>c DEF KnowsInv, SwapKnows
<1>d. ASSUME NEW w \in Workers, pc'[w] = "idle" PROVE SwapKnows(w)'
  BY <1>d DEF SwapKnows
<1>1. ASSUME NEW w \in Workers, SwapSpend(w) PROVE \A u \in Workers : SwapKnows(u)'
  <2> DEFINE c == Input(w).coin
  <2>1. /\ pc[w] = "swap_spend" /\ req[w] \in Requests /\ idx[w] \in DOMAIN req[w].inputs
        /\ c = req[w].inputs[idx[w]].coin /\ c \in CoinsIn(req[w].inputs) /\ c \in Coins
        /\ spends' = [spends EXCEPT ![c] = @ + 1]
    <3>1. pc[w] = "swap_spend" /\ req[w] \in Requests /\ idx[w] \in DOMAIN req[w].inputs
      BY <1>0, <1>1 DEF SwapSpend, TypeInv, SwapTaskOK
    <3>2. req[w].inputs[idx[w]] \in Output
      BY <3>1, RequestTyping
    <3>3. c \in CoinsIn(req[w].inputs)
      BY <3>1 DEF CoinsIn, Range, Input
    <3> QED BY <1>1, <3>1, <3>2, <3>3 DEF SwapSpend, AddSpentProof, Input, Output
  <2> HIDE DEF c
  <2>2. \A d \in Coins : d # c => (Spent(d)' <=> Spent(d))
    BY <1>0, <2>1 DEF Spent
  <2>3. SwapMove(w)
    BY <1>1 DEF SwapSpend, SwapMove
  <2>4. ASSUME NEW u \in Workers \ {w} PROVE SwapKnows(u)'
    <3>1. Stands(u)
      BY <1>0, <2>3, SwapMoveTyping
    <3>2. SwapKnows(u)
      BY DEF KnowsInv
    <3>3. ASSUME pc[u] = "swap_spend", NEW i \in idx[u]..Len(req[u].inputs)
          PROVE  ~Spent(req[u].inputs[i].coin)'
      <4>1. req[u] \in Requests /\ idx[u] \in Nat \ {0}
        BY <1>0, <3>3 DEF TypeInv, SwapTaskOK, TaskTypeOK
      <4>2. i \in DOMAIN req[u].inputs /\ req[u].inputs[i].coin \in Coins
        <5>1. i \in DOMAIN req[u].inputs
          BY <4>1, RequestTyping
        <5> QED BY <4>1, <5>1, RequestTyping DEF Output
      <4>3. req[u].inputs[i].coin \in CoinsIn(req[u].inputs)
        BY <4>2 DEF CoinsIn, Range
      <4>4. req[u].inputs[i].coin # c
        BY <2>1, <3>3, <4>3 DEF KnowsInv, InFlightApart
      <4>5. ~Spent(req[u].inputs[i].coin)
        BY <3>2, <3>3 DEF SwapKnows
      <4>6. PICK d \in Coins : d = req[u].inputs[i].coin
        BY <4>2
      <4>7. spends'[d] = 0 /\ req'[u] = req[u]
        BY <1>0, <2>1, <3>1, <4>4, <4>5, <4>6 DEF Spent, Stands
      <4> QED BY <4>6, <4>7 DEF Spent
    <3> QED BY <3>1, <3>2, <3>3 DEF SwapKnows, Stands
  <2>5. SwapKnows(w)'
    <3>1. CASE Goto(w, "swap_sign")
      BY <1>0, <1>c, <2>1, <3>1 DEF Goto, TaskTypeOK
    <3>2. CASE Advance(w)
      <4>1. pc'[w] = "swap_spend" /\ req'[w] = req[w] /\ idx'[w] = idx[w] + 1
        BY <1>0, <2>1, <3>2 DEF Advance, TaskTypeOK
      <4>2. SwapKnows(w) /\ req[w].inputs \in Seq(Output)
        BY <2>1, Served DEF KnowsInv
      <4>3. ASSUME NEW i \in (idx[w] + 1)..Len(req[w].inputs)
            PROVE  ~Spent(req[w].inputs[i].coin)'
        <5>1. /\ i \in idx[w]..Len(req[w].inputs) /\ i # idx[w]
              /\ i \in DOMAIN req[w].inputs /\ idx[w] \in DOMAIN req[w].inputs
          BY <2>1, <4>2
        <5>2. req[w].inputs[i].coin # c
          BY <2>1, <4>2, <5>1, NoDuplicatesInjective DEF SwapKnows
        <5>3. ~Spent(req[w].inputs[i].coin)
          BY <2>1, <4>2, <5>1 DEF SwapKnows
        <5>4. req[w].inputs[i].coin \in Coins
          BY <2>1, <5>1, RequestTyping DEF Output
        <5>5. PICK d \in Coins : d = req[w].inputs[i].coin
          BY <5>4
        <5>6. spends'[d] = 0
          BY <1>0, <2>1, <5>2, <5>3, <5>5 DEF Spent
        <5> QED BY <4>1, <5>5, <5>6 DEF Spent
      <4> QED BY <2>1, <4>1, <4>2, <4>3 DEF SwapKnows
    <3> QED BY <1>1, <3>1, <3>2 DEF SwapSpend
  <2> QED BY <2>4, <2>5
<1>2. ASSUME NEW w \in Workers, SwapStep(w), ~SwapSpend(w) PROVE \A u \in Workers : SwapKnows(u)'
  <2>1. spends' = spends /\ pc[w] = "swap_sign" /\ (Advance(w) \/ Return(w))
    BY <1>0, <1>2, SwapHandlers DEF SwapSign, SwapReply, SignOutput, AddBlindedSignature, storeVars, proofVars
  <2>2. SwapMove(w)
    BY <2>1 DEF SwapMove
  <2>3. SwapKnows(w)'
    <3>1. CASE Advance(w)
      BY <1>0, <1>c, <2>1, <3>1 DEF Advance
    <3>2. CASE Return(w)
      BY <1>0, <1>d, <3>2 DEF Return, TaskTypeOK
    <3> QED BY <2>1, <3>1, <3>2
  <2> QED BY <1>0, <1>b, <2>1, <2>2, <2>3, SwapMoveTyping
<1>3. ASSUME NEW w \in Workers, NEW r \in Requests, Swap(w, r) PROVE \A u \in Workers : SwapKnows(u)'
  <2>1. /\ spends' = spends /\ Accept(w, r, "swap_spend") /\ ~Busy(w) /\ r.kind = "swap"
        /\ NoDuplicates(r.inputs) /\ ProofsValid(r.inputs) /\ Total(r.inputs) = Total(r.outputs)
    BY <1>3 DEF Swap, SwapVerify, storeVars
  <2>2. SwapMove(w)
    BY <2>1 DEF SwapMove
  <2>3. Value(r.inputs) = Value(r.outputs)
    <3>1. Value(r.inputs) < Word /\ Value(r.outputs) < Word
      BY DEF Typed, FedAssumptions, WithinNotes
    <3> QED BY <2>1, <3>1, Served, TotalIsValue
  <2>4. ASSUME NEW i \in 1..Len(r.inputs) PROVE ~Spent(r.inputs[i].coin)
    <3>1. i \in DOMAIN r.inputs
      BY RequestTyping
    <3> QED BY <2>1, <3>1 DEF ProofsValid, VerifyProof, Range
  <2>5. pc'[w] = "swap_spend" /\ req'[w] = r /\ idx'[w] = 1
    BY <1>0, <2>1 DEF Accept, TaskTypeOK, TypeInv, SwapTaskOK, Busy
  <2>6. SwapKnows(w)'
    BY <2>1, <2>3, <2>4, <2>5 DEF SwapKnows, Spent
  <2> QED BY <1>0, <1>b, <2>1, <2>2, <2>6, SwapMoveTyping
<1>4. ASSUME UNCHANGED <<taskVars, spends>> PROVE \A u \in Workers : SwapKnows(u)'
  BY <1>b, <1>4 DEF Stands, taskVars
<1>5. ASSUME NEW n \in Notes, ReissueDone(n) PROVE UNCHANGED <<taskVars, spends>>
  BY <1>5 DEF ReissueDone, proofVars
<1>6. ASSUME NEW v \in FedWorkers,
             \/ ReissueSeen(v) \/ FedSign(v) \/ FedSignPanic(v) \/ FedMintReply(v)
             \/ PayOut(v) \/ PayOutError(v) \/ FedHandlerDropped(v)
             \/ \E r \in FedRequests : Reissue(v, r) \/ FedMeltVerify(v, r)
      PROVE  UNCHANGED <<taskVars, spends>>
  BY <1>6 DEF ReissueSeen, FedSign, FedSignPanic, FedMintReply, PayOut, PayOutError,
     FedHandlerDropped, Reissue, FedMeltVerify, AddBlindedSignature, storeVars, proofVars
<1>7. ASSUME UNCHANGED vars PROVE \A u \in Workers : SwapKnows(u)'
  BY <1>4, <1>7 DEF vars, storeVars
<1>8. \A u \in Workers : SwapKnows(u)'
  <2>1. CASE \E w \in Workers : SwapStep(w)
    <3>1. PICK w \in Workers : SwapStep(w)
      BY <2>1
    <3>2. CASE SwapSpend(w)
      BY <1>1, <3>2, Zenon
    <3>3. CASE ~SwapSpend(w)
      BY <1>2, <3>1, <3>3, Zenon
    <3> QED BY <3>2, <3>3
  <2>2. CASE \E w \in Workers, r \in Requests : Swap(w, r)
    BY <1>3, <2>2, Zenon
  <2>3. CASE \E n \in Notes : ReissueDone(n)
    <3>1. UNCHANGED <<taskVars, spends>>
      BY <1>5, <2>3, Zenon
    <3> QED BY <1>4, <3>1, Zenon
  <2>4. CASE \E v \in FedWorkers :
             \/ ReissueSeen(v) \/ FedSign(v) \/ FedSignPanic(v) \/ FedMintReply(v)
             \/ PayOut(v) \/ PayOutError(v) \/ FedHandlerDropped(v)
             \/ \E r \in FedRequests : Reissue(v, r) \/ FedMeltVerify(v, r)
    <3>1. UNCHANGED <<taskVars, spends>>
      BY <1>6, <2>4, Zenon
    <3> QED BY <1>4, <3>1, Zenon
  <2>5. CASE UNCHANGED vars
    BY <1>7, <2>5, Zenon
  <2> QED BY <1>0, <2>1, <2>2, <2>3, <2>4, <2>5 DEF Next
<1> QED BY <1>a, <1>8, Zenon DEF KnowsInv

\* At the start nothing is held.
LEMMA InitCovered == FedAssumptions /\ Init => KnowsInv /\ Covered
<1> SUFFICES ASSUME FedAssumptions, Init PROVE KnowsInv /\ Covered
  OBVIOUS
<1>1. KnowsInv
  BY DEF Init, TaskInit, KnowsInv, InFlightApart, SwapKnows
<1>2. \A w \in Workers : Hold(w) = 0
  BY DEF Init, TaskInit, Hold
<1>3. \A v \in FedWorkers : FedHold(v) = 0
  BY DEF Init, FedHold, HoldsNotes
<1>4. Held = 0
  <2> DEFINE f == [w \in Workers |-> Hold(w)]
  <2>1. Summable(f, Workers) /\ \A w \in Workers : f[w] = 0
    BY <1>2 DEF FedAssumptions, Summable
  <2> HIDE DEF f
  <2>2. Sum(f, Workers) = 0
    BY <2>1, SumZero
  <2> QED BY <2>2 DEF Held, f
<1>5. FedHeld = 0
  <2> DEFINE f == [v \in FedWorkers |-> FedHold(v)]
  <2>1. Summable(f, FedWorkers) /\ \A v \in FedWorkers : f[v] = 0
    BY <1>3 DEF FedAssumptions, Summable
  <2> HIDE DEF f
  <2>2. Sum(f, FedWorkers) = 0
    BY <2>1, SumZero
  <2> QED BY <2>2 DEF FedHeld, f
<1> QED BY <1>1, <1>4, <1>5 DEF Covered, Init, StoreInit

\* Every signature is paid for, in notes the mint has or in coins it took,
\* for any number of requests, swaps and bundles, whatever outputs they
\* share and wherever a client drops its connection: a signature that is
\* given twice costs nothing twice, and notes back the one request that
\* waits for them.
THEOREM NeverOverSigned ==
    ASSUME FedAssumptions
    PROVE  ExclusiveSpec => []SignedWithinNotes
<1>1. Init => TypeInv /\ WaitInv /\ KnowsInv /\ Covered
  BY InitTypes, InitWait, InitCovered
<1>2. TypeInv /\ WaitInv /\ KnowsInv /\ Covered /\ [ExclusiveNext]_vars =>
          TypeInv' /\ WaitInv' /\ KnowsInv' /\ Covered'
  <2> SUFFICES ASSUME TypeInv, WaitInv, KnowsInv, Covered, [ExclusiveNext]_vars
               PROVE  TypeInv' /\ WaitInv' /\ KnowsInv' /\ Covered'
    OBVIOUS
  <2>1. [Next]_vars
    BY DEF ExclusiveNext
  <2>2. TypeInv' /\ WaitInv'
    BY <2>1, StepTypes, StepWait
  <2>3. Typed /\ Typed'
    BY <2>2 DEF Typed, FedAssumptions
  <2> QED BY <2>1, <2>2, <2>3, StepKnows, StepCovered
<1>3. TypeInv /\ Covered => SignedWithinNotes
  <2> SUFFICES ASSUME TypeInv, Covered PROVE SignedWithinNotes
    OBVIOUS
  <2>1. Held \in Nat /\ FedHeld \in Nat
    <3> DEFINE f == [w \in Workers |-> Hold(w)]
               g == [v \in FedWorkers |-> FedHold(v)]
    <3>1. Summable(f, Workers) /\ Summable(g, FedWorkers)
      BY HoldTypes DEF Typed, HoldsTyped, FedAssumptions, Summable
    <3> HIDE DEF f, g
    <3>2. Sum(f, Workers) \in Nat /\ Sum(g, FedWorkers) \in Nat
      BY <3>1, SumType
    <3> QED BY <3>2 DEF Held, FedHeld, f, g
  <2>2. escrow \in Int
    BY DEF TypeInv, FedTypeOK, StoreTypeOK
  <2> QED BY <2>1, <2>2 DEF Covered, SignedWithinNotes
<1> QED BY <1>1, <1>2, <1>3, PTL DEF ExclusiveSpec
=============================================================================
