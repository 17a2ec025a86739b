---------------------------- MODULE MintFedimint ----------------------------
(***************************************************************************)
(* The two handlers a mint has when its node is a Fedimint client: notes   *)
(* of the federation in, ecash out, and the other way round.  They share   *)
(* the store with the handlers of Mint, and a swap is served next to them. *)
(*                                                                         *)
(* The federation is external: notes are reissued once, and a reissue that *)
(* was submitted completes whether or not the server still waits for it.   *)
(***************************************************************************)
EXTENDS Mint

CONSTANTS
    FedWorkers,     \* Tasks that serve the two routes.
    Notes, NoNotes, \* Bundles of notes clients may hand in.
    NotesValue,
    FedRequests,
    FedBalance,     \* What the mint's federation client holds at the start.
    MaxSwaps, MaxFedRequests, MaxFaults     \* Bounds on the run.

FedRequest == [kind : {"fed_mint", "fed_melt"}, notes : Notes \cup {NoNotes},
               inputs : Seq(Output), outputs : Seq(Output)]

ASSUME FedAssumption ==
    /\ NoNotes \notin Notes
    /\ NotesValue \in [Notes -> Nat]
    /\ FedRequests \subseteq FedRequest
    /\ NoRequest \notin FedRequests
    /\ \A r \in FedRequests : r.kind = "fed_mint" => r.notes \in Notes
    /\ {FedBalance, MaxSwaps, MaxFedRequests, MaxFaults} \subseteq Nat

VARIABLES
    fpc, freq, fidx,    \* As pc, req and idx, for the tasks of these routes.
    notes,      \* Who has each bundle: its client, a reissue, or the mint.
    balance,    \* What the mint's federation client can pay out.
    paidOut,    \* How often each coin was paid out in notes.
    swaps, begun, faults    \* Counters for the bounds.

fedTaskVars == <<fpc, freq, fidx>>
fedVars == <<notes, balance, paidOut>>
boundVars == <<swaps, begun, faults>>
vars == <<storeVars, taskVars, fedTaskVars, fedVars, boundVars>>

FedTypeOK ==
    /\ StoreTypeOK /\ TaskTypeOK
    /\ fpc \in [FedWorkers -> {"idle", "reissue", "fed_sign", "pay_out"}]
    /\ freq \in [FedWorkers -> FedRequests \cup {NoRequest}]
    /\ fidx \in [FedWorkers -> Nat \ {0}]
    /\ notes \in [Notes -> {"client", "reissue", "failed", "mint"}]
    /\ balance \in Nat
    /\ paidOut \in [Coins -> Nat]

Init ==
    /\ StoreInit /\ TaskInit
    /\ fpc = [w \in FedWorkers |-> "idle"]
    /\ freq = [w \in FedWorkers |-> NoRequest]
    /\ fidx = [w \in FedWorkers |-> 1]
    /\ notes = [n \in Notes |-> "client"]
    /\ balance = FedBalance
    /\ paidOut = [c \in Coins |-> 0]
    /\ swaps = 0 /\ begun = 0 /\ faults = 0

-----------------------------------------------------------------------------
FedAccept(w, r, step) ==
    /\ fpc[w] = "idle"
    /\ begun < MaxFedRequests
    /\ begun' = begun + 1
    /\ fpc' = [fpc EXCEPT ![w] = step]
    /\ freq' = [freq EXCEPT ![w] = r]
    /\ UNCHANGED <<fidx, swaps, faults>>

FedReturn(w) ==
    /\ fpc' = [fpc EXCEPT ![w] = "idle"]
    /\ freq' = [freq EXCEPT ![w] = NoRequest]
    /\ fidx' = [fidx EXCEPT ![w] = 1]

(* post_mint_fedimint *)

\* reissue_external_notes submits the notes; the federation takes a bundle
\* from one client only.
Reissue(w, r) ==
    /\ r.kind = "fed_mint"
    /\ notes[r.notes] = "client"
    /\ FedAccept(w, r, "reissue")
    /\ notes' = [notes EXCEPT ![r.notes] = "reissue"]
    /\ UNCHANGED <<storeVars, taskVars, balance, paidOut>>

\* The federation answers, in its own time.
ReissueDone(n) ==
    /\ notes[n] = "reissue"
    /\ \/ /\ notes' = [notes EXCEPT ![n] = "mint"]
          /\ balance' = balance + NotesValue[n]
          /\ escrow' = escrow + NotesValue[n]
       \/ /\ notes' = [notes EXCEPT ![n] = "failed"]
          /\ UNCHANGED <<balance, escrow>>
    /\ UNCHANGED <<proofVars, issued, quoteVars, keysetVars, taskVars, fedTaskVars,
                   paidOut, boundVars>>

\* Mutant: a failed reissue ends the wait like a successful one.
ReissueFailureIgnored(w) ==
    /\ fpc[w] = "reissue"
    /\ notes[freq[w].notes] \in {"mint", "failed"}
    /\ fpc' = [fpc EXCEPT ![w] = "fed_sign"]
    /\ UNCHANGED <<storeVars, taskVars, freq, fidx, fedVars, boundVars>>

\* The handler reads the updates of the reissue until they end or fail.
ReissueSeen(w) ==
    /\ fpc[w] = "reissue"
    /\ \/ /\ notes[freq[w].notes] = "mint"
          /\ fpc' = [fpc EXCEPT ![w] = "fed_sign"]
          /\ UNCHANGED <<freq, fidx>>
       \/ notes[freq[w].notes] = "failed" /\ FedReturn(w)
    /\ UNCHANGED <<storeVars, taskVars, fedVars, boundVars>>

\* One output; nobody asks whether it was signed before, nor what the
\* outputs sum to.
FedSign(w) ==
    /\ fpc[w] = "fed_sign"
    /\ fidx[w] \in DOMAIN freq[w].outputs
    /\ LET o == freq[w].outputs[fidx[w]]
       IN  /\ BlindSign(o)
           /\ AddBlindedSignature(o)
    /\ fidx' = [fidx EXCEPT ![w] = @ + 1]
    /\ UNCHANGED <<taskVars, fpc, freq, fedVars, boundVars>>

\* blind_sign or the insert fails: the unwrap panics, the notes are gone.
FedSignPanic(w) ==
    /\ fpc[w] = "fed_sign"
    /\ fidx[w] \in DOMAIN freq[w].outputs
    /\ LET o == freq[w].outputs[fidx[w]]
       IN  ~(BlindSign(o) /\ SignatureAccepted(o))
    /\ FedReturn(w)
    /\ UNCHANGED <<storeVars, taskVars, fedVars, boundVars>>

FedMintReply(w) ==
    /\ fpc[w] = "fed_sign"
    /\ fidx[w] \notin DOMAIN freq[w].outputs
    /\ FedReturn(w)
    /\ UNCHANGED <<storeVars, taskVars, fedVars, boundVars>>

(* post_melt_fedimint *)

\* verify_melt_fedimint_request
FedMeltVerify(w, r) ==
    /\ r.kind = "fed_melt"
    /\ KeysetsKnown(r.inputs)
    /\ NoDuplicates(r.inputs)
    /\ ProofsValid(r.inputs)
    /\ FedAccept(w, r, "pay_out")
    /\ UNCHANGED <<storeVars, taskVars, fedVars>>

\* Mutant: more is paid out than the federation client holds.
PayOutUnfunded(w) ==
    /\ fpc[w] = "pay_out"
    /\ balance' = balance - Total(freq[w].inputs)
    /\ paidOut' = [c \in Coins |-> paidOut[c] + (IF c \in CoinsIn(freq[w].inputs) THEN 1 ELSE 0)]
    /\ FedReturn(w)
    /\ UNCHANGED <<storeVars, taskVars, notes, boundVars>>

\* spend_notes.  The store is not told.
PayOut(w) ==
    /\ fpc[w] = "pay_out"
    /\ balance >= Total(freq[w].inputs)
    /\ balance' = balance - Total(freq[w].inputs)
    /\ paidOut' = [c \in Coins |-> paidOut[c] + (IF c \in CoinsIn(freq[w].inputs) THEN 1 ELSE 0)]
    /\ FedReturn(w)
    /\ UNCHANGED <<storeVars, taskVars, notes, boundVars>>

\* Not enough notes, or the federation is out of reach.
PayOutError(w) ==
    /\ fpc[w] = "pay_out"
    /\ FedReturn(w)
    /\ UNCHANGED <<storeVars, taskVars, fedVars, boundVars>>

-----------------------------------------------------------------------------
\* The client is gone.
FedHandlerDropped(w) ==
    /\ fpc[w] # "idle"
    /\ faults < MaxFaults
    /\ faults' = faults + 1
    /\ FedReturn(w)
    /\ UNCHANGED <<storeVars, taskVars, fedVars, swaps, begun>>

Swap(w, r) ==
    /\ ~Busy(w)
    /\ swaps < MaxSwaps
    /\ swaps' = swaps + 1
    /\ SwapVerify(w, r)
    /\ UNCHANGED <<fedTaskVars, fedVars, begun, faults>>

SwapStep(w) == MintHandlers(w) /\ UNCHANGED <<fedTaskVars, fedVars, boundVars>>

Next ==
    \/ \E w \in Workers : SwapStep(w) \/ \E r \in Requests : Swap(w, r)
    \/ \E n \in Notes : ReissueDone(n)
    \/ \E w \in FedWorkers :
        \/ ReissueSeen(w) \/ FedSign(w) \/ FedSignPanic(w) \/ FedMintReply(w)
        \/ PayOut(w) \/ PayOutError(w) \/ FedHandlerDropped(w)
        \/ \E r \in FedRequests : Reissue(w, r) \/ FedMeltVerify(w, r)

Spec == Init /\ [][Next]_vars

-----------------------------------------------------------------------------
(* Clients that never have two swaps of the same coin in flight.           *)

SwapsApart ==
    \A v, w \in Workers :
        (v # w /\ pc'[v] # "idle" /\ pc'[w] # "idle") =>
            CoinsIn(req'[v].inputs) \cap CoinsIn(req'[w].inputs) = {}

ExclusiveNext == Next /\ SwapsApart

ExclusiveSpec == Init /\ [][ExclusiveNext]_vars

-----------------------------------------------------------------------------
(* Properties *)

\* The sums of a swap stay in 64 bits; a mint request asks for no more than
\* its notes are worth, which the handler does not look at.
WithinNotes ==
    /\ \A r \in Requests : Value(r.inputs) < Word /\ Value(r.outputs) < Word
    /\ \A r \in FedRequests : r.kind = "fed_mint" => Value(r.outputs) <= NotesValue[r.notes]

\* Two requests never sign for one bundle of notes, and none signs before
\* the bundle is the mint's.
NotesBackOneRequest ==
    \A w \in FedWorkers : fpc[w] = "fed_sign" =>
        /\ notes[freq[w].notes] = "mint"
        /\ \A v \in FedWorkers \ {w} :
            fpc[v] = "fed_sign" => freq[v].notes # freq[w].notes

\* Requests that ask for what their notes are worth never make the mint sign
\* more than it took, whatever swaps of the same outputs run next to them.
SignedWithinNotes == escrow >= 0
=============================================================================
