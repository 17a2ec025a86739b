------------------------------ MODULE Payment -------------------------------
(***************************************************************************)
(* A payment in coins with spending conditions: a receiver says what it    *)
(* wants, a sender makes coins under conditions of its own choosing, the   *)
(* receiver verifies the token without the mint, time passes, and the      *)
(* receiver redeems the token or the sender signs to take a coin back.     *)
(* The mint here only decides whether it honours a swap; how it books one  *)
(* is the subject of Mint.                                                 *)
(***************************************************************************)
EXTENDS SpendingConditions, Amounts

CONSTANTS
    Payments,       \* What a sender may pay: condition, amount and split target.
    Wants,          \* The conditions a receiver may ask for.
    Keyrings,       \* The signing keys a receiver may hold.
    SenderKeys,     \* The keys the sender signs with.
    Preimages,      \* The preimages the receiver was given.
    ReceiveTarget,  \* The split target of receive.
    MaxSends,       \* Bound: payments in a token.
    MaxTime         \* Bound: the last second.

IsList(list) == list \in Seq(ToSet(list))

\* The sender signs with no key the receiver asks for, and a receiver that
\* names a number of signatures asks for one at least.  Amounts have Bits bits.
ASSUME PaymentAssumption ==
    /\ None # TRUE /\ None # "sender" /\ None # "P2PK" /\ None # "HTLC"
    /\ IsList(SenderKeys)
    /\ MaxTime \in Nat
    /\ MaxSends \in Nat
    /\ ReceiveTarget \in SplitTargets
    /\ \A p \in Payments : p.amount \in 0..(Part(Bits) - 1) /\ p.target \in SplitTargets
    /\ \A p \in Payments : p.condition # None =>
           LET conditions == p.condition.conditions
               keys == ToSet(ConditionKeys(p.condition))
           IN  /\ p.condition.kind \in {"P2PK", "HTLC"}
               /\ None \notin Seq(keys)
               /\ None \notin [kind : {"P2PK"}, preimage : {None}, signatures : Seq(keys)]
               /\ conditions.locktime # None => conditions.locktime \in Int
               /\ conditions.num_sigs # None => conditions.num_sigs \in Nat
               /\ conditions.pubkeys # None => IsList(conditions.pubkeys)
               /\ conditions.refund_keys # None => IsList(conditions.refund_keys)
    /\ \A w \in Wants :
           /\ w.conditions.locktime # None => w.conditions.locktime \in Int
           /\ w.conditions.num_sigs # None => w.conditions.num_sigs \in Nat \ {0}
           /\ ToSet(SenderKeys) \cap ToSet(ConditionKeys(w)) = {}

VARIABLES
    now,        \* unix_time().
    wanted,     \* The receiver's conditions.
    held,       \* The wallet's p2pk_signing_keys.
    token,      \* The payments of the token, each with what the sender meant
                \* (condition, amount) and what it became (secret, parts).
    verified,   \* What verify_token_p2pk answered, None before it is asked.
    spent,      \* Who had a payment's coins swapped, with which keys and when.
    refused     \* A token with no coin spent was refused.

vars == <<now, wanted, held, token, verified, spent, refused>>

Unspent == [by |-> None, keys |-> {}, at |-> 0]
Secrets(payments) == {p.secret : p \in ToSet(payments)}
AllParts(payments) == FlattenSeq([i \in DOMAIN payments |-> payments[i].parts])

TypeOK ==
    /\ now \in 0..MaxTime
    /\ wanted \in Wants
    /\ held \in Keyrings
    /\ Len(token) <= MaxSends
    /\ verified \in BOOLEAN \cup {None}
    /\ DOMAIN spent = DOMAIN token
    /\ refused \in BOOLEAN

Init ==
    /\ now = 0
    /\ wanted \in Wants
    /\ held \in Keyrings
    /\ token = <<>>
    /\ verified = None
    /\ spent = <<>>
    /\ refused = FALSE

\* The swap is honoured when every input's conditions are met, no input is
\* spent, the outputs come to the inputs, and are signed if an input asks.
Honoured(payments, witnesses, free, outputs, signatures) ==
    /\ SumOf(outputs) = SumOf(AllParts(payments))
    /\ free
    /\ \A i \in DOMAIN payments : Verify(payments[i].secret, witnesses[i], now)
    /\ SigFlag(Secrets(payments)) = "SIG_ALL" =>
            VerifyOutput(signatures, SigKeys(Secrets(payments)))

\* The payments whose conditions can still be created.
Payable == {p \in Payments : p.condition # None => Creatable(p.condition.conditions, now)}

Paid(p) ==
    [condition |-> p.condition,
     secret |-> IF p.condition = None THEN Plain ELSE SecretOf(p.condition),
     amount |-> p.amount,
     parts |-> SplitTargeted(p.amount, p.target)]

\* The sender makes coins under a condition and puts them into the token.
Send(p) ==
    /\ p \in Payable
    /\ Len(token) < MaxSends
    /\ verified = None /\ spent = [i \in DOMAIN token |-> Unspent]
    /\ token' = Append(token, Paid(p))
    /\ spent' = Append(spent, Unspent)
    /\ UNCHANGED <<now, wanted, held, verified, refused>>

VerifyToken ==
    /\ token # <<>>
    /\ verified = None
    /\ verified' = VerifyTokenP2pk(Secrets(token), wanted)
    /\ UNCHANGED <<now, wanted, held, token, spent, refused>>

Receive ==
    LET witnesses == [i \in DOMAIN token |-> ReceiveWitness(token[i].secret, held, Preimages)]
        outputs == SplitTargeted(SumOf(AllParts(token)), ReceiveTarget)
        signing == IF SigFlag(Secrets(token)) = "SIG_ALL" THEN held ELSE {}
        free == \A i \in DOMAIN spent : spent[i] = Unspent
        served == /\ \A s \in Secrets(token) : PreimageProvided(s, Preimages)
                  /\ Honoured(token, witnesses, free, outputs, signing)
    IN  /\ token # <<>>
        /\ spent' = IF served THEN [i \in DOMAIN token |->
                                        [by |-> "receiver", keys |-> held, at |-> now]]
                    ELSE spent
        /\ refused' = (refused \/ (free /\ ~served))
        /\ UNCHANGED <<now, wanted, held, token, verified>>

\* The sender signs the coins of one payment, and the outputs, with its keys.
Takeable ==
    {i \in DOMAIN token :
        Honoured(<<token[i]>>, <<AddSignatures(None, SenderKeys)>>, spent[i] = Unspent,
                 SplitTargeted(SumOf(token[i].parts), ReceiveTarget), ToSet(SenderKeys))}

TakeBack(i) ==
    /\ i \in Takeable
    /\ spent' = [spent EXCEPT ![i] = [by |-> "sender", keys |-> ToSet(SenderKeys), at |-> now]]
    /\ UNCHANGED <<now, wanted, held, token, verified, refused>>

Tick ==
    /\ now < MaxTime
    /\ now' = now + 1
    /\ UNCHANGED <<wanted, held, token, verified, spent, refused>>

Next ==
    \/ \E p \in Payments : Send(p)
    \/ VerifyToken
    \/ Receive
    \/ \E i \in DOMAIN token : TakeBack(i)
    \/ Tick

Spec == Init /\ [][Next]_vars
-----------------------------------------------------------------------------
IsP2pk == \A s \in Secrets(token) : s.kind = "P2PK"
Late(locktime, at) == locktime # None /\ locktime < at

\* A receiver that has verified a token of P2PK coins can rely on it until the
\* locktime it asked for: the sender takes no coin back before
\* (verify_token_p2pk, verify_p2pk).
ClaimedBackOnlyLate ==
    verified = TRUE /\ IsP2pk =>
        \A i \in DOMAIN spent :
            spent[i].by = "sender" => Late(wanted.conditions.locktime, spent[i].at)

\* A token of P2PK coins that a receiver has verified, and holds all the keys
\* it asked for, is never refused while its coins are unspent, however its
\* payments differ in keys, counts and signature flags.
VerifiedIsSpendable ==
    verified = TRUE /\ IsP2pk /\ ToSet(ConditionKeys(wanted)) \subseteq held => ~refused

\* The keys a condition asks for, as a set, and whether keys are enough.
KeysOf(condition) == ToSet(ConditionKeys(condition))
Enough(condition, keys) ==
    Cardinality(KeysOf(condition) \cap keys) >= OrOne(condition.conditions.num_sigs)

\* Where no condition lists a key twice, and the sender has no key twice.
DistinctKeys ==
    /\ IsInjective(SenderKeys)
    /\ \A p \in Payments : p.condition # None => IsInjective(ConditionKeys(p.condition))

\* Where every condition asks for a signature at least, a receiver for no more
\* than it names keys, and what a token may hold is an amount.
CountsFit ==
    /\ \A p \in Payments : p.condition # None => OrOne(p.condition.conditions.num_sigs) >= 1
    /\ \A w \in Wants : Len(ConditionKeys(w)) >= OrOne(w.conditions.num_sigs)
TokensFit ==
    \E largest \in 0..(Part(Bits) - 1) :
        /\ \A p \in Payments : p.amount <= largest
        /\ MaxSends * largest < Part(Bits)

\* Set against what the sender meant and counting different keys, not
\* signatures: a P2PK coin is only swapped by someone with as many of its keys
\* as it asks for or, past its locktime, with a refund key (verify_p2pk, and
\* the way of the conditions through the secret's tags).
AuthorisedOnly ==
    \A i \in DOMAIN spent :
        LET condition == token[i].condition
            conditions == condition.conditions
        IN  spent[i] # Unspent /\ token[i].secret.kind = "P2PK" =>
                \/ Enough(condition, spent[i].keys)
                \/ /\ Late(conditions.locktime, spent[i].at)
                   /\ ToSet(OrEmpty(conditions.refund_keys)) \cap spent[i].keys # {}

Entitled(payment) ==
    CASE payment.secret.kind = "P2PK" -> Enough(payment.condition, held)
      [] payment.secret.kind = "HTLC" -> FALSE
      [] OTHER -> TRUE

\* The other way round: a receiver that holds enough keys of every P2PK coin of
\* a token is served, whatever plain coins and SIG_ALL coins of other keys come
\* in the same swap (receive, enforce_sig_flag, BlindedMessage::verify_p2pk).
OwnersAreServed == refused => \E p \in ToSet(token) : ~Entitled(p)

\* An HTLC is opened by its preimage and enough of its keys (Proof::verify_htlc,
\* SpendingConditions::new_htlc, Wallet::receive): a receiver with both is served.
HtlcOpens ==
    refused =>
        \E p \in ToSet(token) :
            IF p.secret.kind = "HTLC"
            THEN \/ ~PreimageProvided(p.secret, Preimages)
                 \/ p.condition.conditions.pubkeys # None /\ ~Enough(p.condition, held)
            ELSE ~Entitled(p)

\* What is paid adds up, in coins the keyset has keys for, whatever the target
\* of the split (split_targeted): a swap of parts that do not add up, or of an
\* amount without a key, is refused.
PartsAddUp ==
    \A i \in DOMAIN token :
        /\ SumOf(token[i].parts) = token[i].amount
        /\ ToSet(token[i].parts) \subseteq {Part(b) : b \in 0..(Bits - 1)}
=============================================================================
