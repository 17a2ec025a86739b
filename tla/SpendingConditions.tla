------------------------ MODULE SpendingConditions -------------------------
(***************************************************************************)
(* The conditions a coin's secret may carry (NUT-10, 11 and 14): how they  *)
(* are written into the secret and read back, the witness that answers     *)
(* them, and what the mint and the receiving wallet make of both.          *)
(*                                                                         *)
(* A signature is the key that made it: it verifies under that key, on the *)
(* secret or output it was made for, and under no other.  A preimage is    *)
(* hex text; hashing its text and hashing the bytes it encodes give        *)
(* different hashes.                                                       *)
(***************************************************************************)
EXTENDS Integers, Sequences, FiniteSets, SequencesExt

CONSTANT None

OrEmpty(list) == IF list = None THEN <<>> ELSE list
OrOne(count) == IF count = None THEN 1 ELSE count

HexDecoded(preimage) == <<"hash of the bytes", preimage>>
HexText(preimage) == <<"hash of the text", preimage>>

(***************************************************************************)
(* Conditions and the secret they become.                                  *)
(***************************************************************************)
\* A secret without conditions.
Plain == [kind |-> None, data |-> None, tags |-> <<>>]

NewConditions(locktime, pubkeys, refund_keys, num_sigs, sig_flag) ==
    [locktime |-> locktime, pubkeys |-> pubkeys, refund_keys |-> refund_keys,
     num_sigs |-> num_sigs, sig_flag |-> IF sig_flag = None THEN "SIG_INPUTS" ELSE sig_flag]

\* Conditions::new refuses a locktime that has passed.
Creatable(conditions, now) == conditions.locktime = None \/ conditions.locktime >= now

P2pk(key, conditions) == [kind |-> "P2PK", data |-> key, conditions |-> conditions]
Htlc(preimage, conditions) ==
    [kind |-> "HTLC", data |-> HexDecoded(preimage), conditions |-> conditions]

\* The keys of the condition, the data key first.  Every caller takes no list
\* for an empty one.
ConditionKeys(condition) ==
    LET listed == OrEmpty(condition.conditions.pubkeys)
    IN  IF condition.kind = "HTLC" THEN listed ELSE <<condition.data>> \o listed

Tagged(kind, value) == IF value = None THEN <<>> ELSE <<[kind |-> kind, value |-> value]>>

Tags(conditions) ==
    Tagged("pubkeys", conditions.pubkeys) \o Tagged("locktime", conditions.locktime)
        \o Tagged("n_sigs", conditions.num_sigs) \o Tagged("refund", conditions.refund_keys)
        \o Tagged("sigflag", conditions.sig_flag)

SecretOf(condition) ==
    [kind |-> condition.kind, data |-> condition.data, tags |-> Tags(condition.conditions)]

\* The tags are collected into a map: of two of one kind the last counts.
TagValue(tags, kind) ==
    LET tagged == {i \in DOMAIN tags : tags[i].kind = kind}
    IN  IF tagged = {} THEN None
        ELSE tags[CHOOSE i \in tagged : \A j \in tagged : j <= i].value

ReadTags(tags) ==
    NewConditions(TagValue(tags, "locktime"), TagValue(tags, "pubkeys"),
                  TagValue(tags, "refund"), TagValue(tags, "n_sigs"), TagValue(tags, "sigflag"))

ConditionOf(secret) ==
    [kind |-> secret.kind, data |-> secret.data, conditions |-> ReadTags(secret.tags)]

(***************************************************************************)
(* Witnesses.                                                              *)
(***************************************************************************)
SignatureWitness(signatures) == [kind |-> "P2PK", preimage |-> None, signatures |-> signatures]
PreimageWitness(preimage) == [kind |-> "HTLC", preimage |-> preimage, signatures |-> None]

\* A witness that holds a preimage and no list of signatures gets none.
AddSignatures(witness, keys) ==
    IF keys = <<>> THEN witness
    ELSE IF witness = None THEN SignatureWitness(keys)
    ELSE IF witness.signatures = None THEN witness
    ELSE [witness EXCEPT !.signatures = @ \o keys]

\* Every pair of a listed key and a signature of it counts.
ValidSignatures(keys, signatures) ==
    Cardinality({p \in (DOMAIN keys) \X (DOMAIN signatures) : keys[p[1]] = signatures[p[2]]})

(***************************************************************************)
(* What the mint checks.                                                   *)
(***************************************************************************)
\* Mutant: the refund keys work from the start.
VerifyP2pkRefundable(secret, witness, now) ==
    LET conditions == ReadTags(secret.tags)
        listed == OrEmpty(conditions.pubkeys)
                    \o (IF secret.kind = "P2PK" THEN <<secret.data>> ELSE <<>>)
    IN  /\ witness # None
        /\ witness.signatures # None
        /\ \/ ValidSignatures(listed, witness.signatures) >= OrOne(conditions.num_sigs)
           \/ /\ conditions.locktime # None
              /\ ValidSignatures(OrEmpty(conditions.refund_keys), witness.signatures) >= 1

VerifyP2pk(secret, witness, now) ==
    LET conditions == ReadTags(secret.tags)
        listed == OrEmpty(conditions.pubkeys)
                    \o (IF secret.kind = "P2PK" THEN <<secret.data>> ELSE <<>>)
    IN  /\ witness # None
        /\ witness.signatures # None
        /\ \/ ValidSignatures(listed, witness.signatures) >= OrOne(conditions.num_sigs)
           \/ /\ conditions.locktime # None
              /\ conditions.locktime < now
              /\ ValidSignatures(OrEmpty(conditions.refund_keys), witness.signatures) >= 1

VerifyHtlc(secret, witness, now) ==
    LET conditions == ReadTags(secret.tags)
        Refundable == conditions.locktime # None /\ conditions.refund_keys # None /\ witness # None
        Unlocked == conditions.locktime # None /\ conditions.locktime < now
                        /\ conditions.refund_keys = None
        Opened == /\ secret.kind = "HTLC"
                  /\ witness # None
                  /\ witness.kind = "HTLC"
                  /\ secret.data = HexText(witness.preimage)
                  /\ conditions.pubkeys # None =>
                        /\ witness.signatures # None
                        /\ ValidSignatures(conditions.pubkeys, witness.signatures)
                                >= OrOne(conditions.num_sigs)
    IN  \/ Unlocked
        \/ /\ Refundable => witness.signatures # None
           /\ \/ Refundable /\ ValidSignatures(conditions.refund_keys, witness.signatures) >= 1
              \/ Opened

\* A secret without conditions has nothing to verify.
Verify(secret, witness, now) ==
    CASE secret.kind = "P2PK" -> VerifyP2pk(secret, witness, now)
      [] secret.kind = "HTLC" -> VerifyHtlc(secret, witness, now)
      [] OTHER -> TRUE

\* One input that asks for it has all outputs signed by a key of any input.
SigFlag(secrets) ==
    IF \E s \in secrets : s.kind # None /\ ReadTags(s.tags).sig_flag = "SIG_ALL"
    THEN "SIG_ALL" ELSE "SIG_INPUTS"

SigKeys(secrets) ==
    UNION {ToSet(ConditionKeys(ConditionOf(s))) : s \in {t \in secrets : t.kind # None}}

\* No witness on an output counts as no signature.
VerifyOutput(signatures, keys) == signatures \cap keys # {}

(***************************************************************************)
(* What the receiving wallet does.                                         *)
(***************************************************************************)
\* A signature for every listed key that the wallet holds.
Signed(keys, held) ==
    LET signed[i \in 0..Len(keys)] ==
            IF i = 0 THEN <<>>
            ELSE IF keys[i] \in held THEN Append(signed[i - 1], keys[i])
            ELSE signed[i - 1]
    IN  signed[Len(keys)]

\* Mutant: the data key does not sign.
ReceiveWitnessListed(secret, held, preimages) ==
    LET condition == ConditionOf(secret)
        signing == Signed(OrEmpty(condition.conditions.pubkeys), held)
    IN  IF secret.kind = None THEN None
        ELSE IF secret.kind = "P2PK" THEN AddSignatures(None, signing)
        ELSE AddSignatures(
                PreimageWitness(CHOOSE p \in preimages : HexDecoded(p) = secret.data), signing)

\* The keys of the coin that the wallet holds sign, the refund keys do not;
\* an HTLC gets the preimage first.
ReceiveWitness(secret, held, preimages) ==
    LET condition == ConditionOf(secret)
        listed == OrEmpty(condition.conditions.pubkeys)
                    \o (IF secret.kind = "P2PK" THEN <<secret.data>> ELSE <<>>)
        signing == Signed(listed, held)
    IN  IF secret.kind = None THEN None
        ELSE IF secret.kind = "P2PK" THEN AddSignatures(None, signing)
        ELSE AddSignatures(
                PreimageWitness(CHOOSE p \in preimages : HexDecoded(p) = secret.data), signing)

PreimageProvided(secret, preimages) ==
    secret.kind = "HTLC" => \E p \in preimages : HexDecoded(p) = secret.data

\* Mutant: the locktimes are not compared.
RefundAcceptableAnytime(condition, wanted) ==
    condition.conditions.refund_keys # None =>
        /\ condition.conditions.locktime # None
        /\ wanted.conditions.refund_keys # None
        /\ wanted.conditions.locktime # None

\* A coin may only be claimed back by a key the receiver allows, an empty list
\* allowing any, and no sooner than the receiver asked for.
RefundAcceptable(condition, wanted) ==
    LET refund_keys == condition.conditions.refund_keys
    IN  refund_keys # None =>
            /\ condition.conditions.locktime # None
            /\ wanted.conditions.refund_keys # None
            /\ wanted.conditions.locktime # None
            /\ condition.conditions.locktime >= wanted.conditions.locktime
            /\ wanted.conditions.refund_keys # <<>> =>
                    ToSet(refund_keys) \subseteq ToSet(wanted.conditions.refund_keys)

\* Mutant: the number of signatures is not compared.
KeysAcceptableUncounted(condition, wanted) ==
    /\ Len(ConditionKeys(condition)) = Len(ConditionKeys(wanted))
    /\ ToSet(ConditionKeys(condition)) \subseteq ToSet(ConditionKeys(wanted))

KeysAcceptable(condition, wanted) ==
    /\ condition.conditions.num_sigs = wanted.conditions.num_sigs
    /\ Len(ConditionKeys(condition)) = Len(ConditionKeys(wanted))
    /\ ToSet(ConditionKeys(condition)) \subseteq ToSet(ConditionKeys(wanted))

\* verify_token_p2pk: neither the kind of a secret nor its hash is compared,
\* and a secret without conditions is an error.
VerifyTokenP2pk(secrets, wanted) ==
    /\ wanted.conditions.refund_keys # None => wanted.conditions.locktime # None
    /\ \A s \in secrets :
           /\ s.kind # None
           /\ KeysAcceptable(ConditionOf(s), wanted)
           /\ RefundAcceptable(ConditionOf(s), wanted)
=============================================================================
