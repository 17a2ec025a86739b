----------------------------- MODULE MintStore ------------------------------
(***************************************************************************)
(* The mint's database, as the handlers of the mint use it: the trait      *)
(* MintDatabase over the tables that redb, SQLite and the in-memory store  *)
(* keep.  Every method is one transaction (redb takes the database mutex,  *)
(* SQLite runs one statement, the memory store holds one lock), so every   *)
(* operator below is atomic, and between two of them any other task of the *)
(* mint may run: each call is an .await point.                             *)
(*                                                                         *)
(* A coin is one secret.  Before it is signed its wire form is the blinded *)
(* message B_, afterwards the proof (amount, secret, C); blinding maps one *)
(* to the other, so both are the record [coin, amount, keyset] here.  The  *)
(* signature scheme is taken at its word: a proof verifies exactly when    *)
(* the mint has signed that coin, for that amount, with the keys it now    *)
(* holds for the keyset the proof names.                                   *)
(***************************************************************************)
EXTENDS Integers, Sequences, FiniteSets, Functions, SequencesExt

CONSTANTS
    Coins,          \* The secrets in play.
    Locked,         \* Coins whose NUT-10 condition the witness does not meet.
    Keysets,        \* Keyset ids, all of one unit.
    FirstKeyset,    \* The keyset Mint::new creates.
    SeedKeys,       \* The keys derived from the seed without a path.
    KeyAmounts,     \* The amounts a keyset has keys for: 2^0 .. 2^63.
    Word,           \* 2^64: Amount wraps a u64.
    MintQuotes, MeltQuotes,
    Circulating,    \* The outputs signed before the run starts.
    SignatureInsert \* "replace" (redb, memory) or "reject" (SQLite).

Output == [coin : Coins, amount : Nat, keyset : Keysets]

\* A signature is under a key; keys are named by the keyset they were made for.
BlindSignature == [coin : Coins, amount : Nat, keys : Keysets \cup {SeedKeys}]

ASSUME StoreAssumption ==
    /\ Locked \subseteq Coins
    /\ FirstKeyset \in Keysets
    /\ SeedKeys \notin Keysets
    /\ KeyAmounts \subseteq Nat
    /\ Word \in Nat \ {0}
    /\ Circulating \subseteq Output
    /\ SignatureInsert \in {"replace", "reject"}

VARIABLES
    spends,     \* How often each coin was written to the spent table.
    issued,     \* The signatures ever written to the signature table.
    mintQuote,  \* The mint quote table, by quote id.
    meltQuote,  \* The melt quote table, by quote id.
    known,      \* The keysets the keyset table has a row for.
    active,     \* The id the active-keyset table gives for the unit.
    created,    \* In memory: the keysets this process made.
    escrow      \* History: value received and not yet issued or paid out.

storeVars == <<spends, issued, mintQuote, meltQuote, known, active, created, escrow>>
proofVars == <<spends>>
quoteVars == <<mintQuote, meltQuote>>
keysetVars == <<known, active, created>>

\* "none": not created yet.  "removed": the row was deleted; quote ids are
\* UUIDs, so a removed id is never drawn again.
MintQuoteState == {"none", "unpaid", "paid", "removed"}
MeltQuoteState == {"none", "stored", "removed"}

StoreTypeOK ==
    /\ spends \in [Coins -> Nat]
    /\ issued \subseteq BlindSignature
    /\ mintQuote \in [MintQuotes -> MintQuoteState]
    /\ meltQuote \in [MeltQuotes -> MeltQuoteState]
    /\ known \subseteq Keysets
    /\ active \in Keysets
    /\ created \subseteq Keysets
    /\ escrow \in Int

\* create_new_keyset derives a keyset's keys along its own path; a process
\* that finds the keyset in the store generates them from the seed's key,
\* where the path is not applied.
KeysOf(k) == IF k \in created THEN k ELSE SeedKeys

Signature(o) == [coin |-> o.coin, amount |-> o.amount, keys |-> KeysOf(o.keyset)]

\* The first start of a mint: Mint::new created a keyset and activated it,
\* and coins may have been signed since.
StoreInit ==
    /\ spends = [c \in Coins |-> 0]
    /\ known = {FirstKeyset} \cup {o.keyset : o \in Circulating}
    /\ active = FirstKeyset
    /\ created = known
    /\ issued = {Signature(o) : o \in Circulating}
    /\ mintQuote = [q \in MintQuotes |-> "none"]
    /\ meltQuote = [m \in MeltQuotes |-> "none"]
    /\ escrow = 0

-----------------------------------------------------------------------------
(* Reads *)

\* get_spent_proof_by_y.  The pending table, which verify_proof reads next,
\* is empty: no code path of the mint writes it.
Spent(c) == spends[c] > 0

\* get_blinded_signature
SignatureStored(c) == \E o \in issued : o.coin = c

\* get_mint_quote, get_mint_quote_by_request and get_mint_quotes
MintQuoteStored(q) == mintQuote[q] \in {"unpaid", "paid"}

-----------------------------------------------------------------------------
(* Writes *)

\* add_spent_proof is an upsert in every store.  Only the first spend of a
\* coin frees its value.
AddSpentProof(p) ==
    /\ spends' = [spends EXCEPT ![p.coin] = @ + 1]
    /\ escrow' = escrow + IF Spent(p.coin) THEN 0 ELSE p.amount
    /\ UNCHANGED <<issued, quoteVars, keysetVars>>

\* SQLite inserts a plain row, so a second signature for the same blinded
\* message is a primary-key error; redb and the memory store overwrite.
SignatureAccepted(o) == SignatureInsert = "reject" => ~SignatureStored(o.coin)

AddBlindedSignature(o) ==
    /\ SignatureAccepted(o)
    /\ issued' = issued \cup {Signature(o)}
    /\ escrow' = escrow - IF Signature(o) \in issued THEN 0 ELSE o.amount
    /\ UNCHANGED <<proofVars, quoteVars, keysetVars>>

\* add_mint_quote is an upsert: it also brings back a row that was deleted.
\* value is what the payer of the quote hands over with it.
AddMintQuote(q, state, value) ==
    /\ mintQuote' = [mintQuote EXCEPT ![q] = state]
    /\ escrow' = escrow + value
    /\ UNCHANGED <<proofVars, issued, meltQuote, keysetVars>>

RemoveMintQuote(q) ==
    /\ mintQuote' = [mintQuote EXCEPT ![q] = "removed"]
    /\ UNCHANGED <<proofVars, issued, meltQuote, keysetVars, escrow>>

AddMeltQuote(m) ==
    /\ meltQuote' = [meltQuote EXCEPT ![m] = "stored"]
    /\ UNCHANGED <<proofVars, issued, mintQuote, keysetVars, escrow>>

\* The payment of a melt is on the books from here on.
RemoveMeltQuote(m, value) ==
    /\ meltQuote' = [meltQuote EXCEPT ![m] = "removed"]
    /\ escrow' = escrow - value
    /\ UNCHANGED <<proofVars, issued, mintQuote, keysetVars>>

\* rotate_keyset: a row for the new keyset, then its id becomes the active
\* one, then its keys are put in memory.  (With redb and the memory store;
\* SQLite leaves both rows active.)
ActivateKeyset(k) ==
    /\ known' = known \cup {k}
    /\ active' = k
    /\ created' = created \cup {k}
    /\ UNCHANGED <<proofVars, issued, quoteVars, escrow>>
=============================================================================
