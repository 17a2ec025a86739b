---------------------------- MODULE WalletTables ----------------------------
(***************************************************************************)
(* The rows of the wallet's stores.  The key of a proof is Y, the point    *)
(* its secret hashes to, which stands for the secret.                      *)
(***************************************************************************)
EXTENDS Tables

States == {"Unspent", "Pending", "Reserved", "Spent"}

\* The readers of lists answer None for an empty one where the code does.
NoneIfEmpty(rows) == IF rows = {} THEN None ELSE rows

\* The condition in the secret is looked up once, when the row is made.
ProofInfo(proof, mint_url, state, unit, condition) ==
    [proof |-> proof, y |-> proof.secret, mint_url |-> mint_url, state |-> state,
     spending_condition |-> condition, unit |-> unit]

\* None is no restriction.  A row without a condition matches no list of them.
MatchesConditions(info, mint_url, unit, state, spending_conditions) ==
    /\ mint_url # None => info.mint_url = mint_url
    /\ unit # None => info.unit = unit
    /\ state # None => info.state \in state
    /\ spending_conditions # None =>
         /\ info.spending_condition # None
         /\ info.spending_condition \in spending_conditions

Matching(table, mint_url, unit, state, spending_conditions) ==
    NoneIfEmpty({info \in Rows(table) :
        MatchesConditions(info, mint_url, unit, state, spending_conditions)})

YOf(info) == info.y
=============================================================================
