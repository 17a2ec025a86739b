------------------------------- MODULE Tables -------------------------------
(***************************************************************************)
(* What the stores are made of.  A table is a function from its keys to    *)
(* its rows.  A method that writes answers [ok, db]: when ok is FALSE the  *)
(* caller gets an error, and db is what the store holds after it.          *)
(***************************************************************************)
EXTENDS Integers, Sequences, FiniteSets, Functions, SequencesExt

CONSTANT None       \* An absent row, or Option::None.

NoRows == [k \in {} |-> None]
Lookup(table, k) == IF k \in DOMAIN table THEN table[k] ELSE None
Upsert(table, k, row) == [x \in DOMAIN table \cup {k} |-> IF x = k THEN row ELSE table[x]]
Without(table, ks) == Restrict(table, DOMAIN table \ ks)
Rows(table) == {table[k] : k \in DOMAIN table}

\* Insert the rows of a sequence in order, each under its key: of two rows with
\* one key the later one is left.
UpsertAll(table, rows, KeyOf(_)) ==
    LET At(k) == {i \in DOMAIN rows : KeyOf(rows[i]) = k}
        LastAt(k) == CHOOSE i \in At(k) : \A j \in At(k) : j <= i
    IN  [k \in DOMAIN table \cup {KeyOf(rows[i]) : i \in DOMAIN rows} |->
            IF At(k) = {} THEN table[k] ELSE rows[LastAt(k)]]

IdOf(row) == row.id

Ok(db) == [ok |-> TRUE, db |-> db]
Error(db) == [ok |-> FALSE, db |-> db]
=============================================================================
