------------------------------ MODULE RowList ------------------------------
(***************************************************************************)
(* What a table of the example store promises: a list of rows in insertion *)
(* order.  UPDATE and DELETE work in two steps: they choose rows, then     *)
(* change or remove them.  An update changes every chosen row once, all in *)
(* the same way, and no other; a delete removes the rows that equal a      *)
(* chosen one, and keeps the order of the others.  How the list is kept in *)
(* memory is not said here: TableStore implements it with Go slices.       *)
(***************************************************************************)
EXTENDS Naturals, Sequences, SequencesExt

CONSTANTS
    Sessions,   \* the connections that run statements
    MaxRows,    \* bound on the rows ever inserted
    Keys,       \* values of a column no UPDATE sets
    Vals        \* values of a column UPDATE sets

VARIABLES
    list,       \* the rows of the table, oldest first
    inserted,   \* rows inserted so far: row k is the k-th
    content,    \* what each row holds
    chosen      \* the rows the UPDATE or DELETE of a session has chosen

vars == <<list, inserted, content, chosen>>

Contents == [key : Keys, val : Vals]

Init ==
    /\ list = <<>>
    /\ inserted = 0
    /\ content \in [1 .. MaxRows -> Contents]
    /\ chosen = [s \in Sessions |-> {}]

\* New rows go to the end, in the order of the statement.
Insert ==
    /\ inserted' \in inserted .. MaxRows
    /\ list' = list \o [i \in 1 .. inserted' - inserted |-> inserted + i]
    /\ \A r \in 1 .. MaxRows : r \notin inserted + 1 .. inserted' => content'[r] = content[r]
    /\ UNCHANGED chosen

Choose(s) ==
    /\ chosen[s] = {}
    /\ \E rows \in SUBSET ToSet(list) : chosen' = [chosen EXCEPT ![s] = rows]
    /\ UNCHANGED <<list, inserted, content>>

Update(s) ==
    /\ \E set \in [Contents -> Vals] :
         content' = [r \in 1 .. MaxRows |->
                        IF r \in chosen[s] THEN [content[r] EXCEPT !.val = set[content[r]]]
                        ELSE content[r]]
    /\ chosen' = [chosen EXCEPT ![s] = {}]
    /\ UNCHANGED <<list, inserted>>

\* A row that equals none of the chosen ones.
Stays(s, r) == \A c \in chosen[s] : content[c] # content[r]

\* No row of the list moves past another.
InOrder ==
    \A i, j \in DOMAIN list' : i < j =>
        \E m, n \in DOMAIN list : m < n /\ list[m] = list'[i] /\ list[n] = list'[j]

Delete(s) ==
    /\ ToSet(list') = {r \in ToSet(list) : Stays(s, r)} /\ InOrder
    /\ chosen' = [chosen EXCEPT ![s] = {}]
    /\ UNCHANGED <<inserted, content>>

Next == Insert \/ \E s \in Sessions : Choose(s) \/ Update(s) \/ Delete(s)

Spec == Init /\ [][Next]_vars
=============================================================================
