----------------------------- MODULE TableStore -----------------------------
(***************************************************************************)
(* One table of the example store (examples/go-postgresqld/server/store):  *)
(* Table.Select, Update and Delete, Store.Insert, and the Go slice that    *)
(* holds the rows.                                                         *)
(*                                                                         *)
(* Each statement runs on the goroutine of its connection (a session).     *)
(* The table's mutex makes each locked section one action, but Update and  *)
(* Delete are two sections: Select picks the rows, then they are changed   *)
(* under the mutex taken a second time.  A SELECT reads the rows it picked *)
(* without the mutex.                                                      *)
(*                                                                         *)
(* Row is a Go map, so a slice holds references: row k is the k-th map     *)
(* made.  A slice is an array, of which its first len cells are in use.    *)
(***************************************************************************)
EXTENDS Naturals, Sequences, SequencesExt

CONSTANTS
    Sessions,    \* the connections
    Keys,        \* values of a column no UPDATE sets
    Vals,        \* values of a column UPDATE sets
    MaxRows,     \* bound on the rows ever inserted
    Operations,  \* the SELECT, UPDATE and DELETE statements of a run
    Distinct     \* clients keep keys unique among the rows of the table

Contents == [key : Keys, val : Vals]

\* A WHERE clause: absent; col = value; col <> value; another comparison; AND,
\* OR and the rest.
Condition == [kind : {"none", "eq", "neq", "other", "compound"},
              col : {"key", "val"}, value : Keys \cup Vals]

\* set is what an UPDATE makes of the column: the value that is given, or what
\* a function makes of the row.  Where the function fails the row keeps its value.
Operation == [kind : {"select", "delete"}, where : Condition]
               \cup [kind : {"update"}, where : Condition, set : [Contents -> Vals]]

ASSUME OperationsAssumption == Operations \subseteq Operation
ASSUME BoundAssumption == MaxRows \in Nat /\ Distinct \in BOOLEAN
ASSUME ValuesAssumption == Keys # {} /\ Vals # {}

Rows == 1 .. MaxRows
Free == 0                  \* a cell no row has been stored in yet

VARIABLES
    fault,     \* why the process died: "none", "panic" or "rowrace"
    arrays,    \* the arrays allocated for tbl.Rows, each a sequence of cells
    len,       \* tbl.Rows is the first len cells of the last array
    inserted,  \* rows made so far
    content,   \* what each row holds
    op,        \* the statement each session runs and has picked rows for
    pick       \* the slice its Select returned: the first cells of one of the
               \* arrays (array > 0), or a list of its own (array = 0)

vars == <<fault, arrays, len, inserted, content, op, pick>>

Alive == fault = "none"

Cells == arrays[Len(arrays)]
Visible == SubSeq(Cells, 1, len)
Picked(s) == IF pick[s].array = 0 THEN pick[s].list
             ELSE SubSeq(arrays[pick[s].array], 1, pick[s].len)

Idle == [kind |-> "idle"]
NoPick == [array |-> 0, len |-> 0, list |-> <<>>]

TypeOK ==
    /\ fault \in {"none", "panic", "rowrace"}
    /\ arrays \in Seq(Seq(Rows \cup {Free}))
    /\ len \in 0 .. Len(Cells)
    /\ ToSet(Visible) \subseteq 1 .. inserted
    /\ inserted \in 0 .. MaxRows
    /\ content \in [Rows -> Contents]
    /\ \A s \in Sessions : /\ op[s] \in Operations \cup {Idle}
                           /\ ToSet(Picked(s)) \subseteq 1 .. inserted

\* NewTableWith: Rows is an empty slice.  What content holds before a row
\* is made plays no part.
Init ==
    /\ fault = "none"
    /\ arrays = << <<>> >>
    /\ len = 0
    /\ inserted = 0
    /\ content = [r \in Rows |-> CHOOSE x \in Contents : TRUE]
    /\ op = [s \in Sessions |-> Idle]
    /\ pick = [s \in Sessions |-> NoPick]

-----------------------------------------------------------------------------
(***************************************************************************)
(* Rows and conditions.                                                    *)
(***************************************************************************)

\* row.IsMatched: only a lone comparison is looked at; AND and OR match all.
IsMatched(row, where) ==
    CASE where.kind = "eq"    -> content[row][where.col] = where.value
      [] where.kind = "neq"   -> content[row][where.col] # where.value
      [] where.kind = "other" -> FALSE
      [] OTHER -> TRUE

\* Variant: rows are compared by one column.
IsEqualByVal(row, other) == content[row].val = content[other].val

\* row.IsEqual compares every column, not the identity of the rows.
IsEqual(row, other) == content[row] = content[other]

-----------------------------------------------------------------------------
(***************************************************************************)
(* Slices.  m is the memory of tbl.Rows: its arrays and its length.        *)
(***************************************************************************)
Grown(cap) == IF cap = 0 THEN 1 ELSE 2 * cap

\* append(tbl.Rows, row): in place while there is room, else in a new array.
AppendRow(m, row) ==
    LET k == Len(m.arrays)
        cells == m.arrays[k]
    IN IF m.len < Len(cells)
       THEN [arrays |-> [m.arrays EXCEPT ![k] = [@ EXCEPT ![m.len + 1] = row]],
             len |-> m.len + 1]
       ELSE [arrays |-> Append(m.arrays,
                            [i \in 1 .. Grown(Len(cells)) |->
                                IF i <= m.len THEN cells[i]
                                ELSE IF i = m.len + 1 THEN row ELSE Free]),
             len |-> m.len + 1]

\* The loop of Store.Insert: n rows, each the next that is made.
Appended(n) ==
    LET made[i \in 0 .. n] == IF i = 0 THEN [arrays |-> arrays, len |-> len]
                              ELSE AppendRow(made[i - 1], inserted + i)
    IN made[n]

\* The loop of Select.
Matching(where) ==
    LET found[i \in 0 .. len] ==
          IF i = 0 THEN <<>>
          ELSE IF IsMatched(Cells[i], where) THEN Append(found[i - 1], Cells[i])
          ELSE found[i - 1]
    IN found[len]

\* Variant: the cell is emptied in place.
WithoutMove(d, i) == [d EXCEPT !.cells[i] = Free]

\* append(tbl.Rows[:i-1], tbl.Rows[i:]...): the cells after i move down by one
\* in the same array; the last one keeps what it held.
Without(d, i) ==
    [cells |-> [j \in DOMAIN d.cells |->
                  IF j \in i .. d.len - 1 THEN d.cells[j + 1] ELSE d.cells[j]],
     len   |-> d.len - 1,
     panic |-> d.panic]

\* A turn of the inner loop of Delete: slicing past the end panics.
Visit(row, d, i) ==
    IF d.panic \/ ~IsEqual(row, d.cells[i]) THEN d
    ELSE IF i > d.len THEN [d EXCEPT !.panic = TRUE]
    ELSE Without(d, i)

\* The inner loop: its range is the slice as the loop started, its cells are
\* read as they are now.
DeleteEqual(d, row) ==
    LET seen[i \in 0 .. d.len] == IF i = 0 THEN d ELSE Visit(row, seen[i - 1], i)
    IN seen[d.len]

\* The outer loop ranges over the slice Select returned.  When that is the
\* table's own array, the loop reads cells that earlier turns have moved.
PickedRow(s, d, i) == IF pick[s].array = Len(arrays) THEN d.cells[i] ELSE Picked(s)[i]
DeletePicked(s) ==
    LET done[i \in 0 .. Len(Picked(s))] ==
          IF i = 0 THEN [cells |-> Cells, len |-> len, panic |-> FALSE]
          ELSE DeleteEqual(done[i - 1], PickedRow(s, done[i - 1], i))
    IN done[Len(Picked(s))]

-----------------------------------------------------------------------------
(***************************************************************************)
(* Statements.                                                             *)
(***************************************************************************)
UniqueKeys(rows) ==
    /\ \A i, j \in DOMAIN rows : rows[i].key = rows[j].key => i = j
    /\ \A i \in DOMAIN rows : \A r \in ToSet(Visible) : content[r].key # rows[i].key

\* Store.Insert: the rows of the statement up to one whose value has the wrong
\* type; those before it stay.
Insert(s, rows) ==
    /\ Alive
    /\ op[s] = Idle
    /\ inserted + Len(rows) <= MaxRows
    /\ Distinct => UniqueKeys(rows)
    /\ arrays' = Appended(Len(rows)).arrays /\ len' = Appended(Len(rows)).len
    /\ inserted' = inserted + Len(rows)
    /\ content' = [r \in Rows |-> IF r \in inserted + 1 .. inserted + Len(rows)
                                  THEN rows[r - inserted] ELSE content[r]]
    /\ UNCHANGED <<fault, op, pick>>

\* Table.Select, called by Store.Select, Table.Update and Table.Delete: without
\* a WHERE clause it returns tbl.Rows itself.
Select(s, o) ==
    /\ Alive
    /\ op[s] = Idle
    /\ op' = [op EXCEPT ![s] = o]
    /\ pick' = [pick EXCEPT ![s] =
                  IF o.where.kind = "none"
                  THEN [array |-> Len(arrays), len |-> len, list |-> <<>>]
                  ELSE [array |-> 0, len |-> 0, list |-> Matching(o.where)]]
    /\ UNCHANGED <<fault, arrays, len, inserted, content>>

Running(s, kind) == Alive /\ op[s].kind = kind

Finish(s) ==
    /\ op' = [op EXCEPT ![s] = Idle]
    /\ pick' = [pick EXCEPT ![s] = NoPick]

\* The result set is built from the picked rows.
ReturnRows(s) ==
    /\ Running(s, "select")
    /\ Finish(s)
    /\ UNCHANGED <<fault, arrays, len, inserted, content>>

\* row.Update; Table.Update drops the error of a function.
Changed(s, row) == [row EXCEPT !.val = op[s].set[row]]

\* Variant: every row of the table is updated.
UpdateAll(s) ==
    /\ Running(s, "update")
    /\ content' = [r \in Rows |-> IF r \in ToSet(Visible)
                                  THEN Changed(s, content[r]) ELSE content[r]]
    /\ Finish(s)
    /\ UNCHANGED <<fault, arrays, len, inserted>>

\* What the loop over the picked rows makes of row r.
Updated(s, r) ==
    LET row[i \in 0 .. Len(Picked(s))] ==
          IF i = 0 THEN content[r]
          ELSE IF Picked(s)[i] = r THEN Changed(s, row[i - 1]) ELSE row[i - 1]
    IN row[Len(Picked(s))]

\* The second section of Table.Update: the picked rows change, whether or not
\* they still match, or are still in the table.
Update(s) ==
    /\ Running(s, "update")
    /\ content' = [r \in Rows |-> Updated(s, r)]
    /\ Finish(s)
    /\ UNCHANGED <<fault, arrays, len, inserted>>

\* The second section of Table.Delete.
Delete(s) ==
    /\ Running(s, "delete")
    /\ arrays' = [arrays EXCEPT ![Len(arrays)] = DeletePicked(s).cells]
    /\ len' = DeletePicked(s).len
    /\ fault' = IF DeletePicked(s).panic THEN "panic" ELSE fault
    /\ Finish(s)
    /\ UNCHANGED <<inserted, content>>

\* A result set is built from a row while an UPDATE writes the same map: the
\* runtime may stop the process.
RowRace(s) ==
    /\ Running(s, "select")
    /\ \E t \in Sessions : /\ Running(t, "update")
                           /\ ToSet(Picked(s)) \cap ToSet(Picked(t)) # {}
    /\ fault' = "rowrace"
    /\ UNCHANGED <<arrays, len, inserted, content, op, pick>>

Statement(s) ==
    \/ \E x \in Contents : Insert(s, <<x>>)
    \/ \E x, y \in Contents : Insert(s, <<x, y>>)
    \/ \E o \in Operations : Select(s, o)
    \/ ReturnRows(s) \/ Update(s) \/ Delete(s) \/ RowRace(s)

Next == \E s \in Sessions : Statement(s)

Spec == Init /\ [][Next]_vars

-----------------------------------------------------------------------------
(***************************************************************************)
(* Properties.                                                             *)
(***************************************************************************)

\* The rows an UPDATE or DELETE has picked and not yet reached.
Chosen == [s \in Sessions |-> IF op[s].kind \in {"update", "delete"}
                              THEN ToSet(Picked(s)) ELSE {}]

Promise == INSTANCE RowList WITH list <- Visible, chosen <- Chosen

\* The slice behaves as the list of rows it stands for, whatever statements
\* of other connections come between the two sections of an UPDATE or DELETE:
\* none loses, doubles, revives or reorders a row.
TableImplementsRowList == Promise!Spec

\* Delete shortens the slice its inner loop ranges over.  With unique rows it
\* never slices past the end, even when a picked row is gone or changed.
DeleteNeverPanics == fault # "panic"

\* store/table.go: "Delete deletes rows matched to the specified condition."
DeleteDeletesMatched ==
    [][\A s \in Sessions : Delete(s) =>
        ToSet(Visible') \cap ToSet(Picked(s)) = {}]_vars
=============================================================================
