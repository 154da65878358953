---------------------------- MODULE MCTableStore ----------------------------
(***************************************************************************)
(* Instances of TableStore for TLC: which statements the sessions run.     *)
(***************************************************************************)
EXTENDS TableStore

CONSTANTS k1, v1, v2

Where(kind, col, value) == [kind |-> kind, col |-> col, value |-> value]
NoWhere == Where("none", "key", k1)
Op(kind, where) == [kind |-> kind, where |-> where]
Change(where, set) == [kind |-> "update", where |-> where, set |-> set]

\* A column is given a value, or the other value, by a function that fails for
\* the rows of one key.
Given(v) == [row \in Contents |-> v]
Other(v) == IF v = v1 THEN v2 ELSE v1
Flipped  == [row \in Contents |-> IF row.key = k1 THEN row.val ELSE Other(row.val)]

\* Every UPDATE and DELETE has a WHERE clause; a SELECT may have none.
WhereOperations ==
    {Op("select", NoWhere), Op("select", Where("eq", "val", v1)),
     Op("delete", Where("eq", "key", k1)), Op("delete", Where("neq", "key", k1)),
     Op("delete", Where("compound", "key", k1)),
     Change(Where("eq", "val", v1), Given(v2)), Change(Where("compound", "key", k1), Flipped)}

\* A DELETE of all the rows, without a WHERE clause.
DeleteAll == {Op("delete", NoWhere), Op("select", Where("other", "key", k1))}
=============================================================================
