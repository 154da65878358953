------------------------------ MODULE MCAnswer -----------------------------
(***************************************************************************)
(* Result sets of no, one or two columns and rows: every value in a column *)
(* of every kind, and pairs of values that are read, NULL, refused, and    *)
(* not to be encoded.                                                      *)
(***************************************************************************)
EXTENDS Answer

SpellingOfWords ==
    [w \in WithCount \cup {"create t12", "alter 12", "TRUNCATE", "VACUUM", "EMPTY",
                           "error", "client", "server", "UTF8"} |->
        CASE w = "SELECT" -> <<83>> [] w = "INSERT" -> <<73>> [] w = "UPDATE" -> <<85>>
          [] w = "DELETE" -> <<68>> [] w = "error" -> <<>> [] w = "UTF8" -> <<56>>
          [] w = "client" -> <<99, 32>> [] w = "server" -> <<115>>
          [] w = "create t12" -> <<67, 32, 116, 49, 50>> [] w = "alter 12" -> <<65, 32, 49, 50>>
          [] OTHER -> <<67, 32, 82>>]

\* statements that end with the digits of a name, and with a number
TextsOfStatements == {"create t12", "alter 12"}

CellOf(go, v, casts) == [go |-> go, v |-> v, casts |-> casts]

Cells ==
    {CellOf(go, 12, casts) : go \in {"string", "int32", "int", "bool"}, casts \in BOOLEAN}
        \cup {CellOf("nil", 0, FALSE)}

Pairs == {CellOf("string", 12, TRUE), CellOf("int", -3, TRUE), CellOf("nil", 0, FALSE),
          CellOf("bool", 1, FALSE)}

a == <<97>>

ResultsOfOne ==
    {[names |-> <<a>>, types |-> <<t>>, rows |-> rows] :
        t \in {"INT", "DATE", "BLOB", "DECIMAL"}, rows \in {<<>>} \cup {<<<<c>>>> : c \in Cells}}

ResultsOfTwo ==
    {[names |-> <<a, <<>>>>, types |-> <<t, u>>, rows |-> <<<<c, d>>>>] :
        t \in {"INTEGER", "VARBINARY"}, u \in {"VARCHAR", "CHAR"}, c, d \in Pairs}

ResultsOfTwoRows ==
    {[names |-> <<a>>, types |-> <<t>>, rows |-> <<<<c>>, <<d>>>>] :
        t \in {"SMALLINT", "TINYBLOB"}, c, d \in Pairs}

Results == {[names |-> <<>>, types |-> <<>>, rows |-> rows] : rows \in {<<>>, <<<<>>>>}}
             \cup ResultsOfOne \cup ResultsOfTwo \cup ResultsOfTwoRows

\* the text 12 is one that rows of the result sets above have
SelectorsOfTwo == {<<>>, <<a, <<49, 50>>>>}

Symmetry == Permutations(SQLExecutors)
=============================================================================
