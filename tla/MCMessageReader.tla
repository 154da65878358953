-------------------------- MODULE MCMessageReader --------------------------
(***************************************************************************)
(* Instances of MessageReader for TLC: what the decoders read, field by    *)
(* field, with widths scaled down: a length takes two bytes, a name, a     *)
(* number or a flag one, a text or a value two.  Close is decoded like     *)
(* Describe.                                                               *)
(***************************************************************************)
EXTENDS MessageReader

StartupEnds  == <<2, 3, 4>>            \* length, version, parameter
SyncEnds     == <<1, 3>>               \* type, length
QueryEnds    == <<1, 3, 5>>            \* type, length, text
ParseEnds    == <<1, 3, 4, 6, 7>>      \* type, length, name, text, number of types
DescribeEnds == <<1, 3, 4, 5>>         \* type, length, statement or portal, name
ExecuteEnds  == <<1, 3, 4, 5>>         \* type, length, name, limit
BindEnds     == <<1, 3, 4, 5, 7, 8>>   \* type, length, names, counts, value, formats

MCEnds == [startup |-> StartupEnds, sync |-> SyncEnds, query |-> QueryEnds,
           parse |-> ParseEnds, describe |-> DescribeEnds, execute |-> ExecuteEnds,
           bind |-> BindEnds]
MCKinds == DOMAIN MCEnds

\* NewBindWithReader reads the values with Read: of two bytes, one may come.
MCRaw == {<<"bind", 5>>}
=============================================================================
