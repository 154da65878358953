------------------------------ MODULE Messages -----------------------------
(***************************************************************************)
(* The messages the server writes, byte by byte: the encoders of           *)
(* postgresql/protocol (writer.go, response_message.go and a file for each *)
(* message), and the types of the columns (query/data_type.go,             *)
(* system/data_type.go).  A message is [type, body]; a text is a sequence  *)
(* of bytes, a word of the program or of the application is spelled by the *)
(* constant Spelling.                                                      *)
(*                                                                         *)
(* The second part is the client: how it reads what it is sent, from the   *)
(* message formats of the protocol.                                        *)
(***************************************************************************)
EXTENDS Integers, Sequences, SequencesExt, TLC

CONSTANT Spelling       \* the bytes of each word

\* Lengths are counted in 16 bits, and a word or a name is no longer than that.
MaxInt16 == 32767
MaxInt32 == 2147483647

Byte    == 0 .. 255
Texts   == Seq(1 .. 255)
Int31   == -MaxInt32 .. MaxInt32

ASSUME SpellingAssumption ==
    \A w \in DOMAIN Spelling : Spelling[w] \in Texts /\ Len(Spelling[w]) <= MaxInt16

Space == 32
Minus == 45
DigitBytes == 48 .. 57

----------------------------------------------------------------------------
(* Numbers and texts.  A number is within 31 bits, so what is shifted out  *)
(* of a wider one is its sign.                                             *)

Weight == <<1, 256, 65536, 16777216>>

Shifted(v, bytes) ==
    IF bytes < 4 THEN v \div Weight[bytes + 1] ELSE IF v < 0 THEN -1 ELSE 0

IntToBytes(v, size) == [i \in 1 .. size |-> Shifted(v, size - i) % 256]

Int8(v)  == IntToBytes(v, 1)
Int16(v) == IntToBytes(v, 2)
Int32(v) == IntToBytes(v, 4)

AppendString(text) == Append(text, 0)

\* the %d of fmt
Power == <<1, 10, 100, 1000, 10000, 100000, 1000000, 10000000, 100000000, 1000000000>>

DigitCount(n) == CHOOSE k \in 1 .. 10 : (k < 10 => n < Power[k + 1]) /\ (k > 1 => n >= Power[k])

NatDigits(n) ==
    [i \in 1 .. DigitCount(n) |-> 48 + ((n \div Power[DigitCount(n) + 1 - i]) % 10)]

Digits(n) == IF n < 0 THEN <<Minus>> \o NatDigits(-n) ELSE NatDigits(n)

----------------------------------------------------------------------------
(* The types of the columns.  "DECIMAL" stands for those that have none.   *)

QueryTypes == {"BIGINT", "BINARY", "BIT", "BLOB", "BOOLEAN", "CHAR", "CHARACTER", "DATE",
               "DOUBLE", "FLOAT", "INT", "INTEGER", "LONGBLOB", "LONGTEXT", "MEDIUMBLOB",
               "MEDIUMTEXT", "SMALLINT", "TEXT", "TIME", "TIMESTAMP", "DATETIME",
               "TINYBLOB", "TINYTEXT", "VARBINARY", "VARCHAR", "VARCHARACTER", "DECIMAL"}

NewObjectIDFrom(t) ==
    CASE t = "BOOLEAN"                                            -> "Bool"
      [] t \in {"BINARY", "BLOB", "LONGBLOB", "MEDIUMBLOB",
                "TINYBLOB", "VARBINARY"}                          -> "Bytea"
      [] t = "CHAR"                                               -> "Char"
      [] t = "BIGINT"                                             -> "Int8"
      [] t = "SMALLINT"                                           -> "Int2"
      [] t \in {"INT", "INTEGER"}                                 -> "Int4"
      [] t \in {"LONGTEXT", "MEDIUMTEXT", "TEXT", "TINYTEXT"}     -> "Text"
      [] t = "FLOAT"                                              -> "Float4"
      [] t = "DOUBLE"                                             -> "Float8"
      [] t \in {"CHARACTER", "VARCHAR", "VARCHARACTER"}           -> "Varchar"
      [] t = "DATE"                                               -> "Date"
      [] t = "TIME"                                               -> "Time"
      [] t \in {"TIMESTAMP", "DATETIME"}                          -> "Timestamp"
      [] t = "BIT"                                                -> "Bit"
      [] OTHER                                                    -> "none"

\* the rows of the table of types that NewObjectIDFrom leads to: <<oid, size>>
DataTypes ==
    [Bool |-> <<16, 1>>, Bytea |-> <<17, -1>>, Char |-> <<18, 1>>,
     Int8 |-> <<20, 8>>, Int2 |-> <<21, 2>>, Int4 |-> <<23, 4>>,
     Text |-> <<25, -1>>, Float4 |-> <<700, 4>>, Float8 |-> <<701, 8>>,
     Varchar |-> <<1043, -1>>, Date |-> <<1082, 4>>, Time |-> <<1083, 8>>,
     Timestamp |-> <<1114, 8>>, Bit |-> <<1560, -1>>]

TextFormat   == 0
BinaryFormat == 1

FormatCode(id) == IF id = "Bytea" THEN BinaryFormat ELSE TextFormat

----------------------------------------------------------------------------
(* A value of a row: its Go type; v, which value of it, whose digits are   *)
(* also its text; and whether the casts of the library (safecast) that it  *)
(* is put through accept it.                                               *)

GoTypes == {"nil", "string", "bytes", "bool", "time", "int8", "int16", "int32", "int64",
            "int", "float32", "float64"}

\* what AppendData has every value of a column become
GoTypeOf ==
    [Bool |-> "bool", Int2 |-> "int16", Int4 |-> "int32", Int8 |-> "int64",
     Float4 |-> "float32", Float8 |-> "float64", Text |-> "string", Varchar |-> "string",
     Timestamp |-> "time"]

IntWidth == [int8 |-> 1, int16 |-> 2, int32 |-> 4, int64 |-> 8, int |-> 8]

Become(cell, go) == [cell EXCEPT !.go = go]

NotOfItsType(id, cell) == id \in DOMAIN GoTypeOf /\ cell.go # GoTypeOf[id]

\* the first switch of AppendData
AsColumn(id, cell) ==
    IF NotOfItsType(id, cell) THEN Become(cell, GoTypeOf[id]) ELSE cell

\* a value that AppendData returns an error for, which nobody reads
Refused(id, cell) ==
    /\ ~cell.casts
    /\ \/ NotOfItsType(id, cell)
       \/ FormatCode(id) = TextFormat /\ AsColumn(id, cell).go \notin {"string", "time", "nil"}

\* the second switch: <<>> for NULL, and else the bytes of the value
AppendData(id, cell) ==
    LET v == AsColumn(id, cell)
    IN  IF v.go = "nil" THEN <<>>
        ELSE IF FormatCode(id) = BinaryFormat /\ v.go \in DOMAIN IntWidth
             THEN <<IntToBytes(v.v, IntWidth[v.go])>> ELSE <<Digits(v.v)>>

\* DataRow.Bytes has no case for these
NotEncodable(id, cell) ==
    FormatCode(id) = BinaryFormat /\ cell.go \in {"bool", "time"}

----------------------------------------------------------------------------
(* The messages.                                                           *)

Type ==
    [Authentication |-> 82, ParameterStatus |-> 83, BackendKeyData |-> 75,
     ReadyForQuery |-> 90, RowDescription |-> 84, DataRow |-> 68, CommandComplete |-> 67,
     ErrorResponse |-> 69, ParameterDescription |-> 116, NoData |-> 110,
     ParseComplete |-> 49, BindComplete |-> 50, CloseComplete |-> 51, CopyInResponse |-> 71]

Message(type, body) == [type |-> type, body |-> body]
Plain(type)         == Message(type, <<>>)

\* names, numbers, types and sizes; the table and the modifier are never set
WriteRowField(f) ==
    AppendString(f.name) \o Int32(0) \o Int16(f.number) \o Int32(f.oid)
        \o Int16(f.size) \o Int32(0) \o Int16(f.format)

RowDescriptionBytes(fields) ==
    Int16(Len(fields)) \o FlattenSeq([c \in DOMAIN fields |-> WriteRowField(fields[c])])

WriteColumn(column) ==
    IF column = <<>> THEN Int32(-1) ELSE Int32(Len(column[1])) \o column[1]

DataRowBytes(columns) ==
    Int16(Len(columns)) \o FlattenSeq([c \in DOMAIN columns |-> WriteColumn(columns[c])])

\* the count of a tag is -1 when it has none; an INSERT names the OID 0 first
TagText(tag) ==
    CASE tag.n < 0            -> Spelling[tag.word]
      [] tag.n >= 0 /\ tag.word = "INSERT" ->
            Spelling[tag.word] \o <<Space>> \o Digits(0) \o <<Space>> \o Digits(tag.n)
      [] OTHER                -> Spelling[tag.word] \o <<Space>> \o Digits(tag.n)

CommandCompleteBytes(tag) == AppendString(TagText(tag))

MessageError == 77

\* an error response has one field or, when the credentials are refused, none
ErrorResponseBytes(fields) ==
    FlattenSeq([i \in DOMAIN fields |-> <<MessageError>> \o AppendString(fields[i])]) \o <<0>>

ParameterStatusBytes(texts) == AppendString(texts[1]) \o AppendString(texts[2])
BackendKeyDataBytes(keys)   == Int32(keys[1]) \o Int32(keys[2])
ParameterDescriptionBytes(ids) ==
    Int16(Len(ids)) \o FlattenSeq([i \in DOMAIN ids |-> Int32(ids[i])])
CopyInResponseBytes(codes) ==
    Int8(0) \o Int16(Len(codes)) \o FlattenSeq([c \in DOMAIN codes |-> Int16(codes[c])])

Payload(msg) ==
    CASE msg.type = "RowDescription"       -> RowDescriptionBytes(msg.body)
      [] msg.type = "DataRow"              -> DataRowBytes(msg.body)
      [] msg.type = "CommandComplete"      -> CommandCompleteBytes(msg.body)
      [] msg.type = "ErrorResponse"        -> ErrorResponseBytes(msg.body)
      [] msg.type = "ParameterStatus"      -> ParameterStatusBytes(msg.body)
      [] msg.type = "BackendKeyData"       -> BackendKeyDataBytes(msg.body)
      [] msg.type = "ParameterDescription" -> ParameterDescriptionBytes(msg.body)
      [] msg.type = "CopyInResponse"       -> CopyInResponseBytes(msg.body)
      [] msg.type = "Authentication"       -> Int32(msg.body)
      [] msg.type = "ReadyForQuery"        -> <<msg.body>>
      [] OTHER                             -> <<>>

BytesWithoutLength(msg) ==
    <<Type[msg.type]>> \o Int32(Len(Payload(msg))) \o Payload(msg)

Bytes(msg) == <<Type[msg.type]>> \o Int32(Len(Payload(msg)) + 4) \o Payload(msg)

----------------------------------------------------------------------------
(* The client.  Bad is what it makes of bytes that are not there.          *)

Bad == -99

Signed(byte) == IF byte < 128 THEN byte ELSE byte - 256

ReadInt16(b, at) ==
    IF at + 1 > Len(b) THEN Bad ELSE 256 * Signed(b[at]) + b[at + 1]

ReadInt32(b, at) ==
    IF at + 3 > Len(b) THEN Bad
    ELSE 256 * (256 * (256 * Signed(b[at]) + b[at + 1]) + b[at + 2]) + b[at + 3]

ReadByte(b, at) == IF at > Len(b) THEN Bad ELSE b[at]

\* the text that starts at a place, and the place after its terminator
End(b, at)  == LET ends == {i \in at .. Len(b) : b[i] = 0}
               IN  IF ends = {} THEN Len(b) + 1 ELSE CHOOSE i \in ends : \A j \in ends : i <= j
Text(b, at) == SubSeq(b, at, End(b, at) - 1)

\* n things one after the other: item[at] is what is read at a place, and the
\* place after it
ReadAll(item, n, at) ==
    LET read[i \in 0 .. n] ==
            IF i = 0 THEN [things |-> <<>>, next |-> at]
            ELSE [things |-> Append(read[i - 1].things, item[read[i - 1].next].thing),
                  next   |-> item[read[i - 1].next].next]
    IN  IF n < 0 THEN <<>> ELSE read[n].things

Item(thing, next) == [thing |-> thing, next |-> next]

ReadRowField(b, at) ==
    LET k == End(b, at) + 1
    IN  Item([name |-> Text(b, at), number |-> ReadInt16(b, k + 4), oid |-> ReadInt32(b, k + 6),
              size |-> ReadInt16(b, k + 10), format |-> ReadInt16(b, k + 16)], k + 18)

ReadColumn(b, at) ==
    LET l == ReadInt32(b, at)
    IN  IF l < 0 THEN Item(<<>>, at + 4)
        ELSE Item(<<SubSeq(b, at + 4, at + 3 + l)>>, at + 4 + l)

ReadDecimal(digits) ==
    LET value[i \in 0 .. Len(digits)] ==
            IF i = 0 THEN 0 ELSE 10 * value[i - 1] + (digits[i] - 48)
    IN  value[Len(digits)]

\* the words of the tags that have a count
WithCount == {"SELECT", "INSERT", "UPDATE", "DELETE"}

Spaces(text) == {i \in DOMAIN text : text[i] = Space}

FirstWord(text) ==
    IF Spaces(text) = {} THEN text
    ELSE SubSeq(text, 1, (CHOOSE i \in Spaces(text) : \A j \in Spaces(text) : i <= j) - 1)

StartsWithCounted(text) == \E word \in WithCount : FirstWord(text) = Spelling[word]

\* the word of such a tag, and the number after its last space; any other is
\* taken as it is
ReadTag(text) ==
    LET last   == CHOOSE i \in Spaces(text) : \A j \in Spaces(text) : j <= i
        count  == SubSeq(text, last + 1, Len(text))
    IN  IF /\ StartsWithCounted(text) /\ Spaces(text) # {}
           /\ count # <<>> /\ \A i \in DOMAIN count : count[i] \in DigitBytes
        THEN [word |-> FirstWord(text), n |-> ReadDecimal(count)]
        ELSE [word |-> text, n |-> -1]

Decode(type, b) ==
    CASE type = "RowDescription" ->
            ReadAll([at \in Nat |-> ReadRowField(b, at)], ReadInt16(b, 1), 3)
      [] type = "DataRow"        ->
            ReadAll([at \in Nat |-> ReadColumn(b, at)], ReadInt16(b, 1), 3)
      [] type = "ParameterDescription" ->
            ReadAll([at \in Nat |-> Item(ReadInt32(b, at), at + 4)], ReadInt16(b, 1), 3)
      [] type = "CopyInResponse" ->
            ReadAll([at \in Nat |-> Item(ReadInt16(b, at), at + 2)], ReadInt16(b, 2), 4)
      [] type = "CommandComplete" -> ReadTag(Text(b, 1))
      [] type = "ErrorResponse"  ->
            IF ReadByte(b, 1) # MessageError THEN <<>> ELSE <<Text(b, 2)>>
      [] type = "ParameterStatus" -> <<Text(b, 1), Text(b, End(b, 1) + 1)>>
      [] type = "BackendKeyData" -> <<ReadInt32(b, 1), ReadInt32(b, 5)>>
      [] type = "Authentication" -> ReadInt32(b, 1)
      [] type = "ReadyForQuery"  -> ReadByte(b, 1)
      [] OTHER                   -> b

\* what a message means to the client that reads it
Meaning(msg) ==
    IF msg.type # "CommandComplete" THEN msg
    ELSE Message(msg.type, [word |-> Spelling[msg.body.word], n |-> msg.body.n])

FrameLength(wire) == 1 + ReadInt32(wire, 2)
HasFrame(wire)    == Len(wire) >= 5 /\ Len(wire) >= FrameLength(wire)

\* the message at the head of what has arrived
FrameType(wire) ==
    IF \E t \in DOMAIN Type : Type[t] = wire[1]
    THEN CHOOSE t \in DOMAIN Type : Type[t] = wire[1] ELSE "unknown"

Frame(wire) ==
    Message(FrameType(wire), Decode(FrameType(wire), SubSeq(wire, 6, FrameLength(wire))))
=============================================================================
