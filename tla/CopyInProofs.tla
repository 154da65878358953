---------------------------- MODULE CopyInProofs ---------------------------
(***************************************************************************)
(* Proofs about CopyIn, for streams of any length and any number of        *)
(* tables: the counters of a COPY are its rows, and what it says at its    *)
(* end stays true.                                                         *)
(***************************************************************************)
EXTENDS CopyIn, SequenceTheorems, FiniteSetTheorems, TLAPS

\* No message has been read by a COPY that is still to come.
OwnersAreKnown == \A i \in Slots : owner[i] <= current

LedgerInv == CopyInv /\ CountedRowsAreStored /\ OwnersAreKnown

-----------------------------------------------------------------------------
(***************************************************************************)
(* Types.                                                                  *)
(***************************************************************************)
LEMMA ReplyType ==
    ASSUME TypeOK, NEW i \in Slots, NEW a \in Answer, Reply(i, a)
    PROVE  /\ answers' \in [Slots -> Seq(Answer)]
           /\ answers'[i] = Append(answers[i], a)
           /\ \A j \in Slots \ {i} : answers'[j] = answers[j]
  <1>1. Append(answers[i], a) \in Seq(Answer)
    BY AppendProperties DEF TypeOK
  <1> QED
    BY <1>1 DEF TypeOK, Reply

LEMMA AnswerType == /\ CopyIn \in Answer /\ Error \in Answer /\ [type |-> "Other"] \in Answer
                    /\ \A n \in Nat : Complete(n) \in Answer
                    /\ \A n : Complete(n) # CopyIn /\ Complete(n) # Error
                              /\ Complete(n) # [type |-> "Other"]
  BY DEF Answer, CopyIn, Error, Complete

\* The next message is one of the slots.
LEMMA NextSlot ==
    ASSUME TypeOK, NEW kinds, Peeked(kinds)
    PROVE  /\ taken \in Nat /\ taken + 1 \in Slots /\ taken + 1 \in 1 .. Len(stream)
           /\ stream[taken + 1] \in kinds
  BY BoundsAssumption DEF TypeOK, Peeked, Slots

LEMMA TakeType ==
    ASSUME TypeOK, NEW kinds, Peeked(kinds), NEW c \in 0 .. MaxMessages, Take(c)
    PROVE  /\ taken' = taken + 1 /\ taken' \in 1 .. Len(stream)
           /\ owner' \in [Slots -> 0 .. MaxMessages]
           /\ owner'[taken + 1] = c
           /\ \A i \in Slots \ {taken + 1} : owner'[i] = owner[i]
  BY NextSlot DEF Take, TypeOK

Frame == <<stream, gone, taken, current, nCopy, nFail, target, tableVars, owner>>

LEMMA TypeStep == TypeOK /\ CopyIsOpen /\ [Next]_vars => TypeOK'
  <1> SUFFICES ASSUME TypeOK, CopyIsOpen, [Next]_vars PROVE TypeOK'
    OBVIOUS
  <1>0. /\ MaxMessages \in Nat /\ MaxTables \in Nat
        /\ Len(stream) \in Nat /\ taken \in Nat /\ current \in Nat /\ current <= taken
        /\ taken <= Len(stream) /\ Len(stream) <= MaxMessages
        /\ current \in 0 .. MaxMessages /\ 0 \in 0 .. MaxMessages
    BY BoundsAssumption DEF TypeOK
  <1>1. ASSUME NEW kind \in Kinds, Send(kind) PROVE TypeOK'
    <2>1. Append(stream, kind) \in Seq(Kinds) /\ Len(Append(stream, kind)) = Len(stream) + 1
      BY AppendProperties DEF TypeOK
    <2> QED
      BY <1>0, <1>1, <2>1 DEF Send, TypeOK, tableVars
  <1>2. CASE HangUp
    BY <1>2 DEF HangUp, TypeOK, tableVars
  <1>3. CASE CreateTable
    BY <1>0, <1>3 DEF CreateTable, TypeOK
  <1>4. CASE DropTable
    BY <1>4 DEF DropTable, TypeOK
  <1>5. CASE CopyRefused
    <2>1. PICK kinds : Peeked(kinds)
      BY <1>5 DEF CopyRefused
    <2> QED
      BY <1>0, <1>5, <2>1, NextSlot, TakeType, ReplyType, AnswerType
         DEF CopyRefused, TypeOK, tableVars
  <1>6. CASE CopyAccepted
    BY <1>0, <1>6, NextSlot, TakeType, ReplyType, AnswerType DEF CopyAccepted, TypeOK, tableVars
  <1>7. CASE Unsupported
    BY <1>0, <1>7, NextSlot, TakeType, ReplyType, AnswerType DEF Unsupported, TypeOK, tableVars
  <1>8. CASE Request
    BY <1>0, <1>8, NextSlot, TakeType, ReplyType, AnswerType DEF Request, TypeOK, tableVars
  <1>9. CASE LoopEnds
    BY <1>9 DEF LoopEnds, TypeOK, tableVars
  <1>10. pc \notin {"loop", "closed"} => current \in Slots
    BY <1>0 DEF CopyIsOpen, Slots
  <1>11. ASSUME FailCopy, pc \notin {"loop", "closed"}
         PROVE  answers' \in [Slots -> Seq(Answer)] /\ pc' = "loop"
    BY <1>10, <1>11, ReplyType, AnswerType DEF FailCopy
  <1>12. CASE PeekCopyData
    <2>1. CASE FailCopy
      BY <1>11, <1>12, <2>1 DEF PeekCopyData, TypeOK, tableVars
    <2>2. CASE UNCHANGED answers /\ pc' \in {"lookup", "loop"}
      BY <1>12, <2>2 DEF PeekCopyData, TypeOK, tableVars
    <2> QED
      BY <1>12, <2>1, <2>2 DEF PeekCopyData
  <1>13. CASE CopyData
    <2>1. CASE FailCopy
      BY <1>11, <1>13, <2>1 DEF CopyData, TypeOK, tableVars
    <2>2. CASE UNCHANGED answers /\ pc' = "next"
      BY <1>13, <2>2 DEF CopyData, TypeOK, tableVars
    <2> QED
      BY <1>13, <2>1, <2>2 DEF CopyData
  <1>14. CASE NextRow
    BY <1>0, <1>14, NextSlot, TakeType DEF NextRow, TypeOK, tableVars
  <1>15. CASE NextNoRow
    <2>1. PICK kinds : Peeked(kinds)
      BY <1>15 DEF NextNoRow
    <2> QED
      BY <1>0, <1>15, <2>1, NextSlot, TakeType DEF NextNoRow, TypeOK, tableVars
  <1>16. ASSUME NEW place \in {"next", "mark"}, EndOfRows(place) PROVE TypeOK'
    <2>1. CASE Peeked({"done"}) /\ Take(current) /\ pc' = "end"
      BY <1>0, <1>16, <2>1, NextSlot, TakeType DEF EndOfRows, TypeOK, tableVars
    <2>2. CASE UNCHANGED <<taken, owner>> /\ pc' \in {"end", "failed"}
      BY <1>16, <2>2 DEF EndOfRows, TypeOK, tableVars
    <2> QED
      BY <1>16, <2>1, <2>2 DEF EndOfRows
  <1>17. CASE Insert
    BY <1>17 DEF Insert, TypeOK, tableVars
  <1>18. CASE InsertRow
    <2>1. taken \in Slots /\ target \in 1 .. MaxTables
      BY <1>0, <1>18 DEF InsertRow, CopyIsOpen, TypeOK, Slots
    <2>2. Append(rows[target], taken) \in Seq(Slots)
      BY <2>1, AppendProperties DEF TypeOK
    <2>3. rows' \in [1 .. MaxTables -> Seq(Slots)]
      BY <1>18, <2>1, <2>2 DEF InsertRow, TypeOK
    <2> QED
      BY <1>18, <2>3 DEF InsertRow, TypeOK
  <1>19. CASE CopyEnds
    <2>1. CASE FailCopy
      BY <1>11, <1>19, <2>1 DEF CopyEnds, TypeOK, tableVars
    <2>2. CASE pc = "end" /\ Reply(current, Complete(nCopy)) /\ pc' = "loop"
      <3>1. Complete(nCopy) \in Answer
        BY AnswerType DEF TypeOK
      <3> QED
        BY <1>10, <1>19, <2>2, <3>1, ReplyType DEF CopyEnds, TypeOK, tableVars
    <2> QED
      BY <1>19, <2>1, <2>2 DEF CopyEnds
  <1>20. CASE UNCHANGED vars
    BY <1>20 DEF vars, TypeOK, tableVars
  <1> QED
    BY <1>1, <1>2, <1>3, <1>4, <1>5, <1>6, <1>7, <1>8, <1>9, <1>12, <1>13, <1>14, <1>15,
       <1>16, <1>17, <1>18, <1>19, <1>20 DEF Next, Serve

-----------------------------------------------------------------------------
(***************************************************************************)
(* The COPY that runs, and what is stored.                                 *)
(***************************************************************************)
LEMMA StoredKept ==
    ASSUME rows' = rows
    PROVE  \A i : Stored(i)' <=> Stored(i)
  BY DEF Stored

LEMMA StoredAppended ==
    ASSUME TypeOK, NEW t \in 1 .. MaxTables, NEW k \in Slots,
           rows' = [rows EXCEPT ![t] = Append(@, k)]
    PROVE  \A i : Stored(i)' <=> Stored(i) \/ i = k
  <1>1. /\ rows'[t] = Append(rows[t], k) /\ rows[t] \in Seq(Slots)
        /\ \A u \in (1 .. MaxTables) \ {t} : rows'[u] = rows[u]
    BY DEF TypeOK
  <1>2. /\ DOMAIN rows[t] = 1 .. Len(rows[t]) /\ Len(rows[t]) \in Nat
        /\ DOMAIN rows'[t] = 1 .. Len(rows[t]) + 1
        /\ \A n \in 1 .. Len(rows[t]) : rows'[t][n] = rows[t][n]
        /\ rows'[t][Len(rows[t]) + 1] = k
    BY <1>1
  <1>3. ASSUME NEW i, Stored(i)' PROVE Stored(i) \/ i = k
    <2>1. PICK u \in 1 .. MaxTables : \E n \in DOMAIN rows'[u] : rows'[u][n] = i
      BY <1>3 DEF Stored
    <2>2. CASE u = t
      <3>0. PICK n \in DOMAIN rows'[u] : rows'[u][n] = i
        BY <2>1
      <3>1. n \in 1 .. Len(rows[t]) \/ n = Len(rows[t]) + 1
        BY <1>2, <2>2, <3>0
      <3> QED
        BY <1>2, <2>2, <3>0, <3>1 DEF Stored
    <2>3. CASE u # t
      BY <1>1, <2>1, <2>3 DEF Stored
    <2> QED
      BY <2>2, <2>3
  <1>4. ASSUME NEW i, Stored(i) PROVE Stored(i)'
    <2>1. PICK u \in 1 .. MaxTables : \E n \in DOMAIN rows[u] : rows[u][n] = i
      BY <1>4 DEF Stored
    <2>2. PICK n \in DOMAIN rows[u] : rows[u][n] = i
      BY <2>1
    <2>3. n \in DOMAIN rows'[u] /\ rows'[u][n] = i
      BY <1>1, <1>2, <2>2
    <2> QED
      BY <2>3 DEF Stored
  <1>5. Stored(k)'
    <2>1. Len(rows[t]) + 1 \in DOMAIN rows'[t]
      BY <1>2
    <2> QED
      BY <1>2, <2>1 DEF Stored
  <1> QED
    BY <1>3, <1>4, <1>5

\* The parts of CopyIsOpen.
CopyRuns     == pc \notin {"loop", "closed"} =>
                    current # 0 /\ stream[current] = "copy" /\ answers[current] = <<CopyIn>>
RowInHand    == /\ pc \in {"insert", "append"} =>
                     taken > current /\ owner[taken] = current /\ stream[taken] = "row"
                       /\ ~Stored(taken)
                /\ pc = "append" => target # 0
NothingAhead == \A i \in Slots : i > taken => owner[i] = 0 /\ answers[i] = <<>> /\ ~Stored(i)

LEMMA OpenStep ==
    ASSUME TypeOK, TypeOK', CopyIsOpen, [Next]_vars
    PROVE  CopyIsOpen'
  <1> USE DEF tableVars
  <1>0. /\ CopyRuns /\ RowInHand /\ NothingAhead
        /\ CopyRuns' /\ RowInHand' /\ NothingAhead' => CopyIsOpen'
        /\ Len(stream) \in Nat /\ taken \in Nat /\ current \in Nat /\ current <= taken
        /\ taken <= Len(stream) /\ Len(stream) <= MaxMessages /\ MaxMessages \in Nat
        /\ current \in 0 .. MaxMessages /\ 0 \in 0 .. MaxMessages
        /\ current # 0 => current \in Slots
    <2>1. CopyRuns /\ RowInHand /\ NothingAhead
      BY DEF CopyIsOpen, CopyRuns, RowInHand, NothingAhead
    <2>2. CopyRuns' /\ RowInHand' /\ NothingAhead' => CopyIsOpen'
      BY DEF CopyIsOpen, CopyRuns, RowInHand, NothingAhead
    <2>3. /\ Len(stream) \in Nat /\ taken \in Nat /\ current \in Nat /\ current <= taken
          /\ taken <= Len(stream) /\ Len(stream) <= MaxMessages /\ MaxMessages \in Nat
      BY BoundsAssumption DEF TypeOK
    <2> QED
      BY <2>1, <2>2, <2>3 DEF Slots
  \* Steps that leave the messages read and the rows as they are.
  <1>1. ASSUME UNCHANGED <<taken, current, rows, owner, answers>>,
               \A i \in 1 .. Len(stream) : stream'[i] = stream[i],
               pc' = pc \/ pc \notin {"loop", "closed"} \/ pc' \in {"loop", "closed"},
               pc' \in {"insert", "append"} =>
                  pc \in {"insert", "append"} /\ (pc' = "append" => target' # 0)
        PROVE  CopyIsOpen'
    <2>1. CopyRuns'
      BY <1>0, <1>1 DEF CopyRuns
    <2>2. RowInHand'
      BY <1>0, <1>1, StoredKept DEF RowInHand
    <2>3. NothingAhead'
      BY <1>0, <1>1, StoredKept DEF NothingAhead
    <2> QED
      BY <1>0, <2>1, <2>2, <2>3
  \* An answer to the COPY that runs, which ends it.
  <1>2. ASSUME NEW a \in Answer, Reply(current, a), pc \notin {"loop", "closed"}, pc' = "loop",
               UNCHANGED Frame
        PROVE  CopyIsOpen'
    <2>1. current \in Slots /\ \A j \in Slots \ {current} : answers'[j] = answers[j]
      BY <1>0, <1>2, ReplyType DEF CopyRuns
    <2>2. CopyRuns' /\ RowInHand'
      BY <1>2 DEF CopyRuns, RowInHand
    <2>3. NothingAhead'
      BY <1>0, <1>2, <2>1, StoredKept DEF NothingAhead, Frame
    <2> QED
      BY <1>0, <2>2, <2>3
  \* A request that is answered.
  <1>3. ASSUME NEW kinds, Peeked(kinds), pc = "loop", Take(0),
               NEW a \in Answer, Reply(taken + 1, a), rows' = rows, stream' = stream,
               pc' = "loop" \/ (/\ pc' = "peek" /\ current' = taken + 1 /\ a = CopyIn
                               /\ kinds = {"copy"})
        PROVE  CopyIsOpen'
    <2>1. /\ taken + 1 \in Slots /\ taken' = taken + 1 /\ stream[taken + 1] \in kinds
          /\ answers'[taken + 1] = Append(answers[taken + 1], a)
          /\ \A j \in Slots \ {taken + 1} : answers'[j] = answers[j] /\ owner'[j] = owner[j]
      BY <1>0, <1>3, NextSlot, TakeType, ReplyType
    <2>2. answers'[taken + 1] = <<a>>
      <3>1. answers[taken + 1] = <<>>
        BY <1>0, <2>1 DEF NothingAhead
      <3> QED
        BY <2>1, <3>1
    <2>3. CopyRuns' /\ RowInHand'
      BY <1>0, <1>3, <2>1, <2>2 DEF CopyRuns, RowInHand
    <2>4. ASSUME NEW i \in Slots, i > taken'
          PROVE  owner'[i] = 0 /\ answers'[i] = <<>> /\ ~Stored(i)'
      <3>1. i \in Nat /\ i > taken /\ i \in Slots \ {taken + 1}
        BY <1>0, <2>1, <2>4 DEF Slots
      <3>2. owner[i] = 0 /\ answers[i] = <<>> /\ ~Stored(i)
        BY <1>0, <3>1 DEF NothingAhead
      <3> QED
        BY <1>3, <2>1, <3>1, <3>2, StoredKept
    <2>5. NothingAhead'
      BY <2>4 DEF NothingAhead
    <2> QED
      BY <1>0, <2>3, <2>5
  \* A message that the COPY takes.
  <1>4. ASSUME NEW kinds, Peeked(kinds), pc \notin {"loop", "closed"}, Take(current),
               UNCHANGED <<stream, current, rows, answers>>,
               pc' = "insert" => stream[taken + 1] = "row", pc' # "append"
        PROVE  CopyIsOpen'
    <2>1. /\ taken + 1 \in Slots /\ taken' = taken + 1 /\ owner'[taken + 1] = current
          /\ \A j \in Slots \ {taken + 1} : owner'[j] = owner[j]
      BY <1>0, <1>4, NextSlot, TakeType
    <2>2. CopyRuns'
      BY <1>0, <1>4 DEF CopyRuns
    <2>3. RowInHand'
      BY <1>0, <1>4, <2>1, StoredKept DEF RowInHand, NothingAhead
    <2>4. ASSUME NEW i \in Slots, i > taken'
          PROVE  owner'[i] = 0 /\ answers'[i] = <<>> /\ ~Stored(i)'
      <3>1. i \in Nat /\ i > taken /\ i \in Slots \ {taken + 1}
        BY <1>0, <2>1, <2>4 DEF Slots
      <3>2. owner[i] = 0 /\ answers[i] = <<>> /\ ~Stored(i)
        BY <1>0, <3>1 DEF NothingAhead
      <3> QED
        BY <1>4, <2>1, <3>1, <3>2, StoredKept
    <2>5. NothingAhead'
      BY <2>4 DEF NothingAhead
    <2> QED
      BY <1>0, <2>2, <2>3, <2>5
  <1>5. ASSUME NEW kind \in Kinds, Send(kind) PROVE CopyIsOpen'
    <2>1. \A i \in 1 .. Len(stream) : stream'[i] = stream[i]
      BY <1>5, AppendProperties DEF Send, TypeOK
    <2> QED
      BY <1>0, <1>1, <1>5, <2>1 DEF Send, RowInHand
  <1>6. CASE HangUp \/ CreateTable \/ DropTable \/ LoopEnds \/ UNCHANGED vars
    BY <1>0, <1>1, <1>6 DEF HangUp, CreateTable, DropTable, LoopEnds, vars, RowInHand
  <1>7. CASE CopyRefused
    <2>1. PICK kinds : Peeked(kinds)
      BY <1>7 DEF CopyRefused
    <2> QED
      BY <1>3, <1>7, <2>1, AnswerType DEF CopyRefused
  <1>8. CASE CopyAccepted
    BY <1>3, <1>8, AnswerType DEF CopyAccepted
  <1>9. CASE Unsupported
    BY <1>3, <1>9, AnswerType DEF Unsupported
  <1>10. CASE Request
    BY <1>3, <1>10, AnswerType DEF Request
  <1>11. CASE PeekCopyData \/ CopyData
    <2>1. CASE FailCopy
      BY <1>2, <1>11, <2>1, AnswerType DEF PeekCopyData, CopyData, FailCopy, Frame
    <2>2. CASE UNCHANGED answers /\ pc' \in {"lookup", "loop", "next"}
      BY <1>1, <1>11, <2>2 DEF PeekCopyData, CopyData
    <2> QED
      BY <1>11, <2>1, <2>2 DEF PeekCopyData, CopyData
  <1>12. CASE NextRow
    BY <1>4, <1>12 DEF NextRow
  <1>13. CASE NextNoRow
    <2>1. PICK kinds : Peeked(kinds)
      BY <1>13 DEF NextNoRow
    <2> QED
      BY <1>4, <1>13, <2>1 DEF NextNoRow
  <1>14. ASSUME NEW place \in {"next", "mark"}, EndOfRows(place) PROVE CopyIsOpen'
    <2>1. CASE Peeked({"done"}) /\ Take(current) /\ pc' = "end"
      BY <1>4, <1>14, <2>1 DEF EndOfRows
    <2>2. CASE UNCHANGED <<taken, owner>> /\ pc' \in {"end", "failed"}
      BY <1>1, <1>14, <2>2 DEF EndOfRows
    <2> QED
      BY <1>14, <2>1, <2>2 DEF EndOfRows
  <1>15. CASE Insert
    BY <1>0, <1>1, <1>15 DEF Insert
  <1>16. CASE InsertRow
    <2>1. taken \in Slots /\ target \in 1 .. MaxTables
      BY <1>0, <1>16 DEF InsertRow, RowInHand, TypeOK, Slots
    <2>2. \A i : Stored(i)' <=> Stored(i) \/ i = taken
      BY <1>16, <2>1, StoredAppended DEF InsertRow
    <2>3. CopyRuns' /\ RowInHand'
      BY <1>0, <1>16 DEF InsertRow, CopyRuns, RowInHand
    <2>4. NothingAhead'
      BY <1>0, <1>16, <2>2 DEF InsertRow, NothingAhead
    <2> QED
      BY <1>0, <2>3, <2>4
  <1>17. CASE CopyEnds
    <2>1. CASE FailCopy
      BY <1>2, <1>17, <2>1, AnswerType DEF CopyEnds, FailCopy, Frame
    <2>2. CASE pc = "end" /\ Reply(current, Complete(nCopy)) /\ pc' = "loop"
      <3>1. Complete(nCopy) \in Answer
        BY AnswerType DEF TypeOK
      <3> QED
        BY <1>2, <1>17, <2>2, <3>1 DEF CopyEnds, Frame
    <2> QED
      BY <1>17, <2>1, <2>2 DEF CopyEnds
  <1> QED
    BY <1>5, <1>6, <1>7, <1>8, <1>9, <1>10, <1>11, <1>12, <1>13, <1>14, <1>15, <1>16, <1>17
       DEF Next, Serve

-----------------------------------------------------------------------------
(***************************************************************************)
(* The counters.                                                           *)
(***************************************************************************)
StoredOf(j) == {i \in Owned(j) : Stored(i)}
LostOf(j)   == {i \in Owned(j) : NotStored(i)}
InHand      == pc \in {"insert", "append"}

LEMMA RowsFinite ==
    ASSUME TypeOK, NEW j
    PROVE  IsFiniteSet(StoredOf(j)) /\ IsFiniteSet(LostOf(j))
  <1>1. 1 \in Int /\ taken \in Int
    BY DEF TypeOK
  <1>2. IsFiniteSet(1 .. taken)
    BY <1>1, FS_Interval
  <1>3. StoredOf(j) \in SUBSET (1 .. taken) /\ LostOf(j) \in SUBSET (1 .. taken)
    BY DEF StoredOf, LostOf, Owned
  <1> QED
    BY <1>2, <1>3, FS_Subset

CountersAre == nCopy = Cardinality(StoredOf(current)) /\ nFail = Cardinality(LostOf(current))

LEMMA Counters ==
    /\ CountersMatch <=> (pc \notin {"loop", "closed"} => CountersAre)
    /\ CountersMatch' <=> (pc' \notin {"loop", "closed"} => CountersAre')
  BY DEF CountersMatch, CountersAre, StoredOf, LostOf

\* What a COPY has read, when nothing of it has been read or stored in a step.
LEMMA SameRows ==
    ASSUME TypeOK, UNCHANGED <<taken, owner, rows>>,
           \A i \in 1 .. taken : stream'[i] = stream[i], InHand' <=> InHand, NEW j
    PROVE  StoredOf(j)' = StoredOf(j) /\ LostOf(j)' = LostOf(j)
  <1>1. Owned(j)' = Owned(j)
    BY DEF Owned
  <1>2. \A i : Stored(i)' <=> Stored(i)
    BY StoredKept
  <1>3. ASSUME NEW i \in Owned(j) PROVE NotStored(i)' <=> NotStored(i)
    <2>1. stream'[i] = stream[i]
      BY <1>3 DEF Owned
    <2> QED
      BY <1>2, <2>1 DEF NotStored, IsRow, InHand
  <1>4. StoredOf(j)' = StoredOf(j)
    BY <1>1, <1>2 DEF StoredOf
  <1>5. LostOf(j)' = LostOf(j)
    BY <1>1, <1>3 DEF LostOf
  <1> QED
    BY <1>4, <1>5

\* Another message has been read, by the COPY c, or by none when c is 0.
LEMMA OneMore ==
    ASSUME TypeOK, CopyIsOpen, NEW c \in 0 .. MaxMessages, NEW kinds, Peeked(kinds), Take(c),
           UNCHANGED <<stream, rows>>, ~InHand, NEW j
    PROVE  /\ StoredOf(j)' = StoredOf(j)
           /\ LostOf(j)' = IF c = j /\ IsRow(taken + 1) /\ ~InHand'
                           THEN LostOf(j) \cup {taken + 1} ELSE LostOf(j)
           /\ taken + 1 \notin LostOf(j)
  <1>0. PICK k : k = taken + 1
    OBVIOUS
  <1>1. /\ taken \in Nat /\ taken' = k /\ k \in Slots
        /\ owner'[k] = c
        /\ \A i \in 1 .. taken : i \in Slots \ {k} /\ owner'[i] = owner[i]
    <2>1. /\ taken \in Nat /\ taken' = k /\ k \in Slots
          /\ owner'[k] = c
          /\ \A i \in Slots \ {k} : owner'[i] = owner[i]
      BY <1>0, NextSlot, TakeType
    <2>2. ASSUME NEW i \in 1 .. taken PROVE i \in Slots \ {k}
      BY <1>0, <2>1, BoundsAssumption DEF Slots
    <2> QED
      BY <2>1, <2>2
  <1>2. Owned(j)' = IF c = j THEN Owned(j) \cup {k} ELSE Owned(j)
    <2>1. \A i : i \in 1 .. taken' <=> i \in 1 .. taken \/ i = k
      BY <1>0, <1>1
    <2> QED
      BY <1>1, <2>1 DEF Owned
  <1>3. /\ ~Stored(k) /\ k \notin Owned(j)
        /\ \A i : Stored(i)' <=> Stored(i)
    <2>1. k > taken /\ k \notin 1 .. taken
      BY <1>0, <1>1
    <2> QED
      BY <1>1, <2>1, StoredKept DEF CopyIsOpen, Owned
  <1>4. \A i \in Owned(j) : i # k /\ (NotStored(i)' <=> NotStored(i))
    BY <1>1, <1>3 DEF NotStored, IsRow, InHand, Owned
  <1>5. NotStored(k)' <=> IsRow(k) /\ ~InHand'
    <2>1. (IsRow(k)' <=> IsRow(k)) /\ ~Stored(k)'
      BY <1>3 DEF IsRow
    <2>2. NotStored(k)' <=> IsRow(k)' /\ ~Stored(k)'
                                      /\ (InHand' => k # taken')
      BY DEF NotStored, InHand
    <2> QED
      BY <1>1, <2>1, <2>2
  <1>6. StoredOf(j)' = StoredOf(j)
    BY <1>2, <1>3 DEF StoredOf
  <1>7. LostOf(j)' = IF c = j /\ IsRow(k) /\ ~InHand'
                     THEN LostOf(j) \cup {k} ELSE LostOf(j)
    <2>1. \A i : i \in LostOf(j)' <=> i \in Owned(j)' /\ NotStored(i)'
      BY DEF LostOf
    <2>2. \A i : i \in LostOf(j) <=> i \in Owned(j) /\ NotStored(i)
      BY DEF LostOf
    <2>3. CASE c = j /\ IsRow(k) /\ ~InHand'
      <3>1. \A i : i \in LostOf(j)' <=> i \in LostOf(j) \cup {k}
        BY <1>2, <1>4, <1>5, <2>1, <2>2, <2>3
      <3> QED
        BY <2>3, <3>1
    <2>4. CASE ~(c = j /\ IsRow(k) /\ ~InHand')
      <3>1. \A i : i \in LostOf(j)' <=> i \in LostOf(j)
        BY <1>2, <1>4, <1>5, <2>1, <2>2, <2>4
      <3> QED
        BY <2>4, <3>1
    <2> QED
      BY <2>3, <2>4
  <1> QED
    BY <1>0, <1>3, <1>6, <1>7 DEF LostOf

\* The row in hand is dealt with: stored, or not.
LEMMA RowStored ==
    ASSUME TypeOK, CopyIsOpen, InsertRow, NEW j
    PROVE  /\ StoredOf(j)' = IF j = current THEN StoredOf(j) \cup {taken} ELSE StoredOf(j)
           /\ LostOf(j)' = LostOf(j) /\ taken \notin StoredOf(j)
  <1>1. /\ taken \in 1 .. taken /\ owner[taken] = current /\ ~Stored(taken)
        /\ taken \in Slots /\ target \in 1 .. MaxTables
    BY BoundsAssumption DEF CopyIsOpen, InsertRow, TypeOK, Slots
  <1>2. \A i : Stored(i)' <=> Stored(i) \/ i = taken
    BY <1>1, StoredAppended DEF InsertRow
  <1>3. Owned(j)' = Owned(j) /\ (taken \in Owned(j) <=> j = current)
    BY <1>1 DEF InsertRow, Owned
  <1>4. StoredOf(j)' = IF j = current THEN StoredOf(j) \cup {taken} ELSE StoredOf(j)
    BY <1>2, <1>3 DEF StoredOf
  <1>5. \A i \in Owned(j) : NotStored(i)' <=> NotStored(i)
    BY <1>2 DEF InsertRow, NotStored, IsRow
  <1>6. LostOf(j)' = LostOf(j)
    BY <1>3, <1>5 DEF LostOf
  <1> QED
    BY <1>1, <1>4, <1>6 DEF StoredOf

LEMMA RowLost ==
    ASSUME TypeOK, CopyIsOpen, Insert, table = 0, NEW j
    PROVE  /\ LostOf(j)' = IF j = current THEN LostOf(j) \cup {taken} ELSE LostOf(j)
           /\ StoredOf(j)' = StoredOf(j) /\ taken \notin LostOf(j)
  <1>1. /\ taken \in 1 .. taken /\ owner[taken] = current /\ ~Stored(taken)
        /\ stream[taken] = "row"
    BY DEF CopyIsOpen, Insert, TypeOK
  <1>2. rows' = rows /\ taken' = taken /\ stream' = stream /\ owner' = owner /\ pc' = "next"
    BY DEF Insert, tableVars
  <1>3. /\ \A i : Stored(i)' <=> Stored(i)
        /\ Owned(j)' = Owned(j) /\ (taken \in Owned(j) <=> j = current)
    BY <1>1, <1>2, StoredKept DEF Owned
  <1>4. StoredOf(j)' = StoredOf(j)
    BY <1>3 DEF StoredOf
  <1>5. /\ \A i : i = taken => NotStored(i)' /\ ~NotStored(i)
        /\ \A i : i # taken => (NotStored(i)' <=> NotStored(i))
    BY <1>1, <1>2, <1>3 DEF Insert, NotStored, IsRow
  <1>6. LostOf(j)' = IF j = current THEN LostOf(j) \cup {taken} ELSE LostOf(j)
    <2>1. \A i : i \in LostOf(j)' <=> i \in Owned(j)' /\ NotStored(i)'
      BY DEF LostOf
    <2>2. \A i : i \in LostOf(j) <=> i \in Owned(j) /\ NotStored(i)
      BY DEF LostOf
    <2>3. CASE j = current
      <3>1. \A i : i \in LostOf(j)' <=> i \in LostOf(j) \cup {taken}
        BY <1>3, <1>5, <2>1, <2>2, <2>3
      <3> QED
        BY <2>3, <3>1
    <2>4. CASE j # current
      <3>1. \A i : i \in LostOf(j)' <=> i \in LostOf(j)
        BY <1>3, <1>5, <2>1, <2>2, <2>4
      <3> QED
        BY <2>4, <3>1
    <2> QED
      BY <2>3, <2>4
  <1> QED
    BY <1>4, <1>5, <1>6 DEF LostOf

\* The counters after a step in which j is, and stays, the COPY that runs.
LEMMA CountOn ==
    ASSUME TypeOK, NEW j, current = j, current' = j, CountersAre,
           \/ /\ StoredOf(j)' = StoredOf(j) /\ nCopy' = nCopy
              /\ LostOf(j)' = LostOf(j) /\ nFail' = nFail
           \/ \E i \in Nat : /\ i \notin StoredOf(j) /\ StoredOf(j)' = StoredOf(j) \cup {i}
                             /\ nCopy' = nCopy + 1
                             /\ LostOf(j)' = LostOf(j) /\ nFail' = nFail
           \/ \E i \in Nat : /\ i \notin LostOf(j) /\ LostOf(j)' = LostOf(j) \cup {i}
                             /\ nFail' = nFail + 1
                             /\ StoredOf(j)' = StoredOf(j) /\ nCopy' = nCopy
    PROVE  CountersAre'
  <1>1. nCopy = Cardinality(StoredOf(j)) /\ nFail = Cardinality(LostOf(j))
    BY DEF CountersAre
  <1>2. IsFiniteSet(StoredOf(j)) /\ IsFiniteSet(LostOf(j))
    BY RowsFinite
  <1>3. nCopy' = Cardinality(StoredOf(j)') /\ nFail' = Cardinality(LostOf(j)')
    BY <1>1, <1>2, FS_AddElement
  <1>4. StoredOf(j)' = StoredOf(current)' /\ LostOf(j)' = LostOf(current)'
    BY DEF StoredOf, LostOf, Owned
  <1> QED
    BY <1>3, <1>4 DEF CountersAre

Ledger == CountersMatch /\ OwnersAreKnown

LEMMA LedgerStep ==
    ASSUME TypeOK, TypeOK', CopyIsOpen, Ledger, [Next]_vars
    PROVE  Ledger'
  <1> USE DEF tableVars
  <1>0. PICK j : j = current
    OBVIOUS
  <1>1. /\ taken \in Nat /\ current \in 0 .. taken /\ taken <= Len(stream) /\ Len(stream) \in Nat
        /\ current \in 0 .. MaxMessages /\ 0 \in 0 .. MaxMessages /\ MaxMessages \in Nat
        /\ Len(stream) <= MaxMessages
        /\ \A i \in Slots : owner[i] \in Nat /\ owner[i] <= current
        /\ pc \notin {"loop", "closed"} => CountersAre
    <2>1. /\ taken \in Nat /\ current \in 0 .. taken /\ taken <= Len(stream) /\ Len(stream) \in Nat
          /\ current \in 0 .. MaxMessages /\ 0 \in 0 .. MaxMessages /\ MaxMessages \in Nat
          /\ Len(stream) <= MaxMessages
      <3>1. /\ taken \in 0 .. Len(stream) /\ current \in 0 .. taken /\ Len(stream) <= MaxMessages
            /\ Len(stream) \in Nat /\ MaxMessages \in Nat
        BY BoundsAssumption, LenProperties DEF TypeOK
      <3> QED
        BY ONLY <3>1
    <2>2. \A i \in Slots : owner[i] \in Nat /\ owner[i] <= current
      BY DEF TypeOK, Ledger, OwnersAreKnown
    <2>3. pc \notin {"loop", "closed"} => CountersAre
      BY Counters DEF Ledger
    <2> QED
      BY <2>1, <2>2, <2>3, Zenon
  \* Steps in which nothing is read or counted.
  <1>2. ASSUME UNCHANGED <<taken, current, rows, owner, nCopy, nFail>>,
               \A i \in 1 .. taken : stream'[i] = stream[i],
               pc' \in {"loop", "closed"} \/ (pc \notin {"loop", "closed"} /\ (InHand' <=> InHand))
        PROVE  Ledger'
    <2>1. OwnersAreKnown'
      BY <1>2 DEF Ledger, OwnersAreKnown
    <2>2. CASE pc' \in {"loop", "closed"}
      BY <2>1, <2>2, Counters DEF Ledger
    <2>3. CASE pc \notin {"loop", "closed"} /\ (InHand' <=> InHand)
      <3>1. StoredOf(j)' = StoredOf(j) /\ LostOf(j)' = LostOf(j)
        BY <1>2, <2>3, SameRows
      <3>2. CountersAre'
        BY <1>0, <1>1, <1>2, <2>3, <3>1, CountOn
      <3> QED
        BY <2>1, <3>2, Counters DEF Ledger
    <2> QED
      BY <1>2, <2>2, <2>3
  \* Steps that take a message.
  <1>3. ASSUME NEW kinds, Peeked(kinds), NEW c \in 0 .. MaxMessages, Take(c), c <= current',
               current' \in Nat, current <= current'
        PROVE  OwnersAreKnown'
    <2>1. /\ owner'[taken + 1] = c
          /\ \A i \in Slots \ {taken + 1} : owner'[i] = owner[i]
      BY <1>3, TakeType
    <2>2. ASSUME NEW i \in Slots PROVE owner'[i] <= current'
      BY <1>1, <1>3, <2>1
    <2> QED
      BY <2>2 DEF OwnersAreKnown
  <1>4. ASSUME NEW kinds, Peeked(kinds), pc = "loop", Take(0), pc' = "loop", current' = current
        PROVE  Ledger'
    BY <1>1, <1>3, <1>4, Counters DEF Ledger
  <1>5. CASE CopyAccepted
    <2>1. /\ Peeked({"copy"}) /\ Take(0) /\ current' = taken + 1 /\ taken' = taken + 1
          /\ nCopy' = 0 /\ nFail' = 0
      BY <1>5 DEF CopyAccepted, Take
    <2>2. OwnersAreKnown'
      BY <1>1, <1>3, <2>1
    <2>3. /\ owner'[taken + 1] = 0
          /\ \A i \in Slots \ {taken + 1} : owner'[i] = owner[i]
      BY <1>1, <2>1, TakeType
    <2>4. ASSUME NEW i \in 1 .. taken + 1 PROVE owner'[i] # taken + 1
      <3>1. i \in Slots
        BY <1>1, <2>1, NextSlot DEF Slots
      <3> QED
        BY <1>1, <2>3, <3>1
    <2>5. Owned(current)' = {}
      BY <2>1, <2>4 DEF Owned
    <2>6. StoredOf(current)' = {} /\ LostOf(current)' = {}
      BY <2>5 DEF StoredOf, LostOf
    <2>7. CountersAre'
      BY <2>1, <2>6, FS_EmptySet DEF CountersAre
    <2> QED
      BY <2>2, <2>7, Counters DEF Ledger
  \* The COPY that runs takes a message: a row to be inserted, one that fails,
  \* or none.
  <1>6. ASSUME NEW kinds, Peeked(kinds), pc \notin {"loop", "closed"}, ~InHand, Take(current),
               UNCHANGED <<stream, current, rows, nCopy>>,
               IF IsRow(taken + 1) /\ ~InHand' THEN nFail' = nFail + 1 ELSE nFail' = nFail
        PROVE  Ledger'
    <2>1. OwnersAreKnown'
      BY <1>1, <1>3, <1>6
    <2>2. /\ StoredOf(j)' = StoredOf(j)
          /\ LostOf(j)' = IF IsRow(taken + 1) /\ ~InHand'
                          THEN LostOf(j) \cup {taken + 1} ELSE LostOf(j)
          /\ taken + 1 \notin LostOf(j)
      BY <1>0, <1>1, <1>6, OneMore
    <2>3. taken + 1 \in Nat
      BY <1>1
    <2>4. CountersAre'
      <3>1. CASE IsRow(taken + 1) /\ ~InHand'
        BY <1>0, <1>1, <1>6, <2>2, <2>3, <3>1, CountOn
      <3>2. CASE ~(IsRow(taken + 1) /\ ~InHand')
        BY <1>0, <1>1, <1>6, <2>2, <3>2, CountOn
      <3> QED
        BY <3>1, <3>2
    <2> QED
      BY <2>1, <2>4, Counters DEF Ledger
  <1>7. ASSUME NEW kind \in Kinds, Send(kind) PROVE Ledger'
    <2>1. \A i \in 1 .. Len(stream) : stream'[i] = stream[i]
      BY <1>7, AppendProperties DEF Send, TypeOK
    <2>2. \A i \in 1 .. taken : stream'[i] = stream[i]
      BY <1>1, <2>1
    <2> QED
      BY <1>2, <1>7, <2>2 DEF Send, InHand
  <1>8. CASE HangUp \/ CreateTable \/ DropTable \/ LoopEnds \/ UNCHANGED vars
    BY <1>2, <1>8 DEF HangUp, CreateTable, DropTable, LoopEnds, vars, InHand
  <1>9. CASE CopyRefused
    <2>1. PICK kinds : Peeked(kinds)
      BY <1>9 DEF CopyRefused
    <2> QED
      BY <1>4, <1>9, <2>1 DEF CopyRefused
  <1>10. CASE Unsupported \/ Request
    BY <1>4, <1>10 DEF Unsupported, Request
  <1>11. CASE PeekCopyData \/ CopyData \/ CopyEnds
    BY <1>2, <1>11 DEF PeekCopyData, CopyData, CopyEnds, FailCopy, InHand
  <1>12. CASE NextRow
    <2>1. stream[taken + 1] \in {"row", "bad"}
      BY <1>12, NextSlot DEF NextRow
    <2> QED
      BY <1>6, <1>12, <2>1 DEF NextRow, InHand, IsRow
  <1>13. CASE NextNoRow
    <2>1. PICK kinds : Peeked(kinds) /\ kinds \in {{"mark"}, {"short"}}
      BY <1>13 DEF NextNoRow
    <2>2. ~IsRow(taken + 1)
      BY <2>1, NextSlot DEF IsRow
    <2> QED
      BY <1>6, <1>13, <2>1, <2>2 DEF NextNoRow, InHand
  <1>14. ASSUME NEW place \in {"next", "mark"}, EndOfRows(place) PROVE Ledger'
    <2>1. CASE Peeked({"done"}) /\ Take(current) /\ pc' = "end"
      <3>1. ~IsRow(taken + 1)
        BY <2>1, NextSlot DEF IsRow
      <3> QED
        BY <1>6, <1>14, <2>1, <3>1 DEF EndOfRows, InHand
    <2>2. CASE UNCHANGED <<taken, owner>> /\ pc' \in {"end", "failed"}
      BY <1>2, <1>14, <2>2 DEF EndOfRows, InHand
    <2> QED
      BY <1>14, <2>1, <2>2 DEF EndOfRows
  <1>15. CASE Insert
    <2>1. CASE table # 0
      BY <1>2, <1>15, <2>1 DEF Insert, InHand
    <2>2. CASE table = 0
      <3>1. /\ LostOf(j)' = LostOf(j) \cup {taken} /\ taken \notin LostOf(j)
            /\ StoredOf(j)' = StoredOf(j)
        BY <1>0, <1>15, <2>2, RowLost
      <3>2. CountersAre'
        BY <1>0, <1>1, <1>15, <2>2, <3>1, CountOn DEF Insert
      <3>3. OwnersAreKnown'
        BY <1>15 DEF Insert, Ledger, OwnersAreKnown
      <3> QED
        BY <3>2, <3>3, Counters DEF Ledger
    <2> QED
      BY <2>1, <2>2
  <1>16. CASE InsertRow
    <2>1. /\ StoredOf(j)' = StoredOf(j) \cup {taken} /\ taken \notin StoredOf(j)
          /\ LostOf(j)' = LostOf(j)
      BY <1>0, <1>16, RowStored
    <2>2. CountersAre'
      BY <1>0, <1>1, <1>16, <2>1, CountOn DEF InsertRow
    <2>3. OwnersAreKnown'
      BY <1>16 DEF InsertRow, Ledger, OwnersAreKnown
    <2> QED
      BY <2>2, <2>3, Counters DEF Ledger
  <1> QED
    BY <1>5, <1>7, <1>8, <1>9, <1>10, <1>11, <1>12, <1>13, <1>14, <1>15, <1>16 DEF Next, Serve

-----------------------------------------------------------------------------
(***************************************************************************)
(* What a COPY has said of its rows.                                       *)
(***************************************************************************)
AllIn(j)    == \A i \in Owned(j) : IsRow(i) => Stored(i)
CountsTrue  == \A j \in 1 .. taken : \A n \in 0 .. MaxMessages :
                  Has(j, Complete(n)) => n = Cardinality(StoredOf(j)) /\ AllIn(j)
RowsInOrder == \A t \in 1 .. MaxTables : \A a, b \in DOMAIN rows[t] :
                  a < b => rows[t][a] < rows[t][b]

LEMMA CountedParts ==
    /\ CountedRowsAreStored <=> CountsTrue /\ RowsInOrder
    /\ CountedRowsAreStored' <=> CountsTrue' /\ RowsInOrder'
  BY DEF CountedRowsAreStored, CountsTrue, RowsInOrder, AllIn, StoredOf

LEMMA HasAfter ==
    ASSUME TypeOK, NEW i \in Slots, NEW a \in Answer, Reply(i, a), NEW b, NEW j \in Slots,
           Has(j, b)'
    PROVE  Has(j, b) \/ (j = i /\ b = a)
  <1>1. answers'[i] = Append(answers[i], a) /\ (j # i => answers'[j] = answers[j])
    BY ReplyType
  <1>2. PICK n \in DOMAIN answers'[j] : answers'[j][n] = b
    BY DEF Has
  <1>3. CASE j # i
    BY <1>1, <1>2, <1>3 DEF Has
  <1>4. CASE j = i
    <2>1. answers[i] \in Seq(Answer)
      BY DEF TypeOK
    <2>2. /\ n \in 1 .. Len(answers[i]) \/ n = Len(answers[i]) + 1
          /\ DOMAIN answers[i] = 1 .. Len(answers[i])
      BY <1>1, <1>2, <1>4, <2>1
    <2>3. CASE n \in 1 .. Len(answers[i])
      <3>1. answers'[j][n] = answers[i][n]
        BY <1>1, <1>4, <2>1, <2>3
      <3> QED
        BY <1>2, <1>4, <2>2, <2>3, <3>1 DEF Has
    <2>4. CASE n = Len(answers[i]) + 1
      BY <1>1, <1>2, <1>4, <2>1, <2>4
    <2> QED
      BY <2>2, <2>3, <2>4
  <1> QED
    BY <1>3, <1>4

\* A COPY that does not run gets no more rows, and none of its rows changes.
LEMMA OthersKeptIf ==
    ASSUME NEW j, Owned(j)' = Owned(j),
           \A i \in Owned(j) : stream'[i] = stream[i] /\ (Stored(i)' <=> Stored(i))
    PROVE  StoredOf(j)' = StoredOf(j) /\ (AllIn(j) => AllIn(j)')
  <1>1. StoredOf(j)' = StoredOf(j)
    BY DEF StoredOf
  <1>2. AllIn(j) => AllIn(j)'
    BY DEF AllIn, IsRow
  <1> QED
    BY <1>1, <1>2

LEMMA OthersKept ==
    ASSUME TypeOK, CopyIsOpen, [Next]_vars, NEW j \in 1 .. taken, ~Running(j)
    PROVE  StoredOf(j)' = StoredOf(j) /\ (AllIn(j) => AllIn(j)')
  <1> USE DEF tableVars
  <1>0. /\ taken \in Nat /\ taken <= Len(stream) /\ Len(stream) \in Nat
        /\ current \in 0 .. MaxMessages /\ 0 \in 0 .. MaxMessages /\ j # 0
        /\ j # current \/ pc \in {"loop", "closed"}
    BY BoundsAssumption DEF TypeOK, Running
  \* Steps that read nothing and store nothing.
  <1>1. ASSUME UNCHANGED <<taken, owner, rows>>, \A i \in 1 .. taken : stream'[i] = stream[i]
        PROVE  StoredOf(j)' = StoredOf(j) /\ (AllIn(j) => AllIn(j)')
    <2>1. Owned(j)' = Owned(j)
      BY <1>1 DEF Owned
    <2>2. \A i \in Owned(j) : stream'[i] = stream[i] /\ (Stored(i)' <=> Stored(i))
      BY <1>1, StoredKept DEF Owned
    <2> QED
      BY <2>1, <2>2, OthersKeptIf
  \* A message that is read by another.
  <1>2. ASSUME NEW kinds, Peeked(kinds), NEW c \in 0 .. MaxMessages, Take(c), c # j,
               UNCHANGED <<stream, rows>>
        PROVE  StoredOf(j)' = StoredOf(j) /\ (AllIn(j) => AllIn(j)')
    <2>0. PICK k : k = taken + 1
      OBVIOUS
    <2>1. /\ taken' = k /\ owner'[k] = c
          /\ \A i \in 1 .. taken : i \in Slots /\ i # k /\ owner'[i] = owner[i]
      <3>1. /\ taken' = k /\ k \in Slots /\ owner'[k] = c
            /\ \A i \in Slots \ {k} : owner'[i] = owner[i]
        BY <1>2, <2>0, NextSlot, TakeType
      <3>2. ASSUME NEW i \in 1 .. taken PROVE i \in Slots \ {k}
        BY <1>0, <2>0, <3>1, BoundsAssumption DEF Slots
      <3> QED
        BY <3>1, <3>2
    <2>2. Owned(j)' = Owned(j)
      <3>1. \A i : i \in 1 .. taken' <=> i \in 1 .. taken \/ i = k
        BY <1>0, <2>0, <2>1
      <3> QED
        BY <1>2, <2>1, <3>1 DEF Owned
    <2>3. \A i \in Owned(j) : stream'[i] = stream[i] /\ (Stored(i)' <=> Stored(i))
      BY <1>2, StoredKept
    <2> QED
      BY <2>2, <2>3, OthersKeptIf
  <1>3. ASSUME NEW kind \in Kinds, Send(kind)
        PROVE  StoredOf(j)' = StoredOf(j) /\ (AllIn(j) => AllIn(j)')
    <2>1. \A i \in 1 .. Len(stream) : stream'[i] = stream[i]
      BY <1>3, AppendProperties DEF Send, TypeOK
    <2>2. \A i \in 1 .. taken : stream'[i] = stream[i]
      BY <1>0, <2>1
    <2> QED
      BY <1>1, <1>3, <2>2 DEF Send
  <1>4. CASE HangUp \/ CreateTable \/ DropTable \/ LoopEnds \/ UNCHANGED vars
    BY <1>1, <1>4 DEF HangUp, CreateTable, DropTable, LoopEnds, vars
  <1>5. CASE PeekCopyData \/ CopyData \/ Insert \/ CopyEnds
    BY <1>1, <1>5 DEF PeekCopyData, CopyData, Insert, CopyEnds
  <1>6. CASE CopyRefused \/ CopyAccepted \/ Unsupported \/ Request
    <2>1. PICK kinds : Peeked(kinds)
      BY <1>6 DEF CopyRefused, CopyAccepted, Unsupported, Request
    <2> QED
      BY <1>0, <1>2, <1>6, <2>1 DEF CopyRefused, CopyAccepted, Unsupported, Request
  <1>7. CASE NextRow \/ NextNoRow
    <2>1. PICK kinds : Peeked(kinds)
      BY <1>7 DEF NextRow, NextNoRow
    <2>2. current # j
      BY <1>0, <1>7 DEF NextRow, NextNoRow
    <2> QED
      BY <1>0, <1>2, <1>7, <2>1, <2>2 DEF NextRow, NextNoRow
  <1>8. ASSUME NEW place \in {"next", "mark"}, EndOfRows(place)
        PROVE  StoredOf(j)' = StoredOf(j) /\ (AllIn(j) => AllIn(j)')
    <2>1. CASE Peeked({"done"}) /\ Take(current)
      <3>1. current # j
        BY <1>0, <1>8 DEF EndOfRows
      <3> QED
        BY <1>0, <1>2, <1>8, <2>1, <3>1 DEF EndOfRows
    <2>2. CASE UNCHANGED <<taken, owner>>
      BY <1>1, <1>8, <2>2 DEF EndOfRows
    <2> QED
      BY <1>8, <2>1, <2>2 DEF EndOfRows
  <1>9. CASE InsertRow
    <2>1. /\ owner[taken] = current /\ current # j
          /\ taken \in Slots /\ target \in 1 .. MaxTables
      BY <1>0, <1>9, BoundsAssumption DEF InsertRow, CopyIsOpen, TypeOK, Slots
    <2>2. \A i : Stored(i)' <=> Stored(i) \/ i = taken
      BY <1>9, <2>1, StoredAppended DEF InsertRow
    <2>3. Owned(j)' = Owned(j) /\ taken \notin Owned(j)
      BY <1>9, <2>1 DEF InsertRow, Owned
    <2>4. \A i \in Owned(j) : stream'[i] = stream[i] /\ (Stored(i)' <=> Stored(i))
      BY <1>9, <2>2, <2>3 DEF InsertRow
    <2> QED
      BY <2>3, <2>4, OthersKeptIf
  <1> QED
    BY <1>3, <1>4, <1>5, <1>6, <1>7, <1>8, <1>9 DEF Next, Serve

\* "COPY n" comes from the end of a COPY without failures, and from nowhere else.
LEMMA OnlyTheEndCounts ==
    ASSUME TypeOK, CopyIsOpen, [Next]_vars, NEW j \in Slots, NEW n, Has(j, Complete(n))'
    PROVE  \/ Has(j, Complete(n))
           \/ /\ j = current /\ pc = "end" /\ pc' = "loop"
              /\ n = nCopy /\ nFail = 0
              /\ UNCHANGED <<stream, taken, owner, rows>>
  <1> USE DEF tableVars
  <1>0. /\ current \in 0 .. taken /\ taken \in Nat /\ taken <= MaxMessages /\ MaxMessages \in Nat
        /\ pc \notin {"loop", "closed"} => current \in Slots
        /\ Complete(n) # CopyIn /\ Complete(n) # Error /\ Complete(n) # [type |-> "Other"]
        /\ CopyIn \in Answer /\ Error \in Answer /\ [type |-> "Other"] \in Answer
    BY BoundsAssumption, AnswerType DEF TypeOK, CopyIsOpen, Slots
  <1>1. ASSUME UNCHANGED answers PROVE Has(j, Complete(n))
    BY <1>1 DEF Has
  <1>2. ASSUME FailCopy, pc \notin {"loop", "closed"} PROVE Has(j, Complete(n))
    BY <1>0, <1>2, HasAfter DEF FailCopy
  <1>3. CASE CopyRefused \/ CopyAccepted \/ Unsupported \/ Request
    <2>1. PICK kinds : Peeked(kinds)
      BY <1>3 DEF CopyRefused, CopyAccepted, Unsupported, Request
    <2>2. taken + 1 \in Slots
      BY <2>1, NextSlot
    <2> QED
      BY <1>0, <1>3, <2>2, HasAfter DEF CopyRefused, CopyAccepted, Unsupported, Request
  <1>4. CASE PeekCopyData \/ CopyData
    <2>1. pc \notin {"loop", "closed"} /\ (FailCopy \/ UNCHANGED answers)
      BY <1>4 DEF PeekCopyData, CopyData
    <2> QED
      BY <1>1, <1>2, <2>1
  <1>5. CASE CopyEnds
    <2>1. CASE FailCopy
      BY <1>2, <1>5, <2>1 DEF CopyEnds
    <2>2. CASE pc = "end" /\ nFail = 0 /\ Reply(current, Complete(nCopy)) /\ pc' = "loop"
      <3>1. Complete(nCopy) \in Answer /\ current \in Slots
        BY <1>0, <2>2, AnswerType DEF TypeOK
      <3>2. Has(j, Complete(n)) \/ (j = current /\ Complete(n) = Complete(nCopy))
        BY <2>2, <3>1, HasAfter
      <3>3. Complete(n) = Complete(nCopy) => n = nCopy
        <4>1. Complete(n).n = n /\ Complete(nCopy).n = nCopy
          BY DEF Complete
        <4> QED
          BY <4>1
      <3> QED
        BY <1>5, <2>2, <3>2, <3>3 DEF CopyEnds
    <2> QED
      BY <1>5, <2>1, <2>2 DEF CopyEnds
  <1>6. CASE HangUp \/ CreateTable \/ DropTable \/ LoopEnds \/ UNCHANGED vars \/ NextRow
             \/ NextNoRow \/ Insert \/ InsertRow
    BY <1>1, <1>6 DEF HangUp, CreateTable, DropTable, LoopEnds, vars, NextRow, NextNoRow,
                      Insert, InsertRow
  <1>7. ASSUME NEW kind \in Kinds, Send(kind) PROVE Has(j, Complete(n))
    BY <1>1, <1>7 DEF Send
  <1>8. ASSUME NEW place \in {"next", "mark"}, EndOfRows(place) PROVE Has(j, Complete(n))
    BY <1>1, <1>8 DEF EndOfRows
  <1> QED
    BY <1>3, <1>4, <1>5, <1>6, <1>7, <1>8 DEF Next, Serve

LEMMA CountsStep ==
    ASSUME TypeOK, TypeOK', CopyIsOpen, CountersMatch, CountsTrue, [Next]_vars
    PROVE  CountsTrue'
  <1>1. SUFFICES ASSUME NEW j \in 1 .. taken', NEW n \in 0 .. MaxMessages, Has(j, Complete(n))'
                 PROVE  n = Cardinality(StoredOf(j)') /\ AllIn(j)'
    BY DEF CountsTrue
  <1>2. /\ taken \in Nat /\ taken' \in Nat /\ taken <= MaxMessages /\ taken' <= MaxMessages
        /\ MaxMessages \in Nat /\ j \in Slots
    BY BoundsAssumption DEF TypeOK, Slots
  <1>3. CASE Has(j, Complete(n))
    <2>1. ~Running(j)
      <3>1. ASSUME Running(j) PROVE FALSE
        <4>1. answers[j] = <<CopyIn>>
          BY <3>1 DEF Running, CopyIsOpen
        <4>2. Complete(n) = CopyIn
          BY <1>3, <4>1 DEF Has
        <4> QED
          BY <4>2, AnswerType
      <3> QED
        BY <3>1
    <2>2. j \in 1 .. taken
      <3>1. CASE j > taken
        BY <1>2, <1>3, <3>1 DEF Has, CopyIsOpen
      <3> QED
        BY <1>2, <3>1
    <2> QED
      BY <1>3, <2>1, <2>2, OthersKept DEF CountsTrue
  <1>4. CASE /\ j = current /\ pc = "end" /\ pc' = "loop"
             /\ n = nCopy /\ nFail = 0
             /\ UNCHANGED <<stream, taken, owner, rows>>
    <2>1. n = Cardinality(StoredOf(j)) /\ Cardinality(LostOf(j)) = 0
      BY <1>4, Counters DEF CountersAre
    <2>2. LostOf(j) = {}
      BY <2>1, RowsFinite, FS_EmptySet
    <2>3. AllIn(j)
      BY <1>4, <2>2 DEF AllIn, LostOf, NotStored
    <2>4. Owned(j)' = Owned(j)
      BY <1>4 DEF Owned
    <2>5. \A i \in Owned(j) : stream'[i] = stream[i] /\ (Stored(i)' <=> Stored(i))
      BY <1>4, StoredKept
    <2> QED
      BY <2>1, <2>3, <2>4, <2>5, OthersKeptIf
  <1> QED
    BY <1>1, <1>2, <1>3, <1>4, OnlyTheEndCounts

LEMMA OrderStep ==
    ASSUME TypeOK, CopyIsOpen, RowsInOrder, [Next]_vars
    PROVE  RowsInOrder'
  <1>1. CASE rows' = rows
    BY <1>1 DEF RowsInOrder
  <1>2. CASE InsertRow
    <2>0. /\ taken \in Slots /\ target \in 1 .. MaxTables /\ taken \in Nat
          /\ rows' = [rows EXCEPT ![target] = Append(@, taken)]
          /\ ~Stored(taken) /\ MaxMessages \in Nat
      BY <1>2, BoundsAssumption DEF InsertRow, CopyIsOpen, TypeOK, Slots
    <2>1. /\ rows'[target] = Append(rows[target], taken) /\ rows[target] \in Seq(Slots)
          /\ \A u \in (1 .. MaxTables) \ {target} : rows'[u] = rows[u]
      BY <2>0 DEF TypeOK
    <2>2. /\ DOMAIN rows[target] = 1 .. Len(rows[target]) /\ Len(rows[target]) \in Nat
          /\ DOMAIN rows'[target] = 1 .. Len(rows[target]) + 1
          /\ \A n \in 1 .. Len(rows[target]) : rows'[target][n] = rows[target][n]
          /\ rows'[target][Len(rows[target]) + 1] = taken
      BY <2>1
    <2>3. ASSUME NEW n \in DOMAIN rows[target] PROVE rows[target][n] < taken
      <3>1. rows[target][n] \in Slots /\ Stored(rows[target][n])
        BY <2>0, <2>1, <2>2, <2>3 DEF Stored
      <3>2. rows[target][n] # taken /\ ~(rows[target][n] > taken)
        BY <2>0, <3>1 DEF CopyIsOpen
      <3> QED
        BY <2>0, <3>1, <3>2 DEF Slots
    <2>4. ASSUME NEW t \in 1 .. MaxTables, NEW a \in DOMAIN rows'[t], NEW b \in DOMAIN rows'[t],
                 a < b
          PROVE  rows'[t][a] < rows'[t][b]
      <3>1. CASE t # target
        BY <2>1, <2>4, <3>1 DEF RowsInOrder
      <3>2. CASE t = target
        <4>1. a \in DOMAIN rows[target] /\ rows'[t][a] = rows[target][a]
          BY <2>2, <2>4, <3>2
        <4>2. CASE b \in DOMAIN rows[target]
          BY <2>0, <2>2, <2>4, <3>2, <4>1, <4>2 DEF RowsInOrder
        <4>3. CASE b = Len(rows[target]) + 1
          BY <2>2, <2>3, <3>2, <4>1, <4>3
        <4> QED
          BY <2>2, <3>2, <4>2, <4>3
      <3> QED
        BY <3>1, <3>2
    <2> QED
      BY <2>4 DEF RowsInOrder
  <1>3. rows' = rows \/ InsertRow
    BY DEF Next, Serve, Send, HangUp, CreateTable, DropTable, CopyRefused, CopyAccepted,
           Unsupported, Request, LoopEnds, PeekCopyData, CopyData, NextRow, NextNoRow,
           EndOfRows, Insert, CopyEnds, vars, tableVars
  <1> QED
    BY <1>1, <1>2, <1>3

-----------------------------------------------------------------------------
LEMMA InitLedger == Init => LedgerInv
  <1> SUFFICES ASSUME Init PROVE LedgerInv
    OBVIOUS
  <1>1. TypeOK
    <2>1. MaxTables \in Nat /\ MaxMessages \in Nat
      BY BoundsAssumption
    <2>2. stream = <<>> /\ Len(stream) = 0 /\ stream \in Seq(Kinds) /\ taken = 0
      BY DEF Init
    <2>3. created \in 0 .. 1 /\ table = created /\ target = 0 /\ current = 0
      BY DEF Init
    <2>4. /\ created \in 0 .. MaxTables /\ table \in 0 .. created /\ target \in 0 .. created
          /\ taken \in 0 .. Len(stream) /\ current \in 0 .. taken
      BY <2>1, <2>2, <2>3, BoundsAssumption
    <2>5. /\ rows \in [1 .. MaxTables -> Seq(Slots)]
          /\ owner \in [Slots -> 0 .. MaxMessages]
          /\ answers \in [Slots -> Seq(Answer)]
      BY <2>1 DEF Init
    <2>6. nCopy \in Nat /\ nFail \in Nat /\ gone \in BOOLEAN /\ pc = "loop"
      BY DEF Init
    <2> QED
      BY <2>1, <2>2, <2>4, <2>5, <2>6 DEF TypeOK
  <1>2. \A i : ~Stored(i)
    BY DEF Init, Stored
  <1>3. CopyIsOpen
    BY <1>2 DEF Init, CopyIsOpen
  <1>4. CountersMatch /\ OwnersAreKnown
    BY DEF Init, CountersMatch, OwnersAreKnown
  <1>5. CountedRowsAreStored
    BY DEF Init, CountedRowsAreStored
  <1> QED
    BY <1>1, <1>3, <1>4, <1>5 DEF LedgerInv, CopyInv

LEMMA NextLedger == LedgerInv /\ [Next]_vars => LedgerInv'
  <1> SUFFICES ASSUME LedgerInv, [Next]_vars PROVE LedgerInv'
    OBVIOUS
  <1>1. TypeOK /\ CopyIsOpen /\ CountersMatch /\ CountsTrue /\ RowsInOrder /\ OwnersAreKnown
    BY CountedParts DEF LedgerInv, CopyInv
  <1>2. TypeOK'
    BY <1>1, TypeStep
  <1>3. CopyIsOpen'
    BY <1>1, <1>2, OpenStep
  <1>4. CountersMatch' /\ OwnersAreKnown'
    BY <1>1, <1>2, LedgerStep DEF Ledger
  <1>5. CountsTrue' /\ RowsInOrder'
    BY <1>1, <1>2, CountsStep, OrderStep
  <1> QED
    BY <1>2, <1>3, <1>4, <1>5, CountedParts DEF LedgerInv, CopyInv

LEMMA LedgerHolds == Spec => []LedgerInv
  BY InitLedger, NextLedger, PTL DEF Spec

\* At every moment of a COPY its two counters are the rows it has stored and the
\* rows it has read and not stored, whatever other connections do to the table
\* (CopyStream, CopyIn of copy_stream.go).
THEOREM CopyInvariant == Spec => []CopyInv
  <1>1. LedgerInv => CopyInv
    BY DEF LedgerInv
  <1> QED
    BY <1>1, LedgerHolds, PTL

\* "COPY n" is answered only by a COPY that has stored all its rows, and n is
\* their number; it stays so, and the rows of a table are in the order they were
\* sent (NewCopyCompleteResponsesFrom of copy.go).
THEOREM CountsAreTrue == Spec => []CountedRowsAreStored
  <1>1. LedgerInv => CountedRowsAreStored
    BY DEF LedgerInv
  <1> QED
    BY <1>1, LedgerHolds, PTL

-----------------------------------------------------------------------------
(***************************************************************************)
(* No step takes back what was read, stored or answered.                   *)
(***************************************************************************)
LEMMA HasKept ==
    ASSUME TypeOK, NEW i \in Slots, NEW a \in Answer, Reply(i, a), NEW j \in Slots, NEW b
    PROVE  (Has(j, b) => Has(j, b)') /\ Has(i, a)'
  <1>1. answers'[i] = Append(answers[i], a) /\ (j # i => answers'[j] = answers[j])
    BY ReplyType
  <1>2. answers[i] \in Seq(Answer)
    BY DEF TypeOK
  <1>3. PICK m \in Nat : m = Len(answers[i])
    BY <1>2
  <1>4. /\ DOMAIN answers[i] = 1 .. m /\ DOMAIN answers'[i] = 1 .. m + 1
        /\ \A n \in 1 .. m : answers'[i][n] = answers[i][n]
        /\ answers'[i][m + 1] = a
    BY <1>1, <1>2, <1>3
  <1>5. m + 1 \in 1 .. m + 1 /\ \A n \in 1 .. m : n \in 1 .. m + 1
    BY <1>3
  <1>6. Has(i, a)'
    BY <1>4, <1>5 DEF Has
  <1>7. ASSUME Has(j, b) PROVE Has(j, b)'
    <2>1. CASE j = i
      BY <1>4, <1>5, <1>7, <2>1 DEF Has
    <2>2. CASE j # i
      BY <1>1, <1>7, <2>2 DEF Has
    <2> QED
      BY <2>1, <2>2
  <1> QED
    BY <1>6, <1>7

\* What is written in a step is added to what was written.
LEMMA AnswersKept ==
    ASSUME TypeOK, CopyIsOpen, [Next]_vars, NEW j \in Slots, NEW b, Has(j, b)
    PROVE  Has(j, b)'
  <1>0. /\ CopyIn \in Answer /\ Error \in Answer /\ [type |-> "Other"] \in Answer
        /\ Complete(nCopy) \in Answer
        /\ pc \notin {"loop", "closed"} => current \in Slots
    BY BoundsAssumption, AnswerType DEF TypeOK, CopyIsOpen, Slots
  <1>1. ASSUME UNCHANGED answers PROVE Has(j, b)'
    BY <1>1 DEF Has
  <1>2. CASE CopyRefused \/ CopyAccepted \/ Unsupported \/ Request
    <2>1. PICK kinds : Peeked(kinds)
      BY <1>2 DEF CopyRefused, CopyAccepted, Unsupported, Request
    <2>2. taken + 1 \in Slots
      BY <2>1, NextSlot
    <2> QED
      BY <1>0, <1>2, <2>2, HasKept DEF CopyRefused, CopyAccepted, Unsupported, Request
  <1>3. CASE PeekCopyData \/ CopyData
    <2>1. pc \notin {"loop", "closed"} /\ (Reply(current, Error) \/ UNCHANGED answers)
      BY <1>3 DEF PeekCopyData, CopyData, FailCopy
    <2> QED
      BY <1>0, <1>1, <2>1, HasKept
  <1>4. CASE CopyEnds
    <2>1. /\ pc \notin {"loop", "closed"}
          /\ Reply(current, Error) \/ Reply(current, Complete(nCopy))
      BY <1>4 DEF CopyEnds, FailCopy
    <2> QED
      BY <1>0, <2>1, HasKept
  <1>5. UNCHANGED answers \/ CopyRefused \/ CopyAccepted \/ Unsupported \/ Request
        \/ PeekCopyData \/ CopyData \/ CopyEnds
    BY DEF Next, Serve, vars, Send, HangUp, CreateTable, DropTable, LoopEnds, NextRow, NextNoRow,
           EndOfRows, Insert, InsertRow
  <1> QED
    BY <1>1, <1>2, <1>3, <1>4, <1>5

\* What has been read stays so, and is not read again.
LEMMA ReadKept ==
    ASSUME TypeOK, [Next]_vars
    PROVE  /\ \/ UNCHANGED <<taken, owner>>
              \/ /\ taken' = taken + 1 /\ UNCHANGED stream
                 /\ \E kinds : Peeked(kinds)
           /\ \A i \in 1 .. taken : stream'[i] = stream[i] /\ owner'[i] = owner[i]
  <1>0. /\ taken \in Nat /\ taken <= Len(stream) /\ Len(stream) \in Nat /\ MaxMessages \in Nat
        /\ current \in 0 .. MaxMessages /\ 0 \in 0 .. MaxMessages
        /\ \A i \in 1 .. taken : i \in Slots /\ i # taken + 1
    BY BoundsAssumption DEF TypeOK, Slots
  <1>1. ASSUME NEW kinds, Peeked(kinds), Take(0) \/ Take(current), UNCHANGED stream
        PROVE  /\ taken' = taken + 1
               /\ \A i \in 1 .. taken : stream'[i] = stream[i] /\ owner'[i] = owner[i]
    BY <1>0, <1>1, TakeType
  <1>2. ASSUME NEW kind \in Kinds, Send(kind)
        PROVE  \A i \in 1 .. taken : stream'[i] = stream[i]
    <2>1. \A i \in 1 .. Len(stream) : stream'[i] = stream[i]
      BY <1>2, AppendProperties DEF Send, TypeOK
    <2> QED
      BY <1>0, <2>1
  <1>3. \/ UNCHANGED <<taken, owner>> /\ (UNCHANGED stream \/ \E kind \in Kinds : Send(kind))
        \/ /\ \E kinds : Peeked(kinds)
           /\ Take(0) \/ Take(current)
           /\ UNCHANGED stream
    <2>1. CASE CopyRefused \/ CopyAccepted \/ Unsupported \/ Request \/ NextRow \/ NextNoRow
      BY <2>1 DEF CopyRefused, CopyAccepted, Unsupported, Request, NextRow, NextNoRow
    <2>2. ASSUME NEW place, EndOfRows(place)
          PROVE  \/ UNCHANGED <<stream, taken, owner>>
                 \/ /\ \E kinds : Peeked(kinds)
                    /\ Take(current) /\ UNCHANGED stream
      BY <2>2 DEF EndOfRows
    <2>3. CASE LoopEnds \/ PeekCopyData \/ CopyData \/ Insert \/ InsertRow \/ CopyEnds
      BY <2>3 DEF LoopEnds, PeekCopyData, CopyData, Insert, InsertRow, CopyEnds
    <2>4. CASE HangUp \/ CreateTable \/ DropTable \/ UNCHANGED vars
      BY <2>4 DEF HangUp, CreateTable, DropTable, vars
    <2>5. ASSUME NEW kind \in Kinds, Send(kind) PROVE UNCHANGED <<taken, owner>>
      BY <2>5 DEF Send
    <2> QED
      BY <2>1, <2>2, <2>3, <2>4, <2>5 DEF Next, Serve
  <1> QED
    BY <1>1, <1>2, <1>3

LEMMA RowsKept ==
    ASSUME TypeOK, CopyIsOpen, [Next]_vars, NEW i, Stored(i)
    PROVE  Stored(i)'
  <1>1. CASE rows' = rows
    BY <1>1, StoredKept
  <1>2. CASE InsertRow
    <2>1. taken \in Slots /\ target \in 1 .. MaxTables
      BY <1>2, BoundsAssumption DEF InsertRow, CopyIsOpen, TypeOK, Slots
    <2> QED
      BY <1>2, <2>1, StoredAppended DEF InsertRow
  <1>3. rows' = rows \/ InsertRow
    BY DEF Next, Serve, Send, HangUp, CreateTable, DropTable, CopyRefused, CopyAccepted,
           Unsupported, Request, LoopEnds, PeekCopyData, CopyData, NextRow, NextNoRow,
           EndOfRows, Insert, CopyEnds, vars, tableVars
  <1> QED
    BY <1>1, <1>2, <1>3

-----------------------------------------------------------------------------
(***************************************************************************)
(* No row is lost.                                                         *)
(***************************************************************************)

\* A COPY that is still to look for its first row has read none.
Fresh == pc = "peek" => Owned(current) = {}

LEMMA FreshStep ==
    ASSUME TypeOK, OwnersAreKnown, Fresh, [Next]_vars
    PROVE  Fresh'
  <1> SUFFICES ASSUME pc' = "peek" PROVE Owned(current)' = {}
    BY DEF Fresh
  <1>1. CASE CopyAccepted
    <2>1. /\ Peeked({"copy"}) /\ Take(0) /\ current' = taken + 1 /\ taken' = taken + 1
          /\ taken \in Nat /\ current \in 0 .. taken /\ 0 \in 0 .. MaxMessages
      BY <1>1, BoundsAssumption DEF CopyAccepted, Take, TypeOK
    <2>2. /\ owner'[taken + 1] = 0
          /\ \A i \in Slots \ {taken + 1} : owner'[i] = owner[i]
      BY <2>1, TakeType
    <2>3. ASSUME NEW i \in 1 .. taken + 1 PROVE owner'[i] # taken + 1
      <3>1. i \in Slots
        BY <2>1, NextSlot, BoundsAssumption DEF Slots
      <3>2. owner[i] <= taken /\ owner[i] \in Nat
        BY <2>1, <3>1 DEF OwnersAreKnown, TypeOK
      <3> QED
        BY <2>1, <2>2, <3>1, <3>2
    <2> QED
      BY <2>1, <2>3 DEF Owned
  <1>2. CASE pc = "peek" /\ UNCHANGED <<taken, owner, current>>
    BY <1>2 DEF Fresh, Owned
  <1>3. CopyAccepted \/ (pc = "peek" /\ UNCHANGED <<taken, owner, current>>)
    <2>1. CASE Serve
      BY <2>1 DEF Serve, CopyRefused, Unsupported, Request, LoopEnds, PeekCopyData, CopyData,
         NextRow, NextNoRow, EndOfRows, Insert, InsertRow, CopyEnds, FailCopy
    <2>2. CASE ~Serve
      BY <2>2 DEF Next, vars, Send, HangUp, CreateTable, DropTable
    <2> QED
      BY <2>1, <2>2
  <1> QED
    BY <1>1, <1>2, <1>3

\* A row is taken by the COPY that runs, or refused by the request loop.
LEMMA TakenRow ==
    ASSUME TypeOK, CopyIsOpen, [Next]_vars, NEW k, k = taken + 1, taken' = k, IsRow(k)
    PROVE  \/ owner'[k] = 0 /\ Has(k, Error)'
           \/ owner'[k] = current' /\ current' # 0 /\ pc' \notin {"loop", "closed"}
  <1>0. taken \in Nat /\ 0 \in 0 .. MaxMessages /\ current \in 0 .. MaxMessages
    BY BoundsAssumption DEF TypeOK
  <1>1. CASE Unsupported
    <2>1. PICK kinds : Peeked(kinds)
      BY <1>1 DEF Unsupported
    <2>2. k \in Slots /\ owner'[k] = 0 /\ Reply(k, Error)
      BY <1>0, <1>1, <2>1, NextSlot, TakeType DEF Unsupported
    <2> QED
      BY <2>2, HasKept, AnswerType
  <1>2. CASE NextRow
    <2>1. PICK kinds : Peeked(kinds)
      BY <1>2 DEF NextRow
    <2>2. /\ owner'[k] = current /\ current' = current /\ pc = "next"
          /\ pc' \in {"insert", "next"}
      BY <1>0, <1>2, <2>1, TakeType DEF NextRow
    <2> QED
      BY <2>2 DEF CopyIsOpen
  <1>3. CASE CopyRefused \/ CopyAccepted \/ Request \/ NextNoRow
             \/ \E place : EndOfRows(place) /\ Peeked({"done"})
    <2>1. PICK kinds : Peeked(kinds) /\ kinds \cap {"row", "bad"} = {}
      BY <1>3 DEF CopyRefused, CopyAccepted, Request, NextNoRow
    <2> QED
      BY <2>1, NextSlot DEF IsRow
  <1>4. Unsupported \/ NextRow \/ CopyRefused \/ CopyAccepted \/ Request \/ NextNoRow
        \/ \E place : EndOfRows(place) /\ Peeked({"done"})
    <2>1. taken' # taken
      BY <1>0
    <2> QED
      BY <2>1 DEF Next, Serve, vars, Send, HangUp, CreateTable, DropTable, LoopEnds,
         PeekCopyData, CopyData, EndOfRows, Insert, InsertRow, CopyEnds
  <1> QED
    BY <1>1, <1>2, <1>3, <1>4

\* A COPY that has read a row goes on, is answered with an error, or has stored
\* all it has read.
LEMMA RunningGoesOn ==
    ASSUME TypeOK, CopyIsOpen, CountersMatch, Fresh, [Next]_vars, NEW c, Running(c),
           NEW i \in 1 .. taken, owner[i] = c, IsRow(i), ~Stored(i)
    PROVE  Running(c)' \/ Has(c, Error)'
  <1>0. c \in Slots /\ c = current /\ pc \notin {"loop", "closed"}
    BY BoundsAssumption DEF TypeOK, CopyIsOpen, Running, Slots
  <1>1. ASSUME FailCopy PROVE Has(c, Error)'
    BY <1>0, <1>1, HasKept, AnswerType DEF FailCopy
  <1>2. CASE PeekCopyData
    BY <1>0, <1>2 DEF PeekCopyData, Fresh, Owned
  <1>3. CASE CopyEnds
    <2>1. CASE FailCopy
      BY <1>1, <2>1
    <2>2. CASE pc = "end" /\ nFail = 0
      <3>1. Cardinality(LostOf(c)) = 0
        BY <1>0, <2>2, Counters DEF CountersAre
      <3>2. LostOf(c) = {}
        BY <3>1, RowsFinite, FS_EmptySet
      <3>3. i \in LostOf(c)
        BY <1>0, <2>2 DEF LostOf, Owned, NotStored
      <3> QED
        BY <3>2, <3>3
    <2> QED
      BY <1>3, <2>1, <2>2 DEF CopyEnds
  <1>4. CASE CopyData
    BY <1>0, <1>1, <1>4 DEF CopyData, Running
  <1>5. \/ PeekCopyData \/ CopyEnds \/ CopyData
        \/ current' = current /\ pc' \notin {"loop", "closed"}
    <2>1. CASE Serve
      BY <1>0, <2>1 DEF Serve, CopyRefused, CopyAccepted, Unsupported, Request, LoopEnds,
         NextRow, NextNoRow, EndOfRows, Insert, InsertRow
    <2>2. CASE ~Serve
      BY <1>0, <2>2 DEF Next, vars, Send, HangUp, CreateTable, DropTable
    <2> QED
      BY <2>1, <2>2
  <1>6. CASE current' = current /\ pc' \notin {"loop", "closed"}
    BY <1>0, <1>6 DEF Running
  <1> QED
    BY <1>2, <1>3, <1>4, <1>5, <1>6

\* What NoRowIsLost says of one message.
Accounted(i) ==
    \/ Stored(i)
    \/ owner[i] # 0 /\ Running(owner[i])
    \/ owner[i] # 0 /\ Has(owner[i], Error)
    \/ owner[i] = 0 /\ Has(i, Error)

LEMMA NoRowIsLostStep ==
    ASSUME LedgerInv, Fresh, NoRowIsLost, [Next]_vars
    PROVE  NoRowIsLost'
  <1>0. /\ TypeOK /\ CopyIsOpen /\ CountersMatch
        /\ taken \in Nat /\ \A i \in 1 .. taken : i \in Slots /\ owner[i] \in 0 .. MaxMessages
    BY BoundsAssumption DEF LedgerInv, CopyInv, TypeOK, Slots
  <1>1. /\ taken' = taken \/ (taken' = taken + 1 /\ UNCHANGED stream)
        /\ \A i \in 1 .. taken : stream'[i] = stream[i] /\ owner'[i] = owner[i]
    BY <1>0, ReadKept
  <1>2. ASSUME NEW i \in 1 .. taken, IsRow(i)' PROVE Accounted(i)'
    <2>0. PICK c \in 0 .. MaxMessages : owner[i] = c
      BY <1>0
    <2>1. IsRow(i) /\ owner'[i] = c /\ i \in Slots
      BY <1>0, <1>1, <1>2, <2>0 DEF IsRow
    <2>2. CASE Stored(i)
      BY <1>0, <2>2, RowsKept DEF Accounted
    <2>3. CASE ~Stored(i) /\ c # 0 /\ Running(c)
      <3>1. Running(c)' \/ Has(c, Error)'
        BY <1>0, <2>0, <2>1, <2>3, RunningGoesOn
      <3> QED
        BY <2>1, <2>3, <3>1 DEF Accounted, Running, Has
    <2>4. CASE c # 0 /\ Has(c, Error)
      <3>1. c \in Slots
        BY <2>4, BoundsAssumption DEF Slots
      <3>2. Has(c, Error)'
        BY <1>0, <2>4, <3>1, AnswersKept
      <3> QED
        BY <2>1, <2>4, <3>2 DEF Accounted, Has
    <2>5. CASE c = 0 /\ Has(i, Error)
      BY <1>0, <2>1, <2>5, AnswersKept DEF Accounted
    <2> QED
      BY <2>0, <2>1, <2>2, <2>3, <2>4, <2>5 DEF NoRowIsLost
  <1>3. ASSUME NEW k, k = taken + 1, taken' = k, UNCHANGED stream, IsRow(k)' PROVE Accounted(k)'
    <2>1. IsRow(k)
      BY <1>3 DEF IsRow
    <2>2. \/ owner'[k] = 0 /\ Has(k, Error)'
          \/ owner'[k] = current' /\ current' # 0 /\ pc' \notin {"loop", "closed"}
      BY <1>0, <1>3, <2>1, TakenRow
    <2> QED
      BY <2>2 DEF Accounted, Running
  <1>4. ASSUME NEW i \in 1 .. taken', IsRow(i)' PROVE Accounted(i)'
    <2>1. i \in 1 .. taken \/ (i = taken + 1 /\ taken' = i /\ UNCHANGED stream)
      BY <1>0, <1>1
    <2> QED
      BY <1>2, <1>3, <1>4, <2>1
  <1> QED
    BY <1>4 DEF NoRowIsLost, Accounted

-----------------------------------------------------------------------------
(***************************************************************************)
(* CopyDone ends its COPY.  While only rows have followed a COPY it is the *)
(* one that runs, unless it has failed, or the next message is one that    *)
(* will end it and CopyDone no more than the first, or none will come.     *)
(***************************************************************************)
RowsSince(s) == stream[s] = "copy" /\ \A k \in (s + 1) .. taken : stream[k] = "row"
Active(s) == /\ current = s
             /\ \/ pc \in {"peek", "lookup"} /\ taken = s
                \/ pc \in {"next", "insert", "append"}
EndAhead(s) == /\ taken < Len(stream) /\ stream[taken + 1] \notin CopyDataKinds
               /\ stream[taken + 1] = "done" => taken = s
Course(s) == Has(s, Error) \/ Active(s) \/ EndAhead(s) \/ Ended

OnCourse == \A s \in 1 .. taken : RowsSince(s) => Course(s)

\* A step that reads no message.
LEMMA CourseKept ==
    ASSUME TypeOK, CopyIsOpen, [Next]_vars, taken' = taken, NEW s \in 1 .. taken, Course(s)
    PROVE  Course(s)'
  <1>0. taken \in Nat /\ Len(stream) \in Nat /\ s \in Slots
    BY BoundsAssumption DEF TypeOK, Slots
  <1>1. CASE Has(s, Error)
    BY <1>0, <1>1, AnswersKept DEF Course
  <1>2. CASE EndAhead(s)
    <2>1. ASSUME NEW kind \in Kinds, Send(kind) PROVE FALSE
      BY <1>2, <2>1 DEF Send, Waiting, EndAhead
    <2>2. UNCHANGED stream
      BY <2>1 DEF Next, Serve, vars, HangUp, CreateTable, DropTable, CopyRefused, CopyAccepted,
         Unsupported, Request, LoopEnds, PeekCopyData, CopyData, NextRow, NextNoRow, EndOfRows,
         Insert, InsertRow, CopyEnds
    <2> QED
      BY <1>2, <2>2 DEF EndAhead, Course
  <1>3. CASE Ended
    <2>1. UNCHANGED stream /\ gone'
      BY <1>3 DEF Next, Serve, vars, Send, HangUp, CreateTable, DropTable, CopyRefused,
         CopyAccepted, Unsupported, Request, LoopEnds, PeekCopyData, CopyData, NextRow,
         NextNoRow, EndOfRows, Insert, InsertRow, CopyEnds, Ended
    <2> QED
      BY <1>3, <2>1 DEF Ended, Course
  <1>4. CASE Active(s)
    <2>1. ASSUME FailCopy PROVE Has(s, Error)'
      BY <1>0, <1>4, <2>1, HasKept, AnswerType DEF FailCopy, Active
    <2>2. CASE UNCHANGED <<current, pc>>
      BY <1>4, <2>2 DEF Active, Course
    <2>3. CASE PeekCopyData
      <3>1. CASE Peeked(CopyDataKinds) /\ pc' = "lookup"
        BY <1>4, <2>3, <3>1 DEF PeekCopyData, Active, Course
      <3>2. CASE Peeked(Kinds \ CopyDataKinds) /\ pc' = "loop"
        BY <1>4, <2>3, <3>2 DEF PeekCopyData, Peeked, Active, EndAhead, Course
      <3> QED
        BY <2>1, <2>3, <3>1, <3>2 DEF PeekCopyData, Course
    <2>4. CASE CopyData
      BY <1>4, <2>1, <2>4 DEF CopyData, Active, Course
    <2>5. CASE Insert \/ InsertRow
      BY <1>4, <2>5 DEF Insert, InsertRow, Active, Course
    <2>6. CASE EndOfRows("next")
      <3>1. ~Take(current)
        BY <1>0 DEF Take
      <3>2. CASE Peeked(Kinds \ (CopyDataKinds \cup {"done"}))
        BY <2>6, <3>2 DEF EndOfRows, Peeked, EndAhead, Course
      <3>3. CASE Ended
        BY <1>3, <3>3
      <3> QED
        BY <2>6, <3>1, <3>2, <3>3 DEF EndOfRows
    <2>7. \/ UNCHANGED <<current, pc>>
          \/ PeekCopyData \/ CopyData \/ Insert \/ InsertRow \/ EndOfRows("next")
      <3>1. taken' # taken + 1 /\ pc \in {"peek", "lookup", "next", "insert", "append"}
        BY <1>0, <1>4 DEF Active
      <3> QED
        BY <3>1 DEF Next, Serve, vars, Send, HangUp, CreateTable, DropTable, CopyRefused,
           CopyAccepted, Unsupported, Request, LoopEnds, NextRow, NextNoRow, EndOfRows,
           CopyEnds, Take
    <2> QED
      BY <2>2, <2>3, <2>4, <2>5, <2>6, <2>7
  <1> QED
    BY <1>1, <1>2, <1>3, <1>4 DEF Course

\* The steps that read one.
LEMMA TakingSteps ==
    ASSUME TypeOK, [Next]_vars, taken' = taken + 1
    PROVE  \/ CopyRefused \/ CopyAccepted \/ Unsupported \/ Request \/ NextRow \/ NextNoRow
           \/ \E place \in {"next", "mark"} :
                EndOfRows(place) /\ Peeked({"done"}) /\ Take(current)
  <1>1. taken' # taken
    BY DEF TypeOK
  <1> QED
    BY <1>1 DEF Next, Serve, vars, Send, HangUp, CreateTable, DropTable, LoopEnds,
       PeekCopyData, CopyData, EndOfRows, Insert, InsertRow, CopyEnds

\* A row that follows a COPY and its rows.
LEMMA CourseOfRow ==
    ASSUME TypeOK, CopyIsOpen, [Next]_vars, NEW k, k = taken + 1, taken' = k,
           stream[k] = "row", NEW s \in 1 .. taken, Course(s)
    PROVE  Course(s)'
  <1>0. /\ s \in Slots /\ taken \in Nat /\ "row" \in CopyDataKinds
        /\ ~EndAhead(s) /\ (Ended => ~Peeked({"row", "bad"}))
    BY BoundsAssumption DEF TypeOK, Slots, EndAhead, CopyDataKinds, Ended, Peeked
  <1>1. CASE Has(s, Error)
    BY <1>0, <1>1, AnswersKept DEF Course
  <1>2. CASE Active(s) /\ ~Has(s, Error)
    <2>1. PICK kinds : Peeked(kinds)
      BY ReadKept, <1>0
    <2>2. CASE NextRow
      BY <1>2, <2>2 DEF NextRow, Active, Course
    <2>3. ~NextRow => FALSE
      <3>1. CASE NextNoRow \/ \E place \in {"next", "mark"} : EndOfRows(place) /\ Peeked({"done"})
        <4>1. PICK other : Peeked(other) /\ "row" \notin other
          BY <3>1 DEF NextNoRow
        <4> QED
          BY <4>1, NextSlot
      <3>2. CASE pc = "loop"
        BY <1>2, <3>2 DEF Active
      <3> QED
        BY <3>1, <3>2, TakingSteps DEF CopyRefused, CopyAccepted, Unsupported, Request
    <2> QED
      BY <2>2, <2>3
  <1>3. CASE Ended
    <2>1. PICK kinds : Peeked(kinds)
      BY ReadKept, <1>0
    <2> QED
      BY <1>0, <1>3, <2>1 DEF Ended, Peeked
  <1> QED
    BY <1>0, <1>1, <1>2, <1>3 DEF Course

\* A COPY that is read runs, or is refused.
LEMMA CourseOfCopy ==
    ASSUME TypeOK, [Next]_vars, NEW k, k = taken + 1, taken' = k, stream[k] = "copy"
    PROVE  Course(k)'
  <1>1. CASE CopyAccepted
    BY <1>1 DEF CopyAccepted, Active, Course
  <1>2. CASE CopyRefused
    <2>1. PICK kinds : Peeked(kinds)
      BY <1>2 DEF CopyRefused
    <2>2. k \in Slots /\ Reply(k, Error)
      BY <1>2, <2>1, NextSlot DEF CopyRefused
    <2>3. Has(k, Error)'
      BY <2>2, HasKept, AnswerType
    <2> QED
      BY <2>3 DEF Course
  <1>3. CASE Unsupported \/ Request \/ NextRow \/ NextNoRow
             \/ \E place \in {"next", "mark"} : EndOfRows(place) /\ Peeked({"done"})
    <2>1. PICK kinds : Peeked(kinds) /\ "copy" \notin kinds
      BY <1>3 DEF Unsupported, Request, NextRow, NextNoRow, CopyDataKinds
    <2> QED
      BY <2>1, NextSlot
  <1> QED
    BY <1>1, <1>2, <1>3, TakingSteps

LEMMA CourseStep ==
    ASSUME TypeOK, CopyIsOpen, OnCourse, [Next]_vars
    PROVE  OnCourse'
  <1>0. taken \in Nat
    BY DEF TypeOK
  <1>1. SUFFICES ASSUME NEW s \in 1 .. taken', RowsSince(s)' PROVE Course(s)'
    BY DEF OnCourse
  <1>2. /\ taken' = taken \/ (taken' = taken + 1 /\ UNCHANGED stream)
        /\ \A i \in 1 .. taken : stream'[i] = stream[i]
    BY ReadKept
  <1>3. ASSUME s \in 1 .. taken PROVE Course(s)
    <2>1. \A k \in (s + 1) .. taken : k \in 1 .. taken /\ k \in (s + 1) .. taken'
      BY <1>0, <1>2, <1>3
    <2>2. RowsSince(s)
      BY <1>1, <1>2, <1>3, <2>1 DEF RowsSince
    <2> QED
      BY <1>3, <2>2 DEF OnCourse
  <1>4. CASE taken' = taken
    BY <1>1, <1>3, <1>4, CourseKept
  <1>5. CASE taken' = taken + 1 /\ UNCHANGED stream
    <2>1. PICK k : k = taken + 1
      OBVIOUS
    <2>2. CASE s = k
      BY <1>1, <1>5, <2>1, <2>2, CourseOfCopy DEF RowsSince
    <2>3. CASE s \in 1 .. taken
      <3>1. k \in (s + 1) .. taken'
        BY <1>0, <1>5, <2>1, <2>3
      <3>2. stream[k] = "row"
        BY <1>1, <1>5, <3>1 DEF RowsSince
      <3> QED
        BY <1>3, <1>5, <2>1, <2>3, <3>2, CourseOfRow
    <2> QED
      BY <1>0, <1>1, <1>5, <2>1, <2>2, <2>3
  <1> QED
    BY <1>2, <1>4, <1>5

\* The CopyDone that follows is taken by the COPY, or by the request loop when
\* the COPY has failed.
LEMMA TakenDone ==
    ASSUME TypeOK, CopyIsOpen, OnCourse, [Next]_vars, NEW k, k = taken + 1, taken' = k,
           stream[k] = "done", NEW s \in 1 .. (k - 2), RowsBetween(s, k)
    PROVE  owner'[k] = s \/ Has(s, Error)
  <1>0. /\ taken \in Nat /\ s \in 1 .. taken /\ s # taken
        /\ current \in 0 .. MaxMessages /\ "done" \notin CopyDataKinds
    BY BoundsAssumption DEF TypeOK, CopyDataKinds
  <1>1. RowsSince(s)
    BY <1>0 DEF RowsBetween, RowsSince
  <1>2. PICK kinds : Peeked(kinds)
    BY ReadKept, <1>0
  <1>3. ~EndAhead(s) /\ ~Ended
    BY <1>0, <1>2 DEF EndAhead, Ended, Peeked
  <1>4. CASE Active(s)
    <2>1. CASE \E place \in {"next", "mark"} :
                 EndOfRows(place) /\ Peeked({"done"}) /\ Take(current)
      <3>1. owner'[k] = current
        BY <1>0, <2>1, TakeType
      <3> QED
        BY <1>4, <3>1 DEF Active
    <2>2. CASE NextRow \/ NextNoRow
      <3>1. PICK other : Peeked(other) /\ "done" \notin other
        BY <2>2 DEF NextRow, NextNoRow
      <3> QED
        BY <3>1, NextSlot
    <2>3. pc # "loop"
      BY <1>4 DEF Active
    <2> QED
      BY <2>1, <2>2, <2>3, TakingSteps DEF CopyRefused, CopyAccepted, Unsupported, Request
  <1> QED
    BY <1>0, <1>1, <1>3, <1>4 DEF OnCourse, Course

LEMMA DoneStep ==
    ASSUME TypeOK, CopyIsOpen, OnCourse, DoneEndsItsCopy, [Next]_vars
    PROVE  DoneEndsItsCopy'
  <1>0. taken \in Nat /\ taken <= MaxMessages /\ MaxMessages \in Nat
    BY BoundsAssumption DEF TypeOK
  <1>1. SUFFICES ASSUME NEW i \in 1 .. taken', NEW s \in 1 .. (i - 2),
                        stream'[i] = "done", RowsBetween(s, i)'
                 PROVE  owner'[i] = s \/ Has(s, Error)'
    BY DEF DoneEndsItsCopy
  <1>2. /\ taken' = taken \/ (taken' = taken + 1 /\ UNCHANGED stream)
        /\ \A j \in 1 .. taken : stream'[j] = stream[j] /\ owner'[j] = owner[j]
    BY ReadKept
  <1>3. ASSUME i \in 1 .. taken PROVE owner'[i] = s \/ Has(s, Error)'
    <2>1. s \in 1 .. taken /\ s \in Slots /\ \A k \in (s + 1) .. (i - 1) : k \in 1 .. taken
      BY <1>0, <1>3 DEF Slots
    <2>2. stream[i] = "done" /\ RowsBetween(s, i)
      BY <1>1, <1>2, <1>3, <2>1 DEF RowsBetween
    <2>3. owner[i] = s \/ Has(s, Error)
      BY <1>3, <2>2 DEF DoneEndsItsCopy
    <2> QED
      BY <1>2, <1>3, <2>1, <2>3, AnswersKept
  <1>4. ASSUME i = taken + 1, taken' = i, UNCHANGED stream
        PROVE  owner'[i] = s \/ Has(s, Error)'
    <2>1. stream[i] = "done" /\ RowsBetween(s, i)
      BY <1>1, <1>4 DEF RowsBetween
    <2>2. s \in Slots
      BY <1>0, <1>4 DEF Slots
    <2> QED
      BY <1>4, <2>1, <2>2, TakenDone, AnswersKept
  <1> QED
    BY <1>0, <1>2, <1>3, <1>4

\* A row that was read is stored, or answered with an error, or belongs to a COPY
\* that still runs: no failure of the table, of the row or of the client makes
\* one disappear (CopyStream, NewCopyCompleteResponsesFrom).
THEOREM RowsAreNotLost == Spec => []NoRowIsLost
  <1>1. Init => Fresh /\ NoRowIsLost
    BY DEF Init, Fresh, NoRowIsLost
  <1>2. LedgerInv => TypeOK /\ CopyIsOpen /\ OwnersAreKnown
    BY DEF LedgerInv, CopyInv
  <1>3. LedgerInv /\ Fresh /\ [Next]_vars => Fresh'
    BY <1>2, FreshStep
  <1> QED
    BY <1>1, <1>3, NoRowIsLostStep, LedgerHolds, PTL DEF Spec

\* A CopyDone is never taken for a request when it ends the rows of a COPY that
\* has not failed (handleCopyQuery, IsCopyDone).
THEOREM DoneIsTaken == Spec => []DoneEndsItsCopy
  <1>1. Init => OnCourse /\ DoneEndsItsCopy
    BY DEF Init, OnCourse, DoneEndsItsCopy
  <1>2. LedgerInv => TypeOK /\ CopyIsOpen
    BY DEF LedgerInv, CopyInv
  <1>3. LedgerInv /\ OnCourse /\ DoneEndsItsCopy /\ [Next]_vars
          => OnCourse' /\ DoneEndsItsCopy'
    BY <1>2, CourseStep, DoneStep
  <1> QED
    BY <1>1, <1>3, LedgerHolds, PTL DEF Spec

=============================================================================
