------------------------ MODULE MessageReaderProofs ------------------------
(***************************************************************************)
(* The requests are cut out of the stream where the client's messages end, *)
(* for any kinds of messages and any segments, up to the first value of    *)
(* which one Read of the connection returns a part.                        *)
(***************************************************************************)
EXTENDS MessageReader, SequenceTheorems, TLAPS

-----------------------------------------------------------------------------
\* The fields of a message lie end to end, and each has a byte.
LEMMA FieldsInOrder ==
    ASSUME TypeOK, NEW m \in Sent
    PROVE  /\ Fields(m) \in Seq(Nat \ {0}) /\ Len(Fields(m)) \in Nat \ {0}
           /\ sent[m].start \in Nat \ {0} /\ sent[m].kind \in Kinds
           /\ LastByte(m) \in Nat /\ LastByte(m) >= sent[m].start
           /\ Before(m, 1) = sent[m].start - 1
           /\ \A f \in DOMAIN Fields(m) :
                /\ Before(m, f) \in Nat /\ Through(m, f) \in Nat
                /\ sent[m].start <= Before(m, f) + 1 /\ Through(m, f) <= LastByte(m)
                /\ Width(m, f) \in Nat \ {0}
                /\ Before(m, f) + Width(m, f) = Through(m, f)
                /\ f < Len(Fields(m)) => /\ f + 1 \in DOMAIN Fields(m)
                                         /\ Before(m, f + 1) = Through(m, f)
  <1>1. sent[m] \in [kind : Kinds, start : Nat \ {0}]
    <2>1. sent \in Seq([kind : Kinds, start : Nat \ {0}]) /\ m \in 1 .. Len(sent)
      BY DEF TypeOK, Sent
    <2>2. QED
      BY <2>1, ElementOfSeq
  <1>2. /\ Fields(m) \in Seq(Nat \ {0}) /\ Len(Fields(m)) > 0
        /\ \A f, g \in 1 .. Len(Fields(m)) : f < g => Fields(m)[f] < Fields(m)[g]
    BY <1>1, ShapesAssumption DEF Fields
  <1>3. LastByte(m) \in Nat /\ LastByte(m) >= sent[m].start
    BY <1>1, <1>2 DEF LastByte, Through
  <1>4. ASSUME NEW f \in DOMAIN Fields(m)
        PROVE  /\ Before(m, f) \in Nat /\ Through(m, f) \in Nat
               /\ sent[m].start <= Before(m, f) + 1 /\ Through(m, f) <= LastByte(m)
               /\ Width(m, f) \in Nat \ {0}
               /\ Before(m, f) + Width(m, f) = Through(m, f)
               /\ f < Len(Fields(m)) => /\ f + 1 \in DOMAIN Fields(m)
                                        /\ Before(m, f + 1) = Through(m, f)
    <2>1. f \in 1 .. Len(Fields(m)) /\ Fields(m)[f] \in Nat \ {0}
      BY <1>2
    <2>2. f # 1 => Fields(m)[f - 1] \in Nat \ {0} /\ Fields(m)[f - 1] < Fields(m)[f]
      <3>1. f # 1 => f - 1 \in 1 .. Len(Fields(m)) /\ f - 1 < f
        BY <1>2, <2>1
      <3>2. QED
        BY <1>2, <2>1, <3>1
    <2>3. sent[m].start \in Nat \ {0}
      BY <1>1
    <2>4. /\ Through(m, f) \in Nat /\ Before(m, f) \in Nat /\ Before(m, f) < Through(m, f)
          /\ sent[m].start <= Before(m, f) + 1
      <3>1. CASE f = 1
        <4>1. Before(m, f) = sent[m].start - 1
          BY ONLY <2>3, <3>1, 0 \in Nat DEF Before
        <4>2. Through(m, f) = sent[m].start - 1 + Fields(m)[f]
          BY DEF Through
        <4>3. QED
          BY <2>1, <2>3, <4>1, <4>2
      <3>2. CASE f # 1
        <4>1. Before(m, f) = sent[m].start - 1 + Fields(m)[f - 1]
          BY <3>2 DEF Before
        <4>2. Through(m, f) = sent[m].start - 1 + Fields(m)[f]
          BY DEF Through
        <4>3. QED
          <5>1. PICK a : a = Fields(m)[f - 1]
            OBVIOUS
          <5>2. PICK b, s : b = Fields(m)[f] /\ s = sent[m].start
            OBVIOUS
          <5>3. a \in Nat /\ b \in Nat /\ a < b /\ s \in Nat \ {0}
            BY <2>1, <2>2, <2>3, <3>2, <5>1, <5>2
          <5>4. /\ s - 1 + b \in Nat /\ s - 1 + a \in Nat /\ s - 1 + a < s - 1 + b
                /\ s <= (s - 1 + a) + 1
            BY ONLY <5>3
          <5>5. Before(m, f) = s - 1 + a /\ Through(m, f) = s - 1 + b
            BY <4>1, <4>2, <5>1, <5>2, Zenon
          <5> QED
            BY <5>2, <5>4, <5>5, Zenon
      <3>3. QED
        BY <3>1, <3>2
    <2>5. Width(m, f) \in Nat \ {0} /\ Before(m, f) + Width(m, f) = Through(m, f)
      BY <2>4 DEF Width
    <2>6. ASSUME f < Len(Fields(m))
          PROVE  f + 1 \in DOMAIN Fields(m) /\ Before(m, f + 1) = Through(m, f)
      <3>1. f + 1 \in DOMAIN Fields(m) /\ f + 1 # 1 /\ (f + 1) - 1 = f
        BY <1>2, <2>1, <2>6
      <3>2. QED
        BY ONLY <2>3, <3>1, 0 \in Nat DEF Before, Through
    <2>7. Through(m, f) <= LastByte(m)
      <3>1. PICK n : n = Len(Fields(m))
        OBVIOUS
      <3>2. n \in Nat /\ f \in 1 .. n /\ n \in 1 .. n
        BY <1>2, <2>1, <3>1
      <3>3. CASE f = n
        BY <2>4, <3>1, <3>3 DEF LastByte
      <3>4. CASE f # n
        <4>1. PICK a, b : a = Fields(m)[f] /\ b = Fields(m)[n]
          OBVIOUS
        <4>2. a \in Nat /\ b \in Nat /\ a < b
          BY <1>2, <2>1, <3>1, <3>2, <3>4, <4>1
        <4>3. Through(m, f) = sent[m].start - 1 + a /\ LastByte(m) = sent[m].start - 1 + b
          BY <3>1, <4>1 DEF LastByte, Through
        <4>4. QED
          BY ONLY <2>3, <4>2, <4>3
      <3>5. QED
        BY <3>3, <3>4
    <2>8. QED
      BY <2>4, <2>5, <2>6, <2>7
  <1>5. QED
    BY <1>1, <1>2, <1>3, <1>4 DEF Before

\* A byte behind a message begins the next one.
LEMMA NextMessage ==
    ASSUME TypeOK, EndToEnd, NEW m \in Sent, LastByte(m) < written
    PROVE  m + 1 \in Sent /\ sent[m + 1].start = LastByte(m) + 1
  <1>1. m \in Nat /\ m <= Len(sent) /\ Len(sent) \in Nat /\ sent # <<>>
    BY DEF Sent, TypeOK
  <1>2. m # Len(sent)
    BY <1>1, FieldsInOrder DEF EndToEnd
  <1>3. QED
    BY <1>1, <1>2 DEF EndToEnd, Sent

\* No message begins within a field of another.
LEMMA NoMessageWithin ==
    ASSUME TypeOK, EndToEnd, CutShort, NEW m \in Sent
    PROVE  sent[m].start # Unread + 1
  <1>1. PICK s, b, t, l, u : /\ s = sent[msg].start /\ b = Before(msg, field)
                             /\ t = Through(msg, field) /\ l = LastByte(msg) /\ u = Unread
    OBVIOUS
  <1>2. /\ s \in Nat /\ b \in Nat /\ t \in Nat /\ l \in Nat
        /\ s <= b + 1 /\ t <= l /\ b < u /\ u < t
    BY <1>1, FieldsInOrder DEF CutShort
  <1>3. u \in Int
    BY <1>1 DEF Unread, TypeOK
  <1>4. /\ m \in Nat /\ msg \in Nat /\ msg \in Sent
        /\ sent[m].start \in Nat /\ LastByte(m) \in Nat /\ sent[m].start <= LastByte(m)
    <2>1. m \in Nat /\ msg \in Nat /\ msg \in Sent
      BY DEF CutShort, Sent
    <2>2. sent[m].start \in Nat \ {0} /\ LastByte(m) \in Nat /\ LastByte(m) >= sent[m].start
      BY FieldsInOrder
    <2>3. QED
      BY <2>1, <2>2
  <1>5. CASE m = msg
    BY <1>1, <1>2, <1>3, <1>5
  <1>6. CASE m < msg
    <2>1. LastByte(m) < s
      BY <1>1, <1>4, <1>6 DEF EndToEnd
    <2>2. QED
      BY <1>1, <1>2, <1>3, <1>4, <2>1
  <1>7. CASE msg < m
    <2>1. l < sent[m].start
      BY <1>1, <1>4, <1>7 DEF EndToEnd
    <2>2. QED
      BY <1>1, <1>2, <1>3, <1>4, <2>1
  <1>8. QED
    BY <1>4, <1>5, <1>6, <1>7

-----------------------------------------------------------------------------
LEMMA InitStream == Init => StreamInv
  <1> SUFFICES ASSUME Init PROVE StreamInv
    OBVIOUS
  <1>1. Sent = {} /\ Len(sent) = 0 /\ Len(buf) = 0 /\ Len(peekBuf) = 0
    BY DEF Init, Sent
  <1>2. TypeOK
    <2>1. <<>> \in Seq([kind : Kinds, start : Nat \ {0}]) /\ <<>> \in Seq(Nat)
      BY EmptySeq
    <2>2. msg \in 0 .. Len(sent) /\ pc # "decode"
      BY <1>1 DEF Init
    <2>3. sent = <<>> /\ buf = <<>> /\ peekBuf = <<>>
      BY DEF Init
    <2>4. QED
      BY <2>1, <2>2, <2>3 DEF Init, TypeOK
  <1>3. BytesInOrder /\ FieldsAreWhole /\ Unread = 0
    <2>0. taken = 0
      BY DEF Init
    <2>1. Unread = 0
      BY <1>1, <2>0 DEF Unread
    <2>2. DOMAIN buf = {} /\ DOMAIN peekBuf = {}
      BY DEF Init
    <2>3. QED
      BY <1>1, <2>1, <2>2 DEF Init, BytesInOrder, FieldsAreWhole
  <1>4. EndToEnd
    BY <1>1 DEF Init, EndToEnd
  <1>5. LengthSize \in Nat
    BY ShapesAssumption DEF LengthSize
  <1>6. StandsAt
    BY <1>3, <1>5 DEF Init, StandsAt
  <1>7. QED
    BY <1>2, <1>3, <1>4, <1>6 DEF StreamInv

-----------------------------------------------------------------------------
(***************************************************************************)
(* The parts of the invariant that a step leaves alone.                    *)
(***************************************************************************)

\* What is known of the buffers, with the numbers typed.
Buffers ==
    /\ Len(buf) \in Nat /\ Len(peekBuf) \in Nat /\ Unread \in Nat
    /\ DOMAIN buf = 1 .. Len(buf) /\ DOMAIN peekBuf = 1 .. Len(peekBuf)
    /\ taken \in Nat /\ arrived \in Nat /\ written \in Nat
    /\ taken = Unread + Len(buf) + Len(peekBuf)
    /\ buf = <<>> <=> Len(buf) = 0
    /\ peekBuf = <<>> <=> Len(peekBuf) = 0

LEMMA BufferTypes == ASSUME TypeOK, BytesInOrder PROVE Buffers
  <1>1. buf \in Seq(Nat) /\ peekBuf \in Seq(Nat)
    BY DEF TypeOK
  <1>2. /\ Len(buf) \in Nat /\ Len(peekBuf) \in Nat
        /\ DOMAIN buf = 1 .. Len(buf) /\ DOMAIN peekBuf = 1 .. Len(peekBuf)
        /\ buf = <<>> <=> Len(buf) = 0
        /\ peekBuf = <<>> <=> Len(peekBuf) = 0
    BY <1>1, EmptySeq, LenProperties
  <1>3. /\ taken \in Nat /\ arrived \in Nat /\ written \in Nat
        /\ Len(peekBuf) + Len(buf) <= taken
    BY DEF TypeOK, BytesInOrder
  <1>4. Unread \in Nat /\ taken = Unread + Len(buf) + Len(peekBuf)
    BY <1>2, <1>3 DEF Unread
  <1>5. QED
    BY <1>2, <1>3, <1>4 DEF Buffers

\* One turn of ReadBytes moves bytes into buf and hands none out.
LEMMA ChunkInOrder ==
    ASSUME TypeOK, BytesInOrder, NEW n \in Nat, ReadChunk(n)
    PROVE  /\ BytesInOrder' /\ Unread' = Unread
           /\ taken' \in Nat /\ buf' \in Seq(Nat) /\ peekBuf' \in Seq(Nat)
           /\ Len(buf') \in Nat /\ Len(buf') <= n /\ Len(buf') > 0
           /\ peekBuf # <<>> => Len(buf') + Len(peekBuf') = Len(buf) + Len(peekBuf)
           /\ peekBuf = <<>> => peekBuf' = <<>>
           /\ ~AtEnd
  <1>0. Buffers
    BY BufferTypes
  <1> USE <1>0 DEF Buffers
  <1>1. CASE peekBuf # <<>>
    <2>1. /\ buf' = Append(buf, Head(peekBuf)) /\ peekBuf' = Tail(peekBuf)
          /\ taken' = taken /\ arrived' = arrived /\ written' = written
          /\ Len(buf) < n
      BY <1>1 DEF ReadChunk, client
    <2>2. /\ Head(peekBuf) \in Nat /\ Tail(peekBuf) \in Seq(Nat)
          /\ Len(Tail(peekBuf)) = Len(peekBuf) - 1
          /\ \A i \in 1 .. Len(Tail(peekBuf)) : Tail(peekBuf)[i] = peekBuf[i + 1]
      BY <1>1, HeadTailProperties DEF TypeOK
    <2>3. Head(peekBuf) = Unread + Len(buf) + 1
      <3>1. Head(peekBuf) = peekBuf[1] /\ 1 \in DOMAIN peekBuf
        BY <1>1 DEF TypeOK
      <3>2. QED
        BY <3>1 DEF BytesInOrder
    <2>4. /\ buf' \in Seq(Nat) /\ Len(buf') = Len(buf) + 1
          /\ \A i \in 1 .. Len(buf) : buf'[i] = buf[i]
          /\ buf'[Len(buf) + 1] = Head(peekBuf)
      BY <2>1, <2>2, AppendProperties DEF TypeOK
    <2>5. Len(peekBuf') = Len(peekBuf) - 1 /\ peekBuf' \in Seq(Nat)
      BY <2>1, <2>2
    <2>6. Unread' = Unread
      BY <2>1, <2>4, <2>5 DEF Unread
    <2>7. /\ DOMAIN buf' = 1 .. Len(buf) + 1
          /\ DOMAIN peekBuf' = 1 .. Len(peekBuf) - 1
      BY <2>4, <2>5, LenProperties
    <2>8. \A i \in DOMAIN buf' : buf'[i] = Unread' + i
      <3>1. ASSUME NEW i \in 1 .. Len(buf) + 1 PROVE buf'[i] = Unread + i
        <4>1. CASE i = Len(buf) + 1
          BY <2>3, <2>4, <4>1
        <4>2. CASE i \in 1 .. Len(buf)
          BY <2>4, <4>2 DEF BytesInOrder
        <4>3. QED
          BY <4>1, <4>2
      <3>2. QED
        BY <2>6, <2>7, <3>1
    <2>9. \A i \in DOMAIN peekBuf' : peekBuf'[i] = Unread' + Len(buf') + i
      <3>1. ASSUME NEW i \in 1 .. Len(peekBuf) - 1
            PROVE  peekBuf'[i] = Unread + (Len(buf) + 1) + i
        <4>1. peekBuf'[i] = peekBuf[i + 1] /\ i + 1 \in DOMAIN peekBuf
          BY <2>1, <2>2
        <4>2. peekBuf[i + 1] = Unread + Len(buf) + (i + 1)
          BY <4>1 DEF BytesInOrder
        <4>3. QED
          BY <4>1, <4>2
      <3>2. QED
        BY <2>4, <2>6, <2>7, <3>1
    <2>10. BytesInOrder'
      <3>1. taken' <= arrived' /\ arrived' <= written'
        BY <2>1 DEF BytesInOrder
      <3>2. Len(peekBuf') + Len(buf') <= taken'
        BY <2>1, <2>4, <2>5 DEF BytesInOrder
      <3>3. QED
        BY <2>8, <2>9, <3>1, <3>2 DEF BytesInOrder
    <2>11. ~AtEnd
      BY <1>1 DEF AtEnd
    <2>12. QED
      BY <1>1, <2>1, <2>4, <2>5, <2>6, <2>10, <2>11
  <1>2. CASE peekBuf = <<>>
    <2>1. PICK k \in 1 .. n - Len(buf) :
            /\ taken + k <= arrived /\ taken' = taken + k
            /\ buf' = buf \o Span(taken, taken + k)
            /\ peekBuf' = <<>> /\ arrived' = arrived /\ written' = written
            /\ Len(buf) < n
      BY <1>2 DEF ReadChunk, client
    <2>2. /\ Span(taken, taken + k) \in Seq(Nat) /\ Len(Span(taken, taken + k)) = k
          /\ \A i \in 1 .. k : Span(taken, taken + k)[i] = taken + i
      <3>1. (taken + k) - taken = k /\ k \in Nat
        OBVIOUS
      <3>2. Span(taken, taken + k) = [i \in 1 .. k |-> taken + i]
        BY <3>1 DEF Span
      <3>3. Span(taken, taken + k) \in [1 .. k -> Nat]
        BY <3>2
      <3>4. Span(taken, taken + k) \in Seq(Nat)
        BY <3>1, <3>3, SeqDef
      <3>5. Len(Span(taken, taken + k)) = k
        BY <3>1, <3>2, <3>4, LenProperties
      <3>6. QED
        BY <3>2, <3>4, <3>5
    <2>3. /\ buf' \in Seq(Nat) /\ Len(buf') = Len(buf) + k
          /\ \A i \in 1 .. Len(buf) + k :
               buf'[i] = IF i <= Len(buf) THEN buf[i]
                         ELSE Span(taken, taken + k)[i - Len(buf)]
      <3>1. buf \in Seq(Nat)
        BY DEF TypeOK
      <3>2. LET s == Span(taken, taken + k)
            IN  /\ buf \o s \in Seq(Nat) /\ Len(buf \o s) = Len(buf) + Len(s)
                /\ \A i \in 1 .. Len(buf) + Len(s) :
                     (buf \o s)[i] = IF i <= Len(buf) THEN buf[i] ELSE s[i - Len(buf)]
        <4>1. Span(taken, taken + k) \in Seq(Nat)
          BY <2>2
        <4>2. QED
          BY <3>1, <4>1, ConcatProperties
      <3>3. buf' = buf \o Span(taken, taken + k) /\ Len(Span(taken, taken + k)) = k
        BY <2>1, <2>2
      <3>4. QED
        BY <3>2, <3>3
    <2>4. Len(peekBuf) = 0 /\ Len(peekBuf') = 0 /\ taken = Unread + Len(buf)
      <3>1. Len(peekBuf) = 0 /\ peekBuf' = peekBuf
        BY <1>2, <2>1
      <3>2. QED
        BY <3>1
    <2>5. Unread' = Unread
      <3>1. taken' = taken + k /\ Len(buf') = Len(buf) + k /\ Len(peekBuf') = Len(peekBuf)
        BY <2>1, <2>3, <2>4
      <3>2. taken' - (Len(peekBuf') + Len(buf')) = taken - (Len(peekBuf) + Len(buf))
        BY <2>4, <3>1
      <3>3. QED
        BY <3>2 DEF Unread
    <2>6. DOMAIN buf' = 1 .. Len(buf) + k /\ DOMAIN peekBuf' = {}
      <3>1. DOMAIN buf' = 1 .. Len(buf')
        BY <2>3, LenProperties
      <3>2. QED
        BY <2>1, <2>3, <3>1
    <2>7. \A i \in DOMAIN buf' : buf'[i] = Unread' + i
      <3>1. ASSUME NEW i \in 1 .. Len(buf) + k PROVE buf'[i] = Unread + i
        <4>1. CASE i <= Len(buf)
          <5>1. i \in DOMAIN buf /\ buf'[i] = buf[i]
            BY <2>3, <4>1
          <5>2. QED
            BY <5>1 DEF BytesInOrder
        <4>2. CASE i > Len(buf)
          <5>1. i - Len(buf) \in 1 .. k /\ buf'[i] = Span(taken, taken + k)[i - Len(buf)]
            BY <2>3, <4>2
          <5>2. buf'[i] = taken + (i - Len(buf))
            BY <2>2, <5>1
          <5>3. QED
            BY <2>4, <5>2
        <4>3. QED
          BY <4>1, <4>2
      <3>2. QED
        BY <2>5, <2>6, <3>1
    <2>8. BytesInOrder'
      <3>1. taken' <= arrived' /\ arrived' <= written'
        BY <2>1 DEF BytesInOrder
      <3>2. Len(peekBuf') + Len(buf') <= taken'
        BY <2>1, <2>3, <2>4
      <3>3. QED
        BY <2>6, <2>7, <3>1, <3>2 DEF BytesInOrder
    <2>9. ~AtEnd
      BY <2>1 DEF AtEnd
    <2>10. QED
      BY <1>2, <2>1, <2>3, <2>5, <2>8, <2>9
  <1>3. QED
    BY <1>1, <1>2

\* A peek puts its bytes back where they were.
LEMMA PutBackInOrder ==
    ASSUME TypeOK, BytesInOrder, PutBack, peekBuf = <<>>
    PROVE  /\ BytesInOrder' /\ Unread' = Unread
           /\ buf' = <<>> /\ peekBuf' = buf /\ peekBuf' \in Seq(Nat)
           /\ UNCHANGED <<client, arrived, taken>>
  <1>1. /\ buf' = <<>> /\ peekBuf' = buf /\ UNCHANGED <<client, arrived, taken>>
        /\ buf \in Seq(Nat)
    BY ConcatEmptySeq DEF PutBack, TypeOK
  <1>2. Len(buf') = 0 /\ Len(peekBuf') = Len(buf) /\ Len(peekBuf) = 0
    BY <1>1
  <1>3. Unread' = Unread
    BY <1>1, <1>2, BufferTypes DEF Buffers, Unread
  <1>4. BytesInOrder'
    <2>1. \A i \in DOMAIN buf' : buf'[i] = Unread' + i
      BY <1>1
    <2>2. \A i \in DOMAIN peekBuf' : peekBuf'[i] = Unread' + Len(buf') + i
      BY <1>1, <1>2, <1>3, BufferTypes DEF Buffers, BytesInOrder
    <2>3. /\ taken' <= arrived' /\ arrived' <= written'
          /\ Len(peekBuf') + Len(buf') <= taken'
      BY <1>1, <1>2, BufferTypes DEF Buffers, BytesInOrder, client
    <2>4. QED
      BY <2>1, <2>2, <2>3 DEF BytesInOrder
  <1>5. QED
    BY <1>1, <1>3, <1>4

\* A read that fails leaves nothing behind, at the end of the stream.
LEMMA FailsInOrder ==
    ASSUME TypeOK, BytesInOrder, NEW n \in Nat, ReadFails(n)
    PROVE  BytesInOrder' /\ AtEnd' /\ buf' = <<>> /\ peekBuf' = <<>>
  <1>1. /\ AtEnd /\ buf' = <<>> /\ peekBuf' = <<>> /\ peekBuf = <<>>
        /\ UNCHANGED <<sent, written, ended, arrived, taken>>
    BY DEF ReadFails, AtEnd, client
  <1>2. Len(buf') = 0 /\ Len(peekBuf') = 0 /\ DOMAIN buf' = {} /\ DOMAIN peekBuf' = {}
    BY <1>1
  <1>3. BytesInOrder'
    <2>1. /\ taken' <= arrived' /\ arrived' <= written'
          /\ Len(peekBuf') + Len(buf') <= taken'
      BY <1>1, <1>2, BufferTypes DEF Buffers, BytesInOrder
    <2>2. QED
      BY <1>2, <2>1 DEF BytesInOrder
  <1>4. QED
    BY <1>1, <1>3 DEF AtEnd

-----------------------------------------------------------------------------
(***************************************************************************)
(* What a step of receive must establish, by where it leaves the loop.     *)
(***************************************************************************)
Bytes ==
    /\ ended \in BOOLEAN
    /\ arrived \in Nat /\ taken \in Nat
    /\ buf \in Seq(Nat) /\ peekBuf \in Seq(Nat)
    /\ BytesInOrder

\* The messages stay where they are unless the client sends one.
LEMMA SameMessages ==
    ASSUME StreamInv, UNCHANGED <<sent, written>>
    PROVE  /\ EndToEnd'
           /\ sent' \in Seq([kind : Kinds, start : Nat \ {0}])
           /\ written' \in Nat
  <1>1. EndToEnd /\ sent' = sent /\ written' = written
    BY DEF StreamInv
  <1>2. EndToEnd'
    BY <1>1 DEF EndToEnd, Sent, LastByte, Through, Fields
  <1>3. QED
    BY <1>1, <1>2 DEF StreamInv, TypeOK

LEMMA ToClosed ==
    ASSUME StreamInv, UNCHANGED <<sent, written, msg>>, Bytes', pc' = "closed"
    PROVE  StreamInv'
  <1>1. TypeOK'
    BY SameMessages DEF StreamInv, TypeOK, Bytes
  <1>2. FieldsAreWhole' /\ StandsAt'
    BY DEF FieldsAreWhole, StandsAt
  <1>3. QED
    BY <1>1, <1>2, SameMessages DEF StreamInv, Bytes

LEMMA ToAstray ==
    ASSUME StreamInv, UNCHANGED <<sent, written, msg>>, Bytes', pc' = "astray", CutShort'
    PROVE  StreamInv'
  <1>1. TypeOK'
    BY SameMessages DEF StreamInv, TypeOK, Bytes
  <1>2. FieldsAreWhole' /\ StandsAt'
    BY DEF FieldsAreWhole, StandsAt
  <1>3. QED
    BY <1>1, <1>2, SameMessages DEF StreamInv, Bytes

LEMMA ToRequests ==
    ASSUME StreamInv, UNCHANGED <<sent, written>>, Bytes',
           pc' \in {"peek", "poll"}, msg' \in Sent,
           Len(buf') + Len(peekBuf') <= 1,
           Unread' = LastByte(msg') \/ CutShort' \/ (AtEnd' /\ buf' = <<>>)
    PROVE  StreamInv'
  <1>1. TypeOK'
    <2>1. msg' \in 0 .. Len(sent') /\ pc' # "decode"
      BY DEF Sent
    <2>2. QED
      BY <2>1, SameMessages DEF TypeOK, Bytes
  <1>2. msg' \in Sent' /\ LastByte(msg)' = LastByte(msg')
    BY DEF Sent, LastByte, Through, Fields
  <1>3. FieldsAreWhole' /\ StandsAt'
    BY <1>2 DEF FieldsAreWhole, StandsAt
  <1>4. QED
    BY <1>1, <1>3, SameMessages DEF StreamInv, Bytes

\* A value stays cut short while no byte is handed out.
LEMMA StaysCut ==
    ASSUME CutShort, UNCHANGED <<sent, msg, field>>, Unread' = Unread
    PROVE  CutShort'
  <1>1. /\ Fields(msg)' = Fields(msg) /\ Before(msg, field)' = Before(msg, field)
        /\ Through(msg, field)' = Through(msg, field) /\ (IsRaw' <=> IsRaw) /\ Sent' = Sent
    BY DEF Sent, Fields, Before, Through, IsRaw
  <1>2. QED
    BY <1>1 DEF CutShort

LEMMA ToDecode ==
    ASSUME StreamInv, UNCHANGED <<sent, written>>, Bytes', pc' = "decode",
           NEW m \in Sent, NEW f \in DOMAIN Fields(m), msg' = m, field' = f,
           Unread' = Before(m, f), Len(buf') <= Width(m, f),
           peekBuf' # <<>> => f = 1 /\ Len(buf') + Len(peekBuf') = Width(m, 1),
           <<sent[m].kind, f>> \in Raw => buf' = <<>>
    PROVE  StreamInv'
  <1>1. /\ msg' \in Sent' /\ field' \in DOMAIN Fields(msg)'
        /\ Before(msg, field)' = Before(m, f) /\ Width(msg, field)' = Width(m, f)
        /\ Width(msg, 1)' = Width(m, 1)
        /\ IsRaw' <=> <<sent[m].kind, f>> \in Raw
    BY DEF Sent, Fields, Before, Through, Width, IsRaw
  <1>2. TypeOK'
    <2>1. msg' \in 0 .. Len(sent')
      BY DEF Sent
    <2>2. QED
      BY <1>1, <2>1, SameMessages DEF TypeOK, Bytes
  <1>3. FieldsAreWhole' /\ StandsAt'
    BY <1>1 DEF FieldsAreWhole, StandsAt
  <1>4. QED
    BY <1>2, <1>3, SameMessages DEF StreamInv, Bytes

-----------------------------------------------------------------------------
(***************************************************************************)
(* The steps of receive.                                                   *)
(***************************************************************************)
LEMMA Parts ==
    ASSUME StreamInv
    PROVE  /\ TypeOK /\ BytesInOrder /\ Bytes /\ Buffers
           /\ EndToEnd /\ FieldsAreWhole /\ StandsAt
  BY BufferTypes DEF StreamInv, TypeOK, Bytes

LEMMA ChunkBytes ==
    ASSUME StreamInv, NEW n \in Nat, ReadChunk(n)
    PROVE  Bytes' /\ UNCHANGED <<sent, written, ended, pc, msg, field>>
  <1>1. UNCHANGED <<sent, written, ended, arrived, pc, msg, field>>
    BY DEF ReadChunk, client
  <1>2. QED
    BY <1>1, Parts, ChunkInOrder DEF Bytes

LEMMA PutBackBytes ==
    ASSUME StreamInv, PutBack, peekBuf = <<>>
    PROVE  /\ Bytes' /\ UNCHANGED <<sent, written, ended>>
           /\ Unread' = Unread /\ buf' = <<>> /\ peekBuf' = buf
           /\ Len(buf') = 0 /\ Len(peekBuf') = Len(buf)
  <1>1. UNCHANGED <<sent, written, ended, arrived, taken>>
    BY DEF PutBack, client
  <1>2. buf' = <<>> /\ peekBuf' = buf /\ BytesInOrder' /\ Unread' = Unread
    BY Parts, PutBackInOrder
  <1>3. buf' \in Seq(Nat) /\ peekBuf' \in Seq(Nat)
    BY <1>2, EmptySeq DEF StreamInv, TypeOK
  <1>4. QED
    BY <1>1, <1>2, <1>3, Parts DEF Bytes

LEMMA FailsBytes ==
    ASSUME StreamInv, NEW n \in Nat, ReadFails(n)
    PROVE  /\ Bytes' /\ AtEnd' /\ buf' = <<>> /\ Len(buf') = 0 /\ Len(peekBuf') = 0
           /\ UNCHANGED <<sent, written, msg>>
  <1>1. UNCHANGED <<sent, written, ended, arrived, taken, msg>>
    BY DEF ReadFails, client
  <1>2. BytesInOrder' /\ AtEnd' /\ buf' = <<>> /\ peekBuf' = <<>>
    BY Parts, FailsInOrder
  <1>3. buf' \in Seq(Nat) /\ peekBuf' \in Seq(Nat)
    BY <1>2, EmptySeq
  <1>4. QED
    BY <1>1, <1>2, <1>3, Parts DEF Bytes

\* Reading on keeps what StandsAt says of a loop that waits for a request.
LEMMA ChunkOfRequest ==
    ASSUME StreamInv, pc \in {"peek", "poll"}, ReadChunk(1)
    PROVE  StreamInv'
  <1>1. /\ Bytes' /\ UNCHANGED <<sent, written, pc, msg, field>> /\ Unread' = Unread
        /\ Len(buf') \in Nat /\ Len(buf') <= 1
        /\ peekBuf # <<>> => Len(buf') + Len(peekBuf') = Len(buf) + Len(peekBuf)
        /\ peekBuf = <<>> => peekBuf' = <<>>
        /\ ~AtEnd
    BY Parts, ChunkBytes, ChunkInOrder
  <1>2. /\ msg \in Sent /\ Len(buf) + Len(peekBuf) <= 1
        /\ Unread = LastByte(msg) \/ CutShort
    BY <1>1, Parts DEF StandsAt
  <1>3. Len(buf') + Len(peekBuf') <= 1
    <2>1. CASE peekBuf # <<>>
      BY <1>1, <1>2, <2>1
    <2>2. CASE peekBuf = <<>>
      BY <1>1, <2>2, EmptySeq
    <2>3. QED
      BY <2>1, <2>2
  <1>4. Unread' = LastByte(msg') \/ CutShort'
    BY <1>1, <1>2, StaysCut
  <1>5. QED
    BY <1>1, <1>2, <1>3, <1>4, ToRequests

LEMMA PollKeeps == ASSUME StreamInv, Poll PROVE StreamInv'
  <1>1. CASE ReadChunk(PollSize)
    BY <1>1, ChunkOfRequest DEF Poll, PollSize
  <1>2. CASE Len(buf) = PollSize /\ PutBack /\ pc' = "peek" /\ UNCHANGED <<msg, field>>
    <2>1. /\ pc = "poll" /\ Len(buf) = 1 /\ PutBack /\ pc' = "peek" /\ msg' = msg
          /\ field' = field
      BY <1>2 DEF Poll, PollSize
    <2>2. /\ msg \in Sent /\ Len(buf) + Len(peekBuf) <= 1
          /\ Unread = LastByte(msg) \/ CutShort \/ (AtEnd /\ buf = <<>>)
      BY <2>1, Parts DEF StandsAt
    <2>3. peekBuf = <<>> /\ buf # <<>>
      BY <2>1, <2>2, Parts DEF Buffers
    <2>4. /\ Bytes' /\ UNCHANGED <<sent, written>> /\ Unread' = Unread
          /\ Len(buf') + Len(peekBuf') <= 1
      <3>1. /\ Bytes' /\ UNCHANGED <<sent, written>> /\ Unread' = Unread
            /\ Len(buf') = 0 /\ Len(peekBuf') = Len(buf)
        BY <2>1, <2>3, PutBackBytes
      <3>2. Len(buf') + Len(peekBuf') <= 1
        BY <2>1, <3>1
      <3>3. QED
        BY <2>2, <2>3, <3>1, <3>2
    <2>5. msg' \in Sent /\ (Unread' = LastByte(msg') \/ CutShort')
      BY <2>1, <2>2, <2>3, <2>4, StaysCut
    <2>6. QED
      BY <2>1, <2>4, <2>5, ToRequests
  <1>3. QED
    BY <1>1, <1>2 DEF Poll

LEMMA PollDeadlineKeeps == ASSUME StreamInv, PollDeadline PROVE StreamInv'
  <1>1. /\ pc = "poll" /\ Len(buf) < 1 /\ peekBuf = <<>> /\ buf' = <<>> /\ pc' = "peek"
        /\ UNCHANGED <<sent, written, ended, arrived, taken, peekBuf, msg, field>>
    BY DEF PollDeadline, PollSize, client
  <1>2. buf = <<>>
    BY <1>1, Parts DEF Buffers
  <1>3. Bytes' /\ (AtEnd' <=> AtEnd) /\ Unread' = Unread
    <2>1. buf' = buf /\ UNCHANGED <<written, ended, arrived, taken, peekBuf>>
      BY <1>1, <1>2
    <2>2. Unread' = Unread
      BY <2>1 DEF Unread
    <2>3. BytesInOrder'
      BY <2>1, <2>2, Parts DEF BytesInOrder
    <2>4. QED
      BY <2>1, <2>2, <2>3, Parts DEF Bytes, AtEnd
  <1>4. /\ msg \in Sent
        /\ Unread = LastByte(msg) \/ CutShort \/ (AtEnd /\ buf = <<>>)
    BY <1>1, Parts DEF StandsAt
  <1>5. Len(buf') + Len(peekBuf') <= 1
    BY <1>1, EmptySeq
  <1>6. /\ msg' \in Sent
        /\ Unread' = LastByte(msg') \/ CutShort' \/ (AtEnd' /\ buf' = <<>>)
    BY <1>1, <1>2, <1>3, <1>4, StaysCut
  <1>7. QED
    <2>1. pc' \in {"peek", "poll"}
      BY <1>1
    <2>2. QED
      BY <1>1, <1>3, <1>5, <1>6, <2>1, ToRequests

\* The first message is there as soon as a byte is.
LEMMA PeekLengthKeeps == ASSUME StreamInv, PeekLength PROVE StreamInv'
  <1>0. /\ LengthSize \in Nat \ {0} /\ pc = "startup"
        /\ Unread = 0 /\ peekBuf = <<>> /\ Len(buf) <= LengthSize
    BY Parts, ShapesAssumption DEF LengthSize, PeekLength, StandsAt
  <1>1. CASE ReadChunk(LengthSize)
    <2>1. /\ Bytes' /\ UNCHANGED <<sent, written, ended, pc, msg, field>>
          /\ Unread' = 0 /\ peekBuf' = <<>> /\ Len(buf') <= LengthSize
      BY <1>0, <1>1, Parts, ChunkBytes, ChunkInOrder
    <2>2. TypeOK'
      BY <1>0, <2>1, SameMessages, Parts DEF TypeOK, Bytes
    <2>3. FieldsAreWhole' /\ StandsAt'
      BY <1>0, <2>1 DEF FieldsAreWhole, StandsAt, LengthSize
    <2>4. QED
      BY <2>1, <2>2, <2>3, SameMessages DEF StreamInv, Bytes
  <1>2. CASE Len(buf) = LengthSize /\ PutBack /\ Decode(1)
    <2>1. /\ Bytes' /\ UNCHANGED <<sent, written>> /\ Unread' = 0
          /\ buf' = <<>> /\ Len(buf') = 0 /\ Len(peekBuf') = LengthSize
      BY <1>0, <1>2, PutBackBytes
    <2>2. pc' = "decode" /\ msg' = 1 /\ field' = 1
      BY <1>2 DEF Decode
    <2>3. 1 \in Sent /\ sent[1].start = 1 /\ sent[1].kind = Startup
      <3>1. taken > 0 /\ written > 0
        BY <1>0, <1>2, Parts DEF Buffers, BytesInOrder
      <3>2. sent # <<>>
        BY <3>1, Parts DEF EndToEnd
      <3>3. 1 \in Sent
        BY <3>2, Parts, EmptySeq DEF TypeOK, Sent
      <3>4. QED
        BY <3>2, <3>3, Parts DEF EndToEnd
    <2>4. /\ 1 \in DOMAIN Fields(1) /\ Before(1, 1) = 0 /\ Width(1, 1) = LengthSize
      <3>1. Fields(1) \in Seq(Nat \ {0}) /\ Len(Fields(1)) \in Nat \ {0} /\ Before(1, 1) = 0
        BY <2>3, Parts, FieldsInOrder
      <3>2. 1 \in DOMAIN Fields(1)
        BY <3>1
      <3>3. Through(1, 1) = LengthSize
        BY <1>0, <2>3 DEF Through, Fields, LengthSize
      <3>4. QED
        BY <1>0, <3>1, <3>2, <3>3 DEF Width
    <2>5. Len(buf') <= Width(1, 1) /\ Len(buf') + Len(peekBuf') = Width(1, 1)
      BY <1>0, <2>1, <2>4
    <2>6. QED
      BY <2>1, <2>2, <2>3, <2>4, <2>5, ToDecode
  <1>3. CASE ReadFails(LengthSize) /\ pc' = "closed"
    BY <1>0, <1>3, FailsBytes, ToClosed
  <1>4. QED
    BY <1>1, <1>2, <1>3 DEF PeekLength

\* The byte behind a message begins the next one, and its decoder reads on
\* from there.
LEMMA PeekTypeKeeps == ASSUME StreamInv, PeekType PROVE StreamInv'
  <1>0. /\ pc = "peek" /\ msg \in Sent /\ Len(buf) + Len(peekBuf) <= 1
        /\ Unread = LastByte(msg) \/ CutShort \/ (AtEnd /\ buf = <<>>)
    BY Parts DEF PeekType, StandsAt
  <1>1. CASE ReadChunk(1)
    BY <1>0, <1>1, ChunkOfRequest
  <1>2. CASE CutShort /\ Len(buf) = 1 /\ PutBack
    <2>1. peekBuf = <<>> /\ 1 \in DOMAIN buf
      BY <1>0, <1>2, Parts DEF Buffers
    <2>2. /\ Bytes' /\ UNCHANGED <<sent, written>> /\ Unread' = Unread
      BY <1>2, <2>1, PutBackBytes
    <2>3. buf[1] = Unread + 1
      BY <2>1, Parts DEF BytesInOrder
    <2>4. pc' = "astray" /\ UNCHANGED <<msg, field>>
      <3>1. \A m \in Sent : sent[m].start # buf[1]
        BY <1>2, <2>3, Parts, NoMessageWithin
      <3>2. \/ ReadChunk(1) \/ ReadFails(1)
            \/ \E m \in Sent : sent[m].start = buf[1] /\ Decode(m)
            \/ pc' = "astray" /\ UNCHANGED <<msg, field>>
        BY DEF PeekType
      <3>3. ~ReadChunk(1) /\ ~ReadFails(1)
        BY <1>2 DEF ReadChunk, ReadFails
      <3>4. QED
        BY <3>1, <3>2, <3>3
    <2>5. CutShort'
      BY <1>2, <2>2, <2>4, StaysCut
    <2>6. QED
      BY <2>2, <2>4, <2>5, ToAstray
  <1>3. CASE ~CutShort /\ Len(buf) = 1 /\ PutBack
    <2>1. peekBuf = <<>> /\ buf # <<>> /\ Unread = LastByte(msg) /\ 1 \in DOMAIN buf
      BY <1>0, <1>3, Parts DEF Buffers
    <2>2. /\ Bytes' /\ UNCHANGED <<sent, written>> /\ Unread' = Unread
          /\ buf' = <<>> /\ Len(buf') = 0 /\ Len(peekBuf') = 1
      BY <1>3, <2>1, PutBackBytes
    <2>3. buf[1] = LastByte(msg) + 1 /\ LastByte(msg) < written
      BY <1>3, <2>1, Parts DEF Buffers, BytesInOrder
    <2>4. msg + 1 \in Sent /\ sent[msg + 1].start = buf[1]
      BY <1>0, <2>3, Parts, NextMessage
    <2>5. PICK m \in Sent : sent[m].start = buf[1] /\ Decode(m)
      BY <1>0, <1>3, <2>4, Parts DEF PeekType, ReadChunk, ReadFails
    <2>6. pc' = "decode" /\ msg' = m /\ field' = 1
      BY <2>5 DEF Decode
    <2>7. m # 1
      <3>1. LastByte(msg) \in Nat /\ LastByte(msg) >= sent[msg].start
              /\ sent[msg].start \in Nat \ {0}
        BY <1>0, Parts, FieldsInOrder
      <3>2. sent[1].start = 1
        BY <1>0, Parts, EmptySeq DEF EndToEnd, Sent, TypeOK
      <3>3. QED
        BY <2>3, <2>5, <3>1, <3>2
    <2>8. 1 \in DOMAIN Fields(m) /\ Before(m, 1) = Unread /\ Width(m, 1) = 1
      <3>1. /\ Fields(m) \in Seq(Nat \ {0}) /\ Len(Fields(m)) \in Nat \ {0}
            /\ sent[m].start \in Nat \ {0} /\ sent[m].kind \in Kinds
            /\ Before(m, 1) = sent[m].start - 1
        BY Parts, FieldsInOrder
      <3>2. sent[m].kind # Startup
        BY <2>7, Parts DEF EndToEnd
      <3>3. Fields(m)[1] = 1
        BY <3>1, <3>2, ShapesAssumption DEF Fields
      <3>4. LastByte(msg) \in Nat
        BY <1>0, Parts, FieldsInOrder
      <3>5. Before(m, 1) = Unread
        BY <2>1, <2>3, <2>5, <3>1, <3>4
      <3>6. QED
        BY <3>1, <3>3, <3>5 DEF Width, Through
    <2>9. Unread' = Before(m, 1) /\ Len(buf') <= Width(m, 1)
            /\ Len(buf') + Len(peekBuf') = Width(m, 1)
      BY <2>2, <2>8
    <2>10. QED
      BY <2>2, <2>6, <2>8, <2>9, ToDecode
  <1>4. CASE ReadFails(1) /\ pc' = "closed"
    BY <1>4, FailsBytes, ToClosed
  <1>5. QED
    BY <1>1, <1>2, <1>3, <1>4 DEF PeekType

\* The field is read: the next one begins where it ends, or the request is
\* complete.
LEMMA FieldDoneKeeps ==
    ASSUME StreamInv, pc = "decode", UNCHANGED <<sent, written>>, Bytes',
           Unread' = Through(msg, field), buf' = <<>>, peekBuf' = <<>>, FieldDone
    PROVE  StreamInv'
  <1>1. msg \in Sent /\ field \in DOMAIN Fields(msg) /\ field \in Nat
    <2>1. msg \in Sent /\ field \in DOMAIN Fields(msg)
      BY Parts DEF TypeOK
    <2>2. Fields(msg) \in Seq(Nat \ {0})
      BY <2>1, Parts, FieldsInOrder
    <2>3. QED
      BY <2>1, <2>2
  <1>2. Len(buf') = 0 /\ Len(peekBuf') = 0
    BY EmptySeq
  <1>3. CASE field < Len(Fields(msg))
    <2>1. pc' = "decode" /\ msg' = msg /\ field' = field + 1
      BY <1>3 DEF FieldDone
    <2>2. field + 1 \in DOMAIN Fields(msg) /\ Before(msg, field + 1) = Through(msg, field)
      BY <1>1, <1>3, Parts, FieldsInOrder
    <2>3. Width(msg, field + 1) \in Nat
      BY <1>1, <2>2, Parts, FieldsInOrder
    <2>4. Unread' = Before(msg, field + 1) /\ Len(buf') <= Width(msg, field + 1)
      BY <1>2, <2>2, <2>3
    <2>5. QED
      BY <1>1, <2>1, <2>2, <2>4, ToDecode
  <1>4. CASE ~(field < Len(Fields(msg)))
    <2>1. pc' \in {"peek", "poll"} /\ msg' = msg
      BY <1>4 DEF FieldDone
    <2>2. field = Len(Fields(msg))
      <3>1. Fields(msg) \in Seq(Nat \ {0}) /\ Len(Fields(msg)) \in Nat
        BY <1>1, Parts, FieldsInOrder
      <3>2. field \in 1 .. Len(Fields(msg))
        BY <1>1, <3>1
      <3>3. QED
        BY <1>4, <3>1, <3>2
    <2>3. msg' \in Sent /\ Unread' = LastByte(msg')
      BY <1>1, <2>1, <2>2 DEF LastByte
    <2>4. Len(buf') + Len(peekBuf') <= 1
      BY <1>2
    <2>5. QED
      BY <2>1, <2>3, <2>4, ToRequests
  <1>5. QED
    BY <1>3, <1>4

\* A decoder that gives up at the end of the stream goes back to the loop.
LEMMA GivesUpKeeps ==
    ASSUME StreamInv, pc = "decode", NEW n \in Nat, ReadFails(n), pc' = "poll"
    PROVE  StreamInv'
  <1>1. msg \in Sent
    BY Parts DEF TypeOK
  <1>2. /\ Bytes' /\ AtEnd' /\ buf' = <<>> /\ Len(buf') = 0 /\ Len(peekBuf') = 0
        /\ UNCHANGED <<sent, written, msg>>
    BY FailsBytes
  <1>3. Len(buf') + Len(peekBuf') <= 1 /\ msg' \in Sent
    BY <1>1, <1>2
  <1>4. QED
    BY <1>2, <1>3, ToRequests

\* What StandsAt says of a decoder, with the field it reads.
LEMMA AtField ==
    ASSUME StreamInv, pc = "decode"
    PROVE  /\ msg \in Sent /\ field \in DOMAIN Fields(msg)
           /\ Width(msg, field) \in Nat \ {0}
           /\ Before(msg, field) + Width(msg, field) = Through(msg, field)
           /\ Unread = Before(msg, field) /\ Before(msg, field) \in Nat
           /\ Len(buf) <= Width(msg, field)
           /\ peekBuf # <<>> => field = 1 /\ Len(buf) + Len(peekBuf) = Width(msg, 1)
           /\ IsRaw => buf = <<>>
  <1>1. msg \in Sent /\ field \in DOMAIN Fields(msg)
    BY Parts DEF TypeOK
  <1>2. /\ Width(msg, field) \in Nat \ {0} /\ Before(msg, field) \in Nat
        /\ Before(msg, field) + Width(msg, field) = Through(msg, field)
    BY <1>1, Parts, FieldsInOrder
  <1>3. QED
    BY <1>1, <1>2, Parts DEF StandsAt, FieldsAreWhole

LEMMA ReadFieldKeeps == ASSUME StreamInv, ReadField PROVE StreamInv'
  <1> DEFINE w == Width(msg, field)
  <1>0. pc = "decode" /\ ~IsRaw
    BY DEF ReadField
  <1>1. CASE ReadChunk(w)
    <2>1. w \in Nat
      BY <1>0, AtField
    <2>2. /\ Bytes' /\ UNCHANGED <<sent, written, pc, msg, field>> /\ Unread' = Unread
          /\ Len(buf') <= w
          /\ peekBuf # <<>> => Len(buf') + Len(peekBuf') = Len(buf) + Len(peekBuf)
          /\ peekBuf = <<>> => peekBuf' = <<>>
      BY <1>1, <2>1, Parts, ChunkBytes, ChunkInOrder
    <2>3. /\ peekBuf' # <<>> => field = 1 /\ Len(buf') + Len(peekBuf') = Width(msg, 1)
          /\ Unread' = Before(msg, field)
          /\ msg \in Sent /\ field \in DOMAIN Fields(msg)
          /\ pc' = "decode" /\ msg' = msg /\ field' = field
          /\ <<sent[msg].kind, field>> \notin Raw
      BY <1>0, <2>2, AtField DEF IsRaw
    <2>4. QED
      BY <2>2, <2>3, ToDecode
  <1>2. CASE /\ Len(buf) = w /\ buf' = <<>> /\ FieldDone
             /\ UNCHANGED <<client, arrived, taken, peekBuf>>
    <2>1. UNCHANGED <<sent, written, ended, arrived, taken, peekBuf>>
      BY <1>2 DEF client
    <2>2. peekBuf = <<>>
      BY <1>0, <1>2, Parts, AtField DEF Buffers
    <2>3. Len(buf') = 0 /\ Len(peekBuf') = 0 /\ Len(peekBuf) = 0
      BY <1>2, <2>1, <2>2, EmptySeq
    <2>4. taken = Unread + Len(buf) /\ taken \in Nat
      BY <2>3, Parts DEF Buffers
    <2>5. Unread' = Through(msg, field)
      <3>1. Unread' = taken
        BY <2>1, <2>3, <2>4 DEF Unread
      <3>2. taken = Through(msg, field)
        BY <1>0, <1>2, <2>4, AtField
      <3>3. QED
        BY <3>1, <3>2
    <2>6. Bytes'
      <3>1. buf' \in Seq(Nat) /\ DOMAIN buf' = {} /\ DOMAIN peekBuf' = {}
        BY <1>2, <2>1, <2>2, EmptySeq
      <3>2. /\ taken' <= arrived' /\ arrived' <= written'
            /\ Len(peekBuf') + Len(buf') <= taken'
        BY <2>1, <2>3, <2>4, Parts DEF BytesInOrder
      <3>3. BytesInOrder'
        BY <3>1, <3>2 DEF BytesInOrder
      <3>4. QED
        BY <2>1, <3>1, <3>3, Parts DEF Bytes
    <2>7. QED
      BY <1>0, <1>2, <2>1, <2>2, <2>5, <2>6, FieldDoneKeeps
  <1>3. CASE ReadFails(w) /\ pc' = IF msg = 1 THEN "closed" ELSE "poll"
    <2>1. w \in Nat
      BY <1>0, AtField
    <2>2. CASE pc' = "poll"
      BY <1>0, <1>3, <2>1, <2>2, GivesUpKeeps
    <2>3. CASE pc' = "closed"
      BY <1>3, <2>1, <2>3, FailsBytes, ToClosed
    <2>4. QED
      BY <1>3, <2>2, <2>3
  <1>4. QED
    BY <1>1, <1>2, <1>3 DEF ReadField

\* A value is there, or a part of it is: then it is cut short.
LEMMA ReadRawKeeps == ASSUME StreamInv, ReadRaw PROVE StreamInv'
  <1>0. pc = "decode" /\ IsRaw
    BY DEF ReadRaw
  <1>1. buf = <<>> /\ peekBuf = <<>>
    <2>1. field # 1
      BY <1>0, ShapesAssumption DEF IsRaw
    <2>2. QED
      BY <1>0, <2>1, AtField
  <1>2. ASSUME NEW k \in 1 .. Width(msg, field),
               /\ taken + k <= arrived
               /\ taken' = taken + k
               /\ IF k = Width(msg, field) THEN FieldDone
                  ELSE pc' = "poll" /\ UNCHANGED <<msg, field>>
               /\ UNCHANGED <<client, arrived, buf, peekBuf>>
        PROVE  StreamInv'
    <2>1. UNCHANGED <<sent, written, ended, arrived, buf, peekBuf>>
      BY <1>2 DEF client
    <2>2. Len(buf) = 0 /\ Len(peekBuf) = 0 /\ Len(buf') = 0 /\ Len(peekBuf') = 0
      BY <1>1, <2>1, EmptySeq
    <2>3. taken = Unread /\ taken \in Nat /\ arrived \in Nat
      BY <2>2, Parts DEF Buffers
    <2>4. /\ msg \in Sent /\ field \in DOMAIN Fields(msg)
          /\ Before(msg, field) \in Nat /\ Width(msg, field) \in Nat \ {0}
          /\ Before(msg, field) + Width(msg, field) = Through(msg, field)
          /\ Unread = Before(msg, field)
      BY <1>0, AtField
    <2>5. k \in Nat \ {0} /\ k <= Width(msg, field) /\ taken + k \in Nat
      BY <2>3, <2>4
    <2>6. Unread' = Before(msg, field) + k
      <3>1. Unread' = taken + k
        BY <1>2, <2>2, <2>5 DEF Unread
      <3>2. QED
        BY <2>3, <2>4, <3>1
    <2>7. Bytes'
      <3>1. DOMAIN buf' = {} /\ DOMAIN peekBuf' = {}
        BY <1>1, <2>1
      <3>2. /\ taken' <= arrived' /\ arrived' <= written' /\ taken' \in Nat
            /\ Len(peekBuf') + Len(buf') <= taken'
        BY <1>2, <2>1, <2>2, <2>5, Parts DEF BytesInOrder
      <3>3. BytesInOrder'
        BY <3>1, <3>2 DEF BytesInOrder
      <3>4. QED
        BY <2>1, <3>2, <3>3, Parts DEF Bytes
    <2>8. CASE k = Width(msg, field)
      <3>1. FieldDone /\ Unread' = Through(msg, field)
        BY <1>2, <2>4, <2>6, <2>8
      <3>2. QED
        BY <1>0, <1>1, <2>1, <2>7, <3>1, FieldDoneKeeps
    <2>9. CASE k # Width(msg, field)
      <3>1. pc' = "poll" /\ UNCHANGED <<msg, field>>
        BY <1>2, <2>9
      <3>2. Before(msg, field) < Unread' /\ Unread' < Through(msg, field)
        BY <2>4, <2>5, <2>6, <2>9
      <3>3. CutShort'
        <4>1. /\ Fields(msg)' = Fields(msg) /\ Before(msg, field)' = Before(msg, field)
              /\ Through(msg, field)' = Through(msg, field) /\ (IsRaw' <=> IsRaw)
              /\ Sent' = Sent
          BY <2>1, <3>1 DEF Sent, Fields, Before, Through, IsRaw
        <4>2. QED
          BY <1>0, <2>4, <3>1, <3>2, <4>1 DEF CutShort
      <3>4. Len(buf') + Len(peekBuf') <= 1
        BY <2>2
      <3>5. QED
        BY <2>1, <2>4, <2>7, <3>1, <3>3, <3>4, ToRequests
    <2>10. QED
      BY <2>8, <2>9
  <1>3. CASE ReadFails(1) /\ pc' = "poll"
    BY <1>0, <1>3, GivesUpKeeps
  <1>4. QED
    BY <1>2, <1>3 DEF ReadRaw

-----------------------------------------------------------------------------
(***************************************************************************)
(* The steps of the client and the network.                                *)
(***************************************************************************)

\* More bytes arrive, or no more will: receive has what it had.
LEMMA NetworkKeeps == ASSUME StreamInv, Arrive \/ HangUp PROVE StreamInv'
  <1>1. /\ ~ended /\ UNCHANGED <<sent, written, pc, msg, field, taken, buf, peekBuf>>
        /\ ended' \in BOOLEAN /\ arrived' \in Nat
        /\ arrived <= arrived' /\ arrived' <= written
    <2>1. CASE Arrive
      <3>1. UNCHANGED <<sent, written, ended, pc, msg, field, taken, buf, peekBuf>> /\ ~ended
        BY <2>1 DEF Arrive, client
      <3>2. PICK n \in arrived + 1 .. written : arrived' = n
        BY <2>1 DEF Arrive
      <3>3. QED
        BY <3>1, <3>2, Parts DEF Buffers, Bytes
    <2>2. CASE HangUp
      BY <2>2, Parts DEF HangUp, Buffers, BytesInOrder
    <2>3. QED
      BY <2>1, <2>2
  <1>2. Unread' = Unread
    BY <1>1 DEF Unread
  <1>3. Bytes'
    <2>1. taken' <= arrived'
      BY <1>1, Parts DEF Buffers, BytesInOrder
    <2>2. BytesInOrder'
      BY <1>1, <1>2, <2>1, Parts DEF BytesInOrder
    <2>3. QED
      BY <1>1, <2>2, Parts DEF Bytes
  <1>4. TypeOK'
    <2>1. Sent' = Sent /\ (pc = "decode" => Fields(msg)' = Fields(msg))
      BY <1>1 DEF Sent, Fields
    <2>2. QED
      BY <1>1, <1>3, <2>1, Parts DEF TypeOK, Bytes
  <1>5. FieldsAreWhole'
    BY <1>1, <1>2, Parts, StaysCut DEF FieldsAreWhole, Before, Fields
  <1>6. StandsAt'
    <2>1. ~AtEnd
      BY <1>1 DEF AtEnd
    <2>2. CutShort => CutShort'
      BY <1>1, <1>2, StaysCut
    <2>3. QED
      BY <1>1, <1>2, <2>1, <2>2, Parts
      DEF StandsAt, Sent, LastByte, Through, Before, Width, Fields, IsRaw, LengthSize
  <1>7. QED
    BY <1>1, <1>3, <1>4, <1>5, <1>6, SameMessages DEF StreamInv, Bytes

\* A new message lies behind the last one.
LEMMA SendKeeps == ASSUME StreamInv, NEW k \in Kinds, Send(k) PROVE StreamInv'
  <1>0. PICK new \in Nat : new = Len(sent) + 1
    BY Parts DEF TypeOK
  <1> DEFINE size == Ends[k][Len(Ends[k])]
  <1>1. /\ ~ended /\ (sent = <<>> <=> k = Startup)
        /\ sent' = Append(sent, [kind |-> k, start |-> written + 1])
        /\ written' = written + size
        /\ UNCHANGED <<arrived, ended, pc, msg, field, taken, buf, peekBuf>>
    BY DEF Send
  <1>2. written \in Nat /\ size \in Nat \ {0} /\ written' \in Nat
    <2>1. Ends[k] \in Seq(Nat \ {0}) /\ Len(Ends[k]) > 0
      BY ShapesAssumption
    <2>2. size \in Nat \ {0}
      BY <2>1
    <2>3. written \in Nat
      BY Parts DEF Buffers
    <2>4. written' = written + size
      BY <1>1
    <2>5. QED
      BY ONLY <2>2, <2>3, <2>4
  <1>3. /\ Len(sent) \in Nat /\ Sent = 1 .. Len(sent) /\ Sent' = 1 .. new
        /\ \A m \in Sent : sent'[m] = sent[m]
        /\ sent'[new] = [kind |-> k, start |-> written + 1]
        /\ sent' \in Seq([kind : Kinds, start : Nat \ {0}])
    <2>1. sent \in Seq([kind : Kinds, start : Nat \ {0}])
      BY Parts DEF TypeOK
    <2>2. [kind |-> k, start |-> written + 1] \in [kind : Kinds, start : Nat \ {0}]
      BY <1>2
    <2>3. /\ sent' \in Seq([kind : Kinds, start : Nat \ {0}]) /\ Len(sent') = new
          /\ \A m \in 1 .. Len(sent) : sent'[m] = sent[m]
          /\ sent'[new] = [kind |-> k, start |-> written + 1]
      BY <1>0, <1>1, <2>1, <2>2, AppendProperties
    <2>4. Len(sent) \in Nat
      BY <2>1, LenProperties
    <2>5. QED
      BY <2>3, <2>4 DEF Sent
  <1>4. /\ \A m \in Sent : LastByte(m)' = LastByte(m)
        /\ LastByte(new)' = written + size
    <2>1. \A m \in Sent : LastByte(m)' = LastByte(m)
      BY <1>3 DEF LastByte, Through, Fields
    <2>2. sent'[new].start = written + 1 /\ sent'[new].kind = k
      BY <1>3
    <2>3. LastByte(new)' = (written + 1) - 1 + size
      BY <2>2 DEF LastByte, Through, Fields
    <2>4. QED
      BY <1>2, <2>1, <2>3
  <1>5. \A m \in Sent : /\ LastByte(m) \in Nat /\ LastByte(m) <= written
                        /\ sent[m].start \in Nat /\ m \in Nat
    <2> SUFFICES ASSUME NEW m \in Sent
                 PROVE  /\ LastByte(m) \in Nat /\ LastByte(m) <= written
                        /\ sent[m].start \in Nat /\ m \in Nat
      OBVIOUS
    <2>1. /\ LastByte(m) \in Nat /\ sent[m].start \in Nat /\ m \in Nat
      BY <1>0, <1>3, Parts, FieldsInOrder
    <2>2. sent # <<>> /\ Len(sent) \in Sent
      BY <1>0, <1>3
    <2>3. written = LastByte(Len(sent))
      BY <2>2, Parts DEF EndToEnd
    <2>4. CASE m = Len(sent)
      BY <1>2, <2>1, <2>3, <2>4
    <2>5. CASE m # Len(sent)
      <3>1. m < Len(sent)
        BY <1>0, <1>3, <2>5
      <3>2. LastByte(m) < sent[Len(sent)].start
        BY <2>2, <3>1, Parts DEF EndToEnd
      <3>3. /\ sent[Len(sent)].start \in Nat
            /\ sent[Len(sent)].start <= LastByte(Len(sent))
        BY <2>2, Parts, FieldsInOrder
      <3>4. QED
        BY <1>2, <2>1, <2>3, <3>2, <3>3
    <2>6. QED
      BY <2>1, <2>4, <2>5
  <1>6. EndToEnd'
    <2>1. sent' # <<>> /\ Len(sent') = new
      BY <1>0, <1>3, EmptySeq DEF Sent
    <2>2. sent'[1].start = 1 /\ written' = LastByte(Len(sent))'
      <3>1. written' = LastByte(new)'
        BY <1>1, <1>4
      <3>2. LastByte(Len(sent))' = LastByte(new)'
        BY <1>0, <2>1 DEF LastByte, Through, Fields
      <3>3. CASE sent = <<>>
        <4>1. written = 0 /\ new = 1
          BY <1>0, <3>3, Parts, EmptySeq DEF EndToEnd
        <4>2. QED
          BY <1>0, <1>3, <3>1, <3>2, <4>1
      <3>4. CASE sent # <<>>
        <4>1. 1 \in Sent /\ sent[1].start = 1
          BY <1>0, <1>3, <3>4, Parts, EmptySeq DEF EndToEnd, TypeOK
        <4>2. QED
          BY <1>0, <1>3, <3>1, <3>2, <4>1
      <3>5. QED
        BY <3>3, <3>4
    <2>3. \A m \in Sent' : sent'[m].kind = Startup <=> m = 1
      <3> SUFFICES ASSUME NEW m \in 1 .. new PROVE sent'[m].kind = Startup <=> m = 1
        BY <1>0, <1>3
      <3>1. CASE m \in Sent
        BY <1>0, <1>3, <3>1, Parts DEF EndToEnd
      <3>2. CASE m \notin Sent
        <4>1. m = new /\ sent'[m].kind = k
          BY <1>0, <1>3, <3>2
        <4>2. new = 1 <=> sent = <<>>
          BY <1>0, <1>3, Parts, EmptySeq DEF TypeOK
        <4>3. QED
          BY <1>1, <4>1, <4>2
      <3>3. QED
        BY <3>1, <3>2
    <2>4. \A m \in Sent' : m + 1 \in Sent' => sent'[m + 1].start = LastByte(m)' + 1
      <3> SUFFICES ASSUME NEW m \in 1 .. new, m + 1 \in 1 .. new
                   PROVE  sent'[m + 1].start = LastByte(m)' + 1
        BY <1>0, <1>3
      <3>1. m \in Sent /\ LastByte(m)' = LastByte(m)
        BY <1>0, <1>3, <1>4
      <3>2. CASE m + 1 \in Sent
        BY <1>0, <1>3, <3>1, <3>2, Parts DEF EndToEnd
      <3>3. CASE m + 1 \notin Sent
        <4>1. m + 1 = new /\ m = Len(sent) /\ sent'[m + 1].start = written + 1
          BY <1>0, <1>3, <3>3
        <4>2. sent # <<>>
          BY <1>0, <1>3, <3>1
        <4>3. written = LastByte(m)
          BY <4>1, <4>2, Parts DEF EndToEnd
        <4>4. QED
          BY <3>1, <4>1, <4>3
      <3>4. QED
        BY <3>2, <3>3
    <2>5. \A m, n \in Sent' : m < n => LastByte(m)' < sent'[n].start
      <3> SUFFICES ASSUME NEW m \in 1 .. new, NEW n \in 1 .. new, m < n
                   PROVE  LastByte(m)' < sent'[n].start
        BY <1>0, <1>3
      <3>1. m \in Sent /\ LastByte(m)' = LastByte(m)
        BY <1>0, <1>3, <1>4
      <3>2. CASE n \in Sent
        BY <1>0, <1>3, <3>1, <3>2, Parts DEF EndToEnd
      <3>3. CASE n \notin Sent
        <4>1. sent'[n].start = written + 1
          BY <1>0, <1>3, <3>3
        <4>2. QED
          BY <1>2, <1>5, <3>1, <4>1
      <3>4. QED
        BY <3>2, <3>3
    <2>6. QED
      BY <2>1, <2>2, <2>3, <2>4, <2>5 DEF EndToEnd
  <1>7. Unread' = Unread /\ ~AtEnd
    BY <1>1 DEF Unread, AtEnd
  <1>8. BytesInOrder'
    <2>1. taken <= arrived /\ arrived <= written
      BY Parts DEF BytesInOrder
    <2>2. taken \in Nat /\ arrived \in Nat /\ written \in Nat
      BY Parts DEF Buffers
    <2>3. taken' = taken /\ arrived' = arrived /\ size \in Nat /\ written' = written + size
      BY <1>1, <1>2
    <2>4. taken' <= arrived' /\ arrived' <= written'
      BY ONLY <2>1, <2>2, <2>3
    <2>5. QED
      BY <1>1, <1>7, <2>4, Parts DEF BytesInOrder
  <1>9. msg \in Sent =>
          /\ msg \in Sent'
          /\ Fields(msg)' = Fields(msg) /\ Before(msg, field)' = Before(msg, field)
          /\ Width(msg, field)' = Width(msg, field) /\ Width(msg, 1)' = Width(msg, 1)
          /\ LastByte(msg)' = LastByte(msg) /\ (IsRaw' <=> IsRaw)
          /\ Through(msg, field)' = Through(msg, field)
    <2> SUFFICES ASSUME msg \in Sent
                 PROVE  /\ msg \in Sent'
                        /\ Fields(msg)' = Fields(msg)
                        /\ Before(msg, field)' = Before(msg, field)
                        /\ Width(msg, field)' = Width(msg, field)
                        /\ Width(msg, 1)' = Width(msg, 1)
                        /\ LastByte(msg)' = LastByte(msg) /\ (IsRaw' <=> IsRaw)
                        /\ Through(msg, field)' = Through(msg, field)
      OBVIOUS
    <2>1. sent'[msg] = sent[msg] /\ msg' = msg /\ field' = field
      BY <1>1, <1>3
    <2>2. msg \in Sent'
      BY <1>0, <1>3
    <2>3. Fields(msg)' = Fields(msg)
      BY <2>1 DEF Fields
    <2>4. /\ Before(msg, field)' = Before(msg, field) /\ Width(msg, field)' = Width(msg, field)
          /\ Through(msg, field)' = Through(msg, field)
      BY <2>1 DEF Fields, Before, Through, Width
    <2>5. Width(msg, 1)' = Width(msg, 1) /\ LastByte(msg)' = LastByte(msg)
      BY <2>1 DEF Fields, Before, Through, Width, LastByte
    <2>6. IsRaw' <=> IsRaw
      BY <2>1 DEF IsRaw
    <2>7. QED
      BY <2>2, <2>3, <2>4, <2>5, <2>6
  <1>10. TypeOK'
    <2>1. msg' \in 0 .. Len(sent')
      BY <1>1, <1>3, Parts DEF TypeOK, Sent
    <2>2. pc' = "decode" => msg' \in Sent' /\ field' \in DOMAIN Fields(msg)'
      BY <1>1, <1>9, Parts DEF TypeOK
    <2>3. QED
      BY <1>1, <1>2, <1>3, <2>1, <2>2, Parts DEF TypeOK
  <1>11. CutShort => CutShort'
    BY <1>1, <1>7, <1>9 DEF CutShort
  <1>12. FieldsAreWhole'
    BY <1>1, <1>7, <1>9, <1>11, Parts DEF FieldsAreWhole, TypeOK
  <1>13. StandsAt'
    <2>1. pc = "decode" => msg \in Sent
      BY Parts DEF TypeOK
    <2>2. QED
      BY <1>1, <1>7, <1>9, <1>11, <2>1, Parts DEF StandsAt, LengthSize
  <1>14. QED
    BY <1>6, <1>8, <1>10, <1>12, <1>13 DEF StreamInv

LEMMA StutterKeeps == ASSUME StreamInv, UNCHANGED vars PROVE StreamInv'
  BY DEF vars, client, StreamInv, TypeOK, BytesInOrder, FieldsAreWhole, EndToEnd, StandsAt,
         Sent, Fields, Before, Through, Width, LastByte, Unread, AtEnd, IsRaw, LengthSize, CutShort

-----------------------------------------------------------------------------
\* Whatever the kinds of messages, the segments of the stream and the polls
\* that time out, receive stands where StreamInv says.
THEOREM StreamInvariant == Spec => []StreamInv
  <1>1. Init => StreamInv
    BY InitStream
  <1>2. StreamInv /\ [Next]_vars => StreamInv'
    <2> SUFFICES ASSUME StreamInv, [Next]_vars PROVE StreamInv'
      OBVIOUS
    <2>1. ASSUME NEW k \in Kinds, Send(k) PROVE StreamInv'
      BY <2>1, SendKeeps
    <2>2. CASE Arrive \/ HangUp
      BY <2>2, NetworkKeeps
    <2>3. CASE PeekLength
      BY <2>3, PeekLengthKeeps
    <2>4. CASE PeekType
      BY <2>4, PeekTypeKeeps
    <2>5. CASE Poll
      BY <2>5, PollKeeps
    <2>6. CASE PollDeadline
      BY <2>6, PollDeadlineKeeps
    <2>7. CASE ReadField
      BY <2>7, ReadFieldKeeps
    <2>8. CASE ReadRaw
      BY <2>8, ReadRawKeeps
    <2>9. CASE UNCHANGED vars
      BY <2>9, StutterKeeps
    <2>10. QED
      BY <2>1, <2>2, <2>3, <2>4, <2>5, <2>6, <2>7, <2>8, <2>9 DEF Next, Network, Receive
  <1>3. QED
    BY <1>1, <1>2, PTL DEF Spec

\* The decoders and the loop keep the types: receive decodes a message that was
\* sent, and a field that the message has.
THEOREM StreamTyped == Spec => []TypeOK
  <1>1. StreamInv => TypeOK
    BY DEF StreamInv
  <1>2. QED
    BY <1>1, StreamInvariant, PTL

\* Peeks, reads and polls that time out neither lose, double nor reorder a
\* byte of the connection (Reader.PeekBytes and ReadBytes).
THEOREM StreamInOrder == Spec => []BytesInOrder
  <1>1. StreamInv => BytesInOrder
    BY DEF StreamInv
  <1>2. QED
    BY <1>1, StreamInvariant, PTL

\* Every decoder reads its fields where the client wrote them; receive takes a
\* byte from the middle of a message for the type of a request only behind a
\* value that was cut short.
THEOREM FieldsRead == Spec => []FieldsAreWhole
  <1>1. StreamInv => FieldsAreWhole
    BY DEF StreamInv
  <1>2. QED
    BY <1>1, StreamInvariant, PTL

=============================================================================
