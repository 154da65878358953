--------------------------- MODULE MessageReader ---------------------------
(***************************************************************************)
(* How requests are cut out of the byte stream of a connection:            *)
(* protocol/reader.go, protocol/message_reader.go, the decoders of the     *)
(* request messages (New...WithReader) and the calls receive makes of      *)
(* them.                                                                   *)
(*                                                                         *)
(* TCP hands the stream over in segments of any size.  A decoder asks for  *)
(* one field after the other; no read is told where a message ends.  So    *)
(* one byte lost, read twice or put back in the wrong place would turn     *)
(* every later request into garbage.                                       *)
(*                                                                         *)
(* A byte is modelled by its place in the stream; widths are scaled down.  *)
(***************************************************************************)
EXTENDS Naturals, Sequences

CONSTANTS
    Kinds,        \* kinds of messages
    Startup,      \* the kind of the first message, which has no type byte
    Ends,         \* for each kind, where its fields end
    Raw,          \* <<kind, field>>: the fields read with Read, not ReadBytes
    MaxMessages   \* bound on the messages the client sends

ASSUME ShapesAssumption ==
    /\ Startup \in Kinds
    /\ Ends \in [Kinds -> Seq(Nat \ {0})]
    /\ \A k \in Kinds : /\ Len(Ends[k]) > 0
                        /\ \A f, g \in 1 .. Len(Ends[k]) : f < g => Ends[k][f] < Ends[k][g]
                        /\ k # Startup => Ends[k][1] = 1
    /\ Raw \subseteq (Kinds \ {Startup}) \X (Nat \ {0, 1})
    /\ MaxMessages \in Nat

VARIABLES
    sent,      \* the messages written by the client: their kind and first byte
    written,   \* bytes written by the client
    arrived,   \* of these, the bytes that have reached the socket
    ended,     \* the client has closed, and nothing arrives any more
    pc,        \* "startup" (PeekInt32), "peek" (PeekType), "decode", "poll"
               \* (PeekTypeNonBlocking), "astray" or "closed"
    msg,       \* the message being decoded
    field,     \* its field being read
    taken,     \* bytes read from the connection
    buf,       \* what the running ReadBytes has so far
    peekBuf    \* Reader.peekBuf

client == <<sent, written, ended>>
vars == <<client, arrived, pc, msg, field, taken, buf, peekBuf>>

Sent == 1 .. Len(sent)
Fields(m) == Ends[sent[m].kind]

\* Field f of message m: the byte before it, its width, and its end.
Before(m, f) == sent[m].start - 1 + (IF f = 1 THEN 0 ELSE Fields(m)[f - 1])
Through(m, f) == sent[m].start - 1 + Fields(m)[f]
Width(m, f) == Through(m, f) - Before(m, f)

LengthSize == Ends[Startup][1]

\* The bytes after the n-th of the stream, up to the m-th.
Span(n, m) == [i \in 1 .. m - n |-> n + i]

TypeOK ==
    /\ sent \in Seq([kind : Kinds, start : Nat \ {0}])
    /\ written \in Nat /\ arrived \in Nat /\ taken \in Nat
    /\ ended \in BOOLEAN
    /\ pc \in {"startup", "peek", "decode", "poll", "astray", "closed"}
    /\ msg \in 0 .. Len(sent)
    /\ pc = "decode" => msg \in Sent /\ field \in DOMAIN Fields(msg)
    /\ buf \in Seq(Nat) /\ peekBuf \in Seq(Nat)

Init ==
    /\ sent = <<>> /\ written = 0 /\ arrived = 0 /\ ended = FALSE
    /\ pc = "startup"
    /\ msg = 0 /\ field = 0
    /\ taken = 0 /\ buf = <<>> /\ peekBuf = <<>>

-----------------------------------------------------------------------------
(***************************************************************************)
(* The client and the network.                                             *)
(***************************************************************************)
Send(k) ==
    /\ ~ended
    /\ Len(sent) < MaxMessages
    /\ (sent = <<>>) <=> (k = Startup)
    /\ sent' = Append(sent, [kind |-> k, start |-> written + 1])
    /\ written' = written + Ends[k][Len(Ends[k])]
    /\ UNCHANGED <<arrived, ended, pc, msg, field, taken, buf, peekBuf>>

Arrive ==
    /\ ~ended
    /\ \E n \in arrived + 1 .. written : arrived' = n
    /\ UNCHANGED <<client, pc, msg, field, taken, buf, peekBuf>>

\* The client goes, perhaps in the middle of a message.
HangUp ==
    /\ ~ended
    /\ ended' = TRUE
    /\ UNCHANGED <<sent, written, arrived, pc, msg, field, taken, buf, peekBuf>>

-----------------------------------------------------------------------------
(***************************************************************************)
(* ReadBytes: first from peekBuf, then from the connection until there is  *)
(* enough.  A read of the connection returns what has arrived, at least a  *)
(* byte.                                                                   *)
(***************************************************************************)
\* Variant: ReadBytes reads the connection although bytes have been peeked.
ReadChunkDirect(n) ==
    /\ Len(buf) < n
    /\ \E k \in 1 .. n - Len(buf) :
         /\ taken + k <= arrived
         /\ taken' = taken + k
         /\ buf' = buf \o Span(taken, taken + k)
    /\ UNCHANGED <<client, arrived, pc, msg, field, peekBuf>>

\* One turn of ReadBytes for n bytes.
ReadChunk(n) ==
    /\ Len(buf) < n
    /\ IF peekBuf # <<>>
       THEN /\ buf' = Append(buf, Head(peekBuf))
            /\ peekBuf' = Tail(peekBuf)
            /\ UNCHANGED taken
       ELSE \E k \in 1 .. n - Len(buf) :
            /\ taken + k <= arrived
            /\ taken' = taken + k
            /\ buf' = buf \o Span(taken, taken + k)
            /\ UNCHANGED peekBuf
    /\ UNCHANGED <<client, arrived, pc, msg, field>>

\* The connection has no more bytes and never will.
AtEnd == ended /\ taken = arrived /\ peekBuf = <<>>

\* The read fails: what it has read so far is gone.
ReadFails(n) ==
    /\ AtEnd /\ Len(buf) < n
    /\ buf' = <<>>
    /\ UNCHANGED <<client, arrived, taken, peekBuf, msg, field>>

\* Variant: a peek forgets what it has read.
PutBackNot == buf' = <<>> /\ UNCHANGED <<client, arrived, taken, peekBuf>>

\* The end of PeekBytes: what it has read goes back behind the rest.
PutBack ==
    /\ peekBuf' = peekBuf \o buf
    /\ buf' = <<>>
    /\ UNCHANGED <<client, arrived, taken>>

-----------------------------------------------------------------------------
(***************************************************************************)
(* The request loop.                                                       *)
(***************************************************************************)
Decode(m) == pc' = "decode" /\ msg' = m /\ field' = 1

\* receive peeks the length of the first message, then reads it as Startup.
PeekLength ==
    /\ pc = "startup"
    /\ \/ ReadChunk(LengthSize)
       \/ Len(buf) = LengthSize /\ PutBack /\ Decode(1)
       \/ ReadFails(LengthSize) /\ pc' = "closed"

\* PeekType: a byte that begins a message says how to read it; what receive
\* makes of another byte is not modelled.
PeekType ==
    /\ pc = "peek"
    /\ \/ ReadChunk(1)
       \/ /\ Len(buf) = 1
          /\ PutBack
          /\ \/ \E m \in Sent : sent[m].start = buf[1] /\ Decode(m)
             \/ /\ \A m \in Sent : sent[m].start # buf[1]
                /\ pc' = "astray"
                /\ UNCHANGED <<msg, field>>
       \/ ReadFails(1) /\ pc' = "closed"

\* Variant: the poll wants a whole header.
PollHeader == 2

\* PeekTypeNonBlocking peeks one byte, of which no part can be lost.
PollSize == 1

\* The request has been answered and another one may wait.  The poll's
\* deadline may pass as long as its read lacks bytes.
Poll ==
    /\ pc = "poll"
    /\ \/ ReadChunk(PollSize)
       \/ Len(buf) = PollSize /\ PutBack /\ pc' = "peek" /\ UNCHANGED <<msg, field>>

\* Variant: a poll that fails ends the loop.
PollDeadlineCloses ==
    /\ pc = "poll"
    /\ Len(buf) < PollSize /\ peekBuf = <<>>
    /\ buf' = <<>>
    /\ pc' = "closed"
    /\ UNCHANGED <<client, arrived, taken, peekBuf, msg, field>>

PollDeadline ==
    /\ pc = "poll"
    /\ Len(buf) < PollSize /\ peekBuf = <<>>
    /\ buf' = <<>>
    /\ pc' = "peek"
    /\ UNCHANGED <<client, arrived, taken, peekBuf, msg, field>>

-----------------------------------------------------------------------------
(***************************************************************************)
(* The decoders.                                                           *)
(***************************************************************************)

\* Variant: one field too many is read.
FieldDoneLate ==
    IF field <= Len(Fields(msg)) THEN field' = field + 1 /\ UNCHANGED <<pc, msg>>
    ELSE pc' = (IF msg = 1 THEN "peek" ELSE "poll") /\ UNCHANGED <<msg, field>>

\* The field is read: go on to the next one, or the message is complete.  The
\* handler of Startup writes its ReadyForQuery without a poll.
FieldDone ==
    IF field < Len(Fields(msg)) THEN field' = field + 1 /\ UNCHANGED <<pc, msg>>
    ELSE pc' = (IF msg = 1 THEN "peek" ELSE "poll") /\ UNCHANGED <<msg, field>>

IsRaw == <<sent[msg].kind, field>> \in Raw

\* ReadBytes of a field; its error is answered, unless it is that of Startup.
ReadField ==
    /\ pc = "decode"
    /\ ~IsRaw
    /\ \/ ReadChunk(Width(msg, field))
       \/ /\ Len(buf) = Width(msg, field)
          /\ buf' = <<>>
          /\ FieldDone
          /\ UNCHANGED <<client, arrived, taken, peekBuf>>
       \/ ReadFails(Width(msg, field)) /\ pc' = IF msg = 1 THEN "closed" ELSE "poll"

\* NewBindWithReader reads the value of a parameter with one Read of the
\* connection: a part of it is a short message, and the decoder gives up.
ReadRaw ==
    /\ pc = "decode"
    /\ IsRaw
    /\ \/ \E k \in 1 .. Width(msg, field) :
            /\ taken + k <= arrived
            /\ taken' = taken + k
            /\ IF k = Width(msg, field) THEN FieldDone
               ELSE pc' = "poll" /\ UNCHANGED <<msg, field>>
            /\ UNCHANGED <<client, arrived, buf, peekBuf>>
       \/ ReadFails(1) /\ pc' = "poll"

-----------------------------------------------------------------------------
Network == (\E k \in Kinds : Send(k)) \/ Arrive \/ HangUp
Receive == PeekLength \/ PeekType \/ Poll \/ PollDeadline \/ ReadField \/ ReadRaw

Next == Network \/ Receive

Spec == Init /\ [][Next]_vars

\* What was written arrives, and receive goes on while it can; the client
\* need not send or leave.
FairSpec == Spec /\ WF_vars(Arrive) /\ WF_vars(Receive)

-----------------------------------------------------------------------------
(***************************************************************************)
(* Properties.                                                             *)
(***************************************************************************)

\* The bytes handed out so far: behind them come those the running read has,
\* then peekBuf, then what is still in the connection.
Unread == taken - (Len(peekBuf) + Len(buf))

\* No byte is doubled or put back out of order by ReadBytes and PeekBytes,
\* whatever the segments of the stream and the mix of peeks, reads, and polls
\* that time out.
BytesInOrder ==
    /\ taken <= arrived /\ arrived <= written
    /\ Len(peekBuf) + Len(buf) <= taken
    /\ \A i \in DOMAIN buf : buf[i] = Unread + i
    /\ \A i \in DOMAIN peekBuf : peekBuf[i] = Unread + Len(buf) + i

\* The decoder gave up on a value of which one Read returned a part.
CutShort ==
    /\ msg \in Sent /\ field \in DOMAIN Fields(msg) /\ IsRaw
    /\ Before(msg, field) < Unread /\ Unread < Through(msg, field)

\* Each field is read from the bytes the client wrote for it, and each request
\* from where the one before it ended: no byte is lost.  The loop takes a byte
\* from the middle of a message for a type only when a value was cut short,
\* and then it never decodes a request from there.
FieldsAreWhole ==
    /\ pc = "astray" => CutShort
    /\ pc = "decode" => Unread = Before(msg, field)

\* Every request of a client that stays is read in the end, unless a value
\* before it was cut short.
EveryMessageIsRead ==
    \A m \in 1 .. MaxMessages :
        Len(sent) >= m
            ~> (ended \/ pc = "astray" \/ msg > m \/ (msg = m /\ pc # "decode"))

-----------------------------------------------------------------------------
(***************************************************************************)
(* The inductive invariant behind BytesInOrder and FieldsAreWhole: the     *)
(* messages lie end to end in the stream, a peek outlives only the field   *)
(* that it peeked, and between two requests the loop stands at the end of  *)
(* a message, unless a value was cut short or the stream has ended.        *)
(***************************************************************************)
LastByte(m) == Through(m, Len(Fields(m)))

EndToEnd ==
    /\ sent = <<>> => written = 0
    /\ sent # <<>> => sent[1].start = 1 /\ written = LastByte(Len(sent))
    /\ \A m \in Sent : sent[m].kind = Startup <=> m = 1
    /\ \A m \in Sent : m + 1 \in Sent => sent[m + 1].start = LastByte(m) + 1
    /\ \A m, n \in Sent : m < n => LastByte(m) < sent[n].start

StandsAt ==
    /\ pc = "startup" => Unread = 0 /\ peekBuf = <<>> /\ Len(buf) <= LengthSize
    /\ pc \in {"peek", "poll"} =>
         /\ msg \in Sent
         /\ Len(buf) + Len(peekBuf) <= 1
         /\ Unread = LastByte(msg) \/ CutShort \/ (AtEnd /\ buf = <<>>)
    /\ pc = "decode" =>
         /\ Len(buf) <= Width(msg, field)
         /\ peekBuf # <<>> => field = 1 /\ Len(buf) + Len(peekBuf) = Width(msg, 1)
         /\ IsRaw => buf = <<>>

StreamInv == TypeOK /\ BytesInOrder /\ FieldsAreWhole /\ EndToEnd /\ StandsAt

=============================================================================
