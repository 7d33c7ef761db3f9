-------------------------- MODULE FileUploadProofs --------------------------
(***************************************************************************)
(* The safety of FileUpload for any size of the file, of the reads, of the *)
(* window and of the channels.  Whatever the messages on their way         *)
(* acknowledge was stored, and whatever is stored was sent, up to the end  *)
(* of a chunk: that is why a 201 means a stored file, and why each         *)
(* acknowledgement, which ends a wait, takes a chunk out of the window.    *)
(***************************************************************************)
EXTENDS FileUpload, FiniteSetTheorems, TLAPS

\* The ends of the chunks of E that an acknowledgement of a leaves open.
Unacknowledged(E, a) == {e \in E : e > a}

\* The device gets what was sent, chunks that end in E among it.
Sent(chan, E) ==
  /\ chan \in Seq(Chunk) /\ Len(chan) <= ChanSize
  /\ \A m \in Range(chan) : m.type = "chunk" => m.offset + m.len \in E

\* The device's messages acknowledge ends of chunks, up to the offset a.
Acknowledged(chan, E, a) ==
  /\ chan \in Seq(Message) /\ Len(chan) <= ChanSize
  /\ \A m \in Range(chan) : m.offset <= a /\ m.offset \in E \union {0}

\* Chunks end within what was sent, and every offset that travels back from
\* the device to the handler is such an end, of a chunk the device stored.
EndsAreSent ==
  /\ ends \subseteq 1 .. offset
  /\ {stored, acked, inAck, ackChan, ack} \subseteq ends \union {0}
  /\ Sent(toDevice, ends)
  /\ Acknowledged(toServer, ends, acked)

\* The handler answers once, and with success when all it sent is acknowledged.
CreatedAtEnd ==
  /\ handler # "done" => response = "none"
  /\ handler \in {"start", "handshake", "put"} => offset = 0
  /\ handler = "final" => offset = FileSize
  /\ response = "created" => offset = FileSize /\ offset <= ack

\* Where the offsets of the two goroutines, the device and NATS agree.
IInv ==
  /\ TypeOK
  /\ LatestAckKept
  /\ EndsAreSent
  /\ CreatedAtEnd

\* Before it sends a chunk the handler has room for it in the window.
WindowKept ==
  /\ Cardinality(Unacknowledged(ends, ack)) <= Window + 1
  /\ handler \in {"read", "poll"} =>
       Cardinality(Unacknowledged(ends, ack)) <= Window

-----------------------------------------------------------------------------
\* A channel that is full keeps what it has, and else gets the message.
LEMMA DeliverType ==
  ASSUME NEW S, NEW q \in Seq(S), Len(q) <= ChanSize, NEW m \in S
  PROVE  /\ Deliver(q, m) \in Seq(S)
         /\ Len(Deliver(q, m)) <= ChanSize
         /\ Range(Deliver(q, m)) \subseteq Range(q) \union {m}
  BY SizesAssumption DEF Deliver, Range

\* The first message leaves the channel.
LEMMA ReceiveType ==
  ASSUME NEW S, NEW q \in Seq(S), q # <<>>
  PROVE  /\ Head(q) \in S
         /\ Head(q) \in Range(q)
         /\ Tail(q) \in Seq(S)
         /\ Len(Tail(q)) <= Len(q)
         /\ Range(Tail(q)) \subseteq Range(q)
  BY DEF Range

\* What a message more or less, or a chunk more, does to the device's channel.
LEMMA SentKept ==
  /\ \A q, E, F : Sent(q, E) /\ E \subseteq F => Sent(q, F)
  /\ \A q, E, type : \A off \in 0 .. FileSize, len \in 0 .. MaxRead :
       Sent(q, E) /\ Req(type, off, len) \in Chunk
         /\ (type = "chunk" => off + len \in E) =>
           Sent(Deliver(q, Req(type, off, len)), E)
  /\ \A q, E : Sent(q, E) /\ q # <<>> =>
       /\ Sent(Tail(q), E)
       /\ Head(q) \in Chunk
       /\ Head(q).type = "chunk" => Head(q).offset + Head(q).len \in E
  <1>1. \A q, E, F : Sent(q, E) /\ E \subseteq F => Sent(q, F)
    BY DEF Sent
  <1>2. ASSUME NEW q, NEW E, NEW type, NEW off \in 0 .. FileSize,
               NEW len \in 0 .. MaxRead, Sent(q, E),
               Req(type, off, len) \in Chunk,
               type = "chunk" => off + len \in E
        PROVE  Sent(Deliver(q, Req(type, off, len)), E)
    <2>1. Req(type, off, len).type = "chunk" =>
            Req(type, off, len).offset + Req(type, off, len).len \in E
      BY <1>2 DEF Req
    <2>2. QED
      BY <1>2, <2>1, DeliverType DEF Sent
  <1>3. ASSUME NEW q, NEW E, Sent(q, E), q # <<>>
        PROVE  /\ Sent(Tail(q), E)
               /\ Head(q) \in Chunk
               /\ Head(q).type = "chunk" =>
                    Head(q).offset + Head(q).len \in E
    BY <1>3, ReceiveType, SizesAssumption DEF Sent
  <1>4. QED
    BY <1>1, <1>2, <1>3

\* The same for the channel of the device's messages.
LEMMA AcknowledgedKept ==
  /\ \A q, E, F : \A a, b \in Nat :
       Acknowledged(q, E, a) /\ E \subseteq F /\ a <= b => Acknowledged(q, F, b)
  /\ \A q, E, a, type, off :
       Acknowledged(q, E, a) /\ Msg(type, off) \in Message
         /\ off <= a /\ off \in E \union {0} =>
           Acknowledged(Deliver(q, Msg(type, off)), E, a)
  /\ \A q, E, a : Acknowledged(q, E, a) /\ q # <<>> =>
       /\ Acknowledged(Tail(q), E, a)
       /\ Head(q) \in Message
       /\ Head(q).offset <= a
       /\ Head(q).offset \in E \union {0}
  <1>1. ASSUME NEW q, NEW E, NEW F, NEW a \in Nat, NEW b \in Nat,
               Acknowledged(q, E, a), E \subseteq F, a <= b
        PROVE  Acknowledged(q, F, b)
    <2>1. ASSUME NEW m \in Range(q) PROVE m.offset \in Nat
      <3>1. m \in Message
        BY <1>1, <2>1 DEF Acknowledged, Range
      <3>2. QED
        BY <3>1, SizesAssumption DEF Message
    <2>2. QED
      BY <1>1, <2>1 DEF Acknowledged
  <1>2. ASSUME NEW q, NEW E, NEW a, NEW type, NEW off,
               Acknowledged(q, E, a), Msg(type, off) \in Message,
               off <= a, off \in E \union {0}
        PROVE  Acknowledged(Deliver(q, Msg(type, off)), E, a)
    <2>1. Msg(type, off).offset = off
      BY DEF Msg
    <2>2. QED
      BY <1>2, <2>1, DeliverType DEF Acknowledged
  <1>3. ASSUME NEW q, NEW E, NEW a, Acknowledged(q, E, a), q # <<>>
        PROVE  /\ Acknowledged(Tail(q), E, a)
               /\ Head(q) \in Message
               /\ Head(q).offset <= a
               /\ Head(q).offset \in E \union {0}
    BY <1>3, ReceiveType, SizesAssumption DEF Acknowledged
  <1>4. QED
    BY <1>1, <1>2, <1>3

\* The requests of the handler and the messages of the device.
LEMMA RequestType ==
  /\ \A type \in {"open", "put", "pong", "close"} : Req(type, 0, 0) \in Chunk
  /\ Req("eof", FileSize, 0) \in Chunk
  /\ \A off \in 0 .. FileSize, len \in 0 .. MaxRead :
       Req("chunk", off, len) \in Chunk
  /\ \A type \in {"accept", "refuse", "ack", "ping", "error"},
        off \in 0 .. FileSize : Msg(type, off) \in Message
  BY SizesAssumption DEF Req, Chunk, Msg, Message

\* That the session closes is no chunk.
LEMMA CloseKept ==
  ASSUME NEW q, NEW E, Sent(q, E), Close(q)
  PROVE  Sent(toDevice', E)
  BY SentKept, RequestType, SizesAssumption DEF Close

-----------------------------------------------------------------------------
\* The offsets agree in every reachable state.
THEOREM Inductive == Spec => []IInv
  <1> USE SizesAssumption
      DEF IInv, LatestAckKept, EndsAreSent, CreatedAtEnd,
          handlerVars, inboundVars, deviceVars
  <1>1. ASSUME Init PROVE IInv
    BY <1>1 DEF Init, Range, TypeOK, Sent, Acknowledged
  <1>2. ASSUME IInv, Handshake PROVE IInv'
    <2>1. Sent(toDevice', ends')
      BY <1>2, SentKept, CloseKept, RequestType DEF Handshake, TypeOK
    <2>2. Acknowledged(toServer', ends', acked')
      BY <1>2, AcknowledgedKept, RequestType DEF Handshake, TypeOK
    <2>3. TypeOK'
      BY <1>2, <2>1, <2>2 DEF Handshake, TypeOK, Sent, Acknowledged
    <2>4. LatestAckKept' /\ CreatedAtEnd'
      BY <1>2 DEF Handshake, TypeOK
    <2>5. EndsAreSent'
      BY <1>2, <2>1, <2>2 DEF Handshake, TypeOK
    <2>6. QED
      BY <2>3, <2>4, <2>5
  <1>3. ASSUME IInv, Accepted PROVE IInv'
    <2>1. Sent(toDevice', ends')
      <3>1. /\ ends' = ends
            /\ \/ toDevice' = Deliver(toDevice, Req("put", 0, 0))
               \/ Close(toDevice)
               \/ toDevice' = toDevice
        BY <1>3 DEF Accepted
      <3>2. QED
        BY <1>3, <3>1, SentKept, CloseKept, RequestType
    <2>2. Acknowledged(toServer', ends', acked')
      BY <1>3, AcknowledgedKept, RequestType
         DEF Accepted, Respond, Close, Message, TypeOK
    <2>3. TypeOK'
      BY <1>3, <2>1, <2>2
         DEF Accepted, Respond, Close, Message, TypeOK, Sent, Acknowledged
    <2>4. LatestAckKept' /\ CreatedAtEnd'
      BY <1>3 DEF Accepted, Respond, Close, Message, TypeOK
    <2>5. EndsAreSent'
      BY <1>3, <2>1, <2>2 DEF Accepted, Respond, Close, Message, TypeOK
    <2>6. QED
      BY <2>3, <2>4, <2>5
  <1>4. ASSUME IInv, GoAhead PROVE IInv'
    <2>1. Sent(toDevice', ends')
      BY <1>4, SentKept, CloseKept, RequestType
         DEF GoAhead, Respond, Message, TypeOK
    <2>2. Acknowledged(toServer', ends', acked')
      BY <1>4, AcknowledgedKept, RequestType
         DEF GoAhead, Respond, Close, Message, TypeOK
    <2>3. TypeOK'
      BY <1>4, <2>1, <2>2
         DEF GoAhead, Respond, Close, Message, TypeOK, Sent, Acknowledged
    <2>4. LatestAckKept' /\ CreatedAtEnd'
      BY <1>4 DEF GoAhead, Respond, Close, Message, TypeOK
    <2>5. EndsAreSent'
      BY <1>4, <2>1, <2>2 DEF GoAhead, Respond, Close, Message, TypeOK
    <2>6. QED
      BY <2>3, <2>4, <2>5
  <1>5. ASSUME IInv, NoAnswer PROVE IInv'
    <2>1. Sent(toDevice', ends')
      BY <1>5, SentKept, CloseKept, RequestType DEF NoAnswer, Respond, TypeOK
    <2>2. Acknowledged(toServer', ends', acked')
      BY <1>5, AcknowledgedKept, RequestType
         DEF NoAnswer, Respond, Close, TypeOK
    <2>3. TypeOK'
      BY <1>5, <2>1, <2>2
         DEF NoAnswer, Respond, Close, TypeOK, Sent, Acknowledged
    <2>4. LatestAckKept' /\ CreatedAtEnd'
      BY <1>5 DEF NoAnswer, Respond, Close, TypeOK
    <2>5. EndsAreSent'
      BY <1>5, <2>1, <2>2 DEF NoAnswer, Respond, Close, TypeOK
    <2>6. QED
      BY <2>3, <2>4, <2>5
  <1>6. ASSUME IInv, SendChunk PROVE IInv'
    <2>1. Sent(toDevice', ends')
      BY <1>6, SentKept, CloseKept, RequestType
         DEF SendChunk, ExceedsWindow, TickAfterReset, TypeOK
    <2>2. Acknowledged(toServer', ends', acked')
      BY <1>6, AcknowledgedKept, RequestType
         DEF SendChunk, ExceedsWindow, TickAfterReset, TypeOK
    <2>3. TypeOK'
      BY <1>6, <2>1, <2>2
         DEF SendChunk, ExceedsWindow, TickAfterReset, TypeOK, Sent,
             Acknowledged
    <2>4. LatestAckKept' /\ CreatedAtEnd'
      BY <1>6 DEF SendChunk, ExceedsWindow, TickAfterReset, TypeOK
    <2>5. EndsAreSent'
      BY <1>6, <2>1, <2>2 DEF SendChunk, ExceedsWindow, TickAfterReset, TypeOK
    <2>6. QED
      BY <2>3, <2>4, <2>5
  <1>7. ASSUME IInv, SendEnd PROVE IInv'
    <2>1. Sent(toDevice', ends')
      <3>1. /\ ends' = ends
            /\ \/ toDevice' = Deliver(toDevice, Req("eof", FileSize, 0))
               \/ Close(Deliver(toDevice, Req("eof", FileSize, 0)))
        BY <1>7 DEF SendEnd
      <3>2. Sent(Deliver(toDevice, Req("eof", FileSize, 0)), ends)
        BY <1>7, SentKept, RequestType
      <3>3. QED
        BY <3>1, <3>2, CloseKept
    <2>2. Acknowledged(toServer', ends', acked')
      BY <1>7, AcknowledgedKept, RequestType
         DEF SendEnd, AllAcknowledged, Respond, Close, TickAfterReset, TypeOK
    <2>3. TypeOK'
      BY <1>7, <2>1, <2>2
         DEF SendEnd, AllAcknowledged, Respond, Close, TickAfterReset, TypeOK,
             Sent, Acknowledged
    <2>4. LatestAckKept' /\ CreatedAtEnd'
      BY <1>7
         DEF SendEnd, AllAcknowledged, Respond, Close, TickAfterReset, TypeOK
    <2>5. EndsAreSent'
      BY <1>7, <2>1, <2>2
         DEF SendEnd, AllAcknowledged, Respond, Close, TickAfterReset, TypeOK
    <2>6. QED
      BY <2>3, <2>4, <2>5
  <1>8. ASSUME IInv, SendFails PROVE IInv'
    <2>1. Sent(toDevice', ends')
      BY <1>8, SentKept, CloseKept, RequestType DEF SendFails, Respond, TypeOK
    <2>2. Acknowledged(toServer', ends', acked')
      BY <1>8, AcknowledgedKept, RequestType
         DEF SendFails, Respond, Close, TypeOK
    <2>3. TypeOK'
      BY <1>8, <2>1, <2>2
         DEF SendFails, Respond, Close, TypeOK, Sent, Acknowledged
    <2>4. LatestAckKept' /\ CreatedAtEnd'
      BY <1>8 DEF SendFails, Respond, Close, TypeOK
    <2>5. EndsAreSent'
      BY <1>8, <2>1, <2>2 DEF SendFails, Respond, Close, TypeOK
    <2>6. QED
      BY <2>3, <2>4, <2>5
  <1>9. ASSUME IInv, TakeError PROVE IInv'
    <2>1. Sent(toDevice', ends')
      BY <1>9, SentKept, CloseKept, RequestType
         DEF TakeError, ErrorWaiting, ErrorTaken, Respond, TypeOK
    <2>2. Acknowledged(toServer', ends', acked')
      BY <1>9, AcknowledgedKept, RequestType
         DEF TakeError, ErrorWaiting, ErrorTaken, Respond, Close, TypeOK
    <2>3. TypeOK'
      BY <1>9, <2>1, <2>2
         DEF TakeError, ErrorWaiting, ErrorTaken, Respond, Close, TypeOK, Sent,
             Acknowledged
    <2>4. LatestAckKept' /\ CreatedAtEnd'
      BY <1>9 DEF TakeError, ErrorWaiting, ErrorTaken, Respond, Close, TypeOK
    <2>5. EndsAreSent'
      BY <1>9, <2>1, <2>2
         DEF TakeError, ErrorWaiting, ErrorTaken, Respond, Close, TypeOK
    <2>6. QED
      BY <2>3, <2>4, <2>5
  <1>10. ASSUME IInv, PollNothing PROVE IInv'
    <2>1. Sent(toDevice', ends')
      BY <1>10, SentKept, CloseKept, RequestType DEF PollNothing, TypeOK
    <2>2. Acknowledged(toServer', ends', acked')
      BY <1>10, AcknowledgedKept, RequestType DEF PollNothing, TypeOK
    <2>3. TypeOK'
      BY <1>10, <2>1, <2>2 DEF PollNothing, TypeOK, Sent, Acknowledged
    <2>4. LatestAckKept' /\ CreatedAtEnd'
      BY <1>10 DEF PollNothing, TypeOK
    <2>5. EndsAreSent'
      BY <1>10, <2>1, <2>2 DEF PollNothing, TypeOK
    <2>6. QED
      BY <2>3, <2>4, <2>5
  <1>11. ASSUME IInv, WaitAck PROVE IInv'
    <2>1. Sent(toDevice', ends')
      BY <1>11, SentKept, CloseKept, RequestType DEF WaitAck, TypeOK
    <2>2. Acknowledged(toServer', ends', acked')
      BY <1>11, AcknowledgedKept, RequestType DEF WaitAck, TypeOK
    <2>3. TypeOK'
      BY <1>11, <2>1, <2>2 DEF WaitAck, TypeOK, Sent, Acknowledged
    <2>4. LatestAckKept' /\ CreatedAtEnd'
      BY <1>11 DEF WaitAck, TypeOK
    <2>5. EndsAreSent'
      BY <1>11, <2>1, <2>2 DEF WaitAck, TypeOK
    <2>6. QED
      BY <2>3, <2>4, <2>5
  <1>12. ASSUME IInv, FinalAck PROVE IInv'
    <2>1. Sent(toDevice', ends')
      BY <1>12, SentKept, CloseKept, RequestType
         DEF FinalAck, AllAcknowledged, Respond, TickAfterReset, TypeOK
    <2>2. Acknowledged(toServer', ends', acked')
      BY <1>12, AcknowledgedKept, RequestType
         DEF FinalAck, AllAcknowledged, Respond, Close, TickAfterReset, TypeOK
    <2>3. TypeOK'
      BY <1>12, <2>1, <2>2
         DEF FinalAck, AllAcknowledged, Respond, Close, TickAfterReset, TypeOK,
             Sent, Acknowledged
    <2>4. LatestAckKept' /\ CreatedAtEnd'
      BY <1>12
         DEF FinalAck, AllAcknowledged, Respond, Close, TickAfterReset, TypeOK
    <2>5. EndsAreSent'
      BY <1>12, <2>1, <2>2
         DEF FinalAck, AllAcknowledged, Respond, Close, TickAfterReset, TypeOK
    <2>6. QED
      BY <2>3, <2>4, <2>5
  <1>13. ASSUME IInv, Timeout PROVE IInv'
    <2>1. Sent(toDevice', ends')
      BY <1>13, SentKept, CloseKept, RequestType DEF Timeout, Respond, TypeOK
    <2>2. Acknowledged(toServer', ends', acked')
      BY <1>13, AcknowledgedKept, RequestType
         DEF Timeout, Respond, Close, TypeOK
    <2>3. TypeOK'
      BY <1>13, <2>1, <2>2
         DEF Timeout, Respond, Close, TypeOK, Sent, Acknowledged
    <2>4. LatestAckKept' /\ CreatedAtEnd'
      BY <1>13 DEF Timeout, Respond, Close, TypeOK
    <2>5. EndsAreSent'
      BY <1>13, <2>1, <2>2 DEF Timeout, Respond, Close, TypeOK
    <2>6. QED
      BY <2>3, <2>4, <2>5
  <1>14. ASSUME IInv, TimerFires PROVE IInv'
    <2>1. Sent(toDevice', ends')
      BY <1>14, SentKept, CloseKept, RequestType DEF TimerFires, TypeOK
    <2>2. Acknowledged(toServer', ends', acked')
      BY <1>14, AcknowledgedKept, RequestType DEF TimerFires, TypeOK
    <2>3. TypeOK'
      BY <1>14, <2>1, <2>2 DEF TimerFires, TypeOK, Sent, Acknowledged
    <2>4. LatestAckKept' /\ CreatedAtEnd'
      BY <1>14 DEF TimerFires, TypeOK
    <2>5. EndsAreSent'
      BY <1>14, <2>1, <2>2 DEF TimerFires, TypeOK
    <2>6. QED
      BY <2>3, <2>4, <2>5
  <1>15. ASSUME IInv, InboundAck PROVE IInv'
    <2>1. Sent(toDevice', ends')
      BY <1>15, SentKept, CloseKept, RequestType
         DEF InboundAck, LatestAck, Message, TypeOK
    <2>2. Acknowledged(toServer', ends', acked')
      BY <1>15, AcknowledgedKept, RequestType
         DEF InboundAck, LatestAck, Message, TypeOK
    <2>3. /\ Head(toServer).offset \in 0 .. acked
          /\ Head(toServer).offset \in ends \union {0}
      <3>1. /\ Head(toServer) \in Message
            /\ Head(toServer).offset <= acked
            /\ Head(toServer).offset \in ends \union {0}
        BY <1>15, AcknowledgedKept DEF InboundAck
      <3>2. acked \in Nat
        BY <1>15 DEF TypeOK
      <3>3. QED
        BY <3>1, <3>2 DEF Message
    <2>4. CASE Head(toServer).offset > inAck
      <3>1. inAck' = Head(toServer).offset /\ ackChan' = Head(toServer).offset
        BY <1>15, <2>4 DEF InboundAck, LatestAck
      <3>2. UNCHANGED <<handlerVars, inbound, toDevice, deviceVars>>
        BY <1>15 DEF InboundAck
      <3>3. TypeOK'
        BY <1>15, <2>1, <2>2, <2>3, <3>1, <3>2 DEF TypeOK, Sent, Acknowledged
      <3>4. QED
        BY <1>15, <2>1, <2>2, <2>3, <2>4, <3>1, <3>2, <3>3 DEF TypeOK
    <2>5. CASE ~(Head(toServer).offset > inAck)
      <3>1. /\ UNCHANGED <<inAck, ackChan>>
            /\ UNCHANGED <<handlerVars, inbound, toDevice, deviceVars>>
        BY <1>15, <2>5 DEF InboundAck
      <3>2. TypeOK'
        BY <1>15, <2>1, <2>2, <3>1 DEF TypeOK, Sent, Acknowledged
      <3>3. QED
        BY <1>15, <2>1, <2>2, <3>1, <3>2 DEF TypeOK
    <2>6. QED
      BY <2>4, <2>5
  <1>16. ASSUME IInv, InboundPing PROVE IInv'
    <2>1. Sent(toDevice', ends')
      BY <1>16, SentKept, CloseKept, RequestType DEF InboundPing, TypeOK
    <2>2. Acknowledged(toServer', ends', acked')
      BY <1>16, AcknowledgedKept, RequestType DEF InboundPing, TypeOK
    <2>3. TypeOK'
      BY <1>16, <2>1, <2>2 DEF InboundPing, TypeOK, Sent, Acknowledged
    <2>4. LatestAckKept' /\ CreatedAtEnd'
      BY <1>16 DEF InboundPing, TypeOK
    <2>5. EndsAreSent'
      BY <1>16, <2>1, <2>2 DEF InboundPing, TypeOK
    <2>6. QED
      BY <2>3, <2>4, <2>5
  <1>17. ASSUME IInv, InboundError PROVE IInv'
    <2>1. Sent(toDevice', ends')
      BY <1>17, SentKept, CloseKept, RequestType DEF InboundError, TypeOK
    <2>2. Acknowledged(toServer', ends', acked')
      BY <1>17, AcknowledgedKept, RequestType DEF InboundError, TypeOK
    <2>3. TypeOK'
      BY <1>17, <2>1, <2>2 DEF InboundError, TypeOK, Sent, Acknowledged
    <2>4. LatestAckKept' /\ CreatedAtEnd'
      BY <1>17 DEF InboundError, TypeOK
    <2>5. EndsAreSent'
      BY <1>17, <2>1, <2>2 DEF InboundError, TypeOK
    <2>6. QED
      BY <2>3, <2>4, <2>5
  <1>18. ASSUME IInv, DeviceReceives PROVE IInv'
    <2>1. Sent(toDevice', ends')
      BY <1>18, SentKept, CloseKept, RequestType
         DEF DeviceReceives, ToServer, Chunk, TypeOK
    <2> DEFINE m == Head(toDevice)
    <2>2. /\ m \in Chunk
          /\ m.type = "chunk" => m.offset + m.len \in ends
      BY <1>18, SentKept DEF DeviceReceives
    <2>3. /\ UNCHANGED <<handlerVars, inboundVars, acked>>
          /\ \/ /\ m.type = "chunk" /\ m.offset = stored
                /\ stored' = stored + m.len
                /\ UNCHANGED toServer
             \/ UNCHANGED stored
      BY <1>18 DEF DeviceReceives
    <2>4. \/ UNCHANGED toServer
          \/ \E type \in {"accept", "refuse", "ack", "error"} :
               toServer' = Deliver(toServer, Msg(type, 0))
      BY <1>18 DEF DeviceReceives, ToServer
    <2>5. Acknowledged(toServer', ends', acked')
      BY <1>18, <2>3, <2>4, AcknowledgedKept, RequestType DEF TypeOK
    \* A chunk is stored where the one before it ended.
    <2>6. stored' \in ends \union {0} /\ stored <= stored'
      BY <1>18, <2>2, <2>3 DEF Chunk, TypeOK
    <2>7. device' \in {"idle", "open", "receiving", "failed", "closed"}
      BY <1>18 DEF DeviceReceives, TypeOK
    <2> HIDE DEF m
    <2>8. TypeOK'
      BY <1>18, <2>1, <2>3, <2>5, <2>6, <2>7 DEF TypeOK, Sent, Acknowledged
    <2>9. QED
      BY <1>18, <2>1, <2>3, <2>5, <2>6, <2>8 DEF TypeOK
  <1>19. ASSUME IInv, DeviceAcks PROVE IInv'
    <2>1. Sent(toDevice', ends')
      BY <1>19, SentKept, CloseKept, RequestType
         DEF DeviceAcks, ToServer, TypeOK
    <2>2. Acknowledged(toServer', ends', acked')
      BY <1>19, AcknowledgedKept, RequestType DEF DeviceAcks, ToServer, TypeOK
    <2>3. TypeOK'
      BY <1>19, <2>1, <2>2 DEF DeviceAcks, ToServer, TypeOK, Sent, Acknowledged
    <2>4. LatestAckKept' /\ CreatedAtEnd'
      BY <1>19 DEF DeviceAcks, ToServer, TypeOK
    <2>5. EndsAreSent'
      BY <1>19, <2>1, <2>2 DEF DeviceAcks, ToServer, TypeOK
    <2>6. QED
      BY <2>3, <2>4, <2>5
  <1>20. ASSUME IInv, DevicePings PROVE IInv'
    <2>1. Sent(toDevice', ends')
      BY <1>20, SentKept, CloseKept, RequestType
         DEF DevicePings, ToServer, TypeOK
    <2>2. Acknowledged(toServer', ends', acked')
      BY <1>20, AcknowledgedKept, RequestType DEF DevicePings, ToServer, TypeOK
    <2>3. TypeOK'
      BY <1>20, <2>1, <2>2
         DEF DevicePings, ToServer, TypeOK, Sent, Acknowledged
    <2>4. LatestAckKept' /\ CreatedAtEnd'
      BY <1>20 DEF DevicePings, ToServer, TypeOK
    <2>5. EndsAreSent'
      BY <1>20, <2>1, <2>2 DEF DevicePings, ToServer, TypeOK
    <2>6. QED
      BY <2>3, <2>4, <2>5
  <1>21. ASSUME IInv, DeviceFails PROVE IInv'
    <2>1. Sent(toDevice', ends')
      BY <1>21, SentKept, CloseKept, RequestType
         DEF DeviceFails, ToServer, TypeOK
    <2>2. Acknowledged(toServer', ends', acked')
      BY <1>21, AcknowledgedKept, RequestType DEF DeviceFails, ToServer, TypeOK
    <2>3. TypeOK'
      BY <1>21, <2>1, <2>2
         DEF DeviceFails, ToServer, TypeOK, Sent, Acknowledged
    <2>4. LatestAckKept' /\ CreatedAtEnd'
      BY <1>21 DEF DeviceFails, ToServer, TypeOK
    <2>5. EndsAreSent'
      BY <1>21, <2>1, <2>2 DEF DeviceFails, ToServer, TypeOK
    <2>6. QED
      BY <2>3, <2>4, <2>5
  <1>22. ASSUME IInv, UNCHANGED vars PROVE IInv'
    BY <1>22 DEF vars, TypeOK
  <1> HIDE DEF IInv
  <1>23. IInv /\ [Next]_vars => IInv'
    BY <1>2, <1>3, <1>4, <1>5, <1>6, <1>7, <1>8, <1>9, <1>10, <1>11, <1>12,
       <1>13, <1>14, <1>15, <1>16, <1>17, <1>18, <1>19, <1>20, <1>21, <1>22
       DEF Next, HandlerNext, InboundNext, DeviceNext
  <1>24. QED
    BY <1>1, <1>23, PTL DEF Spec
-----------------------------------------------------------------------------
\* Every variable keeps its type.
THEOREM TypeCorrect == Spec => []TypeOK
  <1>1. IInv => TypeOK
    BY DEF IInv
  <1>2. QED
    BY <1>1, Inductive, PTL

\* The newest acknowledgement is never lost between the inbound goroutine,
\* which replaces what the handler has not taken, and the handler.
THEOREM LatestAckKeptHolds == Spec => []LatestAckKept
  <1>1. IInv => LatestAckKept
    BY DEF IInv
  <1>2. QED
    BY <1>1, Inductive, PTL

\* A 201 is only answered for a file the device has stored, whatever NATS
\* drops: an offset the handler knows of was stored, and nothing beyond what
\* it sent can be.
THEOREM CreatedMeansStoredHolds == Spec => []CreatedMeansStored
  <1>1. IInv => CreatedMeansStored
    <2> SUFFICES ASSUME IInv, response = "created"
                 PROVE  offset = FileSize /\ stored = FileSize
      BY DEF CreatedMeansStored
    <2>1. offset = FileSize /\ offset <= ack
      BY DEF IInv, CreatedAtEnd
    <2>2. ack <= inAck /\ inAck <= acked /\ acked <= stored /\ stored <= offset
      BY SizesAssumption DEF IInv, LatestAckKept, TypeOK
    <2>3. QED
      BY <2>1, <2>2, SizesAssumption DEF IInv, TypeOK
  <1>2. QED
    BY <1>1, Inductive, PTL

-----------------------------------------------------------------------------
\* At most w chunks end within w bytes.
LEMMA InWindow ==
  ASSUME NEW a \in Nat, NEW w \in Nat, NEW S \in SUBSET (a + 1 .. a + w)
  PROVE  IsFiniteSet(S) /\ Cardinality(S) <= w
  <1>1. /\ IsFiniteSet(a + 1 .. a + w)
        /\ Cardinality(a + 1 .. a + w) = w
    <2>1. a + 1 \in Int /\ a + w \in Int
      OBVIOUS
    <2>2. /\ IsFiniteSet(a + 1 .. a + w)
          /\ Cardinality(a + 1 .. a + w) =
               IF a + 1 > a + w THEN 0 ELSE (a + w) - (a + 1) + 1
      BY <2>1, FS_Interval
    <2>3. QED
      BY <2>2
  <1>2. /\ IsFiniteSet(S)
        /\ Cardinality(S) <= Cardinality(a + 1 .. a + w)
    BY <1>1, FS_Subset
  <1>3. QED
    BY <1>1, <1>2

\* Unacknowledged chunks are finitely many; one more chunk adds one at most;
\* and an acknowledgement of the end of one takes it out.
LEMMA UnacknowledgedCount ==
  ASSUME NEW n \in Nat, NEW E \in SUBSET (1 .. n), NEW a \in Nat
  PROVE  /\ IsFiniteSet(Unacknowledged(E, a))
         /\ Cardinality(Unacknowledged(E, a)) \in Nat
         /\ \A e : Cardinality(Unacknowledged(E \union {e}, a))
                    <= Cardinality(Unacknowledged(E, a)) + 1
         /\ \A e \in E : e > a =>
              Cardinality(Unacknowledged(E, e))
                <= Cardinality(Unacknowledged(E, a)) - 1
  <1> DEFINE U == Unacknowledged(E, a)
  <1>1. IsFiniteSet(U)
    <2>1. IsFiniteSet(1 .. n)
      BY FS_Interval
    <2>2. U \in SUBSET (1 .. n)
      BY DEF Unacknowledged
    <2>3. QED
      BY <2>1, <2>2, FS_Subset
  <1>2. Cardinality(U) \in Nat
    BY <1>1, FS_CardinalityType
  <1>3. ASSUME NEW e
        PROVE  Cardinality(Unacknowledged(E \union {e}, a))
                 <= Cardinality(U) + 1
    <2>1. /\ IsFiniteSet(U \union {e})
          /\ Cardinality(U \union {e}) <= Cardinality(U) + 1
      <3>1. /\ IsFiniteSet(U \union {e})
            /\ Cardinality(U \union {e}) =
                 IF e \in U THEN Cardinality(U) ELSE Cardinality(U) + 1
        BY <1>1, FS_AddElement
      <3> HIDE DEF U
      <3>2. QED
        BY <1>2, <3>1
    <2>2. Unacknowledged(E \union {e}, a) \in SUBSET (U \union {e})
      BY DEF Unacknowledged
    <2>3. /\ Cardinality(Unacknowledged(E \union {e}, a))
                <= Cardinality(U \union {e})
          /\ IsFiniteSet(Unacknowledged(E \union {e}, a))
      BY <2>1, <2>2, FS_Subset
    <2>4. /\ Cardinality(Unacknowledged(E \union {e}, a)) \in Nat
          /\ Cardinality(U \union {e}) \in Nat
      BY <2>1, <2>3, FS_CardinalityType
    <2>5. QED
      BY <1>2, <2>1, <2>3, <2>4
  <1>4. ASSUME NEW e \in E, e > a
        PROVE  Cardinality(Unacknowledged(E, e)) <= Cardinality(U) - 1
    <2>1. /\ IsFiniteSet(U \ {e})
          /\ Cardinality(U \ {e}) = Cardinality(U) - 1
      <3>1. e \in U
        BY <1>4 DEF Unacknowledged
      <3>2. QED
        BY <1>1, <3>1, FS_RemoveElement
    <2>2. Unacknowledged(E, e) \in SUBSET (U \ {e})
      <3>1. ASSUME NEW x \in E, x > e
            PROVE  x > a /\ x # e
        <4>1. x \in Nat /\ e \in Nat
          OBVIOUS
        <4>2. QED
          BY <1>4, <3>1, <4>1
      <3>2. QED
        BY <3>1 DEF Unacknowledged
    <2>3. QED
      BY <2>1, <2>2, FS_Subset
  <1>5. QED
    BY <1>1, <1>2, <1>3, <1>4

\* The handler has room for a chunk whenever it reads the next one.
THEOREM WindowKeptHolds == Spec => []WindowKept
  <1> DEFINE U == Unacknowledged(ends, ack)
  <1>0. ASSUME IInv
        PROVE  /\ offset \in Nat /\ ack \in Nat /\ ends \in SUBSET (1 .. offset)
               /\ Cardinality(U) \in Nat
    <2>1. offset \in Nat /\ ack \in Nat
      BY <1>0, SizesAssumption DEF IInv, TypeOK
    <2>2. ends \in SUBSET (1 .. offset)
      BY <1>0 DEF IInv, EndsAreSent
    <2>3. QED
      BY <2>1, <2>2, UnacknowledgedCount
  <1>1. Init => WindowKept
    <2> SUFFICES ASSUME Init PROVE WindowKept
      OBVIOUS
    <2>1. Unacknowledged(ends, ack) = {}
      BY DEF Init, Unacknowledged
    <2>2. QED
      BY <2>1, FS_EmptySet, SizesAssumption DEF Init, WindowKept
  \* One chunk more is in flight; the handler polls if it is in the window.
  <1>2. ASSUME IInv, IInv', WindowKept, SendChunk PROVE WindowKept'
    <2>1. PICK len \in 1 .. MaxRead :
            /\ ends' = ends \union {offset + len} /\ offset' = offset + len
            /\ handler' = IF ExceedsWindow(offset + len) THEN "wait" ELSE "poll"
      BY <1>2 DEF SendChunk
    <2>2. handler = "read" /\ ack' = ack
      BY <1>2 DEF SendChunk
    <2>3. /\ offset' \in Nat /\ ack' \in Nat
          /\ ends' \in SUBSET (1 .. offset')
      BY <1>2, SizesAssumption DEF IInv, TypeOK, EndsAreSent
    <2>4. Cardinality(U') <= Cardinality(U) + 1
      BY <1>0, <1>2, <2>1, <2>2, UnacknowledgedCount
    <2>5. Cardinality(U') <= Window + 1
      <3>1. Cardinality(U) \in Nat /\ Cardinality(U) <= Window
        BY <1>0, <1>2, <2>2 DEF WindowKept
      <3>2. Cardinality(U') \in Nat
        BY <1>2, <2>3, UnacknowledgedCount
      <3>3. QED
        BY <2>4, <3>1, <3>2, SizesAssumption
    <2>6. ASSUME handler' \in {"read", "poll"}
          PROVE  Cardinality(U') <= Window
      <3>1. offset' <= ack' + Window
        BY <1>0, <1>2, <2>1, <2>2, <2>6, SizesAssumption DEF ExceedsWindow
      <3>2. U' \in SUBSET (ack + 1 .. ack + Window)
        <4>1. ASSUME NEW e \in ends', e > ack'
              PROVE  e \in ack + 1 .. ack + Window
          <5>1. e \in 1 .. offset'
            BY <2>3
          <5>2. QED
            BY <2>2, <2>3, <3>1, <4>1, <5>1, SizesAssumption
        <4>2. QED
          BY <4>1 DEF Unacknowledged
      <3>3. QED
        BY <1>0, <1>2, <3>2, InWindow, SizesAssumption
    <2>7. QED
      BY <2>5, <2>6 DEF WindowKept
  \* The offset taken from the channel is the end of a chunk in flight.
  <1>3. ASSUME IInv, WindowKept, WaitAck \/ FinalAck PROVE WindowKept'
    <2>1. ack' = ackChan /\ ackChan # 0 /\ ends' = ends
      BY <1>3 DEF WaitAck, FinalAck
    <2>2. ackChan \in ends /\ ackChan > ack
      BY <1>3, <2>1 DEF IInv, EndsAreSent, LatestAckKept
    <2>3. Cardinality(U') <= Cardinality(U) - 1
      BY <1>0, <1>3, <2>1, <2>2, UnacknowledgedCount
    <2>4. Cardinality(U') \in Nat
      <3>1. ackChan \in Nat
        BY <1>3, SizesAssumption DEF IInv, TypeOK
      <3>2. QED
        BY <1>0, <1>3, <2>1, <3>1, UnacknowledgedCount
    <2>5. QED
      BY <1>0, <1>3, <2>3, <2>4, SizesAssumption DEF WindowKept
  \* The transfer begins: nothing is in flight.
  <1>4. ASSUME IInv, GoAhead PROVE WindowKept'
    <2>1. offset = 0 /\ ends' = ends /\ ack' = ack
      BY <1>4 DEF GoAhead, IInv, CreatedAtEnd
    <2>2. U' = {}
      BY <1>0, <1>4, <2>1 DEF Unacknowledged
    <2>3. QED
      BY <2>2, FS_EmptySet, SizesAssumption DEF WindowKept
  \* No other step sends a chunk, takes an acknowledgement or goes on to read
  \* from a state other than "poll".
  <1>5. ASSUME WindowKept, UNCHANGED <<ends, ack>>,
               handler' \in {"read", "poll"} => handler \in {"read", "poll"}
        PROVE  WindowKept'
    BY <1>5 DEF WindowKept
  <1>6. ASSUME [Next]_vars, ~SendChunk, ~WaitAck, ~FinalAck, ~GoAhead
        PROVE  /\ UNCHANGED <<ends, ack>>
               /\ handler' \in {"read", "poll"} => handler \in {"read", "poll"}
    <2> USE DEF handlerVars, Respond
    <2>1. CASE HandlerNext
      BY <1>6, <2>1 DEF HandlerNext, Handshake, Accepted, NoAnswer, SendEnd,
         SendFails, TakeError, PollNothing, Timeout
    <2>2. CASE TimerFires \/ InboundNext \/ DeviceNext
      BY <2>2 DEF TimerFires, InboundNext, DeviceNext, InboundAck, InboundPing,
         InboundError, DeviceReceives, DeviceAcks, DevicePings, DeviceFails
    <2>3. CASE UNCHANGED vars
      BY <2>3 DEF vars
    <2>4. QED
      BY <1>6, <2>1, <2>2, <2>3 DEF Next
  <1>7. IInv /\ IInv' /\ WindowKept /\ [Next]_vars => WindowKept'
    BY <1>2, <1>3, <1>4, <1>5, <1>6
  <1>8. QED
    BY <1>1, <1>7, Inductive, PTL DEF Spec

\* Although a single acknowledgement ends a wait, whether it opens the window
\* or not, no more than Window + 1 chunks are ever in flight.
THEOREM ChunksInFlightHolds == Spec => []ChunksInFlight
  <1>1. WindowKept => ChunksInFlight
    BY DEF WindowKept, ChunksInFlight, Unacknowledged
  <1>2. QED
    BY <1>1, WindowKeptHolds, PTL
=============================================================================
