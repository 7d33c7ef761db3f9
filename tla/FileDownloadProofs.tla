------------------------- MODULE FileDownloadProofs -------------------------
(***************************************************************************)
(* The safety of FileDownload for files, windows and channels of any size  *)
(* and whatever is lost: the body is a prefix of the file, an answer with  *)
(* 200 stands for the whole file where nothing was lost or failed, and the *)
(* two windows never starve each other.                                    *)
(***************************************************************************)
EXTENDS FileDownload, TLAPS

Holding(m) == forwarder = "holding" /\ held = m

\* A message of the device on its way to the handler.
OnItsWay(m) == Holding(m) \/ \E i \in 1 .. Len(toServer) : toServer[i] = m

\* Chunks on their way are chunks of the file.
ChunksOfFile ==
  /\ forwarder = "holding" /\ held.type = "chunk" => held.offset < FileSize
  /\ \A i \in 1 .. Len(toServer) :
       toServer[i].type = "chunk" => toServer[i].offset < FileSize

Types == TypeOK /\ ChunksOfFile /\ chunks < AckEvery

\* The end of the file is on its way when the device has sent all of it, and
\* after all of it.
EndIsLast ==
  /\ \A m \in Answer : OnItsWay(m) /\ m.type = "eof" =>
       device = "ended" /\ sent = FileSize
  /\ forwarder = "holding" /\ held.type = "eof" =>
       \A j \in 1 .. Len(toServer) : toServer[j].type # "chunk"
  /\ \A i \in 1 .. Len(toServer) : toServer[i].type = "eof" =>
       \A j \in i + 1 .. Len(toServer) : toServer[j].type # "chunk"

\* As long as nothing is lost: what was sent was written or is on its way, ...
SentArrives ==
  handler # "done" /\ lost = FALSE =>
    \A k \in Nat : Len(body) <= k /\ k < sent => OnItsWay(Msg("chunk", k))

\* ... and the device knows, or is going to know, what was acknowledged.
AcksTo(queue, a, n) ==
  /\ (\A i \in 1 .. Len(queue) : queue[i].type # "ack") => a = n
  /\ \A i \in 1 .. Len(queue) :
       /\ queue[i].type = "ack"
       /\ \A j \in i + 1 .. Len(queue) : queue[j].type # "ack"
       => queue[i].offset = n

AcksArrive ==
  handler # "done" /\ lost = FALSE /\ device # "ended" =>
    AcksTo(toDevice, acked, Len(body) - chunks)

\* How the request ends: with an error, as a HEAD, or with the whole file.
Outcome ==
  /\ handler # "done" => status = "none" /\ failed = FALSE
  /\ handler = "done" =>
       \/ failed = TRUE /\ status = IF flushed > 0 THEN "ok" ELSE "error"
       \/ failed = FALSE /\ head = TRUE
       \/ /\ failed = FALSE /\ flushed = Len(body)
          /\ lost = TRUE \/ Len(body) = FileSize

Flow == EndIsLast /\ SentArrives

-----------------------------------------------------------------------------
\* What is published to the device keeps to its channel.
LEMMA ToDeviceTypes ==
  ASSUME TypeOK, NEW m \in Request, ToDevice(m)
  PROVE  /\ toDevice' \in Seq(Request) /\ Len(toDevice') <= ChanSize
         /\ lost' \in BOOLEAN
  <1>1. ChanSize \in Nat /\ Len(toDevice) \in Nat /\ toDevice \in Seq(Request)
    BY SizesAssumption DEF TypeOK
  <1>2. CASE Full(toDevice)
    BY <1>2 DEF ToDevice, TypeOK
  <1>3. CASE ~Full(toDevice)
    <2>1. toDevice' = Append(toDevice, m) /\ lost' = lost
      BY <1>3 DEF ToDevice
    <2>2. Len(toDevice) < ChanSize
      BY <1>1, <1>3 DEF Full
    <2>3. QED
      BY <1>1, <2>1, <2>2 DEF TypeOK
  <1>4. QED
    BY <1>2, <1>3

\* So does what is published as the session is closed.
LEMMA KeepTypes ==
  ASSUME NEW queue \in Seq(Request), Len(queue) <= ChanSize, NEW m \in Request
  PROVE  Keep(queue, m) \in Seq(Request) /\ Len(Keep(queue, m)) <= ChanSize
  <1>1. ChanSize \in Nat /\ Len(queue) \in Nat
    BY SizesAssumption
  <1>2. CASE Full(queue)
    BY <1>2 DEF Keep
  <1>3. CASE ~Full(queue)
    <2>1. Keep(queue, m) = Append(queue, m) /\ Len(queue) < ChanSize
      BY <1>1, <1>3 DEF Keep, Full
    <2>2. QED
      BY <1>1, <2>1
  <1>4. QED
    BY <1>2, <1>3

\* Whether the closing reaches the channel or not.
LEMMA CloseTypes ==
  ASSUME TypeOK, NEW queue \in Seq(Request), Len(queue) <= ChanSize,
         CloseAfter(queue)
  PROVE  /\ toDevice' \in Seq(Request) /\ Len(toDevice') <= ChanSize
         /\ lost' \in BOOLEAN
  <1>1. Msg("close", 0) \in Request
    BY SizesAssumption DEF Msg, Request
  <1>2. QED
    BY <1>1, KeepTypes DEF CloseAfter, TypeOK

\* What the device publishes keeps to the session's channel; a chunk is one of
\* the file.
LEMMA ToServerTypes ==
  ASSUME Types, NEW m \in Answer, m.type = "chunk" => m.offset < FileSize,
         ToServer(m)
  PROVE  /\ toServer' \in Seq(Answer) /\ Len(toServer') <= ChanSize
         /\ lost' \in BOOLEAN
         /\ \A i \in 1 .. Len(toServer') :
              toServer'[i].type = "chunk" => toServer'[i].offset < FileSize
  <1>1. /\ ChanSize \in Nat /\ Len(toServer) \in Nat
        /\ toServer \in Seq(Answer) /\ Len(toServer) <= ChanSize
        /\ \A i \in 1 .. Len(toServer) :
             toServer[i].type = "chunk" => toServer[i].offset < FileSize
    BY SizesAssumption DEF Types, TypeOK, ChunksOfFile
  <1>2. CASE toServer' = toServer
    BY <1>1, <1>2 DEF ToServer, Types, TypeOK
  <1>3. CASE toServer' # toServer
    <2>1. toServer' = Append(toServer, m) /\ lost' = lost /\ ~MustLose
      BY <1>3 DEF ToServer
    <2>2. Len(toServer) < ChanSize
      BY <1>1, <2>1 DEF MustLose, Full
    <2>3. /\ Len(toServer') = Len(toServer) + 1
          /\ \A i \in 1 .. Len(toServer) : toServer'[i] = toServer[i]
          /\ toServer'[Len(toServer) + 1] = m
          /\ toServer' \in Seq(Answer)
      BY <1>1, <2>1
    <2>4. QED
      BY <1>1, <2>1, <2>2, <2>3 DEF Types, TypeOK
  <1>4. QED
    BY <1>2, <1>3

\* The handler ends: the response keeps what was written.
LEMMA FailTypes ==
  ASSUME TypeOK, Fail
  PROVE  /\ handler' = "done" /\ failed' \in BOOLEAN
         /\ status' \in {"ok", "error"}
         /\ UNCHANGED <<head, body, flushed, chunks>>
  BY DEF Fail, EndInError

\* The types, with what the body's length needs of the chunks on their way and
\* what the acknowledgements need of the chunks since the last one.
THEOREM TypesInductive == Spec => []Types
  <1> USE SizesAssumption
  <1> DEFINE Server == /\ forwarder \in {"select", "holding", "ended"}
                       /\ held \in Answer /\ tick \in BOOLEAN
                       /\ toServer \in Seq(Answer) /\ Len(toServer) <= ChanSize
                       /\ ChunksOfFile
             Response == /\ handler \in {"start", "handshake", "stat", "read",
                                         "done"}
                         /\ head \in BOOLEAN
                         /\ body \in Seq(0 .. FileSize)
                         /\ Len(body) <= FileSize
                         /\ flushed \in 0 .. Len(body)
                         /\ chunks \in 0 .. AckEvery /\ chunks < AckEvery
                         /\ status \in {"none", "ok", "error"}
                         /\ failed \in BOOLEAN
             Device == /\ toDevice \in Seq(Request)
                       /\ Len(toDevice) <= ChanSize
                       /\ lost \in BOOLEAN
             Sender == /\ device \in {"idle", "open", "sending", "ended"}
                       /\ sent \in 0 .. FileSize /\ acked \in 0 .. FileSize
  <1>1. Types <=> Server /\ Response /\ Device /\ Sender
    BY DEF Types, TypeOK
  <1>2. Types' <=> Server' /\ Response' /\ Device' /\ Sender'
    BY DEF Types, TypeOK
  <1>3. ASSUME Init PROVE Types
    <2>1. <<>> \in Seq(Answer) /\ <<>> \in Seq(Request)
          /\ <<>> \in Seq(0 .. FileSize) /\ Len(<<>>) = 0
      OBVIOUS
    <2>2. Msg("ping", 0) \in Answer
      BY DEF Msg, Answer
    <2>3. Server
      <3>1. ChunksOfFile
        BY <1>3, <2>1 DEF Init, ChunksOfFile
      <3>2. toServer \in Seq(Answer) /\ Len(toServer) <= ChanSize
        BY <1>3, <2>1 DEF Init
      <3>3. forwarder \in {"select", "holding", "ended"} /\ tick \in BOOLEAN
        BY <1>3 DEF Init
      <3>4. QED
        BY <1>3, <2>2, <3>1, <3>2, <3>3 DEF Init
    <2>4. Response
      <3>1. /\ body \in Seq(0 .. FileSize) /\ Len(body) <= FileSize
            /\ flushed \in 0 .. Len(body)
        BY <1>3, <2>1 DEF Init
      <3>2. chunks \in 0 .. AckEvery /\ chunks < AckEvery
        BY <1>3 DEF Init
      <3>3. head \in BOOLEAN /\ failed \in BOOLEAN
        BY <1>3 DEF Init
      <3>4. QED
        BY <1>3, <3>1, <3>2, <3>3 DEF Init
    <2>5. Sender
      BY <1>3 DEF Init
    <2>6. toDevice \in Seq(Request) /\ Len(toDevice) <= ChanSize
      BY <1>3, <2>1 DEF Init
    <2>7. lost \in BOOLEAN
      BY <1>3 DEF Init
    <2>8. QED
      BY <1>1, <2>3, <2>4, <2>5, <2>6, <2>7
  \* The forwarder.
  <1>4. ASSUME Types, ForwarderReceives PROVE Types'
    <2>1. /\ toServer \in Seq(Answer) /\ toServer # <<>>
          /\ held' = Head(toServer) /\ toServer' = Tail(toServer)
          /\ forwarder' = "holding" /\ tick' = FALSE
      BY <1>4 DEF ForwarderReceives, Types, TypeOK
    <2>2. /\ held' \in Answer /\ toServer' \in Seq(Answer)
          /\ Len(toServer') <= Len(toServer)
          /\ held' = toServer[1] /\ 1 \in 1 .. Len(toServer)
          /\ \A i \in 1 .. Len(toServer') :
               i + 1 \in 1 .. Len(toServer) /\ toServer'[i] = toServer[i + 1]
      BY <2>1
    <2>3. Server'
      <3>1. ChunksOfFile'
        BY <1>1, <1>4, <2>1, <2>2 DEF ChunksOfFile
      <3>2. Len(toServer') <= ChanSize
        <4>1. Len(toServer) <= ChanSize /\ Len(toServer) \in Nat
          BY <1>1, <1>4, <2>1
        <4>2. QED
          BY <2>2, <4>1
      <3>3. QED
        BY <2>1, <2>2, <3>1, <3>2
    <2>4. Response' /\ Device' /\ Sender'
      BY <1>1, <1>4 DEF ForwarderReceives, handlerVars, deviceVars
    <2>5. QED
      BY <1>2, <2>3, <2>4
  <1>5. ASSUME Types, ForwarderTimesOut \/ ForwarderSeesClosed \/ TimerFires
        PROVE  Types'
    <2>1. /\ UNCHANGED <<handlerVars, held, toServer, toDevice, deviceVars,
                         lost>>
          /\ forwarder' \in {forwarder, "ended"} /\ tick' \in {tick, TRUE}
      BY <1>5 DEF ForwarderTimesOut, ForwarderSeesClosed, TimerFires
    <2>2. Server'
      BY <1>1, <1>5, <2>1 DEF ChunksOfFile
    <2>3. Response' /\ Device' /\ Sender'
      BY <1>1, <1>5, <2>1 DEF handlerVars, deviceVars
    <2>4. QED
      BY <1>2, <2>2, <2>3
  \* The handler takes a message, or does not, and goes on or ends.
  <1>6. ASSUME Types, Device', UNCHANGED deviceVars,
               (\E types : Take(types)) \/ UNCHANGED <<forwarderVars, toServer>>,
               \/ Fail
               \/ /\ handler' \in {"handshake", "stat", "read", "done"}
                  /\ status' \in {status, "ok"}
                  /\ UNCHANGED <<head, body, flushed, chunks, failed>>
        PROVE  Types'
    <2>1. Server'
      BY <1>1, <1>6 DEF Take, forwarderVars, ChunksOfFile
    <2>2. Response'
      BY <1>1, <1>6, FailTypes DEF Types
    <2>3. Sender'
      BY <1>1, <1>6 DEF deviceVars
    <2>4. QED
      BY <1>2, <1>6, <2>1, <2>2, <2>3
  <1>7. ASSUME Types, Handshake \/ Accepted \/ Stat \/ Ping PROVE Types'
    <2>1. /\ Msg("open", 0) \in Request /\ Msg("stat", 0) \in Request
          /\ Msg("get", 0) \in Request /\ Msg("pong", 0) \in Request
      BY DEF Msg, Request
    <2>2. \/ \E m \in Request : ToDevice(m)
          \/ Close
      BY <1>7, <2>1 DEF Handshake, Accepted, Stat, Ping
    <2>3. Device'
      BY <1>7, <2>2, ToDeviceTypes, CloseTypes DEF Types, TypeOK, Close
    <2>4. UNCHANGED deviceVars
      BY <1>7 DEF Handshake, Accepted, Stat, Ping
    <2>5. (\E types : Take(types)) \/ UNCHANGED <<forwarderVars, toServer>>
      BY <1>7 DEF Handshake, Accepted, Stat, Ping
    <2>6. /\ handler' \in {"handshake", "stat", "read", "done"}
          /\ status' \in {status, "ok"}
          /\ UNCHANGED <<head, body, flushed, chunks, failed>>
      BY <1>7 DEF Handshake, Accepted, Stat, Ping, handlerVars
    <2>7. QED
      BY <1>6, <1>7, <2>3, <2>4, <2>5, <2>6
  <1>8. ASSUME Types,
               \/ Refused \/ StatFails \/ ChunkFails \/ PublishFails
               \/ SilenceSeen \/ GivesUp
        PROVE  Types'
    <2>1. Close \/ UNCHANGED <<toDevice, lost>>
      BY <1>8 DEF Refused, StatFails, ChunkFails, PublishFails, SilenceSeen,
                  GivesUp
    <2>2. Device'
      BY <1>8, <2>1, CloseTypes DEF Types, TypeOK, Close
    <2>3. Fail /\ UNCHANGED deviceVars
      BY <1>8 DEF Refused, StatFails, ChunkFails, PublishFails, SilenceSeen,
                  GivesUp
    <2>4. (\E types : Take(types)) \/ UNCHANGED <<forwarderVars, toServer>>
      BY <1>8 DEF Refused, StatFails, ChunkFails, PublishFails, SilenceSeen,
                  GivesUp
    <2>5. QED
      BY <1>6, <1>8, <2>2, <2>3, <2>4
  \* A chunk in its place is written.
  <1>9. ASSUME Types, Write
        PROVE  /\ body' \in Seq(0 .. FileSize) /\ Len(body') <= FileSize
               /\ flushed' \in 0 .. Len(body') /\ Server'
               /\ Len(body') \in 0 .. FileSize
    <2>1. /\ held.offset = Len(body) /\ held.offset < FileSize
          /\ held.offset \in 0 .. FileSize
      BY <1>9 DEF Write, Take, Expected, Types, TypeOK, ChunksOfFile, Answer
    <2>2. /\ body \in Seq(0 .. FileSize) /\ body' = Append(body, held.offset)
      BY <1>9 DEF Write, Types, TypeOK
    <2>3. body' \in Seq(0 .. FileSize) /\ Len(body') = Len(body) + 1
      BY <2>1, <2>2
    <2>4. flushed' \in 0 .. Len(body')
      BY <1>9, <2>3 DEF Write, Types, TypeOK
    <2>5. Server'
      BY <1>1, <1>9 DEF Write, Take, ChunksOfFile
    <2>6. QED
      BY <2>1, <2>3, <2>4, <2>5
  <1>10. ASSUME Types, Chunk PROVE Types'
    <2>1. Write
      BY <1>10 DEF Chunk
    <2>2. Msg("ack", Len(body')) \in Request
      BY <1>9, <1>10, <2>1 DEF Msg, Request
    <2>3. Device'
      BY <1>10, <2>2, ToDeviceTypes DEF Chunk, Types, TypeOK
    <2>4. chunks' \in 0 .. AckEvery /\ chunks' < AckEvery
      BY <1>10 DEF Chunk, AckDue, Types, TypeOK
    <2>5. Response'
      BY <1>1, <1>9, <1>10, <2>1, <2>4 DEF Chunk
    <2>6. Sender'
      BY <1>1, <1>10 DEF Chunk, deviceVars
    <2>7. QED
      BY <1>2, <1>9, <1>10, <2>1, <2>3, <2>5, <2>6
  <1>11. ASSUME Types, AckFails PROVE Types'
    <2>1. Write /\ Close
      BY <1>11 DEF AckFails
    <2>2. Device'
      BY <1>11, <2>1, CloseTypes DEF Types, TypeOK, Close
    <2>3. Response'
      BY <1>1, <1>9, <1>11, <2>1 DEF AckFails, EndInError
    <2>4. Sender'
      BY <1>1, <1>11 DEF AckFails, deviceVars
    <2>5. QED
      BY <1>2, <1>9, <1>11, <2>1, <2>2, <2>3, <2>4
  <1>12. ASSUME Types, EndOfFile PROVE Types'
    <2>1. Msg("ack", Len(body)) \in Request
      BY <1>12 DEF Msg, Request, Types, TypeOK
    <2>2. Device'
      BY <1>12, <2>1, KeepTypes, CloseTypes DEF EndOfFile, Types, TypeOK
    <2>3. Server'
      BY <1>1, <1>12 DEF EndOfFile, Take, ChunksOfFile
    <2>4. Response'
      BY <1>1, <1>12 DEF EndOfFile, FlushesAll
    <2>5. Sender'
      BY <1>1, <1>12 DEF EndOfFile, deviceVars
    <2>6. QED
      BY <1>2, <2>2, <2>3, <2>4, <2>5
  \* The device.
  <1>13. ASSUME Types, NEW m \in Answer,
                m.type = "chunk" => m.offset < FileSize,
                ToServer(m) \/ UNCHANGED <<toServer, lost>>,
                UNCHANGED <<handlerVars, forwarderVars>>,
                toDevice' \in {toDevice, Tail(toDevice)},
                toDevice' = toDevice \/ toDevice # <<>>,
                Sender'
         PROVE  Types'
    <2>1. /\ toServer' \in Seq(Answer) /\ Len(toServer') <= ChanSize
          /\ lost' \in BOOLEAN
          /\ \A i \in 1 .. Len(toServer') :
               toServer'[i].type = "chunk" => toServer'[i].offset < FileSize
      BY <1>13, ToServerTypes DEF Types, TypeOK, ChunksOfFile
    <2>2. Server'
      BY <1>1, <1>13, <2>1 DEF forwarderVars, ChunksOfFile
    <2>3. Response'
      BY <1>1, <1>13 DEF handlerVars
    <2>4. Device'
      <3>1. toDevice \in Seq(Request) /\ Len(toDevice) <= ChanSize
        BY <1>13 DEF Types, TypeOK
      <3>2. toDevice # <<>> => /\ Tail(toDevice) \in Seq(Request)
                               /\ Len(Tail(toDevice)) <= ChanSize
        BY <3>1
      <3>3. QED
        BY <1>13, <2>1, <3>1, <3>2
    <2>5. QED
      BY <1>2, <1>13, <2>2, <2>3, <2>4
  <1>14. ASSUME Types, DeviceReceives PROVE Types'
    <2>1. Head(toDevice).offset \in 0 .. FileSize
      <3>1. Head(toDevice) \in Request
        BY <1>14 DEF DeviceReceives, Types, TypeOK
      <3>2. QED
        BY <3>1 DEF Request
    <2>2. Sender'
      BY <1>1, <1>14, <2>1 DEF DeviceReceives
    <2>3. PICK m \in Answer :
            /\ m.type # "chunk"
            /\ ToServer(m) \/ UNCHANGED <<toServer, lost>>
      <3>1. \A type \in {"accept", "refuse", "error", "info", "notRegular"} :
              Msg(type, 0) \in Answer /\ Msg(type, 0).type # "chunk"
        BY DEF Msg, Answer
      <3>2. QED
        BY <1>14, <3>1 DEF DeviceReceives
    <2>4. /\ UNCHANGED <<handlerVars, forwarderVars>> /\ toDevice # <<>>
          /\ toDevice' = Tail(toDevice)
      BY <1>14 DEF DeviceReceives
    <2>5. QED
      BY <1>13, <1>14, <2>2, <2>3, <2>4
  <1>15. ASSUME Types, DeviceSends PROVE Types'
    <2>1. /\ Msg("chunk", sent) \in Answer
          /\ Msg("chunk", sent).offset < FileSize
      BY <1>15 DEF Msg, Answer, DeviceSends, Types, TypeOK
    <2>2. Sender'
      BY <1>1, <1>15 DEF DeviceSends
    <2>3. /\ ToServer(Msg("chunk", sent)) /\ toDevice' = toDevice
          /\ UNCHANGED <<handlerVars, forwarderVars>>
      BY <1>15 DEF DeviceSends
    <2>4. QED
      BY <1>13, <1>15, <2>1, <2>2, <2>3
  <1>16. ASSUME Types, DeviceEnds \/ DevicePings PROVE Types'
    <2>1. PICK m \in Answer : m.type # "chunk" /\ ToServer(m)
      <3>1. /\ Msg("eof", sent) \in Answer /\ Msg("eof", sent).type # "chunk"
            /\ \A type \in {"error", "ping"} :
                 Msg(type, 0) \in Answer /\ Msg(type, 0).type # "chunk"
        BY <1>16 DEF Msg, Answer, Types, TypeOK
      <3>2. QED
        BY <1>16, <3>1 DEF DeviceEnds, DevicePings
    <2>2. Sender'
      BY <1>1, <1>16 DEF DeviceEnds, DevicePings, deviceVars
    <2>3. toDevice' = toDevice /\ UNCHANGED <<handlerVars, forwarderVars>>
      BY <1>16 DEF DeviceEnds, DevicePings
    <2>4. QED
      BY <1>13, <1>16, <2>1, <2>2, <2>3
  <1>17. ASSUME Types, UNCHANGED vars PROVE Types'
    BY <1>17 DEF vars, handlerVars, forwarderVars, deviceVars, Types, TypeOK,
                 ChunksOfFile
  <1> HIDE DEF Types
  <1>18. Types /\ [Next]_vars => Types'
    BY <1>4, <1>5, <1>7, <1>8, <1>10, <1>11, <1>12, <1>14, <1>15, <1>16,
       <1>17 DEF Next, ForwarderNext, HandlerNext, DeviceNext
  <1>19. QED
    BY <1>3, <1>18, PTL DEF Spec

\* Every variable keeps its type: the channels are never overfull and the
\* response is never longer than the file.
THEOREM TypeCorrect == Spec => []TypeOK
  BY TypesInductive, PTL DEF Types

-----------------------------------------------------------------------------
\* What becomes of the response in a step.
LEMMA ResponseSteps ==
  ASSUME [Next]_vars
  PROVE  \/ UNCHANGED handlerVars
         \/ /\ handler # "done" /\ handler' # "done"
            /\ UNCHANGED <<head, body, flushed, chunks, status, failed>>
         \/ /\ handler = "stat" /\ handler' = "done" /\ head
            /\ UNCHANGED <<head, body, flushed, chunks, failed>>
         \/ handler # "done" /\ Fail
         \/ Chunk \/ AckFails \/ EndOfFile
  <1>1. CASE ForwarderNext \/ TimerFires \/ DeviceReceives \/ DeviceNext
             \/ Ping \/ UNCHANGED vars
    BY <1>1 DEF ForwarderNext, ForwarderReceives, ForwarderTimesOut,
         ForwarderSeesClosed, TimerFires, DeviceReceives, DeviceNext,
         DeviceSends, DeviceEnds, DevicePings, Ping, vars, handlerVars
  <1>2. CASE Handshake \/ Accepted \/ Stat
    BY <1>2 DEF Handshake, Accepted, Stat
  <1>3. CASE Refused \/ StatFails \/ ChunkFails \/ PublishFails
             \/ SilenceSeen \/ GivesUp
    BY <1>3 DEF Refused, StatFails, ChunkFails, PublishFails, SilenceSeen,
         GivesUp
  <1>4. QED
    BY <1>1, <1>2, <1>3 DEF Next, HandlerNext

\* The body of the response is a prefix of the file, whatever is lost.
THEOREM BodyIsPrefixHolds == Spec => []BodyIsPrefix
  <1>1. Init => BodyIsPrefix
    BY DEF Init, BodyIsPrefix
  <1>2. ASSUME Types, BodyIsPrefix, [Next]_vars PROVE BodyIsPrefix'
    <2>1. CASE Write
      <3>1. /\ body' = Append(body, held.offset) /\ held.offset = Len(body)
            /\ body \in Seq(0 .. FileSize) /\ held.offset \in 0 .. FileSize
        BY <1>2, <2>1 DEF Write, Expected, Types, TypeOK, Answer
      <3>2. /\ Len(body) \in Nat /\ DOMAIN body = 1 .. Len(body)
            /\ DOMAIN body' = 1 .. Len(body) + 1
            /\ \A i \in 1 .. Len(body) : body'[i] = body[i]
            /\ body'[Len(body) + 1] = Len(body)
        BY <3>1
      <3>3. QED
        BY <1>2, <3>2 DEF BodyIsPrefix
    <2>2. CASE body' = body
      BY <1>2, <2>2 DEF BodyIsPrefix
    <2>3. QED
      BY <1>2, <2>1, <2>2, ResponseSteps
         DEF handlerVars, Fail, Chunk, AckFails, EndOfFile
  <1>3. QED
    BY <1>1, <1>2, TypesInductive, PTL DEF Spec

-----------------------------------------------------------------------------
\* What the device publishes is on its way as well, or something was lost.
LEMMA ServerGrows ==
  ASSUME Types, NEW m \in Answer, ToServer(m), UNCHANGED forwarderVars
  PROVE  /\ \/ toServer' = toServer
            \/ toServer' = Append(toServer, m)
         /\ lost = TRUE => lost' = TRUE
         /\ \A x : OnItsWay(x) => OnItsWay(x)'
         /\ \A x : OnItsWay(x)' => OnItsWay(x) \/ x = m
         /\ OnItsWay(m)' \/ lost' = TRUE \/ handler = "done"
  <1>1. /\ toServer \in Seq(Answer)
        /\ forwarder' = forwarder /\ held' = held
    BY DEF Types, TypeOK, forwarderVars
  <1>2. CASE toServer' = toServer
    <2>1. \A x : OnItsWay(x)' <=> OnItsWay(x)
      BY <1>1, <1>2 DEF OnItsWay, Holding
    <2>2. toServer # Append(toServer, m)
      <3>1. Len(Append(toServer, m)) = Len(toServer) + 1 /\ Len(toServer) \in Nat
        BY <1>1
      <3>2. QED
        BY <3>1
    <2>3. lost' = TRUE \/ (handler = "done" /\ lost' = lost)
      BY <1>2, <2>2 DEF ToServer
    <2>4. QED
      BY <1>2, <2>1, <2>3
  <1>3. CASE toServer' # toServer
    <2>1. toServer' = Append(toServer, m) /\ lost' = lost
      BY <1>3 DEF ToServer
    <2>2. /\ Len(toServer') = Len(toServer) + 1 /\ Len(toServer) \in Nat
          /\ \A i \in 1 .. Len(toServer) : toServer'[i] = toServer[i]
          /\ toServer'[Len(toServer) + 1] = m
      BY <1>1, <2>1
    <2>3. QED
      BY <1>1, <2>1, <2>2 DEF OnItsWay, Holding
  <1>4. QED
    BY <1>2, <1>3

\* The forwarder takes a message over.
LEMMA ForwarderHolds ==
  ASSUME Types, ForwarderReceives
  PROVE  /\ \A x : OnItsWay(x)' <=> OnItsWay(x)
         /\ EndIsLast => EndIsLast'
  <1>1. /\ toServer \in Seq(Answer) /\ toServer # <<>>
        /\ held' = Head(toServer) /\ toServer' = Tail(toServer)
        /\ forwarder = "select" /\ forwarder' = "holding"
        /\ UNCHANGED <<device, sent>>
    BY DEF ForwarderReceives, Types, TypeOK, deviceVars
  <1>2. /\ Len(toServer) \in Nat \ {0} /\ held' = toServer[1]
        /\ Len(toServer') = Len(toServer) - 1
        /\ \A i \in 1 .. Len(toServer') : toServer'[i] = toServer[i + 1]
        /\ \A i \in 2 .. Len(toServer) : toServer[i] = toServer'[i - 1]
    BY <1>1
  <1>3. ASSUME NEW x PROVE OnItsWay(x)' <=> OnItsWay(x)
    <2>1. ASSUME NEW i \in 1 .. Len(toServer), toServer[i] = x
          PROVE  OnItsWay(x)'
      <3>1. CASE i = 1
        BY <1>1, <1>2, <2>1, <3>1 DEF OnItsWay, Holding
      <3>2. CASE i # 1
        <4>1. i - 1 \in 1 .. Len(toServer') /\ toServer'[i - 1] = x
          BY <1>2, <2>1, <3>2
        <4>2. QED
          BY <4>1 DEF OnItsWay
      <3>3. QED
        BY <3>1, <3>2
    <2>2. ASSUME NEW i \in 1 .. Len(toServer'), toServer'[i] = x
          PROVE  OnItsWay(x)
      <3>1. i + 1 \in 1 .. Len(toServer) /\ toServer[i + 1] = x
        BY <1>2, <2>2
      <3>2. QED
        BY <3>1 DEF OnItsWay
    <2>3. Holding(x)' => toServer[1] = x /\ 1 \in 1 .. Len(toServer)
      BY <1>1, <1>2 DEF Holding
    <2>4. QED
      BY <1>1, <2>1, <2>2, <2>3 DEF OnItsWay, Holding
  <1>4. ASSUME EndIsLast PROVE EndIsLast'
    <2>1. ASSUME NEW i \in 1 .. Len(toServer), toServer[i].type = "eof",
                 NEW j \in 1 .. Len(toServer'), i <= j
          PROVE  toServer'[j].type # "chunk"
      <3>1. /\ j + 1 \in i + 1 .. Len(toServer)
            /\ toServer'[j] = toServer[j + 1]
        BY <1>2, <2>1
      <3>2. QED
        BY <1>4, <2>1, <3>1 DEF EndIsLast
    <2>2. held'.type = "eof" =>
            \A j \in 1 .. Len(toServer') : toServer'[j].type # "chunk"
      <3>1. 1 \in 1 .. Len(toServer) /\ Len(toServer') \in Nat
        BY <1>2
      <3>2. \A j \in 1 .. Len(toServer') : 1 <= j
        BY <3>1
      <3>3. held'.type = "eof" => toServer[1].type = "eof"
        BY <1>2
      <3>4. QED
        BY <2>1, <3>1, <3>2, <3>3
    <2>3. \A i \in 1 .. Len(toServer') : toServer'[i].type = "eof" =>
            \A j \in i + 1 .. Len(toServer') : toServer'[j].type # "chunk"
      <3>1. \A i \in 1 .. Len(toServer') :
              /\ i + 1 \in 1 .. Len(toServer)
              /\ \A j \in i + 1 .. Len(toServer') :
                   i + 1 <= j /\ j \in 1 .. Len(toServer')
        BY <1>2
      <3>2. QED
        BY <1>2, <2>1, <3>1
    <2>4. \A m \in Answer : OnItsWay(m)' /\ m.type = "eof" =>
            device' = "ended" /\ sent' = FileSize
      BY <1>1, <1>3, <1>4 DEF EndIsLast
    <2>5. QED
      BY <2>2, <2>3, <2>4 DEF EndIsLast
  <1>5. QED
    BY <1>3, <1>4

\* The handler takes the message the forwarder holds.
LEMMA TakeGoes ==
  ASSUME NEW types, Take(types)
  PROVE  /\ \A x : OnItsWay(x) => x = held \/ OnItsWay(x)'
         /\ \A x : OnItsWay(x)' => OnItsWay(x)
  BY DEF Take, OnItsWay, Holding

-----------------------------------------------------------------------------
(* The end of the file                                                     *)

\* No end is on its way to the server before the device has ended.
LEMMA NoEndYet ==
  ASSUME Types, EndIsLast, device # "ended"
  PROVE  /\ ~(forwarder = "holding" /\ held.type = "eof")
         /\ \A i \in 1 .. Len(toServer) : toServer[i].type # "eof"
  <1>1. held \in Answer /\ \A i \in 1 .. Len(toServer) : toServer[i] \in Answer
    BY DEF Types, TypeOK
  <1>2. forwarder = "holding" => OnItsWay(held)
    BY DEF OnItsWay, Holding
  <1>3. \A i \in 1 .. Len(toServer) : OnItsWay(toServer[i])
    BY DEF OnItsWay
  <1>4. QED
    BY <1>1, <1>2, <1>3 DEF EndIsLast

\* A device that has not ended publishes: the end as it ends, if at all.
LEMMA EndIsPublishedLast ==
  ASSUME Types, EndIsLast, device # "ended", NEW m \in Answer, ToServer(m),
         UNCHANGED forwarderVars,
         m.type = "eof" => device' = "ended" /\ sent' = FileSize
  PROVE  EndIsLast'
  <1>1. /\ ~(forwarder = "holding" /\ held.type = "eof")
        /\ \A i \in 1 .. Len(toServer) : toServer[i].type # "eof"
    BY NoEndYet
  <1>2. forwarder' = forwarder /\ held' = held
    BY DEF forwarderVars
  <1>3. ~(forwarder' = "holding" /\ held'.type = "eof")
    BY <1>1, <1>2
  <1>4. \A i \in 1 .. Len(toServer') : toServer'[i].type = "eof" =>
          \A j \in i + 1 .. Len(toServer') : FALSE
    <2>1. CASE toServer' = toServer
      BY <1>1, <2>1
    <2>2. CASE toServer' = Append(toServer, m)
      <3>1. toServer \in Seq(Answer)
        BY DEF Types, TypeOK
      <3>2. /\ Len(toServer') = Len(toServer) + 1 /\ Len(toServer) \in Nat
            /\ \A i \in 1 .. Len(toServer) : toServer'[i] = toServer[i]
        BY <2>2, <3>1
      <3>3. QED
        BY <1>1, <3>2
    <2>3. QED
      BY <2>1, <2>2, ServerGrows
  <1>5. ASSUME NEW x \in Answer, OnItsWay(x)', x.type = "eof"
        PROVE  device' = "ended" /\ sent' = FileSize
    <2>1. OnItsWay(x) \/ x = m
      BY <1>5, ServerGrows
    <2>2. ~OnItsWay(x)
      BY <1>5 DEF EndIsLast
    <2>3. QED
      BY <1>5, <2>1, <2>2
  <1>6. QED
    BY <1>3, <1>4, <1>5 DEF EndIsLast

\* Nothing is published, and a device that has ended stays so; a message is
\* handed over or not.
LEMMA EndStays ==
  ASSUME EndIsLast, UNCHANGED <<toServer, held, sent>>,
         forwarder' = "holding" => forwarder = "holding",
         device = "ended" => device' = "ended"
  PROVE  EndIsLast'
  BY DEF EndIsLast, OnItsWay, Holding

\* Every step keeps the end behind the chunks.
LEMMA EndInductive ==
  ASSUME Types, EndIsLast, [Next]_vars
  PROVE  EndIsLast'
  <1>1. CASE ForwarderReceives
    BY <1>1, ForwarderHolds
  <1>2. CASE ForwarderTimesOut \/ ForwarderSeesClosed \/ TimerFires
             \/ UNCHANGED vars
    BY <1>2, EndStays DEF ForwarderTimesOut, ForwarderSeesClosed, TimerFires,
         vars, forwarderVars, deviceVars
  <1>3. CASE Handshake \/ SilenceSeen \/ GivesUp
    BY <1>3, EndStays DEF Handshake, SilenceSeen, GivesUp, forwarderVars,
         deviceVars
  <1>4. CASE Accepted \/ Refused \/ Stat \/ StatFails
    BY <1>4, EndStays DEF Accepted, Refused, Stat, StatFails, Take, deviceVars
  <1>5. CASE Chunk \/ AckFails \/ ChunkFails \/ EndOfFile \/ Ping
    BY <1>5, EndStays DEF Chunk, AckFails, ChunkFails, Write, EndOfFile, Ping,
         Take, deviceVars
  <1>6. CASE PublishFails
    BY <1>6, EndStays DEF PublishFails, Take, forwarderVars, deviceVars
  <1>7. CASE DeviceReceives
    <2>1. CASE UNCHANGED toServer
      BY <1>7, <2>1, EndStays DEF DeviceReceives, forwarderVars
    <2>2. CASE toServer' # toServer
      <3>1. \A type \in {"accept", "refuse", "error", "info", "notRegular"} :
              Msg(type, 0) \in Answer /\ Msg(type, 0).type # "eof"
        BY SizesAssumption DEF Msg, Answer
      <3>2. PICK m \in Answer : m.type # "eof" /\ ToServer(m)
        BY <1>7, <2>2, <3>1 DEF DeviceReceives
      <3>3. device # "ended" /\ UNCHANGED forwarderVars
        BY <1>7, <2>2 DEF DeviceReceives
      <3>4. QED
        BY <3>2, <3>3, EndIsPublishedLast
    <2>3. QED
      BY <2>1, <2>2
  <1>8. CASE DeviceSends
    <2>1. Msg("chunk", sent) \in Answer /\ Msg("chunk", sent).type # "eof"
      BY DEF Msg, Answer, Types, TypeOK
    <2>2. QED
      BY <1>8, <2>1, EndIsPublishedLast DEF DeviceSends
  <1>9. CASE DeviceEnds
    <2>1. /\ Msg("eof", sent) \in Answer
          /\ Msg("error", 0) \in Answer /\ Msg("error", 0).type # "eof"
      BY SizesAssumption DEF Msg, Answer, Types, TypeOK
    <2>2. PICK m \in Answer : ToServer(m) /\ (m.type = "eof" => sent = FileSize)
      BY <1>9, <2>1 DEF DeviceEnds
    <2>3. device # "ended" /\ device' = "ended" /\ UNCHANGED forwarderVars
          /\ sent' = sent
      BY <1>9 DEF DeviceEnds
    <2>4. QED
      BY <2>2, <2>3, EndIsPublishedLast
  <1>10. CASE DevicePings
    <2>1. Msg("ping", 0) \in Answer /\ Msg("ping", 0).type # "eof"
      BY SizesAssumption DEF Msg, Answer
    <2>2. QED
      BY <1>10, <2>1, EndIsPublishedLast DEF DevicePings
  <1>11. QED
    BY <1>1, <1>2, <1>3, <1>4, <1>5, <1>6, <1>7, <1>8, <1>9, <1>10
       DEF Next, ForwarderNext, HandlerNext, DeviceNext

-----------------------------------------------------------------------------
(* The chunks                                                              *)

\* A step that writes nothing, sends nothing and keeps the chunks on their way.
LEMMA ChunksStay ==
  ASSUME SentArrives, UNCHANGED <<body, sent>>,
         lost = TRUE => lost' = TRUE, handler = "done" => handler' = "done",
         \A x : x.type = "chunk" /\ OnItsWay(x) => OnItsWay(x)'
  PROVE  SentArrives'
  <1>1. \A k \in Nat : Msg("chunk", k).type = "chunk"
    BY DEF Msg
  <1>2. lost' = FALSE => lost # TRUE
    OBVIOUS
  <1>3. QED
    BY <1>1, <1>2 DEF SentArrives

\* Publishing to the device does not bring back what was lost.
LEMMA ToDeviceLoses ==
  ASSUME NEW m, ToDevice(m)
  PROVE  lost = TRUE => lost' = TRUE
  BY DEF ToDevice

\* Every step keeps the chunks written or on their way.
LEMMA SentInductive ==
  ASSUME Types, SentArrives, [Next]_vars
  PROVE  SentArrives'
  <1>0. lost \in BOOLEAN
    BY DEF Types, TypeOK
  <1>1. CASE handler' = "done" \/ lost' = TRUE
    BY <1>1 DEF SentArrives
  <1>2. CASE ForwarderReceives
    <2>1. \A x : OnItsWay(x)' <=> OnItsWay(x)
      BY <1>2, ForwarderHolds
    <2>2. UNCHANGED <<body, sent, lost, handler>>
      BY <1>2 DEF ForwarderReceives, handlerVars, deviceVars
    <2>3. QED
      BY <2>1, <2>2, ChunksStay
  <1>3. CASE ForwarderTimesOut \/ ForwarderSeesClosed \/ TimerFires
             \/ UNCHANGED vars
    <2>1. UNCHANGED <<body, sent, lost, handler, toServer, held>>
          /\ (forwarder = "holding" <=> forwarder' = "holding")
      BY <1>3 DEF ForwarderTimesOut, ForwarderSeesClosed, TimerFires, vars,
           handlerVars, forwarderVars, deviceVars
    <2>2. \A x : OnItsWay(x)' <=> OnItsWay(x)
      BY <2>1 DEF OnItsWay, Holding
    <2>3. QED
      BY <2>1, <2>2, ChunksStay
  \* What the handler takes is not a chunk.
  <1>4. CASE handler' # "done" /\ (Handshake \/ Accepted \/ Stat \/ Ping)
    <2>1. UNCHANGED <<body, sent>> /\ handler # "done"
      BY <1>4 DEF Handshake, Accepted, Stat, Ping, handlerVars, deviceVars
    <2>2. \E m : ToDevice(m)
      BY <1>4 DEF Handshake, Accepted, Stat, Ping
    <2>3. ASSUME NEW x, x.type = "chunk", OnItsWay(x) PROVE OnItsWay(x)'
      <3>1. CASE Handshake
        BY <2>3, <3>1 DEF Handshake, OnItsWay, Holding, forwarderVars
      <3>2. CASE Accepted \/ Stat \/ Ping
        <4>1. PICK types \in {{"accept"}, {"info"}, {"ping"}} : Take(types)
          BY <3>2 DEF Accepted, Stat, Ping
        <4>2. held.type # "chunk"
          BY <4>1 DEF Take
        <4>3. QED
          BY <2>3, <4>1, <4>2, TakeGoes
      <3>3. QED
        BY <1>4, <3>1, <3>2
    <2>4. QED
      BY <2>1, <2>2, <2>3, ToDeviceLoses, ChunksStay
  <1>5. CASE Chunk
    <2>1. /\ held = Msg("chunk", Len(body)) /\ held.offset = Len(body)
          /\ body' = Append(body, held.offset) /\ UNCHANGED <<sent, handler>>
          /\ Take({"chunk"})
      <3>1. held \in Answer /\ held.type = "chunk" /\ held.offset = Len(body)
        BY <1>5 DEF Chunk, Write, Take, Expected, Types, TypeOK
      <3>2. held = Msg(held.type, held.offset)
        BY <3>1 DEF Msg, Answer
      <3>3. QED
        BY <1>5, <3>1, <3>2 DEF Chunk, Write, deviceVars
    <2>2. Len(body') = Len(body) + 1 /\ Len(body) \in Nat
      BY <2>1 DEF Types, TypeOK
    <2>3. lost = TRUE => lost' = TRUE
      BY <1>5, ToDeviceLoses DEF Chunk
    <2>4. ASSUME NEW k \in Nat, Len(body') <= k, k < sent', SentArrives,
                 handler # "done", lost = FALSE
          PROVE  OnItsWay(Msg("chunk", k))'
      <3>1. Len(body) <= k /\ k # Len(body) /\ k < sent
        BY <2>1, <2>2, <2>4
      <3>2. OnItsWay(Msg("chunk", k))
        BY <2>4, <3>1 DEF SentArrives
      <3>3. Msg("chunk", k).offset = k
        BY DEF Msg
      <3>4. Msg("chunk", k) # held
        BY <2>1, <3>1, <3>3
      <3>5. QED
        BY <2>1, <3>2, <3>4, TakeGoes
    <2>5. QED
      BY <1>0, <2>1, <2>3, <2>4 DEF SentArrives
  <1>6. CASE DeviceSends
    <2>1. Msg("chunk", sent) \in Answer /\ sent \in Nat
      BY SizesAssumption DEF Msg, Answer, Types, TypeOK
    <2>2. /\ ToServer(Msg("chunk", sent)) /\ UNCHANGED forwarderVars
          /\ sent' = sent + 1 /\ UNCHANGED <<body, handler>>
      BY <1>6 DEF DeviceSends, handlerVars
    <2>3. PICK m \in Answer : ToServer(m) /\ m = Msg("chunk", sent)
      BY <2>1, <2>2
    <2>4. /\ lost = TRUE => lost' = TRUE
          /\ \A x : OnItsWay(x) => OnItsWay(x)'
          /\ OnItsWay(m)' \/ lost' = TRUE \/ handler = "done"
      BY <2>2, <2>3, ServerGrows
    <2>5. ASSUME NEW k \in Nat, Len(body) <= k, k < sent', SentArrives,
                 handler # "done", lost = FALSE, lost' = FALSE
          PROVE  OnItsWay(Msg("chunk", k))'
      <3>1. CASE k < sent
        <4>1. OnItsWay(Msg("chunk", k))
          BY <2>5, <3>1 DEF SentArrives
        <4>2. QED
          BY <2>4, <4>1
      <3>2. CASE k = sent
        <4>1. Msg("chunk", k) = m
          BY <2>3, <3>2
        <4>2. QED
          BY <2>4, <2>5, <4>1
      <3>3. QED
        BY <2>1, <2>2, <2>5, <3>1, <3>2
    <2>6. QED
      BY <1>0, <2>2, <2>4, <2>5 DEF SentArrives
  <1>7. CASE DeviceReceives \/ DeviceEnds \/ DevicePings
    <2>1. UNCHANGED <<body, sent, handler, forwarderVars>>
      BY <1>7 DEF DeviceReceives, DeviceEnds, DevicePings, handlerVars,
           deviceVars
    <2>2. CASE UNCHANGED <<toServer, lost>>
      <3>1. \A x : OnItsWay(x)' <=> OnItsWay(x)
        BY <2>1, <2>2 DEF OnItsWay, Holding, forwarderVars
      <3>2. QED
        BY <2>1, <2>2, <3>1, ChunksStay
    <2>3. CASE ~UNCHANGED <<toServer, lost>>
      <3>1. /\ \A type \in {"accept", "refuse", "error", "info", "notRegular",
                             "ping"} : Msg(type, 0) \in Answer
            /\ Msg("eof", sent) \in Answer
        BY SizesAssumption DEF Msg, Answer, Types, TypeOK
      <3>2. PICK m \in Answer : ToServer(m)
        <4>1. CASE DeviceReceives
          BY <2>3, <3>1, <4>1 DEF DeviceReceives
        <4>2. CASE DeviceEnds \/ DevicePings
          BY <3>1, <4>2 DEF DeviceEnds, DevicePings
        <4>3. QED
          BY <1>7, <4>1, <4>2
      <3>3. QED
        BY <2>1, <3>2, ServerGrows, ChunksStay
    <2>4. QED
      BY <2>2, <2>3
  <1>8. CASE Refused \/ StatFails \/ AckFails \/ ChunkFails \/ EndOfFile
             \/ PublishFails \/ SilenceSeen \/ GivesUp
    <2>1. handler' = "done"
      BY <1>8 DEF Refused, StatFails, AckFails, ChunkFails, EndOfFile,
           PublishFails, SilenceSeen, GivesUp, Fail, EndInError
    <2>2. QED
      BY <1>1, <2>1
  <1>9. QED
    BY <1>1, <1>2, <1>3, <1>4, <1>5, <1>6, <1>7, <1>8
       DEF Next, ForwarderNext, HandlerNext, DeviceNext

\* What the device has sent is written or on its way as long as nothing is
\* lost, and the end comes after all of it.
THEOREM FlowInductive == Spec => []Flow
  <1>1. Init => Flow
    <2>1. ASSUME Init PROVE \A x : ~OnItsWay(x)
      BY <2>1 DEF Init, OnItsWay, Holding
    <2>2. ASSUME Init PROVE EndIsLast
      BY <2>1, <2>2 DEF Init, EndIsLast, OnItsWay
    <2>3. ASSUME Init PROVE SentArrives
      <3>1. sent = 0 /\ \A k \in Nat : ~(k < 0)
        BY <2>3 DEF Init
      <3>2. QED
        BY <3>1 DEF SentArrives
    <2>4. QED
      BY <2>2, <2>3 DEF Flow
  <1>2. Types /\ Flow /\ [Next]_vars => Flow'
    BY EndInductive, SentInductive DEF Flow
  <1>3. QED
    BY <1>1, <1>2, TypesInductive, PTL DEF Spec

-----------------------------------------------------------------------------
(* The acknowledgements                                                    *)

\* A message behind the others: another kind changes nothing, ...
LEMMA AcksBefore ==
  ASSUME NEW queue \in Seq(Request), NEW a, NEW n, AcksTo(queue, a, n),
         NEW m \in Request, m.type # "ack"
  PROVE  AcksTo(Append(queue, m), a, n)
  <1> DEFINE longer == Append(queue, m)
  <1>1. /\ Len(longer) = Len(queue) + 1 /\ Len(queue) \in Nat
        /\ \A i \in 1 .. Len(queue) : longer[i] = queue[i]
        /\ longer[Len(queue) + 1] = m
    OBVIOUS
  <1> HIDE DEF longer
  <1>2. \A i \in 1 .. Len(longer) : i \in 1 .. Len(queue) \/ longer[i] = m
    BY <1>1
  <1>3. (\A i \in 1 .. Len(longer) : longer[i].type # "ack") => a = n
    BY <1>1 DEF AcksTo
  <1>4. ASSUME NEW i \in 1 .. Len(longer), longer[i].type = "ack",
               \A j \in i + 1 .. Len(longer) : longer[j].type # "ack"
        PROVE  longer[i].offset = n
    <2>1. i \in 1 .. Len(queue)
      BY <1>2, <1>4
    <2>2. \A j \in i + 1 .. Len(queue) :
            j \in i + 1 .. Len(longer) /\ j \in 1 .. Len(queue)
      BY <1>1, <2>1
    <2>3. QED
      BY <1>1, <1>4, <2>1, <2>2 DEF AcksTo
  <1>5. AcksTo(longer, a, n)
    BY <1>3, <1>4 DEF AcksTo
  <1>6. QED
    BY <1>5 DEF longer

\* ... and another acknowledgement is the newest.
LEMMA AckIsNewest ==
  ASSUME NEW queue \in Seq(Request), NEW a, NEW m \in Request, m.type = "ack"
  PROVE  AcksTo(Append(queue, m), a, m.offset)
  <1> DEFINE longer == Append(queue, m)
  <1>1. /\ Len(longer) = Len(queue) + 1 /\ Len(queue) \in Nat
        /\ longer[Len(queue) + 1] = m
    OBVIOUS
  <1> HIDE DEF longer
  <1>2. ASSUME NEW i \in 1 .. Len(longer),
               \A j \in i + 1 .. Len(longer) : longer[j].type # "ack"
        PROVE  longer[i] = m
    BY <1>1, <1>2
  <1>3. Len(longer) \in 1 .. Len(longer)
    BY <1>1
  <1>4. AcksTo(longer, a, m.offset)
    BY <1>1, <1>2, <1>3 DEF AcksTo
  <1>5. QED
    BY <1>4 DEF longer

\* The first message is received.
LEMMA AckReceived ==
  ASSUME NEW queue \in Seq(Request), queue # <<>>, NEW a, NEW n,
         AcksTo(queue, a, n), NEW b,
         Head(queue).type = "ack" => b = Head(queue).offset,
         Head(queue).type # "ack" => b = a
  PROVE  AcksTo(Tail(queue), b, n)
  <1> DEFINE rest == Tail(queue)
             first == Head(queue)
  <1>1. /\ Len(rest) = Len(queue) - 1 /\ Len(queue) \in Nat \ {0}
        /\ \A i \in 1 .. Len(rest) : rest[i] = queue[i + 1]
        /\ first = queue[1]
    OBVIOUS
  <1> HIDE DEF rest, first
  <1>2. /\ 1 \in 1 .. Len(queue)
        /\ \A i \in 1 .. Len(queue) : i = 1 \/ i - 1 \in 1 .. Len(rest)
        /\ \A i \in 2 .. Len(queue) : queue[i] = rest[i - 1]
        /\ \A i \in 2 .. Len(queue) : i - 1 \in 1 .. Len(rest)
    BY <1>1
  <1>3. ASSUME \A i \in 1 .. Len(rest) : rest[i].type # "ack" PROVE b = n
    <2>1. \A i \in 1 + 1 .. Len(queue) : queue[i].type # "ack"
      BY <1>2, <1>3
    <2>2. CASE first.type = "ack"
      BY <1>1, <1>2, <2>1, <2>2 DEF AcksTo, first
    <2>3. CASE first.type # "ack"
      <3>1. \A i \in 1 .. Len(queue) : queue[i].type # "ack"
        BY <1>1, <2>1, <2>3
      <3>2. QED
        BY <2>3, <3>1 DEF AcksTo, first
    <2>4. QED
      BY <2>2, <2>3
  <1>4. ASSUME NEW i \in 1 .. Len(rest), rest[i].type = "ack",
               \A j \in i + 1 .. Len(rest) : rest[j].type # "ack"
        PROVE  rest[i].offset = n
    <2>1. i + 1 \in 1 .. Len(queue) /\ queue[i + 1] = rest[i]
      BY <1>1
    <2>2. \A j \in (i + 1) + 1 .. Len(queue) :
            j - 1 \in i + 1 .. Len(rest) /\ queue[j] = rest[j - 1]
      BY <1>1, <1>2
    <2>3. QED
      BY <1>4, <2>1, <2>2 DEF AcksTo
  <1>5. AcksTo(rest, b, n)
    BY <1>3, <1>4 DEF AcksTo
  <1>6. QED
    BY <1>5 DEF rest

\* What was lost stays lost, and what has ended does not start again.
LEMMA EndedForGood ==
  ASSUME [Next]_vars
  PROVE  /\ lost = TRUE => lost' = TRUE
         /\ handler = "done" => handler' = "done"
         /\ device = "ended" => device' = "ended"
  <1>1. CASE ForwarderNext \/ TimerFires \/ UNCHANGED vars
    BY <1>1 DEF ForwarderNext, ForwarderReceives, ForwarderTimesOut,
         ForwarderSeesClosed, TimerFires, vars, handlerVars, deviceVars
  <1>2. CASE Handshake \/ Accepted \/ Stat \/ Ping \/ Chunk
    <2>1. lost = TRUE => lost' = TRUE
      BY <1>2, ToDeviceLoses DEF Handshake, Accepted, Stat, Ping, Chunk, Close,
           CloseAfter
    <2>2. UNCHANGED device /\ (handler = "done" => handler' = "done")
      BY <1>2 DEF Handshake, Accepted, Stat, Ping, Chunk, handlerVars,
           deviceVars
    <2>3. QED
      BY <2>1, <2>2
  <1>3. CASE Refused \/ StatFails \/ AckFails \/ ChunkFails \/ EndOfFile
             \/ PublishFails \/ SilenceSeen \/ GivesUp
    <2>1. handler' = "done" /\ UNCHANGED device
      BY <1>3 DEF Refused, StatFails, AckFails, ChunkFails, EndOfFile,
           PublishFails, SilenceSeen, GivesUp, Fail, EndInError, deviceVars
    <2>2. UNCHANGED lost
      BY <1>3 DEF Refused, StatFails, AckFails, ChunkFails, EndOfFile,
           PublishFails, SilenceSeen, GivesUp, Close, CloseAfter
    <2>3. QED
      BY <2>1, <2>2
  <1>4. CASE DeviceReceives
    BY <1>4 DEF DeviceReceives, ToServer, handlerVars
  <1>5. CASE DeviceNext
    BY <1>5 DEF DeviceNext, DeviceSends, DeviceEnds, DevicePings, ToServer,
         handlerVars, deviceVars
  <1>6. QED
    BY <1>1, <1>2, <1>3, <1>4, <1>5 DEF Next, HandlerNext

\* A step that neither publishes to the device nor writes nor acknowledges.
LEMMA AcksStay ==
  ASSUME Types, AcksArrive, [Next]_vars,
         UNCHANGED <<toDevice, acked, body, chunks>>
  PROVE  AcksArrive'
  <1>1. handler' # "done" /\ lost' = FALSE /\ device' # "ended" =>
          handler # "done" /\ lost = FALSE /\ device # "ended"
    BY EndedForGood DEF Types, TypeOK
  <1>2. QED
    BY <1>1, EndedForGood DEF AcksArrive

\* Something else than an acknowledgement is published to the device.
LEMMA OthersBehind ==
  ASSUME Types, AcksArrive, [Next]_vars, NEW m \in Request, ToDevice(m),
         m.type # "ack", UNCHANGED <<acked, body, chunks, device>>
  PROVE  AcksArrive'
  <1>1. CASE Full(toDevice)
    BY <1>1 DEF ToDevice, AcksArrive
  <1>2. CASE ~Full(toDevice)
    <2>1. toDevice' = Append(toDevice, m) /\ lost' = lost
      BY <1>2 DEF ToDevice
    <2>2. toDevice \in Seq(Request)
      BY DEF Types, TypeOK
    <2>3. ASSUME handler' # "done", lost' = FALSE, device' # "ended"
          PROVE  AcksTo(toDevice', acked', Len(body') - chunks')
      <3>1. AcksTo(toDevice, acked, Len(body) - chunks)
        BY <2>1, <2>3, EndedForGood DEF AcksArrive
      <3>2. AcksTo(Append(toDevice, m), acked, Len(body) - chunks)
        BY <2>2, <3>1, AcksBefore
      <3>3. QED
        BY <2>1, <3>2
    <2>4. QED
      BY <2>3 DEF AcksArrive
  <1>3. QED
    BY <1>1, <1>2

\* Every step keeps the acknowledgements received or on their way.
LEMMA AcksInductive ==
  ASSUME Types, AcksArrive, [Next]_vars
  PROVE  AcksArrive'
  <1> USE SizesAssumption
  <1>1. CASE handler' = "done"
    BY <1>1 DEF AcksArrive
  <1>2. CASE ForwarderNext \/ TimerFires \/ UNCHANGED vars
    BY <1>2, AcksStay DEF ForwarderNext, ForwarderReceives, ForwarderTimesOut,
       ForwarderSeesClosed, TimerFires, vars, handlerVars, deviceVars
  <1>3. CASE handler' # "done" /\ (Handshake \/ Accepted \/ Stat \/ Ping)
    <2>1. UNCHANGED <<acked, body, chunks, device>>
      BY <1>3 DEF Handshake, Accepted, Stat, Ping, handlerVars, deviceVars
    <2>2. PICK type \in {"open", "stat", "get", "pong"} : ToDevice(Msg(type, 0))
      BY <1>3 DEF Handshake, Accepted, Stat, Ping
    <2>3. Msg(type, 0) \in Request /\ Msg(type, 0).type # "ack"
      BY DEF Msg, Request
    <2>4. QED
      BY <2>1, <2>2, <2>3, OthersBehind
  <1>4. CASE Chunk
    <2>1. Len(body') = Len(body) + 1 /\ Len(body) \in Nat /\ chunks \in Nat
          /\ Len(body') \in 0 .. FileSize
      <3>1. /\ held.offset = Len(body) /\ held.offset < FileSize
            /\ held.offset \in 0 .. FileSize
        BY <1>4 DEF Chunk, Write, Take, Expected, Types, TypeOK, ChunksOfFile,
             Answer
      <3>2. /\ body \in Seq(0 .. FileSize)
            /\ body' = Append(body, held.offset) /\ chunks \in 0 .. AckEvery
        BY <1>4 DEF Chunk, Write, Types, TypeOK
      <3>3. Len(body') = Len(body) + 1
        BY <3>1, <3>2
      <3>4. QED
        BY <3>1, <3>2, <3>3
    <2>2. CASE AckDue
      <3>1. PICK m \in Request :
              m.type = "ack" /\ m.offset = Len(body') /\ ToDevice(m)
        <4>1. Msg("ack", Len(body')) \in Request
          BY <2>1 DEF Msg, Request
        <4>2. /\ Msg("ack", Len(body')).type = "ack"
              /\ Msg("ack", Len(body')).offset = Len(body')
          BY DEF Msg
        <4>3. ToDevice(Msg("ack", Len(body')))
          BY <1>4, <2>2 DEF Chunk
        <4>4. QED
          BY <4>1, <4>2, <4>3
      <3>2. chunks' = 0 /\ acked' = acked
        BY <1>4, <2>2 DEF Chunk, deviceVars
      <3>3. CASE Full(toDevice)
        BY <3>1, <3>3 DEF ToDevice, AcksArrive
      <3>4. CASE ~Full(toDevice)
        <4>1. toDevice' = Append(toDevice, m) /\ toDevice \in Seq(Request)
          BY <3>1, <3>4 DEF ToDevice, Types, TypeOK
        <4>2. AcksTo(Append(toDevice, m), acked, m.offset)
          BY <3>1, <4>1, AckIsNewest
        <4>3. Len(body') - chunks' = m.offset
          BY <2>1, <3>1, <3>2
        <4>4. QED
          BY <3>2, <4>1, <4>2, <4>3 DEF AcksArrive
      <3>5. QED
        BY <3>3, <3>4
    <2>3. CASE ~AckDue
      <3>1. /\ chunks' = chunks + 1
            /\ UNCHANGED <<toDevice, lost, acked, device, handler>>
        BY <1>4, <2>3 DEF Chunk, deviceVars
      <3>2. Len(body') - chunks' = Len(body) - chunks
        BY <2>1, <3>1
      <3>3. QED
        BY <3>1, <3>2 DEF AcksArrive
    <2>4. QED
      BY <2>2, <2>3
  <1>5. CASE Refused \/ StatFails \/ AckFails \/ ChunkFails \/ EndOfFile
             \/ PublishFails \/ SilenceSeen \/ GivesUp
    <2>1. handler' = "done"
      BY <1>5 DEF Refused, StatFails, AckFails, ChunkFails, EndOfFile,
           PublishFails, SilenceSeen, GivesUp, Fail, EndInError
    <2>2. QED
      BY <1>1, <2>1
  <1>6. CASE DeviceReceives
    <2>1. /\ toDevice \in Seq(Request) /\ toDevice # <<>>
          /\ toDevice' = Tail(toDevice) /\ UNCHANGED <<body, chunks>>
      BY <1>6 DEF DeviceReceives, handlerVars, Types, TypeOK
    <2>2. ASSUME device' # "ended"
          PROVE  /\ Head(toDevice).type = "ack" => acked' = Head(toDevice).offset
                 /\ Head(toDevice).type # "ack" => acked' = acked
      BY <1>6, <2>2 DEF DeviceReceives
    <2>3. ASSUME handler' # "done", lost' = FALSE, device' # "ended"
          PROVE  AcksTo(toDevice', acked', Len(body') - chunks')
      <3>1. lost = FALSE
        BY <2>3, EndedForGood DEF Types, TypeOK
      <3>2. AcksTo(toDevice, acked, Len(body) - chunks)
        BY <2>3, <3>1, EndedForGood DEF AcksArrive
      <3>3. AcksTo(Tail(toDevice), acked', Len(body) - chunks)
        BY <2>1, <2>2, <2>3, <3>2, AckReceived
      <3>4. QED
        BY <2>1, <3>3
    <2>4. QED
      BY <2>3 DEF AcksArrive
  <1>7. CASE DeviceNext
    BY <1>7, AcksStay DEF DeviceNext, DeviceSends, DeviceEnds, DevicePings,
       handlerVars, deviceVars
  <1>8. QED
    BY <1>2, <1>3, <1>4, <1>5, <1>6, <1>7, <1>1 DEF Next, HandlerNext

\* As long as nothing is lost, every acknowledgement reaches the device.
THEOREM AcksArriveInductive == Spec => []AcksArrive
  <1>1. ASSUME Init PROVE AcksArrive
    <2>1. toDevice = <<>> /\ acked = 0 /\ body = <<>> /\ chunks = 0
      BY <1>1 DEF Init
    <2>2. Len(toDevice) = 0 /\ Len(body) = 0
      BY <2>1
    <2>3. AcksTo(toDevice, acked, Len(body) - chunks)
      BY <2>1, <2>2 DEF AcksTo
    <2>4. QED
      BY <2>3 DEF AcksArrive
  <1>2. Types /\ AcksArrive /\ [Next]_vars => AcksArrive'
    BY AcksInductive
  <1>3. QED
    BY <1>1, <1>2, TypesInductive, PTL DEF Spec

\* The two windows fit: the device never waits for an acknowledgement that
\* neither end is going to send or to receive.
THEOREM NobodyStarvesHolds == Spec => []NobodyStarves
  <1>1. ASSUME Types, Flow, AcksArrive PROVE NobodyStarves
    <2>1. SUFFICES ASSUME handler = "read", device = "sending",
                          toDevice = <<>>, toServer = <<>>,
                          forwarder = "select", ~lost
                   PROVE  sent - acked < DeviceWindow
      BY DEF NobodyStarves
    <2>2. lost = FALSE /\ Len(toDevice) = 0 /\ Len(toServer) = 0
      BY <2>1
    <2>3. acked = Len(body) - chunks
      BY <1>1, <2>1, <2>2 DEF AcksArrive, AcksTo
    <2>4. \A x : ~OnItsWay(x)
      BY <2>1, <2>2 DEF OnItsWay, Holding
    <2>5. Len(body) \in Nat /\ sent \in Nat /\ chunks \in Nat
          /\ chunks < AckEvery
      BY <1>1, SizesAssumption DEF Types, TypeOK
    <2>6. ~(Len(body) < sent)
      BY <1>1, <2>1, <2>2, <2>4, <2>5 DEF Flow, SentArrives
    <2>7. QED
      BY <2>3, <2>5, <2>6, SizesAssumption, WindowAssumption
  <1>2. QED
    BY <1>1, TypesInductive, FlowInductive, AcksArriveInductive, PTL

-----------------------------------------------------------------------------
(* The end of the response                                                 *)

\* When the end of the file is taken and nothing was lost, the body is whole.
LEMMA EndMeansWhole ==
  ASSUME Types, Flow, EndOfFile, lost = FALSE
  PROVE  Len(body) = FileSize
  <1>1. /\ handler = "read" /\ forwarder = "holding" /\ held.type = "eof"
        /\ held \in Answer
    BY DEF EndOfFile, Take, Types, TypeOK
  <1>2. OnItsWay(held)
    BY <1>1 DEF OnItsWay, Holding
  <1>3. sent = FileSize
    BY <1>1, <1>2 DEF Flow, EndIsLast
  <1>4. \A i \in 1 .. Len(toServer) : toServer[i].type # "chunk"
    BY <1>1 DEF Flow, EndIsLast
  <1>5. \A k \in Nat : ~OnItsWay(Msg("chunk", k))
    <2>1. \A k \in Nat : Msg("chunk", k).type = "chunk"
      BY DEF Msg
    <2>2. QED
      BY <1>1, <1>4, <2>1 DEF OnItsWay, Holding
  <1>6. Len(body) \in Nat /\ Len(body) <= FileSize
    BY DEF Types, TypeOK
  <1>7. ~(Len(body) < sent)
    BY <1>1, <1>5, <1>6 DEF Flow, SentArrives
  <1>8. QED
    BY <1>3, <1>6, <1>7, SizesAssumption

\* The handler ends once, and its status stands for what became of the file.
THEOREM OutcomeInductive == Spec => []Outcome
  <1>1. Init => Outcome
    BY DEF Init, Outcome
  <1>2. ASSUME Types, Flow, Outcome, [Next]_vars PROVE Outcome'
    <2>1. CASE UNCHANGED handlerVars
      BY <1>2, <2>1, EndedForGood DEF handlerVars, Outcome
    <2>2. CASE /\ handler # "done" /\ handler' # "done"
               /\ UNCHANGED <<head, body, flushed, chunks, status, failed>>
      BY <1>2, <2>2 DEF Outcome
    <2>3. CASE /\ handler = "stat" /\ handler' = "done" /\ head
               /\ UNCHANGED <<head, body, flushed, chunks, failed>>
      BY <1>2, <2>3 DEF Outcome, Types, TypeOK
    <2>4. CASE handler # "done" /\ Fail
      BY <1>2, <2>4 DEF Outcome, Fail, EndInError, Written
    <2>5. CASE Chunk
      BY <1>2, <2>5 DEF Outcome, Chunk, Write
    <2>6. CASE AckFails
      BY <1>2, <2>6 DEF Outcome, AckFails, EndInError, Written
    <2>7. CASE EndOfFile
      <3>1. lost = TRUE \/ Len(body) = FileSize
        BY <1>2, <2>7, EndMeansWhole DEF Types, TypeOK
      <3>2. /\ handler = "read" /\ handler' = "done" /\ failed' = failed
            /\ body' = body /\ flushed' = Len(body) /\ lost' = lost
        BY <2>7 DEF EndOfFile, FlushesAll, CloseAfter
      <3>3. QED
        BY <1>2, <3>1, <3>2 DEF Outcome
    <2>8. QED
      BY <1>2, <2>1, <2>2, <2>3, <2>4, <2>5, <2>6, <2>7, ResponseSteps
  <1>3. QED
    BY <1>1, <1>2, TypesInductive, FlowInductive, PTL DEF Spec

\* A download answered with 200 is whole, unless it failed on the way or
\* something was lost.
THEOREM OkMeansWholeHolds == Spec => []OkMeansWhole
  <1>1. ASSUME Types, Outcome PROVE OkMeansWhole
    <2>1. SUFFICES ASSUME status = "ok", ~head
                   PROVE  \/ flushed = FileSize
                          \/ failed /\ flushed > 0
                          \/ lost /\ ~failed
      BY DEF OkMeansWhole
    <2>2. handler = "done" /\ head # TRUE
      BY <1>1, <2>1 DEF Outcome
    <2>3. CASE failed = TRUE /\ status = IF flushed > 0 THEN "ok" ELSE "error"
      BY <2>1, <2>3
    <2>4. CASE /\ failed = FALSE /\ flushed = Len(body)
               /\ lost = TRUE \/ Len(body) = FileSize
      BY <2>4
    <2>5. QED
      BY <1>1, <2>2, <2>3, <2>4 DEF Outcome
  <1>2. QED
    BY <1>1, TypesInductive, OutcomeInductive, PTL
=============================================================================
