---------------------------- MODULE FileDownload ----------------------------
(***************************************************************************)
(* GET and HEAD /management/v1/.../devices/{id}/download: a file of the    *)
(* device sent to the user, from the handshake to the end of the response. *)
(*                                                                         *)
(* The messages of the device pass through a goroutine, the forwarder of   *)
(* chanTimeout, which closes its output when the device has been silent    *)
(* for too long.  The handler shakes hands, asks for the file's metadata   *)
(* and then for its chunks, which it compares with the offset it expects,  *)
(* writes to the response through a buffer and acknowledges now and then;  *)
(* the device stops when too much is unacknowledged.  A chunk is a unit    *)
(* here and offsets count chunks.  NATS keeps the order and may lose what  *)
(* it carries; a full channel always does.                                 *)
(***************************************************************************)
EXTENDS Naturals, Sequences

CONSTANTS
  FileSize,      \* chunks of the file
  AckEvery,      \* ackSlidingWindowSend: chunks to an acknowledgement
  DeviceWindow,  \* external: chunks the device sends unacknowledged
  ChanSize,      \* channelSize, for the subscriptions of both ends
  Loss,          \* whether NATS may lose a message on its way to the server
  NatsFaults     \* whether publishing may fail

ASSUME SizesAssumption ==
  /\ FileSize \in Nat
  /\ AckEvery \in Nat \ {0}
  /\ ChanSize \in Nat \ {0}
  /\ Loss \in BOOLEAN
  /\ NatsFaults \in BOOLEAN
ASSUME WindowAssumption == DeviceWindow \in Nat /\ DeviceWindow >= AckEvery

VARIABLES
  handler,    \* where the handler is
  head,       \* the request's method is HEAD
  body,       \* the chunks taken for the response, by their offsets
  flushed,    \* how many of them have left the handler's buffer
  chunks,     \* numberOfChunks since the last acknowledgement
  status,     \* the HTTP status of the response, once it has ended
  forwarder,  \* the goroutine of chanTimeout
  held,       \* the message it hands over
  tick,       \* its timer has fired
  toServer,   \* the session's subject, as far as subChan holds it
  toDevice,   \* the device's subject, as far as the device's side holds it
  device,     \* external: where the device's file transfer is
  sent,       \* external: chunks the device has sent
  acked,      \* external: the newest acknowledgement it has received
  lost,       \* history: a message was lost in either direction
  failed      \* history: the handler ended with an error

handlerVars == <<handler, head, body, flushed, chunks, status, failed>>
forwarderVars == <<forwarder, held, tick>>
deviceVars == <<device, sent, acked>>
vars == <<handlerVars, forwarderVars, toServer, toDevice, deviceVars, lost>>

Answer == [type : {"accept", "refuse", "info", "notRegular", "chunk", "eof",
                   "ping", "error"},
           offset : 0 .. FileSize]
Request == [type : {"open", "stat", "get", "ack", "pong", "close"},
            offset : 0 .. FileSize]
Msg(type, off) == [type |-> type, offset |-> off]

TypeOK ==
  /\ handler \in {"start", "handshake", "stat", "read", "done"}
  /\ head \in BOOLEAN
  /\ body \in Seq(0 .. FileSize) /\ Len(body) <= FileSize
  /\ flushed \in 0 .. Len(body)
  /\ chunks \in 0 .. AckEvery
  /\ status \in {"none", "ok", "error"}
  /\ forwarder \in {"select", "holding", "ended"}
  /\ held \in Answer
  /\ tick \in BOOLEAN
  /\ toServer \in Seq(Answer) /\ Len(toServer) <= ChanSize
  /\ toDevice \in Seq(Request) /\ Len(toDevice) <= ChanSize
  /\ device \in {"idle", "open", "sending", "ended"}
  /\ sent \in 0 .. FileSize
  /\ acked \in 0 .. FileSize
  /\ lost \in BOOLEAN
  /\ failed \in BOOLEAN

Init ==
  /\ handler = "start"
  /\ head \in BOOLEAN
  /\ body = <<>>
  /\ flushed = 0
  /\ chunks = 0
  /\ status = "none"
  /\ forwarder = "select"
  /\ held = Msg("ping", 0)
  /\ tick = FALSE
  /\ toServer = <<>>
  /\ toDevice = <<>>
  /\ device = "idle"
  /\ sent = 0
  /\ acked = 0
  /\ lost = FALSE
  /\ failed = FALSE

-----------------------------------------------------------------------------
(* NATS                                                                    *)

Full(chan) == Len(chan) >= ChanSize

\* What is published to the device, in order: kept as far as there is room.
ToDevice(m) ==
  IF Full(toDevice) THEN lost' = TRUE /\ UNCHANGED toDevice
                    ELSE toDevice' = Append(toDevice, m) /\ UNCHANGED lost

\* The session is closed, after what was published before: best effort.
Keep(chan, m) == IF Full(chan) THEN chan ELSE Append(chan, m)

CloseAfter(chan) ==
  /\ \/ toDevice' = Keep(chan, Msg("close", 0))
     \/ NatsFaults /\ toDevice' = chan
  /\ UNCHANGED lost

Close == CloseAfter(toDevice)

\* Mutation: the channel is taken to be unbounded.
NeverFull == FALSE

MustLose == Full(toServer)

ToServer(m) ==
  \/ /\ ~MustLose
     /\ toServer' = IF handler = "done" THEN toServer ELSE Append(toServer, m)
     /\ UNCHANGED lost
  \/ /\ MustLose \/ Loss
     /\ lost' = TRUE
     /\ UNCHANGED toServer

-----------------------------------------------------------------------------
(* The forwarder                                                           *)

\* A message of the device sets the timer again, drained.
ForwarderReceives ==
  /\ forwarder = "select"
  /\ toServer # <<>>
  /\ held' = Head(toServer)
  /\ toServer' = Tail(toServer)
  /\ forwarder' = "holding"
  /\ tick' = FALSE
  /\ UNCHANGED <<handlerVars, toDevice, deviceVars, lost>>

\* Mutation: the loop goes on after the timer has fired.
ForwarderGoesOn ==
  /\ forwarder = "select"
  /\ tick
  /\ tick' = FALSE
  /\ UNCHANGED <<handlerVars, forwarder, held, toServer, toDevice,
                 deviceVars, lost>>

\* The timer's channel is ready, be a message waiting or not.
ForwarderTimesOut ==
  /\ forwarder = "select"
  /\ tick
  /\ forwarder' = "ended"
  /\ UNCHANGED <<handlerVars, held, tick, toServer, toDevice, deviceVars, lost>>

\* subChan is closed by the handler's return and has been emptied.
ForwarderSeesClosed ==
  /\ forwarder = "select"
  /\ handler = "done"
  /\ toServer = <<>>
  /\ forwarder' = "ended"
  /\ UNCHANGED <<handlerVars, held, tick, toServer, toDevice, deviceVars, lost>>

TimerFires ==
  /\ ~tick
  /\ forwarder # "ended"
  /\ tick' = TRUE
  /\ UNCHANGED <<handlerVars, forwarder, held, toServer, toDevice,
                 deviceVars, lost>>

-----------------------------------------------------------------------------
(* The handler                                                             *)

\* The handler takes what the forwarder hands over.
Take(types) ==
  /\ forwarder = "holding"
  /\ held.type \in types
  /\ forwarder' = "select"
  /\ UNCHANGED <<held, tick, toServer>>

\* gin sends the status with the first bytes of the body, not before.
Written(bytes) == bytes > 0

\* An error is answered as such as long as nothing has been written.
EndInError(bytes) ==
  /\ failed' = TRUE
  /\ status' = IF Written(bytes) THEN "ok" ELSE "error"
  /\ handler' = "done"

Fail ==
  /\ EndInError(flushed)
  /\ UNCHANGED <<head, body, flushed, chunks>>

Handshake ==
  /\ handler = "start"
  /\ handler' = "handshake"
  /\ ToDevice(Msg("open", 0))
  /\ UNCHANGED <<head, body, flushed, chunks, status, failed,
                 forwarderVars, toServer, deviceVars>>

\* The device accepts file transfers: it is asked for the file's metadata.
Accepted ==
  /\ handler = "handshake"
  /\ Take({"accept"})
  /\ handler' = "stat"
  /\ ToDevice(Msg("stat", 0))
  /\ UNCHANGED <<head, body, flushed, chunks, status, failed, deviceVars>>

\* It accepts other protocols only, or answers something else.
Refused ==
  /\ handler = "handshake"
  /\ \/ Take({"refuse"}) /\ Close
     \/ Take({"error", "ping"}) /\ UNCHANGED <<toDevice, lost>>
  /\ Fail
  /\ UNCHANGED deviceVars

\* The metadata of a regular file: a HEAD ends here, a GET asks for the file.
Stat ==
  /\ handler = "stat"
  /\ Take({"info"})
  /\ IF head
       THEN handler' = "done" /\ status' = "ok" /\ Close
       ELSE handler' = "read" /\ ToDevice(Msg("get", 0)) /\ UNCHANGED status
  /\ UNCHANGED <<head, body, flushed, chunks, failed, deviceVars>>

\* Anything else is not the answer expected, a ping included.
StatFails ==
  /\ handler = "stat"
  /\ Take({"notRegular", "error", "ping"})
  /\ Fail
  /\ Close
  /\ UNCHANGED deviceVars

\* Mutation: a chunk is written wherever it belongs.
AnyOffset(m) == TRUE

\* The chunk's offset is the one expected.
Expected(m) == m.offset = Len(body)

\* Mutation: one chunk too many before the acknowledgement.
AckDueLate == chunks > AckEvery

AckDue == chunks + 1 >= AckEvery

\* A chunk goes to the response's buffer, which passes on what it likes.
Write ==
  /\ handler = "read"
  /\ Take({"chunk"})
  /\ Expected(held)
  /\ body' = Append(body, held.offset)
  /\ flushed' \in flushed .. Len(body')

Chunk ==
  /\ Write
  /\ IF AckDue
       THEN chunks' = 0 /\ ToDevice(Msg("ack", Len(body')))
       ELSE chunks' = chunks + 1 /\ UNCHANGED <<toDevice, lost>>
  /\ UNCHANGED <<handler, head, status, failed, deviceVars>>

\* The acknowledgement of what has just been written cannot be published.
AckFails ==
  /\ NatsFaults
  /\ AckDue
  /\ Write
  /\ EndInError(flushed')
  /\ Close
  /\ UNCHANGED <<head, chunks, deviceVars>>

\* A wrong offset, an error of the device or an unknown message.
ChunkFails ==
  /\ handler = "read"
  /\ \/ Take({"chunk"}) /\ ~Expected(held)
     \/ Take({"error"})
  /\ Fail
  /\ Close
  /\ UNCHANGED deviceVars

\* Mutation: what the buffer holds at the end is not passed on.
KeepsBuffer == flushed

FlushesAll == Len(body)

\* The empty chunk at the end of the file: its offset is not looked at.
EndOfFile ==
  /\ handler = "read"
  /\ Take({"eof"})
  /\ flushed' = FlushesAll
  /\ status' = "ok"
  /\ handler' = "done"
  /\ CloseAfter(Keep(toDevice, Msg("ack", Len(body))))
  /\ UNCHANGED <<head, body, chunks, failed, deviceVars>>

Ping ==
  /\ handler = "read"
  /\ Take({"ping"})
  /\ ToDevice(Msg("pong", 0))
  /\ UNCHANGED <<handlerVars, deviceVars>>

\* Subscribing, or publishing what follows a message, fails.
PublishFails ==
  /\ NatsFaults
  /\ \/ handler = "start" /\ UNCHANGED <<toDevice, lost, forwarderVars, toServer>>
     \/ handler = "handshake" /\ Take({"accept"}) /\ Close
     \/ handler = "stat" /\ ~head /\ Take({"info"}) /\ Close
     \/ handler = "read" /\ Take({"ping", "eof"}) /\ Close
  /\ Fail
  /\ UNCHANGED deviceVars

\* The forwarder has closed its output.
SilenceSeen ==
  /\ handler \in {"handshake", "stat", "read"}
  /\ forwarder = "ended"
  /\ Fail
  /\ IF handler = "handshake" THEN UNCHANGED <<toDevice, lost>> ELSE Close
  /\ UNCHANGED <<forwarderVars, toServer, deviceVars>>

\* time.After in the handshake, or the user's request is cancelled.
GivesUp ==
  /\ handler \in {"handshake", "stat", "read"}
  /\ Fail
  /\ IF handler = "handshake" THEN UNCHANGED <<toDevice, lost>> ELSE Close
  /\ UNCHANGED <<forwarderVars, toServer, deviceVars>>

-----------------------------------------------------------------------------
(* The device, as the handler relies on it                                 *)

DeviceReceives ==
  /\ toDevice # <<>>
  /\ toDevice' = Tail(toDevice)
  /\ LET m == Head(toDevice) IN
       \/ /\ m.type = "open" /\ device = "idle"
          /\ device' = "open"
          /\ \E type \in {"accept", "refuse", "error"} : ToServer(Msg(type, 0))
          /\ UNCHANGED acked
       \/ /\ m.type = "stat" /\ device = "open"
          /\ \E type \in {"info", "notRegular", "error"} : ToServer(Msg(type, 0))
          /\ UNCHANGED <<device, acked>>
       \/ /\ m.type = "get" /\ device = "open"
          /\ device' = "sending"
          /\ UNCHANGED <<acked, toServer, lost>>
       \/ /\ m.type = "ack"
          /\ acked' = m.offset
          /\ UNCHANGED <<device, toServer, lost>>
       \/ /\ m.type = "close"
          /\ device' = "ended"
          /\ UNCHANGED <<acked, toServer, lost>>
       \/ /\ m.type = "pong" \/ (m.type # "close" /\ device = "ended")
          /\ UNCHANGED <<device, acked, toServer, lost>>
  /\ UNCHANGED <<handlerVars, forwarderVars, sent>>

\* It sends chunks until too many are unacknowledged.
DeviceSends ==
  /\ device = "sending"
  /\ sent < FileSize
  /\ sent - acked < DeviceWindow
  /\ sent' = sent + 1
  /\ ToServer(Msg("chunk", sent))
  /\ UNCHANGED <<handlerVars, forwarderVars, toDevice, device, acked>>

DeviceEnds ==
  /\ device = "sending"
  /\ \/ sent = FileSize /\ ToServer(Msg("eof", sent))
     \/ ToServer(Msg("error", 0))
  /\ device' = "ended"
  /\ UNCHANGED <<handlerVars, forwarderVars, toDevice, sent, acked>>

DevicePings ==
  /\ device \in {"open", "sending"}
  /\ ToServer(Msg("ping", 0))
  /\ UNCHANGED <<handlerVars, forwarderVars, toDevice, deviceVars>>

-----------------------------------------------------------------------------
ForwarderNext ==
  ForwarderReceives \/ ForwarderTimesOut \/ ForwarderSeesClosed

HandlerNext ==
  \/ Handshake \/ Accepted \/ Refused \/ Stat \/ StatFails
  \/ Chunk \/ AckFails \/ ChunkFails \/ EndOfFile \/ Ping \/ PublishFails \/ SilenceSeen

DeviceNext == DeviceSends \/ DeviceEnds \/ DevicePings

Next ==
  \/ ForwarderNext \/ TimerFires \/ HandlerNext \/ GivesUp
  \/ DeviceReceives \/ DeviceNext

Spec == Init /\ [][Next]_vars

\* The two goroutines run whenever they can, and time passes.  Nothing is
\* assumed of the device, of NATS, or of the user.
Fairness ==
  /\ WF_vars(HandlerNext)
  /\ WF_vars(ForwarderNext)
  /\ WF_vars(TimerFires)

FairSpec == Spec /\ Fairness

-----------------------------------------------------------------------------
(* Properties                                                              *)

\* Whatever NATS loses, the body of the response is a prefix of the file: no
\* chunk is missing in its middle, and none is there twice.
BodyIsPrefix == \A i \in DOMAIN body : body[i] = i - 1

\* A download answered with 200 carries the whole file, unless it failed after
\* a part of the body was sent, or NATS lost the last chunks of the file (the
\* offset of the end is not compared).
OkMeansWhole ==
  status = "ok" /\ ~head =>
    \/ flushed = FileSize
    \/ failed /\ flushed > 0
    \/ lost /\ ~failed

\* The two windows fit: as long as nothing is lost, the device never waits for
\* an acknowledgement of chunks that the handler has all taken.
NobodyStarves ==
  /\ handler = "read"
  /\ device = "sending"
  /\ sent < FileSize
  /\ toDevice = <<>> /\ toServer = <<>> /\ forwarder = "select"
  /\ ~lost
  => sent - acked < DeviceWindow

\* The request is answered, unless the device goes on sending for ever.
SilenceEnds == <>(status # "none") \/ []<><<DeviceNext>>_vars
=============================================================================
