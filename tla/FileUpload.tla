----------------------------- MODULE FileUpload -----------------------------
(***************************************************************************)
(* PUT /management/v1/.../devices/{id}/upload: a file of the user's request *)
(* sent to the device in chunks, from the handshake to the HTTP response.  *)
(*                                                                         *)
(* The handler shakes hands with the device, announces the file and starts *)
(* a goroutine for the device's messages (inbound), which hands it the     *)
(* latest acknowledged offset through a channel of one place and an error  *)
(* through a channel of none.  It sends chunk after chunk, waits for an    *)
(* acknowledgement when the window of bytes in flight is exceeded, and     *)
(* after the last chunk until everything sent is acknowledged.  NATS, in   *)
(* both directions, keeps the order and drops what finds a full channel.   *)
(***************************************************************************)
EXTENDS Naturals, Sequences, FiniteSets

CONSTANTS
  FileSize,    \* bytes of the file
  MaxRead,     \* fileTransferBufferSize: a read returns at most that much
  Window,      \* fileTransferBufferSize * ackSlidingWindowRecv
  ChanSize,    \* channelSize, for the subscriptions of both ends
  NatsFaults   \* whether publishing may fail

ASSUME SizesAssumption ==
  /\ FileSize \in Nat
  /\ MaxRead \in Nat \ {0}
  /\ Window \in Nat
  /\ ChanSize \in Nat \ {0}
  /\ NatsFaults \in BOOLEAN

VARIABLES
  handler,    \* where the handler is
  offset,     \* bytes published
  ack,        \* the handler's latestAckOffset
  tick,       \* what is in the channel of the handler's timer
  inbound,    \* where the inbound goroutine is
  inAck,      \* the goroutine's latestAckOffset
  ackChan,    \* latestAckOffsets: at most one offset, 0 when empty
  response,   \* the HTTP response
  toServer,   \* the session's subject, as far as msgChan holds it
  toDevice,   \* the device's subject, as far as the device's side holds it
  device,     \* external: where the device's file transfer is
  stored,     \* external: bytes the device has stored
  acked,      \* external: the last offset the device acknowledged
  ends        \* history: the offsets at which chunks ended

handlerVars == <<handler, offset, ack, tick, response, ends>>
inboundVars == <<inbound, inAck, ackChan>>
deviceVars == <<device, stored, acked>>
vars == <<handlerVars, inboundVars, toServer, toDevice, deviceVars>>

Message == [type : {"accept", "refuse", "ack", "ping", "error"},
            offset : 0 .. FileSize]
Msg(type, off) == [type |-> type, offset |-> off]
Chunk == [type : {"open", "put", "chunk", "eof", "pong", "close"},
          offset : 0 .. FileSize, len : 0 .. MaxRead]
Req(type, off, len) == [type |-> type, offset |-> off, len |-> len]

TypeOK ==
  /\ handler \in {"start", "handshake", "put", "read", "poll", "wait",
                  "final", "done"}
  /\ offset \in 0 .. FileSize
  /\ ack \in 0 .. FileSize
  /\ tick \in {"stopped", "none", "fresh", "stale"}
  /\ inbound \in {"none", "receive", "error", "pongError"}
  /\ inAck \in 0 .. FileSize
  /\ ackChan \in 0 .. FileSize
  /\ response \in {"none", "created", "timeout", "error"}
  /\ toServer \in Seq(Message) /\ Len(toServer) <= ChanSize
  /\ toDevice \in Seq(Chunk) /\ Len(toDevice) <= ChanSize
  /\ device \in {"idle", "open", "receiving", "failed", "closed"}
  /\ stored \in 0 .. FileSize
  /\ acked \in 0 .. FileSize
  /\ ends \subseteq 1 .. FileSize

Init ==
  /\ handler = "start"
  /\ offset = 0
  /\ ack = 0
  /\ tick = "stopped"
  /\ inbound = "none"
  /\ inAck = 0
  /\ ackChan = 0
  /\ response = "none"
  /\ toServer = <<>>
  /\ toDevice = <<>>
  /\ device = "idle"
  /\ stored = 0
  /\ acked = 0
  /\ ends = {}

\* Mutation: the channel is taken to be unbounded.
DeliverAlways(chan, m) == Append(chan, m)

\* NATS delivers to a subscription's channel or, when it is full, to nobody.
Deliver(chan, m) == IF Len(chan) < ChanSize THEN Append(chan, m) ELSE chan

Respond(status) ==
  /\ handler' = "done"
  /\ response' = status

\* The device is told that the session closes, after what was sent before.
Close(sent) ==
  \/ toDevice' = Deliver(sent, Req("close", 0, 0))
  \/ NatsFaults /\ toDevice' = sent

-----------------------------------------------------------------------------
(* Handshake and announcement                                              *)

Handshake ==
  /\ handler = "start"
  /\ handler' = "handshake"
  /\ toDevice' = Deliver(toDevice, Req("open", 0, 0))
  /\ UNCHANGED <<offset, ack, tick, response, ends, inboundVars, toServer,
                 deviceVars>>

\* The device answers: when it accepts file transfers the file is announced,
\* and the session is closed if that fails or it accepts other protocols only.
Accepted ==
  /\ handler = "handshake"
  /\ toServer # <<>>
  /\ toServer' = Tail(toServer)
  /\ LET answer == Head(toServer).type IN
       \/ /\ answer = "accept"
          /\ handler' = "put"
          /\ toDevice' = Deliver(toDevice, Req("put", 0, 0))
          /\ UNCHANGED response
       \/ /\ answer = "refuse" \/ (answer = "accept" /\ NatsFaults)
          /\ Respond("error")
          /\ Close(toDevice)
       \/ /\ answer \notin {"accept", "refuse"}
          /\ Respond("error")
          /\ UNCHANGED toDevice
  /\ UNCHANGED <<offset, ack, tick, ends, inboundVars, deviceVars>>

\* The first answer to the announcement: anything but an error is a go-ahead.
GoAhead ==
  /\ handler = "put"
  /\ toServer # <<>>
  /\ toServer' = Tail(toServer)
  /\ IF Head(toServer).type \in {"ack", "ping"}
       THEN /\ handler' = "read"
            /\ inbound' = "receive"
            /\ tick' = "none"
            /\ UNCHANGED <<response, toDevice>>
       ELSE Respond("error") /\ Close(toDevice) /\ UNCHANGED <<inbound, tick>>
  /\ UNCHANGED <<offset, ack, ends, inAck, ackChan, deviceVars>>

\* time.After(fileTransferTimeout) in either of the two steps.
NoAnswer ==
  /\ \/ handler = "handshake" /\ UNCHANGED toDevice
     \/ handler = "put" /\ Close(toDevice)
  /\ Respond("timeout")
  /\ UNCHANGED <<offset, ack, tick, ends, inboundVars, toServer, deviceVars>>

-----------------------------------------------------------------------------
(* The chunks                                                              *)

\* Mutation: the timer is stopped before the wait and not set again.
TickAfterStop == "stopped"

\* Reset of a timer that may have fired: its tick stays in the channel.
TickAfterReset == IF tick \in {"fresh", "stale"} THEN "stale" ELSE "none"

\* Mutation: the window is measured before the chunk is counted.
ExceedsWindowLate(off) == offset > ack + Window

ExceedsWindow(off) == off > ack + Window

\* A read of the request's body, short or not, is published as a chunk.
SendChunk ==
  /\ handler = "read"
  /\ \E len \in 1 .. MaxRead :
       /\ offset + len <= FileSize
       /\ toDevice' = Deliver(toDevice, Req("chunk", offset, len))
       /\ offset' = offset + len
       /\ ends' = ends \union {offset + len}
       /\ handler' = IF ExceedsWindow(offset + len) THEN "wait" ELSE "poll"
       /\ tick' = IF ExceedsWindow(offset + len) THEN TickAfterReset ELSE tick
  /\ UNCHANGED <<ack, response, inboundVars, toServer, deviceVars>>

\* Mutation: the handler answers once everything is sent.
SentIsAcknowledged(a) == TRUE

AllAcknowledged(a) == offset <= a

\* The end of the file is an empty chunk; then all of it must be acknowledged.
SendEnd ==
  /\ handler = "read"
  /\ offset = FileSize
  /\ LET sent == Deliver(toDevice, Req("eof", offset, 0)) IN
       IF AllAcknowledged(ack)
         THEN Respond("created") /\ Close(sent) /\ UNCHANGED tick
         ELSE /\ handler' = "final"
              /\ tick' = TickAfterReset
              /\ toDevice' = sent
              /\ UNCHANGED response
  /\ UNCHANGED <<offset, ack, ends, inboundVars, toServer, deviceVars>>

\* The request's body breaks off, or publishing fails.
SendFails ==
  /\ \/ handler = "read" /\ Close(toDevice)
     \/ handler = "start" /\ NatsFaults /\ UNCHANGED toDevice
  /\ Respond("error")
  /\ UNCHANGED <<offset, ack, tick, ends, inboundVars, toServer, deviceVars>>

\* The inbound goroutine is waiting to hand over an error.
ErrorWaiting == inbound \in {"error", "pongError"}
ErrorTaken == inbound' = IF inbound = "pongError" THEN "receive" ELSE "none"

TakeError ==
  /\ handler \in {"poll", "wait"}
  /\ ErrorWaiting
  /\ Respond("error")
  /\ Close(toDevice)
  /\ ErrorTaken
  /\ UNCHANGED <<offset, ack, tick, ends, inAck, ackChan, toServer,
                 deviceVars>>

PollNothing ==
  /\ handler = "poll"
  /\ ~ErrorWaiting
  /\ handler' = "read"
  /\ UNCHANGED <<offset, ack, tick, response, ends, inboundVars, toServer,
                 toDevice, deviceVars>>

\* One acknowledgement ends the wait, whether it opens the window or not.
WaitAck ==
  /\ handler = "wait"
  /\ ackChan # 0
  /\ ack' = ackChan
  /\ ackChan' = 0
  /\ handler' = "read"
  /\ UNCHANGED <<offset, tick, response, ends, inbound, inAck, toServer,
                 toDevice, deviceVars>>

FinalAck ==
  /\ handler = "final"
  /\ ackChan # 0
  /\ ack' = ackChan
  /\ ackChan' = 0
  /\ IF AllAcknowledged(ackChan)
       THEN Respond("created") /\ Close(toDevice) /\ UNCHANGED tick
       ELSE tick' = TickAfterReset /\ UNCHANGED <<handler, response, toDevice>>
  /\ UNCHANGED <<offset, ends, inbound, inAck, toServer, deviceVars>>

\* The timer's channel is ready, be it with the tick of an earlier period.
Timeout ==
  /\ handler \in {"wait", "final"}
  /\ tick \in {"fresh", "stale"}
  /\ Respond("timeout")
  /\ Close(toDevice)
  /\ UNCHANGED <<offset, ack, tick, ends, inboundVars, toServer, deviceVars>>

\* fileTransferTimeout has passed since the timer was last set.
TimerFires ==
  /\ tick \in {"none", "stale"}
  /\ handler # "done"
  /\ tick' = "fresh"
  /\ UNCHANGED <<handler, offset, ack, response, ends, inboundVars, toServer,
                 toDevice, deviceVars>>

-----------------------------------------------------------------------------
(* The inbound goroutine                                                   *)

\* Mutation: an offset that finds the channel full is dropped.
KeepFirstAck(a) == IF ackChan = 0 THEN a ELSE ackChan

\* An offset that finds the channel full replaces the one in it.
LatestAck(a) == a

InboundAck ==
  /\ inbound = "receive"
  /\ toServer # <<>>
  /\ Head(toServer).type = "ack"
  /\ toServer' = Tail(toServer)
  /\ IF Head(toServer).offset > inAck
       THEN /\ inAck' = Head(toServer).offset
            /\ ackChan' = LatestAck(Head(toServer).offset)
       ELSE UNCHANGED <<inAck, ackChan>>
  /\ UNCHANGED <<handlerVars, inbound, toDevice, deviceVars>>

\* A ping is answered; if that fails the goroutine reports it and goes on.
InboundPing ==
  /\ inbound = "receive"
  /\ toServer # <<>>
  /\ Head(toServer).type = "ping"
  /\ toServer' = Tail(toServer)
  /\ \/ toDevice' = Deliver(toDevice, Req("pong", 0, 0)) /\ UNCHANGED inbound
     \/ NatsFaults /\ inbound' = "pongError" /\ UNCHANGED toDevice
  /\ UNCHANGED <<handlerVars, inAck, ackChan, deviceVars>>

\* An error of the device, or a message that cannot be decoded.
InboundError ==
  /\ inbound = "receive"
  /\ toServer # <<>>
  /\ Head(toServer).type \in {"error", "accept", "refuse"}
  /\ toServer' = Tail(toServer)
  /\ inbound' = "error"
  /\ UNCHANGED <<handlerVars, inAck, ackChan, toDevice, deviceVars>>

-----------------------------------------------------------------------------
(* The device, as the handler relies on it                                 *)

\* Only the subscription of a handler that has not returned receives.
ToServer(m) ==
  toServer' = IF handler = "done" THEN toServer ELSE Deliver(toServer, m)

DeviceReceives ==
  /\ toDevice # <<>>
  /\ toDevice' = Tail(toDevice)
  /\ LET m == Head(toDevice) IN
       \/ /\ m.type = "open" /\ device = "idle"
          /\ \E answer \in {"accept", "refuse", "error"} :
               /\ ToServer(Msg(answer, 0))
               /\ device' = IF answer = "error" THEN "failed" ELSE "open"
          /\ UNCHANGED stored
       \/ /\ m.type = "put" /\ device = "open"
          /\ device' = "receiving"
          /\ ToServer(Msg("ack", 0))
          /\ UNCHANGED stored
       \/ /\ m.type = "chunk" /\ device = "receiving" /\ m.offset = stored
          /\ stored' = stored + m.len
          /\ UNCHANGED <<device, toServer>>
       \/ /\ m.type = "chunk" /\ device = "receiving" /\ m.offset # stored
          /\ device' = "failed"
          /\ ToServer(Msg("error", 0))
          /\ UNCHANGED stored
       \/ /\ m.type = "close"
          /\ device' = "closed"
          /\ UNCHANGED <<stored, toServer>>
       \/ /\ \/ m.type \in {"eof", "pong"}
             \/ m.type = "put" /\ device # "open"
             \/ m.type = "chunk" /\ device # "receiving"
          /\ UNCHANGED <<device, stored, toServer>>
  /\ UNCHANGED <<handlerVars, inboundVars, acked>>

\* It acknowledges what it has stored, now and then.
DeviceAcks ==
  /\ device = "receiving"
  /\ acked < stored
  /\ acked' = stored
  /\ ToServer(Msg("ack", stored))
  /\ UNCHANGED <<handlerVars, inboundVars, toDevice, device, stored>>

DevicePings ==
  /\ device \in {"open", "receiving"}
  /\ ToServer(Msg("ping", 0))
  /\ UNCHANGED <<handlerVars, inboundVars, toDevice, deviceVars>>

DeviceFails ==
  /\ device \in {"open", "receiving"}
  /\ device' = "failed"
  /\ ToServer(Msg("error", 0))
  /\ UNCHANGED <<handlerVars, inboundVars, toDevice, stored, acked>>

-----------------------------------------------------------------------------
HandlerNext ==
  \/ Handshake \/ Accepted \/ GoAhead \/ NoAnswer
  \/ SendChunk \/ SendEnd \/ SendFails
  \/ TakeError \/ PollNothing \/ WaitAck \/ FinalAck \/ Timeout

InboundNext == InboundAck \/ InboundPing \/ InboundError

DeviceNext == DeviceReceives \/ DeviceAcks \/ DevicePings \/ DeviceFails

Next == HandlerNext \/ TimerFires \/ InboundNext \/ DeviceNext

Spec == Init /\ [][Next]_vars

\* The handler's goroutine runs whenever it can and time passes.  Nothing is
\* assumed of the device, of NATS, or of the inbound goroutine.
Fairness == WF_vars(HandlerNext) /\ WF_vars(TimerFires)

FairSpec == Spec /\ Fairness

-----------------------------------------------------------------------------
(* Properties                                                              *)

\* "The file was successfully uploaded" is only answered when the device has
\* stored all of it, whatever NATS dropped.
CreatedMeansStored ==
  response = "created" => offset = FileSize /\ stored = FileSize

\* The newest acknowledgement is never lost between the two goroutines: it is
\* the one the handler has or the one waiting for it, and offsets only grow.
LatestAckKept ==
  /\ inAck = IF ackChan # 0 THEN ackChan ELSE ack
  /\ ackChan # 0 => ackChan > ack
  /\ inAck <= acked /\ acked <= stored /\ stored <= offset

\* Although a single acknowledgement ends a wait, at most Window + 1 chunks are
\* ever sent beyond what the handler knows to be acknowledged.
ChunksInFlight == Cardinality({e \in ends : e > ack}) <= Window + 1

\* The handler answers, whatever the device, NATS and the inbound goroutine do.
Answers == <>(response # "none")

\* "Timer must be stopped and drained before calling Reset."
\* (api/http/management_filetransfer.go:334): once the transfer is under way it
\* times out only if the timeout has passed since the handler began to wait.
TimeoutIsDue ==
  response = "timeout" /\ inbound # "none" => tick = "fresh"
=============================================================================
