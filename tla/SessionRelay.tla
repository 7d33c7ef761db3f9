---------------------------- MODULE SessionRelay ----------------------------
(***************************************************************************)
(* The relay between a device and its users: the handlers of               *)
(* DevicePresence with their NATS channels and tables of sessions, the     *)
(* users' sessions as far as they deal with the device, and the one-shot   *)
(* commands of the management API.                                         *)
(*                                                                         *)
(* A session publishes to the device's subject, to which every handler of  *)
(* the device is subscribed from before its upgrade until it returns; the  *)
(* writer of a handler passes on what its channel holds.  The reader of a  *)
(* handler publishes to the sessions' subjects what the device sends.  The *)
(* device uses its newest websocket only; its client and the users' are    *)
(* external.  NATS delivers at once, or drops what finds a channel full.   *)
(***************************************************************************)
EXTENDS DevicePresence, Sequences

CONSTANTS
  Sessions,    \* sessions of users with the device
  ChanSize,    \* channelSize
  NatsFaults   \* whether publishing may fail

ASSUME RelayAssumption ==
  /\ ChanSize \in Nat \ {0}
  /\ NatsFaults \in BOOLEAN

VARIABLES
  live,      \* the websocket the device uses, NoConn for none
  sub,       \* handlers subscribed to the device's subject
  chan,      \* msgChan of each handler
  table,     \* sessMap of each handler
  toStop,    \* sessions a leaving handler still has to send a stop
  stopErr,   \* the result of its last Publish of a stop
  session,   \* each user's session
  running,   \* remoteTerminalRunning of each session
  shell,     \* the sessions that have a shell on the device
  started,   \* history: the handler whose "started" is a session's last word
  missed,    \* history: sessions whose last stop did not reach the device
  command,   \* the call of check-update or send-inventory
  checked    \* history: the newest handler when the command's check passed

userVars == <<session, running>>
commandVars == <<command, checked>>
deviceVars == <<live, shell>>
tableVars == <<table, toStop, stopErr>>
historyVars == <<started, missed>>
relayVars == <<sub, chan, tableVars, deviceVars, userVars, historyVars,
               commandVars>>
allVars == <<vars, relayVars>>

\* Shell messages, as far as handler, session and device tell them apart.
FromUser == {"spawn", "stop"}
FromDevice == {"spawn", "output", "stop"}
Command == [kind |-> "command"]
ToDevice == [kind : FromUser, session : Sessions] \union {Command}

RelayTypeOK ==
  /\ live \in Conns \union {NoConn}
  /\ sub \subseteq Conns
  /\ \A c \in Conns : chan[c] \in Seq(ToDevice) /\ Len(chan[c]) <= ChanSize
  /\ table \in [Conns -> [Sessions -> {"none", "entry", "terminal"}]]
  /\ toStop \in [Conns -> SUBSET Sessions]
  /\ stopErr \in [Conns -> {"none", "ok", "failed"}]
  /\ session \in [Sessions -> {"idle", "checked", "open", "ended"}]
  /\ running \in [Sessions -> BOOLEAN]
  /\ shell \subseteq Sessions
  /\ started \in [Sessions -> Conns \union {NoConn}]
  /\ missed \subseteq Sessions
  /\ command \in {"none", "checked", "accepted", "failed"}
  /\ checked \in Conns \union {NoConn}

EmptyTable == [s \in Sessions |-> "none"]

RelayInit ==
  /\ Init
  /\ live = NoConn
  /\ sub = {}
  /\ chan = [c \in Conns |-> <<>>]
  /\ table = [c \in Conns |-> EmptyTable]
  /\ toStop = [c \in Conns |-> {}]
  /\ stopErr = [c \in Conns |-> "none"]
  /\ session = [s \in Sessions |-> "idle"]
  /\ running = [s \in Sessions |-> FALSE]
  /\ shell = {}
  /\ started = [s \in Sessions |-> NoConn]
  /\ missed = {}
  /\ command = "none"
  /\ checked = NoConn

-----------------------------------------------------------------------------
(* NATS                                                                    *)

\* Mutation: a full channel takes one message more.
ReceiversPlusOne == {c \in sub : Len(chan[c]) <= ChanSize}

\* The handlers a message to the device's subject reaches.
Receivers == {c \in sub : Len(chan[c]) < ChanSize}

PublishToDevice(m) ==
  chan' = [c \in Conns |-> IF c \in Receivers THEN Append(chan[c], m)
                                              ELSE chan[c]]

StopOf(s) == [kind |-> "stop", session |-> s]

\* What a session hears of its terminal; one that has ended hears nothing.
Hears(s, by) ==
  started' = [started EXCEPT ![s] = IF session[s] = "open" THEN by ELSE NoConn]

\* A handler publishes to a session's subject, or NATS refuses.
PublishToSession(s, kind, c) == Hears(s, IF kind = "spawn" THEN c ELSE NoConn)
PublishToSessionFails(s) == NatsFaults /\ Hears(s, NoConn)

-----------------------------------------------------------------------------
(* The handler's connection                                                *)

\* The channel of the websocket the device uses holds a stop.
StopPending(s) ==
  live # NoConn /\ \E i \in DOMAIN chan[live] : chan[live][i] = StopOf(s)

\* The device connects anew when it has lost its websocket; the handler has
\* subscribed before it upgrades the request.
RelayConnect(c) ==
  /\ live = NoConn
  /\ Connect(c)
  /\ live' = c
  /\ sub' = sub \union {c}
  /\ UNCHANGED <<chan, tableVars, shell, userVars, historyVars, commandVars>>

\* The device's end of the websocket is gone; the handler may notice late.
LinkLost ==
  /\ live # NoConn
  /\ live' = NoConn
  /\ missed' = missed \union {s \in Sessions : StopPending(s)}
  /\ UNCHANGED <<vars, sub, chan, tableVars, shell, userVars, started,
                 commandVars>>

\* Mutation: the subscription ends before the closing write.
UnsubscribesEarly(c) == sub \ {c}

\* The subscription is left alone by the reader's end ...
SubAfterRead(c) == sub

\* Mutation: a leaving handler tells nobody.
TellsNobody(c) == {}

\* The sessions with RemoteTerminal set in the handler's table.
Terminals(c) == {s \in Sessions : table[c][s] = "terminal"}

\* The websocket fails, or a message that cannot be decoded, or a shell message
\* without a session, ends the loop.
RelayReadFails(c) ==
  /\ ReadFails(c)
  /\ toStop' = [toStop EXCEPT ![c] = Terminals(c)]
  /\ table' = [table EXCEPT ![c] = EmptyTable]
  /\ sub' = SubAfterRead(c)
  /\ UNCHANGED <<chan, stopErr, deviceVars, userVars, historyVars,
                 commandVars>>

\* The deferred function publishes a stop to the session ...
PublishStop(c, s) ==
  /\ pc[c] = "leaving"
  /\ s \in toStop[c]
  /\ toStop' = [toStop EXCEPT ![c] = @ \ {s}]
  /\ \/ /\ PublishToSession(s, "stop", c)
        /\ stopErr' = [stopErr EXCEPT ![c] = "ok"]
     \/ /\ PublishToSessionFails(s)
        /\ stopErr' = [stopErr EXCEPT ![c] = "failed"]
  /\ UNCHANGED <<vars, sub, chan, table, deviceVars, userVars, missed,
                 commandVars>>

\* ... and then makes the closing write.  The error of the last Publish
\* replaces the one the loop ended with.
RelayLeaves(c) ==
  /\ toStop[c] = {}
  /\ SetDeviceDisconnected(c) \/ SetDeviceDisconnectedFails(c)
  /\ pc'[c] = IF stopErr[c] = "ok" THEN "unregistering" ELSE "reporting"
  /\ stopErr' = [stopErr EXCEPT ![c] = "none"]
  /\ UNCHANGED <<sub, chan, table, toStop, deviceVars, userVars, historyVars,
                 commandVars>>

\* The last deferred call of the handler unsubscribes.
RelayReturn(c) ==
  /\ Return(c)
  /\ sub' = sub \ {c}
  /\ chan' = [chan EXCEPT ![c] = <<>>]
  /\ missed' = IF live = c THEN missed \union {s \in Sessions : StopPending(s)}
                           ELSE missed
  /\ UNCHANGED <<tableVars, deviceVars, userVars, started, commandVars>>

RelayHandlerNext(c) ==
  /\ \/ ConnectFails(c)
     \/ Register(c)
     \/ SetDeviceConnected(c)
     \/ SetDeviceConnectedUnanswered(c)
     \/ SetDeviceConnectedFails(c)
     \/ ReportError(c)
     \/ ReportTimeout(c)
     \/ WriterEnds(c)
     \/ WriterFails(c)
  /\ UNCHANGED relayVars

-----------------------------------------------------------------------------
(* From the device to the sessions                                         *)

\* The entry is built anew for every message: only a spawn leaves it with
\* RemoteTerminal set, and a stop deletes it.
Entry(c, s, kind) == CASE kind = "spawn" -> "terminal"
                       [] kind = "stop" -> "none"
                       [] OTHER -> "entry"

\* A message of the device about a session with a shell: that the shell has
\* started, its output, its end.  The reader updates its table and publishes the
\* message, or fails to and leaves.
Forward(c, s, kind) ==
  /\ pc[c] = "serving"
  /\ live = c
  /\ s \in shell
  /\ shell' = IF kind = "stop" THEN shell \ {s} ELSE shell
  /\ LET entries == [table[c] EXCEPT ![s] = Entry(c, s, kind)]
     IN \/ /\ PublishToSession(s, kind, c)
           /\ table' = [table EXCEPT ![c] = entries]
           /\ UNCHANGED <<vars, toStop>>
        \/ /\ PublishToSessionFails(s)
           /\ ReadFails(c)
           /\ table' = [table EXCEPT ![c] = EmptyTable]
           /\ toStop' = [toStop EXCEPT ![c] =
                           {t \in Sessions : entries[t] = "terminal"}]
  /\ UNCHANGED <<sub, chan, stopErr, live, userVars, missed, commandVars>>

-----------------------------------------------------------------------------
(* From the sessions to the device                                         *)

\* PrepareUserSession reads the device's status ...
CheckDevice(s) ==
  /\ session[s] = "idle"
  /\ session' = [session EXCEPT ![s] = IF device.status = "connected"
                                         THEN "checked" ELSE "ended"]
  /\ UNCHANGED <<vars, sub, chan, tableVars, deviceVars, running,
                 historyVars, commandVars>>

\* ... and stores the session whatever has become of the device since.  The
\* session's subject is subscribed.
OpenSession(s) ==
  /\ session[s] = "checked"
  /\ session' = [session EXCEPT ![s] = "open"]
  /\ UNCHANGED <<vars, sub, chan, tableVars, deviceVars, running,
                 historyVars, commandVars>>

\* A stop that no channel of the device's websocket takes is missed.
StopMissed(s) == IF live \in Receivers THEN missed \ {s} ELSE missed \union {s}

\* Mutation: a session forgets its shell once it has sent anything else.
ForgetsShell(s, kind) == kind = "spawn" /\ ~running[s]

\* remoteTerminalRunning, set and reset by the user's messages.
RunningAfter(s, kind) == kind = "spawn"

UserSends(s, kind) ==
  /\ session[s] = "open"
  /\ PublishToDevice([kind |-> kind, session |-> s])
  /\ running' = [running EXCEPT ![s] = RunningAfter(s, kind)]
  /\ missed' = IF kind = "stop" THEN StopMissed(s) ELSE missed
  /\ UNCHANGED <<vars, sub, tableVars, deviceVars, session, started,
                 commandVars>>

\* remoteTerminalRunning when the session ends, maybe because NATS refused its
\* last message: it is set and reset before the message is published.
LeftRunning(s, refused) ==
  IF refused = "none" THEN running[s] ELSE RunningAfter(s, refused)

\* The session ends and stops the shell it left running, or NATS refuses.
SessionEnds(s, refused) ==
  /\ session[s] = "open"
  /\ NatsFaults \/ refused = "none"
  /\ session' = [session EXCEPT ![s] = "ended"]
  /\ running' = [running EXCEPT ![s] = FALSE]
  /\ Hears(s, NoConn)
  /\ IF LeftRunning(s, refused)
       THEN \/ /\ PublishToDevice(StopOf(s))
               /\ missed' = StopMissed(s)
            \/ /\ NatsFaults
               /\ missed' = missed \union {s}
               /\ UNCHANGED chan
       ELSE /\ missed' = IF refused = "stop" THEN missed \union {s} ELSE missed
            /\ UNCHANGED chan
  /\ UNCHANGED <<vars, sub, tableVars, deviceVars, commandVars>>

\* The writer passes on a message; what goes to a websocket the device has left
\* is lost.
Deliver(c) ==
  /\ writer[c] = "running"
  /\ chan[c] # <<>>
  /\ chan' = [chan EXCEPT ![c] = Tail(@)]
  /\ LET m == Head(chan[c])
     IN shell' = CASE live = c /\ m.kind = "spawn" -> shell \union {m.session}
                   [] live = c /\ m.kind = "stop" -> shell \ {m.session}
                   [] OTHER -> shell
  /\ UNCHANGED <<vars, sub, tableVars, live, userVars, historyVars, commandVars>>

-----------------------------------------------------------------------------
(* check-update and send-inventory: sendMenderCommand                      *)

\* GetDevice and the test of its status: 404 or 409 for a device not connected.
CommandChecks ==
  /\ command = "none"
  /\ device.status = "connected"
  /\ command' = "checked"
  /\ checked' \in {c \in Conns : Newest(c)}
  /\ UNCHANGED <<vars, sub, chan, tableVars, deviceVars, userVars, historyVars>>

\* The message is published and 202 answered ...
CommandAccepted ==
  /\ command = "checked"
  /\ PublishToDevice(Command)
  /\ command' = "accepted"
  /\ checked' = NoConn
  /\ UNCHANGED <<vars, sub, tableVars, deviceVars, userVars, historyVars>>

\* ... or 500 is answered, and the handler goes on to write 202 too late.
CommandFails ==
  /\ command = "checked"
  /\ NatsFaults
  /\ command' = "failed"
  /\ checked' = NoConn
  /\ UNCHANGED <<vars, sub, chan, tableVars, deviceVars, userVars, historyVars>>

-----------------------------------------------------------------------------
RelayNext ==
  \/ LinkLost
  \/ \E c \in Conns :
       \/ RelayConnect(c)
       \/ RelayHandlerNext(c)
       \/ RelayReadFails(c)
       \/ \E s \in Sessions : PublishStop(c, s)
       \/ RelayLeaves(c)
       \/ RelayReturn(c)
       \/ \E s \in Sessions, kind \in FromDevice : Forward(c, s, kind)
       \/ Deliver(c)
  \/ \E s \in Sessions :
       \/ CheckDevice(s)
       \/ OpenSession(s)
       \/ \E kind \in FromUser : UserSends(s, kind)
       \/ \E refused \in FromUser \union {"none"} : SessionEnds(s, refused)
  \/ CommandChecks
  \/ CommandAccepted
  \/ CommandFails

RelaySpec == RelayInit /\ [][RelayNext]_allVars

-----------------------------------------------------------------------------
(* Properties                                                              *)

\* End to end, a session that ended leaves no shell on the device: the stop is
\* on its way in the channel of the websocket the device uses, or was missed
\* because there was none, its channel was full or the link broke.
EndedShellIsStopped ==
  \A s \in Sessions :
    session[s] = "ended" /\ s \in shell =>
      s \in missed \/ StopPending(s)

\* When a handler has left, no open session is left with "the terminal has
\* started" as the last word from that handler, unless NATS refused the stop.
\* (After any further message of the device it is: the table forgets.)
StartedIsTold ==
  \A c \in Conns, s \in Sessions :
    /\ pc[c] \in {"reporting", "unregistering", "done"}
    /\ session[s] = "open"
    => started[s] # c

\* A command that was accepted has reached a handler of the device, unless the
\* handler the check relied on has gone since, or its channel was full: a device
\* shown as connected has a subscription that is as old as its status.
AcceptedIsDelivered ==
  [][command = "checked" /\ command' = "accepted" /\ Receivers = {} =>
       \/ ~Serving(checked)
       \/ Len(chan[checked]) = ChanSize]_allVars
=============================================================================
