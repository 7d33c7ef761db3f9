------------------------- MODULE SessionRelayProofs -------------------------
(***************************************************************************)
(* The relay between a device and its users, for any number of handlers,   *)
(* instances and sessions and any size of the channels: it is              *)
(* DevicePresence still, so that what was proved of the handlers holds; no *)
(* shell is forgotten and no session is left believing in one.             *)
(***************************************************************************)
EXTENDS SessionRelay, DevicePresenceProofs

\* The relay's types with those of the handlers, and the channels as a whole.
RelayTypes ==
  /\ TypeOK
  /\ RelayTypeOK
  /\ chan \in [Conns -> Seq(ToDevice)]
  /\ command = "checked" => checked \in Conns

\* A handler is subscribed from before its upgrade until it returns.
Subscribed ==
  \A c \in Conns :
    /\ pc[c] = "registering" \/ Registered(c) => c \in sub
    /\ pc[c] = "idle" => c \notin sub /\ chan[c] = <<>>

\* Who told a session that its terminal has started knows that session, or
\* still has to tell it the end.
StartedHeld ==
  \A c \in Conns, s \in Sessions :
    started[s] = c =>
      \/ pc[c] = "serving" /\ table[c][s] = "terminal"
      \/ pc[c] = "leaving" /\ s \in toStop[c]

\* What the websocket the device uses still has to pass on.
Ahead == IF live = NoConn THEN <<>> ELSE chan[live]

IsSpawn(m, s) == m.kind = "spawn" /\ m.session = s

\* A channel holds a stop of a session, after each of its spawns if any.
Stops(queue, s) == \E i \in 1 .. Len(queue) : queue[i] = StopOf(s)

Followed(queue, s) ==
  \A i \in 1 .. Len(queue) : IsSpawn(queue[i], s) =>
    \E j \in i + 1 .. Len(queue) : queue[j] = StopOf(s)

\* A session that runs no terminal has stopped the last one: what is in the
\* channel leaves no shell behind.
ShellStopped(s) ==
  \/ s \in missed
  \/ /\ Followed(Ahead, s)
     /\ s \in shell => Stops(Ahead, s)

Stopped ==
  \A s \in Sessions :
    /\ session[s] # "open" => running[s] = FALSE
    /\ running[s] = FALSE => ShellStopped(s)

-----------------------------------------------------------------------------
\* The handlers, with their tables and channels, behave as DevicePresence says.
THEOREM RelayIsPresence == RelaySpec => Spec
  <1>1. RelayInit => Init
    BY DEF RelayInit
  <1>2. [RelayNext]_allVars => [Next]_vars
    <2>1. ASSUME NEW c \in Conns,
                 \/ RelayConnect(c) \/ RelayReadFails(c) \/ RelayLeaves(c)
                 \/ RelayReturn(c) \/ RelayHandlerNext(c)
          PROVE  Next
      BY <2>1 DEF RelayConnect, RelayReadFails, RelayLeaves, RelayReturn,
                  RelayHandlerNext, Next, HandlerNext
    <2>2. ASSUME NEW c \in Conns, NEW s \in Sessions,
                 \/ PublishStop(c, s)
                 \/ \E kind \in FromDevice : Forward(c, s, kind)
          PROVE  [Next]_vars
      BY <2>2 DEF PublishStop, Forward, Next
    <2>3. ASSUME LinkLost \/ \E c \in Conns : Deliver(c)
          PROVE  UNCHANGED vars
      BY <2>3 DEF LinkLost, Deliver
    <2>4. ASSUME NEW s \in Sessions,
                 \/ CheckDevice(s) \/ OpenSession(s)
                 \/ \E kind \in FromUser : UserSends(s, kind)
                 \/ \E refused \in FromUser \union {"none"} :
                      SessionEnds(s, refused)
          PROVE  UNCHANGED vars
      BY <2>4 DEF CheckDevice, OpenSession, UserSends, SessionEnds
    <2>5. CASE CommandChecks \/ CommandAccepted \/ CommandFails
      BY <2>5 DEF CommandChecks, CommandAccepted, CommandFails
    <2>6. CASE UNCHANGED allVars
      BY <2>6 DEF allVars
    <2>7. QED
      BY <2>1, <2>2, <2>3, <2>4, <2>5, <2>6 DEF RelayNext
  <1>3. QED
    BY <1>1, <1>2, PTL DEF RelaySpec, Spec

-----------------------------------------------------------------------------
\* What is published to the device's subject keeps to the channels.
LEMMA PublishTypes ==
  ASSUME RelayTypes, NEW m \in ToDevice, PublishToDevice(m)
  PROVE  /\ chan' \in [Conns -> Seq(ToDevice)]
         /\ \A c \in Conns : Len(chan'[c]) <= ChanSize
  <1>1. chan \in [Conns -> Seq(ToDevice)] /\ ChanSize \in Nat
    BY RelayAssumption DEF RelayTypes
  <1>2. ASSUME NEW c \in Conns
        PROVE  /\ chan'[c] \in Seq(ToDevice)
               /\ Len(chan'[c]) <= ChanSize
    <2>1. Len(chan[c]) <= ChanSize /\ chan[c] \in Seq(ToDevice)
      BY <1>1 DEF RelayTypes, RelayTypeOK
    <2>2. CASE c \in Receivers
      <3>1. chan'[c] = Append(chan[c], m) /\ Len(chan[c]) < ChanSize
        BY <2>2 DEF PublishToDevice, Receivers
      <3>2. QED
        BY <1>1, <2>1, <3>1
    <2>3. CASE c \notin Receivers
      BY <2>1, <2>3 DEF PublishToDevice
    <2>4. QED
      BY <2>2, <2>3
  <1>3. chan' = [c \in Conns |-> chan'[c]]
    BY DEF PublishToDevice
  <1>4. QED
    BY <1>2, <1>3

\* What can be published.
LEMMA Messages ==
  /\ Command \in ToDevice
  /\ \A s \in Sessions, kind \in FromUser :
       [kind |-> kind, session |-> s] \in ToDevice
  /\ \A s \in Sessions : StopOf(s) \in ToDevice
  BY DEF ToDevice, StopOf, FromUser

\* What the reader does to its table and, leaving, to its list of stops.
LEMMA ForwardTables ==
  ASSUME RelayTypes, NEW c \in Conns, NEW s \in Sessions,
         NEW kind \in FromDevice, Forward(c, s, kind)
  PROVE  /\ \E entries \in [Sessions -> {"none", "entry", "terminal"}] :
              table' = [table EXCEPT ![c] = entries]
         /\ \E stops \in SUBSET Sessions :
              toStop' = [toStop EXCEPT ![c] = stops]
  <1> DEFINE Entries == [Sessions -> {"none", "entry", "terminal"}]
             entries == [table[c] EXCEPT ![s] = Entry(c, s, kind)]
  <1>1. /\ toStop \in [Conns -> SUBSET Sessions] /\ table[c] \in Entries
    BY DEF RelayTypes, RelayTypeOK
  <1>2. Entry(c, s, kind) \in {"none", "entry", "terminal"}
    BY DEF Entry
  <1>3. entries \in Entries /\ EmptyTable \in Entries
    BY <1>1, <1>2 DEF EmptyTable
  <1>4. \/ /\ table' = [table EXCEPT ![c] = entries]
           /\ toStop' = toStop
        \/ /\ table' = [table EXCEPT ![c] = EmptyTable]
           /\ toStop' = [toStop EXCEPT ![c] =
                           {t \in Sessions : entries[t] = "terminal"}]
    BY DEF Forward
  <1>5. toStop = [toStop EXCEPT ![c] = toStop[c]] /\ toStop[c] \subseteq Sessions
    BY <1>1
  <1>6. {t \in Sessions : entries[t] = "terminal"} \subseteq Sessions
    OBVIOUS
  <1> HIDE DEF entries, Entries
  <1>7. QED
    BY <1>3, <1>4, <1>5, <1>6 DEF Entries

\* Whatever the sessions of users do: a device shown as connected is served by
\* its newest handler, or that one's closing write was lost.
COROLLARY RelayShownIsServed ==
  RelaySpec => [](ShownIsServed /\ NewestIsShown /\ VersionsDistinct)
  BY RelayIsPresence, ShownIsServedHolds, NewestIsShownHolds,
     VersionsDistinctHolds, PTL

\* Every variable of the relay keeps its type, and no channel outgrows its
\* size.
THEOREM RelayTypesInductive == RelaySpec => []RelayTypes
  <1> USE ConnsAssumption, RelayAssumption
  <1>1. ASSUME RelayInit, TypeOK PROVE RelayTypes
    <2>1. <<>> \in Seq(ToDevice) /\ Len(<<>>) <= ChanSize
      OBVIOUS
    <2>2. QED
      BY <1>1, <2>1 DEF RelayInit, RelayTypes, RelayTypeOK, EmptyTable
  <1> DEFINE Types == RelayTypes /\ TypeOK'
             Rest == /\ RelayTypeOK'
                     /\ chan' \in [Conns -> Seq(ToDevice)]
                     /\ command' = "checked" => checked' \in Conns
  <1>2. ASSUME Types, NEW c \in Conns, RelayConnect(c) \/ RelayHandlerNext(c)
        PROVE  Rest
    BY <1>2 DEF RelayConnect, RelayHandlerNext, relayVars, tableVars,
         deviceVars, userVars, historyVars, commandVars, RelayTypes,
         RelayTypeOK
  <1>3. ASSUME Types, LinkLost PROVE Rest
    BY <1>3 DEF LinkLost, tableVars, userVars, commandVars, RelayTypes,
         RelayTypeOK
  <1>4. ASSUME Types, NEW c \in Conns, RelayReadFails(c) PROVE Rest
    BY <1>4 DEF RelayReadFails, Terminals, EmptyTable, SubAfterRead,
         deviceVars, userVars, historyVars, commandVars, RelayTypes,
         RelayTypeOK
  <1>5. ASSUME Types, NEW c \in Conns, NEW s \in Sessions, PublishStop(c, s)
        PROVE  Rest
    BY <1>5 DEF PublishStop, PublishToSession, PublishToSessionFails, Hears,
         deviceVars, userVars, commandVars, RelayTypes, RelayTypeOK
  <1>6. ASSUME Types, NEW c \in Conns, RelayLeaves(c) PROVE Rest
    BY <1>6 DEF RelayLeaves, deviceVars, userVars, historyVars, commandVars,
         RelayTypes, RelayTypeOK
  <1>7. ASSUME Types, NEW c \in Conns, RelayReturn(c) PROVE Rest
    <2>1. <<>> \in Seq(ToDevice) /\ Len(<<>>) <= ChanSize
      OBVIOUS
    <2>2. QED
      BY <1>7, <2>1 DEF RelayReturn, tableVars, deviceVars, userVars,
           commandVars, RelayTypes, RelayTypeOK
  <1>8. ASSUME Types, NEW c \in Conns, NEW s \in Sessions,
               NEW kind \in FromDevice, Forward(c, s, kind)
        PROVE  Rest
    <2>1. table' \in [Conns -> [Sessions -> {"none", "entry", "terminal"}]]
      <3>1. PICK entries \in [Sessions -> {"none", "entry", "terminal"}] :
              table' = [table EXCEPT ![c] = entries]
        BY <1>8, ForwardTables
      <3>2. QED
        BY <1>8, <3>1 DEF RelayTypes, RelayTypeOK
    <2>2. toStop' \in [Conns -> SUBSET Sessions]
      <3>1. PICK stops \in SUBSET Sessions :
              toStop' = [toStop EXCEPT ![c] = stops]
        BY <1>8, ForwardTables
      <3>2. QED
        BY <1>8, <3>1 DEF RelayTypes, RelayTypeOK
    <2>3. started' \in [Sessions -> Conns \union {NoConn}]
      BY <1>8 DEF Forward, PublishToSession, PublishToSessionFails, Hears,
           RelayTypes, RelayTypeOK
    <2>4. shell' \subseteq Sessions
      BY <1>8 DEF Forward, RelayTypes, RelayTypeOK
    <2>5. /\ UNCHANGED <<sub, chan, stopErr, live, session, running, missed>>
          /\ UNCHANGED <<command, checked>>
      BY <1>8 DEF Forward, userVars, commandVars
    <2>6. QED
      BY <1>8, <2>1, <2>2, <2>3, <2>4, <2>5 DEF RelayTypes, RelayTypeOK
  <1>9. ASSUME Types, NEW c \in Conns, Deliver(c) PROVE Rest
    <2>1. /\ chan[c] \in Seq(ToDevice) /\ chan[c] # <<>>
          /\ Len(chan[c]) <= ChanSize
      BY <1>9 DEF Deliver, RelayTypes, RelayTypeOK
    <2>2. /\ Head(chan[c]) \in ToDevice /\ Tail(chan[c]) \in Seq(ToDevice)
          /\ Len(Tail(chan[c])) <= ChanSize
      BY <2>1
    <2>3. chan' = [chan EXCEPT ![c] = Tail(chan[c])]
      BY <1>9 DEF Deliver, RelayTypes
    <2>4. shell' \subseteq Sessions
      <3>1. Head(chan[c]).kind \in FromUser => Head(chan[c]).session \in Sessions
        BY <2>2 DEF ToDevice, FromUser, Command
      <3>2. \/ /\ Head(chan[c]).kind \in FromUser
               /\ shell' = shell \union {Head(chan[c]).session}
            \/ shell' \subseteq shell
        BY <1>9 DEF Deliver, FromUser
      <3>3. QED
        BY <1>9, <3>1, <3>2 DEF RelayTypes, RelayTypeOK
    <2>5. /\ UNCHANGED <<sub, table, toStop, stopErr, live, session, running>>
          /\ UNCHANGED <<started, missed, command, checked>>
      BY <1>9 DEF Deliver, tableVars, userVars, historyVars, commandVars
    <2>6. QED
      BY <1>9, <2>2, <2>3, <2>4, <2>5 DEF RelayTypes, RelayTypeOK
  <1>10. ASSUME Types, NEW s \in Sessions, CheckDevice(s) \/ OpenSession(s)
         PROVE  Rest
    BY <1>10 DEF CheckDevice, OpenSession, tableVars, deviceVars,
         historyVars, commandVars, RelayTypes, RelayTypeOK
  <1>11. ASSUME Types, NEW s \in Sessions, NEW kind \in FromUser,
                UserSends(s, kind)
         PROVE  Rest
    <2>1. /\ chan' \in [Conns -> Seq(ToDevice)]
          /\ \A c \in Conns : Len(chan'[c]) <= ChanSize
      BY <1>11, Messages, PublishTypes DEF UserSends
    <2>2. QED
      BY <1>11, <2>1 DEF UserSends, StopMissed, RunningAfter, tableVars,
           deviceVars, commandVars, RelayTypes, RelayTypeOK
  <1>12. ASSUME Types, NEW s \in Sessions,
                NEW refused \in FromUser \union {"none"},
                SessionEnds(s, refused)
         PROVE  Rest
    <2>1. /\ chan' \in [Conns -> Seq(ToDevice)]
          /\ \A c \in Conns : Len(chan'[c]) <= ChanSize
      <3>1. PublishToDevice(StopOf(s)) \/ UNCHANGED chan
        BY <1>12 DEF SessionEnds
      <3>2. QED
        BY <1>12, <3>1, Messages, PublishTypes DEF RelayTypes, RelayTypeOK
    <2>2. missed' \subseteq Sessions
      BY <1>12 DEF SessionEnds, StopMissed, RelayTypes, RelayTypeOK
    <2>3. QED
      BY <1>12, <2>1, <2>2 DEF SessionEnds, Hears, tableVars, deviceVars,
           commandVars, RelayTypes, RelayTypeOK
  <1>13. ASSUME Types, CommandChecks \/ CommandFails PROVE Rest
    BY <1>13 DEF CommandChecks, CommandFails, tableVars, deviceVars, userVars,
         historyVars, RelayTypes, RelayTypeOK
  <1>14. ASSUME Types, CommandAccepted PROVE Rest
    <2>1. /\ chan' \in [Conns -> Seq(ToDevice)]
          /\ \A c \in Conns : Len(chan'[c]) <= ChanSize
      BY <1>14, Messages, PublishTypes DEF CommandAccepted
    <2>2. QED
      BY <1>14, <2>1 DEF CommandAccepted, tableVars, deviceVars, userVars,
           historyVars, RelayTypes, RelayTypeOK
  <1>15. ASSUME Types, UNCHANGED allVars PROVE Rest
    BY <1>15 DEF allVars, relayVars, tableVars, deviceVars, userVars,
         historyVars, commandVars, RelayTypes, RelayTypeOK
  <1>16. RelayTypes /\ TypeOK' /\ [RelayNext]_allVars => RelayTypes'
    <2>1. ASSUME RelayTypes, TypeOK', [RelayNext]_allVars PROVE Rest
      BY <2>1, <1>2, <1>3, <1>4, <1>5, <1>6, <1>7, <1>8, <1>9, <1>10, <1>11,
         <1>12, <1>13, <1>14, <1>15 DEF RelayNext
    <2>2. QED
      BY <2>1 DEF RelayTypes
  <1>17. QED
    BY <1>1, <1>16, RelayIsPresence, TypeCorrect, PTL DEF RelaySpec

\* Every variable of the relay keeps its type, and no channel outgrows its
\* size.
THEOREM RelayTypeCorrect == RelaySpec => []RelayTypeOK
  BY RelayTypesInductive, PTL DEF RelayTypes

-----------------------------------------------------------------------------
\* A message is only put in the channels of handlers that are subscribed.
LEMMA PublishReaches ==
  ASSUME RelayTypes, NEW m, PublishToDevice(m), NEW c \in Conns, c \notin sub
  PROVE  chan'[c] = chan[c]
  BY DEF PublishToDevice, Receivers

\* The handlers' steps that leave the relay alone keep to the subscription.
LEMMA HandlerSubscribed ==
  ASSUME RelayTypes, Subscribed, NEW c \in Conns, RelayHandlerNext(c)
  PROVE  Subscribed'
  BY DEF RelayHandlerNext, relayVars, RelayTypes, TypeOK, Handler, Subscribed,
         Registered, ConnectFails, Register, SetDeviceConnected,
         SetDeviceConnectedUnanswered, SetDeviceConnectedFails, ReportError,
         ReportTimeout, WriterEnds, WriterFails

\* A handler is subscribed as long as it has registered or is about to.
THEOREM SubscribedInductive == RelaySpec => []Subscribed
  <1>1. ASSUME RelayInit PROVE Subscribed
    BY <1>1 DEF RelayInit, Init, Subscribed, Registered
  <1> DEFINE Before == RelayTypes /\ Subscribed
  <1>2. ASSUME Before, NEW c \in Conns, RelayConnect(c) PROVE Subscribed'
    BY <1>2 DEF RelayConnect, Connect, Subscribed, Registered, RelayTypes,
                TypeOK
  <1>3. ASSUME Before, NEW c \in Conns, RelayHandlerNext(c)
        PROVE  Subscribed'
    BY <1>3, HandlerSubscribed
  <1>4. ASSUME Before, NEW c \in Conns, RelayReadFails(c) PROVE Subscribed'
    BY <1>4 DEF RelayReadFails, SubAfterRead, ReadFails, Subscribed,
                Registered, RelayTypes, TypeOK
  <1>5. ASSUME Before, NEW c \in Conns, RelayLeaves(c) PROVE Subscribed'
    BY <1>5 DEF RelayLeaves, SetDeviceDisconnected, SetDeviceDisconnectedFails,
                AfterLeaving, Subscribed, Registered, RelayTypes, TypeOK
  <1>6. ASSUME Before, NEW c \in Conns, RelayReturn(c) PROVE Subscribed'
    BY <1>6 DEF RelayReturn, Return, Subscribed, Registered, RelayTypes,
                TypeOK
  <1>7. ASSUME Before, NEW c \in Conns, NEW s \in Sessions,
               NEW kind \in FromDevice, Forward(c, s, kind)
        PROVE  Subscribed'
    BY <1>7 DEF Forward, ReadFails, vars, Subscribed, Registered, RelayTypes,
                TypeOK
  <1>8. ASSUME Before, NEW c \in Conns, Deliver(c) PROVE Subscribed'
    <2>1. UNCHANGED <<pc, sub>> /\ chan[c] # <<>>
      BY <1>8 DEF Deliver, vars
    <2>2. \A d \in Conns : d # c => chan'[d] = chan[d]
      BY <1>8 DEF Deliver, RelayTypes
    <2>3. QED
      BY <1>8, <2>1, <2>2 DEF Subscribed, Registered
  <1>9. ASSUME Before, NEW m, PublishToDevice(m) \/ UNCHANGED chan,
               UNCHANGED <<pc, sub>>
        PROVE  Subscribed'
    BY <1>9, PublishReaches DEF Subscribed, Registered
  <1>10. ASSUME Before, LinkLost \/ CommandChecks \/ CommandAccepted
                        \/ CommandFails \/ UNCHANGED allVars
         PROVE  Subscribed'
    BY <1>9, <1>10 DEF LinkLost, CommandChecks, CommandAccepted, CommandFails,
                       allVars, relayVars, vars
  <1>11. ASSUME Before, NEW s \in Sessions,
                \/ CheckDevice(s) \/ OpenSession(s)
                \/ \E kind \in FromUser : UserSends(s, kind)
                \/ \E refused \in FromUser \union {"none"} :
                     SessionEnds(s, refused)
                \/ \E c \in Conns : PublishStop(c, s)
         PROVE  Subscribed'
    BY <1>9, <1>11 DEF CheckDevice, OpenSession, UserSends, SessionEnds,
                       PublishStop, vars
  <1> HIDE DEF Subscribed
  <1>12. RelayTypes /\ Subscribed /\ [RelayNext]_allVars => Subscribed'
    BY <1>2, <1>3, <1>4, <1>5, <1>6, <1>7, <1>8, <1>10, <1>11 DEF RelayNext
  <1>13. QED
    BY <1>1, <1>12, RelayTypesInductive, PTL DEF RelaySpec

\* An accepted command is in the channel of a handler of the device, unless the
\* handler shown by the status has left since or its channel was full.
THEOREM AcceptedIsDeliveredHolds == RelaySpec => AcceptedIsDelivered
  <1> DEFINE Accepted == command = "checked" /\ command' = "accepted"
             Excused == \/ ~Serving(checked)
                        \/ Len(chan[checked]) = ChanSize
  <1>1. ASSUME RelayTypes, Subscribed, Accepted, Receivers = {}
        PROVE  Excused
    <2>1. CASE checked \in Conns
      <3>1. Serving(checked) => checked \in sub
        BY <1>1, <2>1 DEF Subscribed, Registered, Serving
      <3>2. /\ Len(chan[checked]) \in Nat /\ ChanSize \in Nat
            /\ Len(chan[checked]) <= ChanSize
        BY <1>1, <2>1, RelayAssumption DEF RelayTypes, RelayTypeOK
      <3>3. checked \in sub => ~(Len(chan[checked]) < ChanSize)
        BY <1>1 DEF Receivers
      <3>4. QED
        BY <3>1, <3>2, <3>3
    <2>2. QED
      BY <1>1, <2>1 DEF RelayTypes
  <1>2. RelayTypes /\ Subscribed /\ [RelayNext]_allVars =>
          [Accepted /\ Receivers = {} => Excused]_allVars
    BY <1>1
  <1>3. QED
    BY <1>2, RelayTypesInductive, SubscribedInductive, PTL
       DEF RelaySpec, AcceptedIsDelivered

-----------------------------------------------------------------------------
\* A session that hears of another handler, or of the end of its terminal, no
\* longer believes the one it had heard of.
LEMMA HearsOnly ==
  ASSUME RelayTypes, NEW s \in Sessions, NEW by, Hears(s, by),
         NEW c \in Conns, NEW t \in Sessions, started'[t] = c
  PROVE  \/ t = s /\ c = by
         \/ t # s /\ started[t] = c
  BY ConnsAssumption DEF Hears, RelayTypes, RelayTypeOK

\* A session believes in a terminal as long as its handler knows of it.
THEOREM StartedInductive == RelaySpec => []StartedHeld
  <1>1. ASSUME RelayInit PROVE StartedHeld
    BY <1>1, ConnsAssumption DEF RelayInit, StartedHeld
  <1> DEFINE Before == RelayTypes /\ StartedHeld
  <1> USE DEF RelayTypes, TypeOK, RelayTypeOK
  <1>2. ASSUME Before, NEW c \in Conns, RelayConnect(c) PROVE StartedHeld'
    BY <1>2 DEF RelayConnect, Connect, tableVars, historyVars, StartedHeld
  <1>3. ASSUME Before, NEW c \in Conns, RelayHandlerNext(c)
        PROVE  StartedHeld'
    <2>1. UNCHANGED <<table, toStop, started>>
      BY <1>3 DEF RelayHandlerNext, relayVars, tableVars, historyVars
    <2>2. \A d \in Conns : pc[d] \in {"serving", "leaving"} => pc'[d] = pc[d]
      BY <1>3 DEF RelayHandlerNext, ConnectFails, Register,
           SetDeviceConnected, SetDeviceConnectedUnanswered,
           SetDeviceConnectedFails, ReportError, ReportTimeout, WriterEnds,
           WriterFails
    <2>3. QED
      BY <1>3, <2>1, <2>2 DEF StartedHeld
  <1>4. ASSUME Before, NEW c \in Conns, RelayReadFails(c) PROVE StartedHeld'
    BY <1>4 DEF RelayReadFails, ReadFails, Terminals, historyVars, StartedHeld
  <1>5. ASSUME Before, NEW c \in Conns, NEW s \in Sessions, PublishStop(c, s)
        PROVE  StartedHeld'
    <2>1. Hears(s, NoConn)
      BY <1>5 DEF PublishStop, PublishToSession, PublishToSessionFails
    <2>2. /\ UNCHANGED <<pc, table>>
          /\ toStop' = [toStop EXCEPT ![c] = @ \ {s}]
      BY <1>5 DEF PublishStop, vars
    <2>3. ASSUME NEW d \in Conns, NEW t \in Sessions, started'[t] = d
          PROVE  \/ pc'[d] = "serving" /\ table'[d][t] = "terminal"
                 \/ pc'[d] = "leaving" /\ t \in toStop'[d]
      <3>1. t # s /\ started[t] = d
        BY <1>5, <2>1, <2>3, HearsOnly, ConnsAssumption
      <3>2. t \in toStop[d] => t \in toStop'[d]
        BY <1>5, <2>2, <3>1
      <3>3. QED
        BY <1>5, <2>2, <3>1, <3>2 DEF StartedHeld
    <2>4. QED
      BY <2>3 DEF StartedHeld
  <1>6. ASSUME Before, NEW c \in Conns, RelayLeaves(c) PROVE StartedHeld'
    <2>1. UNCHANGED <<table, toStop, started>> /\ toStop[c] = {}
      BY <1>6 DEF RelayLeaves, historyVars
    <2>2. \A d \in Conns : d # c => pc'[d] = pc[d]
      BY <1>6 DEF RelayLeaves, SetDeviceDisconnected,
                  SetDeviceDisconnectedFails, AfterLeaving
    <2>3. pc[c] = "leaving"
      BY <1>6 DEF RelayLeaves, SetDeviceDisconnected,
                  SetDeviceDisconnectedFails
    <2>4. QED
      BY <1>6, <2>1, <2>2, <2>3, SMTT(20) DEF StartedHeld
  <1>7. ASSUME Before, NEW c \in Conns, RelayReturn(c) PROVE StartedHeld'
    BY <1>7 DEF RelayReturn, Return, tableVars, StartedHeld
  <1>8. ASSUME Before, NEW c \in Conns, NEW s \in Sessions,
               NEW kind \in FromDevice, Forward(c, s, kind)
        PROVE  StartedHeld'
    <2> DEFINE entries == [table[c] EXCEPT ![s] = Entry(c, s, kind)]
    <2>1. /\ pc[c] = "serving"
          /\ entries[s] = "terminal" <=> kind = "spawn"
          /\ \A t \in Sessions : t # s => entries[t] = table[c][t]
      BY <1>8 DEF Forward, Entry
    <2>2. CASE /\ PublishToSession(s, kind, c)
               /\ table' = [table EXCEPT ![c] = entries]
               /\ UNCHANGED <<vars, toStop>>
      <3>1. UNCHANGED <<pc, toStop>>
        BY <2>2 DEF vars
      <3> HIDE DEF entries
      <3>2. QED
        BY <1>8, <2>1, <2>2, <3>1, HearsOnly, ConnsAssumption
           DEF StartedHeld, PublishToSession
    <2>3. CASE /\ PublishToSessionFails(s) /\ ReadFails(c)
               /\ table' = [table EXCEPT ![c] = EmptyTable]
               /\ toStop' = [toStop EXCEPT ![c] =
                               {t \in Sessions : entries[t] = "terminal"}]
      <3>1. pc' = [pc EXCEPT ![c] = "leaving"]
        BY <2>3 DEF ReadFails
      <3> HIDE DEF entries
      <3>2. QED
        BY <1>8, <2>1, <2>3, <3>1, HearsOnly, ConnsAssumption
           DEF StartedHeld, PublishToSessionFails
    <2>4. QED
      BY <1>8, <2>2, <2>3 DEF Forward
  <1>9. ASSUME Before, NEW s \in Sessions,
               NEW refused \in FromUser \union {"none"},
               SessionEnds(s, refused)
        PROVE  StartedHeld'
    <2>1. UNCHANGED <<pc, table, toStop>> /\ Hears(s, NoConn)
      BY <1>9 DEF SessionEnds, vars, tableVars
    <2>2. QED
      BY <1>9, <2>1, HearsOnly, ConnsAssumption DEF StartedHeld
  <1>10. ASSUME Before, UNCHANGED <<pc, table, toStop, started>>
         PROVE  StartedHeld'
    BY <1>10 DEF StartedHeld
  <1>11. ASSUME Before,
                \/ LinkLost \/ CommandChecks \/ CommandAccepted
                \/ CommandFails \/ UNCHANGED allVars
                \/ \E c \in Conns : Deliver(c)
         PROVE  StartedHeld'
    <2>1. UNCHANGED <<pc, table, toStop, started>>
      BY <1>11 DEF LinkLost, CommandChecks, CommandAccepted, CommandFails,
           Deliver, allVars, relayVars, tableVars, historyVars, vars
    <2>2. QED
      BY <1>10, <1>11, <2>1
  <1>12. ASSUME Before, NEW s \in Sessions,
                \/ CheckDevice(s) \/ OpenSession(s)
                \/ \E kind \in FromUser : UserSends(s, kind)
         PROVE  StartedHeld'
    <2>1. UNCHANGED <<pc, table, toStop, started>>
      BY <1>12 DEF CheckDevice, OpenSession, UserSends, tableVars,
           historyVars, vars
    <2>2. QED
      BY <1>10, <1>12, <2>1
  <1> HIDE DEF StartedHeld, RelayTypes
  <1>13. RelayTypes /\ StartedHeld /\ [RelayNext]_allVars => StartedHeld'
    BY <1>2, <1>3, <1>4, <1>5, <1>6, <1>7, <1>8, <1>9, <1>11, <1>12
       DEF RelayNext
  <1>14. QED
    BY <1>1, <1>13, RelayTypesInductive, PTL DEF RelaySpec

\* A handler that has left leaves no session with "the terminal has started" as
\* its last word, unless NATS refused the stop.
THEOREM StartedIsToldHolds == RelaySpec => []StartedIsTold
  <1>1. StartedHeld => StartedIsTold
    BY DEF StartedHeld, StartedIsTold
  <1>2. QED
    BY <1>1, StartedInductive, PTL

-----------------------------------------------------------------------------
\* A message more at the end of a channel.
LEMMA QueueGrows ==
  ASSUME NEW queue \in Seq(ToDevice), NEW m \in ToDevice, NEW s \in Sessions
  PROVE  /\ Stops(queue, s) => Stops(Append(queue, m), s)
         /\ ~IsSpawn(m, s) /\ Followed(queue, s) => Followed(Append(queue, m), s)
         /\ m = StopOf(s) => /\ Stops(Append(queue, m), s)
                             /\ Followed(Append(queue, m), s)
  <1>1. /\ Len(Append(queue, m)) = Len(queue) + 1 /\ Len(queue) \in Nat
        /\ \A i \in 1 .. Len(queue) : Append(queue, m)[i] = queue[i]
        /\ Append(queue, m)[Len(queue) + 1] = m
    OBVIOUS
  <1>2. ~IsSpawn(StopOf(s), s)
    BY DEF IsSpawn, StopOf
  <1> DEFINE longer == Append(queue, m)
  <1> HIDE DEF longer
  <1>3. /\ Len(longer) = Len(queue) + 1
        /\ \A i \in 1 .. Len(queue) : longer[i] = queue[i]
        /\ longer[Len(queue) + 1] = m
    BY <1>1 DEF longer
  <1>4. Stops(queue, s) => Stops(longer, s)
    BY <1>1, <1>3 DEF Stops
  <1>5. m = StopOf(s) => Stops(longer, s)
    BY <1>1, <1>3 DEF Stops
  <1>6. ~IsSpawn(m, s) /\ Followed(queue, s) => Followed(longer, s)
    BY <1>1, <1>3 DEF Followed
  <1>7. m = StopOf(s) => Followed(longer, s)
    BY <1>1, <1>2, <1>3 DEF Followed
  <1>8. QED
    BY <1>4, <1>5, <1>6, <1>7 DEF longer

\* The oldest message of a channel is passed on.
LEMMA QueueShrinks ==
  ASSUME NEW queue \in Seq(ToDevice), queue # <<>>, NEW s \in Sessions
  PROVE  /\ Followed(queue, s) => Followed(Tail(queue), s)
         /\ Followed(queue, s) /\ IsSpawn(Head(queue), s) =>
              Stops(Tail(queue), s)
         /\ Stops(queue, s) /\ Head(queue) # StopOf(s) =>
              Stops(Tail(queue), s)
  <1> DEFINE rest == Tail(queue)
  <1>1. /\ Len(queue) \in Nat \ {0} /\ Len(rest) = Len(queue) - 1
        /\ \A i \in 2 .. Len(queue) : queue[i] = rest[i - 1]
        /\ Head(queue) = queue[1]
    OBVIOUS
  <1> HIDE DEF rest
  <1>2. ASSUME NEW i \in 2 .. Len(queue), queue[i] = StopOf(s)
        PROVE  Stops(rest, s)
    <2>1. i - 1 \in 1 .. Len(rest) /\ rest[i - 1] = StopOf(s)
      BY <1>1, <1>2
    <2>2. QED
      BY <2>1 DEF Stops
  <1>3. Followed(queue, s) => Followed(rest, s)
    <2> SUFFICES ASSUME Followed(queue, s), NEW i \in 1 .. Len(rest),
                        IsSpawn(rest[i], s)
                 PROVE  \E j \in i + 1 .. Len(rest) : rest[j] = StopOf(s)
      BY DEF Followed
    <2>1. i + 1 \in 2 .. Len(queue) /\ queue[i + 1] = rest[i]
      BY <1>1
    <2>2. PICK j \in i + 2 .. Len(queue) : queue[j] = StopOf(s)
      BY <1>1, <2>1 DEF Followed
    <2>3. j - 1 \in i + 1 .. Len(rest) /\ rest[j - 1] = StopOf(s)
      BY <1>1, <2>2
    <2>4. QED
      BY <2>3
  <1>4. Followed(queue, s) /\ IsSpawn(Head(queue), s) => Stops(rest, s)
    BY <1>1, <1>2 DEF Followed
  <1>5. Stops(queue, s) /\ Head(queue) # StopOf(s) => Stops(rest, s)
    BY <1>1, <1>2 DEF Stops
  <1>6. QED
    BY <1>3, <1>4, <1>5 DEF rest

\* What is published joins what the device's websocket has to pass on, or finds
\* no room.
LEMMA PublishAhead ==
  ASSUME RelayTypes, NEW m, PublishToDevice(m), live' = live
  PROVE  /\ Ahead \in Seq(ToDevice)
         /\ live \in Receivers => Ahead' = Append(Ahead, m)
         /\ live \notin Receivers => Ahead' = Ahead
  <1>1. /\ <<>> \in Seq(ToDevice) /\ live \in Conns \union {NoConn}
        /\ chan \in [Conns -> Seq(ToDevice)] /\ sub \subseteq Conns
    BY DEF RelayTypes, RelayTypeOK
  <1>2. Receivers \subseteq Conns
    BY <1>1 DEF Receivers
  <1>3. QED
    BY <1>1, <1>2, ConnsAssumption DEF Ahead, PublishToDevice

\* A stop is pending if the channel the device uses holds it.
LEMMA PendingAhead ==
  ASSUME RelayTypes, NEW s \in Sessions
  PROVE  StopPending(s) <=> Stops(Ahead, s)
  <1>1. live # NoConn => chan[live] \in Seq(ToDevice)
    BY DEF RelayTypes, RelayTypeOK
  <1>2. live # NoConn => DOMAIN chan[live] = 1 .. Len(chan[live])
    BY <1>1
  <1>3. QED
    BY <1>2 DEF StopPending, Stops, Ahead

\* A stopped shell stays stopped while nothing of its session is passed on.
LEMMA StaysStopped ==
  ASSUME NEW s \in Sessions, ShellStopped(s), Ahead' = Ahead,
         s \in shell' => s \in shell, s \in missed => s \in missed'
  PROVE  ShellStopped(s)'
  BY DEF ShellStopped

\* ... nor while something of another session is published, ...
LEMMA PublishKeeps ==
  ASSUME RelayTypes, NEW s \in Sessions, ShellStopped(s),
         NEW m \in ToDevice, ~IsSpawn(m, s), PublishToDevice(m),
         live' = live, shell' = shell, s \in missed => s \in missed'
  PROVE  ShellStopped(s)'
  BY PublishAhead, QueueGrows, ZenonT(30) DEF ShellStopped

\* ... and is stopped by a stop, or the stop is missed.
LEMMA PublishStops ==
  ASSUME RelayTypes, NEW s \in Sessions, PublishToDevice(StopOf(s)),
         live' = live, missed' = StopMissed(s)
  PROVE  ShellStopped(s)'
  <1>1. CASE live \in Receivers
    <2>1. Ahead \in Seq(ToDevice) /\ Ahead' = Append(Ahead, StopOf(s))
      BY <1>1, PublishAhead
    <2>2. StopOf(s) \in ToDevice
      BY Messages
    <2>3. Stops(Append(Ahead, StopOf(s)), s)
          /\ Followed(Append(Ahead, StopOf(s)), s)
      BY <2>1, <2>2, QueueGrows
    <2>4. QED
      BY <2>1, <2>3 DEF ShellStopped
  <1>2. CASE live \notin Receivers
    BY <1>2 DEF ShellStopped, StopMissed
  <1>3. QED
    BY <1>1, <1>2

\* The websocket is gone, with what it had to pass on.
LEMMA LossStops ==
  ASSUME RelayTypes, NEW s \in Sessions, ShellStopped(s), Ahead' = <<>>,
         shell' = shell,
         missed' = missed \union {t \in Sessions : StopPending(t)}
  PROVE  ShellStopped(s)'
  <1>1. Followed(<<>>, s)
    BY DEF Followed
  <1>2. s \in missed' \/ s \notin shell'
    BY PendingAhead DEF ShellStopped
  <1>3. QED
    BY <1>1, <1>2 DEF ShellStopped

\* The device receives a message.
LEMMA DeliverStops ==
  ASSUME RelayTypes, NEW s \in Sessions, ShellStopped(s),
         NEW c \in Conns, Deliver(c)
  PROVE  ShellStopped(s)'
  <1>1. /\ chan[c] \in Seq(ToDevice) /\ chan[c] # <<>>
        /\ UNCHANGED <<live, missed>>
    BY DEF Deliver, historyVars, RelayTypes
  <1>2. chan' = [chan EXCEPT ![c] = Tail(chan[c])]
    BY DEF Deliver, RelayTypes
  <1>3. CASE live # c
    <2>1. Ahead' = Ahead
      BY <1>1, <1>2, <1>3 DEF Ahead, RelayTypes
    <2>2. shell' = shell
      BY <1>3 DEF Deliver
    <2>3. QED
      BY <1>1, <2>1, <2>2, StaysStopped
  <1>4. CASE live = c
    <2>1. /\ Ahead = chan[c] /\ Ahead' = Tail(chan[c])
          /\ Head(chan[c]) \in ToDevice
      BY <1>1, <1>2, <1>4, ConnsAssumption DEF Ahead, RelayTypes
    <2>2. s \in shell' => s \in shell \/ IsSpawn(Head(chan[c]), s)
      BY <1>4 DEF Deliver, IsSpawn
    <2>3. Head(chan[c]) = StopOf(s) => s \notin shell'
      BY <1>4 DEF Deliver, StopOf
    <2>4. QED
      BY <1>1, <2>1, <2>2, <2>3, QueueShrinks DEF ShellStopped
  <1>5. QED
    BY <1>3, <1>4

\* A session that runs no terminal has stopped the last one.
THEOREM StoppedInductive == RelaySpec => []Stopped
  <1>1. ASSUME RelayInit PROVE Stopped
    BY <1>1 DEF RelayInit, Stopped, ShellStopped, Ahead, Followed
  <1> DEFINE Before == RelayTypes /\ Subscribed /\ Stopped
  <1> USE DEF Stopped
  \* Steps that change neither sessions nor what the device has and will have.
  <1>2. ASSUME Before, UNCHANGED <<session, running, shell>>,
               missed \subseteq missed', Ahead' = Ahead
        PROVE  Stopped'
    BY <1>2, StaysStopped
  <1>3. ASSUME Before, NEW c \in Conns, RelayConnect(c) PROVE Stopped'
    <2>1. Ahead = <<>> /\ chan[c] = <<>> /\ live' = c /\ chan' = chan
      BY <1>3 DEF RelayConnect, Connect, Ahead, Subscribed
    <2>2. Ahead' = Ahead
      BY <2>1, ConnsAssumption DEF Ahead
    <2>3. UNCHANGED <<session, running, shell, missed>>
      BY <1>3 DEF RelayConnect, userVars, historyVars
    <2>4. QED
      BY <1>2, <1>3, <2>2, <2>3
  <1>4. ASSUME Before,
               \/ CommandChecks \/ CommandFails \/ UNCHANGED allVars
               \/ \E c \in Conns :
                    \/ RelayHandlerNext(c) \/ RelayReadFails(c)
                    \/ RelayLeaves(c) \/ \E s \in Sessions : PublishStop(c, s)
        PROVE  Stopped'
    <2>1. UNCHANGED <<session, running, shell, missed, chan, live>>
      BY <1>4 DEF CommandChecks, CommandFails, RelayHandlerNext,
           RelayReadFails, RelayLeaves, PublishStop, allVars, relayVars,
           userVars, deviceVars, historyVars
    <2>2. QED
      BY <1>2, <1>4, <2>1 DEF Ahead
  <1>5. ASSUME Before, LinkLost PROVE Stopped'
    <2>1. /\ Ahead' = <<>> /\ UNCHANGED <<session, running, shell>>
          /\ missed' = missed \union {s \in Sessions : StopPending(s)}
      BY <1>5 DEF LinkLost, Ahead, userVars
    <2>2. QED
      BY <1>5, <2>1, LossStops
  <1>6. ASSUME Before, NEW c \in Conns, RelayReturn(c) PROVE Stopped'
    <2>1. /\ UNCHANGED <<session, running, shell, live>>
          /\ chan' = [chan EXCEPT ![c] = <<>>]
      BY <1>6 DEF RelayReturn, userVars, deviceVars
    <2>2. CASE live = c
      <3>1. /\ Ahead' = <<>>
            /\ missed' = missed \union {s \in Sessions : StopPending(s)}
        BY <1>6, <2>1, <2>2 DEF RelayReturn, Ahead, RelayTypes
      <3>2. QED
        BY <1>6, <2>1, <3>1, LossStops
    <2>3. CASE live # c
      <3>1. Ahead' = Ahead /\ missed' = missed
        BY <1>6, <2>1, <2>3 DEF RelayReturn, Ahead, RelayTypes
      <3>2. QED
        BY <1>2, <1>6, <2>1, <3>1
    <2>4. QED
      BY <2>2, <2>3
  <1>7. ASSUME Before, NEW c \in Conns, NEW s \in Sessions,
               NEW kind \in FromDevice, Forward(c, s, kind)
        PROVE  Stopped'
    <2>1. /\ UNCHANGED <<session, running, chan, live, missed>>
          /\ shell' \subseteq shell
      BY <1>7 DEF Forward, userVars
    <2>2. Ahead' = Ahead
      BY <2>1 DEF Ahead
    <2>3. QED
      BY <1>7, <2>1, <2>2, StaysStopped
  <1>8. ASSUME Before, NEW c \in Conns, Deliver(c) PROVE Stopped'
    <2>1. UNCHANGED <<session, running>>
      BY <1>8 DEF Deliver, userVars
    <2>2. QED
      BY <1>8, <2>1, DeliverStops
  <1>9. ASSUME Before, NEW s \in Sessions, CheckDevice(s) \/ OpenSession(s)
        PROVE  Stopped'
    <2>1. UNCHANGED <<running, shell, missed, chan, live>>
      BY <1>9 DEF CheckDevice, OpenSession, deviceVars, historyVars
    <2>2. \A t \in Sessions :
            session'[t] # "open" => session[t] # "open"
      BY <1>9 DEF CheckDevice, OpenSession, RelayTypes, RelayTypeOK
    <2>3. session[s] # "open"
      BY <1>9 DEF CheckDevice, OpenSession
    <2>4. Ahead' = Ahead
      BY <2>1 DEF Ahead
    <2>5. QED
      BY <1>9, <2>1, <2>2, <2>4, StaysStopped
  <1>10. ASSUME Before, NEW s \in Sessions, NEW kind \in FromUser,
                UserSends(s, kind)
         PROVE  Stopped'
    <2> DEFINE m == [kind |-> kind, session |-> s]
    <2>1. /\ PublishToDevice(m) /\ m \in ToDevice /\ session[s] = "open"
          /\ UNCHANGED <<session, shell, live>>
          /\ running' = [running EXCEPT ![s] = kind = "spawn"]
          /\ missed' = IF kind = "stop" THEN StopMissed(s) ELSE missed
      BY <1>10, Messages DEF UserSends, RunningAfter, deviceVars
    <2>2. ASSUME NEW t \in Sessions, t # s, running[t] = FALSE
          PROVE  ShellStopped(t)'
      <3>1. ~IsSpawn(m, t)
        BY <2>2 DEF IsSpawn
      <3>2. t \in missed => t \in missed'
        BY <2>1, <2>2 DEF StopMissed
      <3> HIDE DEF m
      <3>3. QED
        BY <1>10, <2>1, <2>2, <3>1, <3>2, PublishKeeps
    <2>3. running'[s] = FALSE => ShellStopped(s)'
      <3> SUFFICES ASSUME running'[s] = FALSE PROVE ShellStopped(s)'
        OBVIOUS
      <3>1. kind = "stop"
        BY <1>10, <2>1 DEF FromUser, RelayTypes, RelayTypeOK
      <3>2. m = StopOf(s)
        BY <3>1 DEF StopOf
      <3>3. QED
        BY <1>10, <2>1, <3>1, <3>2, PublishStops
    <2>4. \A t \in Sessions : t # s => running'[t] = running[t]
      BY <1>10, <2>1 DEF RelayTypes, RelayTypeOK
    <2>5. QED
      BY <1>10, <2>1, <2>2, <2>3, <2>4
  <1>11. ASSUME Before, NEW s \in Sessions,
                NEW refused \in FromUser \union {"none"},
                SessionEnds(s, refused)
         PROVE  Stopped'
    <2>1. /\ UNCHANGED <<shell, live>>
          /\ running' = [running EXCEPT ![s] = FALSE]
          /\ session' = [session EXCEPT ![s] = "ended"]
      BY <1>11 DEF SessionEnds, deviceVars
    <2>2. \/ PublishToDevice(StopOf(s)) /\ missed' = StopMissed(s)
          \/ chan' = chan /\ missed' = missed \union {s}
          \/ /\ ~LeftRunning(s, refused)
             /\ UNCHANGED <<chan, missed>> /\ refused # "stop"
      BY <1>11 DEF SessionEnds
    <2>3. ASSUME NEW t \in Sessions, t # s, running[t] = FALSE
          PROVE  ShellStopped(t)'
      <3>1. t \in missed => t \in missed'
        BY <2>2, <2>3 DEF StopMissed
      <3>2. CASE PublishToDevice(StopOf(s))
        <4>1. ~IsSpawn(StopOf(s), t)
          BY DEF IsSpawn, StopOf
        <4>2. QED
          BY <1>11, <2>1, <2>3, <3>1, <3>2, <4>1, PublishKeeps, Messages
      <3>3. CASE chan' = chan
        BY <1>11, <2>1, <2>3, <3>1, <3>3, StaysStopped DEF Ahead
      <3>4. QED
        BY <2>2, <3>2, <3>3
    <2>4. ShellStopped(s)'
      <3>1. CASE PublishToDevice(StopOf(s)) /\ missed' = StopMissed(s)
        BY <1>11, <2>1, <3>1, PublishStops
      <3>2. CASE s \in missed'
        BY <3>2 DEF ShellStopped
      <3>3. CASE /\ ~LeftRunning(s, refused)
                 /\ UNCHANGED <<chan, missed>> /\ refused # "stop"
        <4>1. refused = "none" /\ running[s] = FALSE
          BY <1>11, <3>3 DEF LeftRunning, RunningAfter, FromUser, RelayTypes,
               RelayTypeOK
        <4>2. QED
          BY <1>11, <2>1, <3>3, <4>1, StaysStopped DEF Ahead
      <3>4. QED
        BY <2>2, <3>1, <3>2, <3>3
    <2>5. \A t \in Sessions : t # s => /\ running'[t] = running[t]
                                       /\ session'[t] = session[t]
      BY <1>11, <2>1 DEF RelayTypes, RelayTypeOK
    <2>6. running'[s] = FALSE
      BY <1>11, <2>1 DEF RelayTypes, RelayTypeOK
    <2>7. QED
      BY <1>11, <2>3, <2>4, <2>5, <2>6
  <1>12. ASSUME Before, CommandAccepted PROVE Stopped'
    <2>1. /\ PublishToDevice(Command)
          /\ UNCHANGED <<session, running, shell, live, missed>>
      BY <1>12 DEF CommandAccepted, userVars, deviceVars, historyVars
    <2>2. \A s \in Sessions : ~IsSpawn(Command, s)
      BY DEF IsSpawn, Command
    <2>3. QED
      BY <1>12, <2>1, <2>2, PublishKeeps, Messages
  <1> HIDE DEF Stopped
  <1>13. RelayTypes /\ Subscribed /\ Stopped /\ [RelayNext]_allVars => Stopped'
    BY <1>3, <1>4, <1>5, <1>6, <1>7, <1>8, <1>9, <1>10, <1>11, <1>12
       DEF RelayNext
  <1>14. QED
    BY <1>1, <1>13, RelayTypesInductive, SubscribedInductive, PTL
       DEF RelaySpec

\* A session that ended leaves no shell on the device: the stop is on its way or
\* was missed.
THEOREM EndedShellIsStoppedHolds == RelaySpec => []EndedShellIsStopped
  <1>1. RelayTypes /\ Stopped => EndedShellIsStopped
    BY PendingAhead DEF Stopped, ShellStopped, EndedShellIsStopped
  <1>2. QED
    BY <1>1, RelayTypesInductive, StoppedInductive, PTL
=============================================================================
