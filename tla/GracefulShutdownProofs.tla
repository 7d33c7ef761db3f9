----------------------- MODULE GracefulShutdownProofs -----------------------
(***************************************************************************)
(* The end of an instance, for any number of instances, handlers and       *)
(* requests: around the handlers it is DevicePresence still, so that what  *)
(* was proved of them holds; an exit that is graceful has cancelled every  *)
(* websocket it cuts.                                                      *)
(***************************************************************************)
EXTENDS GracefulShutdown, DevicePresenceProofs

Servers == {"serving", "closing", "polling", "waiting"} \union Ended

ServerTypeOK ==
  /\ pc \in [Conns -> Handler]
  /\ phase \in [Instances -> {"up", "draining", "drained", "down"}]
  /\ toCancel \in [Instances -> SUBSET Conns]
  /\ server \in [Instances -> Servers]
  /\ quit \in [Instances -> Signals \union {"none"}]
  /\ requests \in [Instances -> SUBSET {"shutdown", "other"}]
  /\ slow \in BOOLEAN

\* Handlers are only killed with their process.
KilledWithProcess ==
  \A c \in Conns : pc[c] = "killed" => server[Host[c]] \in Ended

\* App.Shutdown has the handlers it found registered still to cancel, and none
\* when it is done.
Draining ==
  \A c \in Conns :
    /\ phase[Host[c]] = "draining" =>
         pc[c] = "done" \/ c \in cancelled \union late \union toCancel[Host[c]]
    /\ phase[Host[c]] = "drained" =>
         pc[c] = "done" \/ c \in cancelled \union late

\* The main goroutine waits for App.Shutdown after SIGUSR1 only.
WaitsIfGraceful == \A i \in Instances : server[i] = "waiting" => Graceful(i)

ServiceInv ==
  /\ ServerTypeOK
  /\ KilledWithProcess
  /\ Draining
  /\ WaitsIfGraceful
  /\ GracefulExitCancels

-----------------------------------------------------------------------------
\* The handlers, with the mutex and the end of the process as they are in the
\* whole service, behave as DevicePresence says.
THEOREM ServiceIsPresence == ServiceSpec => Spec
  <1>1. ServiceInit => Init
    BY DEF ServiceInit
  <1>2. [ServiceNext]_allVars => [Next]_vars
    <2>1. CASE HandlersNext
      BY <2>1 DEF HandlersNext, Next
    <2>2. ASSUME NEW i \in Instances, MainNext(i) \/ Crash(i)
          PROVE  [Next]_vars
      BY <2>2 DEF MainNext, TakeSignal, ServerBusy, ServerIdle, ShutdownDone,
                  ServerIdleReturns, ServerFatal, Crash, Next
    <2>3. ASSUME NEW i \in Instances, AppShutdownNext(i) PROVE Next
      BY <2>3 DEF AppShutdownNext, AppShutdownBegins, AppShutdownCancels,
                  AppShutdownEnds, Next
    <2>4. ASSUME NEW i \in Instances,
                 \/ \E s \in Signals : Signal(i, s)
                 \/ AskShutdown(i) \/ ShutdownAnswered(i)
                 \/ RequestBegins(i) \/ RequestEnds(i)
          PROVE  UNCHANGED vars
      BY <2>4 DEF Signal, AskShutdown, ShutdownAnswered, RequestBegins,
                  RequestEnds
    <2>5. CASE UNCHANGED allVars
      BY <2>5 DEF allVars
    <2>6. QED
      BY <2>1, <2>2, <2>3, <2>4, <2>5 DEF ServiceNext
  <1>3. QED
    BY <1>1, <1>2, PTL DEF ServiceSpec, Spec

\* Whatever ends the process, and when: a device shown as connected is served
\* by its newest handler, or that one's closing write was lost.
COROLLARY ServiceShownIsServed ==
  ServiceSpec => [](ShownIsServed /\ NewestIsShown /\ VersionsDistinct)
  BY ServiceIsPresence, ShownIsServedHolds, NewestIsShownHolds,
     VersionsDistinctHolds, PTL

-----------------------------------------------------------------------------
\* A step of the handlers of a running process.
LEMMA HandlersStep ==
  ASSUME ServiceInv, HandlersNext
  PROVE  ServiceInv'
  <1>1. UNCHANGED <<server, quit, requests, slow, late>>
    BY DEF HandlersNext, serverVars
  <1> DEFINE Kept ==
        /\ UNCHANGED <<cancelled, phase, toCancel>>
        /\ pc' \in [Conns -> Handler]
        /\ \A c \in Conns : /\ pc'[c] = "killed" => pc[c] = "killed"
                            /\ pc[c] = "done" => pc'[c] = "done"
  <1>2. Kept
    <2>1. pc \in [Conns -> Handler]
      BY DEF ServiceInv, ServerTypeOK
    <2>2. CASE ProvisionDevice \/ DeleteDevice
      BY <2>1, <2>2 DEF ProvisionDevice, DeleteDevice
    <2>3. ASSUME NEW c \in Conns, Connect(c) \/ ConnectFails(c) \/ ReadFails(c)
          PROVE  Kept
      BY <2>1, <2>3 DEF Connect, ConnectFails, ReadFails, Handler
    <2>4. ASSUME NEW c \in Conns, WriterEnds(c) \/ WriterFails(c)
          PROVE  Kept
      BY <2>1, <2>4 DEF WriterEnds, WriterFails
    <2>5. ASSUME NEW c \in Conns, HandlerNext(c)
          PROVE  Kept
      BY <2>1, <2>5 DEF HandlerNext, Register, SetDeviceConnected,
           SetDeviceConnectedUnanswered, SetDeviceConnectedFails,
           SetDeviceDisconnected, SetDeviceDisconnectedFails, AfterLeaving,
           ReportError, ReportTimeout, Return, Handler
    <2>6. QED
      BY <2>2, <2>3, <2>4, <2>5 DEF HandlersNext
  <1>3. QED
    BY <1>1, <1>2 DEF ServiceInv, ServerTypeOK, KilledWithProcess, Draining,
                      WaitsIfGraceful, GracefulExitCancels,
                      Graceful

\* The end of the process, for whatever reason.
LEMMA EndStep ==
  ASSUME ServiceInv, NEW i \in Instances, ProcessEnds(i),
         NEW end \in Ended, server[i] \notin Ended,
         server' = [server EXCEPT ![i] = end],
         end = "returned" =>
           \/ ~Graceful(i)
           \/ server[i] = "waiting" /\ phase[i] = "drained",
         UNCHANGED <<quit, requests, slow, late>>
  PROVE  ServiceInv'
  <1>1. ServerTypeOK'
    BY DEF ServiceInv, ServerTypeOK, ProcessEnds, Servers, Handler
  <1>2. KilledWithProcess'
    BY HostAssumption
       DEF ServiceInv, ServerTypeOK, KilledWithProcess, ProcessEnds
  <1>3. Draining'
    BY HostAssumption DEF ServiceInv, ServerTypeOK, Draining, ProcessEnds
  <1>4. WaitsIfGraceful'
    BY DEF ServiceInv, ServerTypeOK, WaitsIfGraceful, Graceful, Ended
  <1>5. GracefulExitCancels'
    BY HostAssumption DEF ServiceInv, ServerTypeOK, GracefulExitCancels,
         KilledWithProcess, Draining, ProcessEnds, Graceful, Ended
  <1>6. QED
    BY <1>1, <1>2, <1>3, <1>4, <1>5 DEF ServiceInv

\* Server, App.Shutdown, requests and handlers agree about the end.
THEOREM ServiceInductive == ServiceSpec => []ServiceInv
  <1>1. ASSUME ServiceInit PROVE ServiceInv
    BY <1>1, HostAssumption
       DEF ServiceInit, Init, ServiceInv, ServerTypeOK, KilledWithProcess,
           Draining, WaitsIfGraceful, GracefulExitCancels,
           Handler, Servers
  <1>2. ASSUME ServiceInv, HandlersNext PROVE ServiceInv'
    BY <1>2, HandlersStep
  <1>3. ASSUME ServiceInv, NEW i \in Instances, NEW s \in Signals, Signal(i, s)
        PROVE  ServiceInv'
    BY <1>3 DEF ServiceInv, ServerTypeOK, KilledWithProcess,
           Draining, WaitsIfGraceful, GracefulExitCancels,
           Signal, Send, vars, Graceful
  <1>4. ASSUME ServiceInv, NEW i \in Instances, AskShutdown(i)
        PROVE  ServiceInv'
    BY <1>4 DEF ServiceInv, ServerTypeOK, KilledWithProcess,
           Draining, WaitsIfGraceful, GracefulExitCancels,
           AskShutdown, Send, vars, Graceful, Signals
  <1>5. ASSUME ServiceInv, NEW i \in Instances,
               ShutdownAnswered(i) \/ RequestBegins(i) \/ RequestEnds(i)
        PROVE  ServiceInv'
    BY <1>5 DEF ServiceInv, ServerTypeOK, KilledWithProcess,
           Draining, WaitsIfGraceful, GracefulExitCancels,
           ShutdownAnswered, RequestBegins, RequestEnds, vars, Graceful
  <1>6. ASSUME ServiceInv, NEW i \in Instances,
               TakeSignal(i) \/ ServerBusy(i) \/ ServerIdle(i)
        PROVE  ServiceInv'
    <2>1. /\ \E at \in {"closing", "polling", "waiting"} :
               /\ server' = [server EXCEPT ![i] = at]
               /\ at = "waiting" => Graceful(i)
          /\ server[i] \in {"serving", "closing", "polling"}
          /\ UNCHANGED <<vars, quit, requests, slow, late>>
      BY <1>6 DEF TakeSignal, ServerBusy, ServerIdle, InFlight
    <2>2. PICK at \in {"closing", "polling", "waiting"} :
            /\ server' = [server EXCEPT ![i] = at]
            /\ at = "waiting" => Graceful(i)
      BY <2>1
    <2>3. /\ server \in [Instances -> Servers]
          /\ UNCHANGED <<pc, phase, toCancel, cancelled>>
      BY <1>6, <2>1 DEF ServiceInv, ServerTypeOK, vars
    <2>4. ServerTypeOK' /\ KilledWithProcess' /\ Draining'
      BY <1>6, <2>1, <2>2, <2>3, HostAssumption
         DEF ServiceInv, ServerTypeOK, KilledWithProcess, Draining, Servers,
             Ended
    <2>5. WaitsIfGraceful'
      BY <1>6, <2>1, <2>2, <2>3 DEF ServiceInv, WaitsIfGraceful, Graceful
    <2>6. GracefulExitCancels'
      BY <1>6, <2>1, <2>2, <2>3, HostAssumption
         DEF ServiceInv, GracefulExitCancels, Graceful
    <2>7. QED
      BY <2>4, <2>5, <2>6 DEF ServiceInv
  <1>7. ASSUME ServiceInv, NEW i \in Instances, ServerIdleReturns(i)
        PROVE  ServiceInv'
    BY <1>7, EndStep DEF ServerIdleReturns, InFlight, Ended
  <1>8. ASSUME ServiceInv, NEW i \in Instances, ServerFatal(i)
        PROVE  ServiceInv'
    BY <1>8, EndStep DEF ServerFatal, DeadlinePasses, Ended
  <1>9. ASSUME ServiceInv, NEW i \in Instances, ShutdownDone(i)
        PROVE  ServiceInv'
    BY <1>9, EndStep DEF ShutdownDone, DoneReceived, Ended
  <1>10. ASSUME ServiceInv, NEW i \in Instances, Crash(i)
         PROVE  ServiceInv'
    BY <1>10, EndStep DEF Crash, Ended
  <1>11. ASSUME ServiceInv, NEW i \in Instances, AppShutdownBegins(i)
         PROVE  ServiceInv'
    BY <1>11, HostAssumption DEF AppShutdownBegins, ShutdownBegins,
           ServiceInv, ServerTypeOK, KilledWithProcess, Registered, Handler,
           Draining, WaitsIfGraceful, GracefulExitCancels,
           Graceful
  <1>12. ASSUME ServiceInv, NEW i \in Instances, AppShutdownCancels(i)
         PROVE  ServiceInv'
    BY <1>12, HostAssumption DEF AppShutdownCancels, ShutdownCancels,
           ServiceInv, ServerTypeOK, KilledWithProcess, serverVars,
           Draining, WaitsIfGraceful, GracefulExitCancels,
           Graceful
  <1>13. ASSUME ServiceInv, NEW i \in Instances, AppShutdownEnds(i)
         PROVE  ServiceInv'
    BY <1>13, HostAssumption DEF AppShutdownEnds, ShutdownEnds,
           ServiceInv, ServerTypeOK, KilledWithProcess, serverVars,
           Draining, WaitsIfGraceful, GracefulExitCancels,
           Graceful
  <1>14. ASSUME ServiceInv, UNCHANGED allVars PROVE ServiceInv'
    BY <1>14 DEF allVars, vars, serverVars, ServiceInv, ServerTypeOK,
           KilledWithProcess, Draining, WaitsIfGraceful, GracefulExitCancels,
           Graceful
  <1> HIDE DEF ServiceInv
  <1>15. ServiceInv /\ [ServiceNext]_allVars => ServiceInv'
    BY <1>2, <1>3, <1>4, <1>5, <1>6, <1>7, <1>8, <1>9, <1>10, <1>11, <1>12,
       <1>13, <1>14 DEF ServiceNext, MainNext, AppShutdownNext
  <1>16. QED
    BY <1>1, <1>15, PTL DEF ServiceSpec

\* A process that ends gracefully has cancelled the websockets it cuts, but for
\* those that were not registered when App.Shutdown began.
THEOREM GracefulExitCancelsHolds == ServiceSpec => []GracefulExitCancels
  BY ServiceInductive, PTL DEF ServiceInv
=============================================================================
