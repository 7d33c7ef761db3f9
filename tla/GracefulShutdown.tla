-------------------------- MODULE GracefulShutdown --------------------------
(***************************************************************************)
(* The end of an instance: the signal, the shutdown of its HTTP server,    *)
(* App.Shutdown and the request that may have asked for it all, around the *)
(* websocket handlers of DevicePresence.                                   *)
(*                                                                         *)
(* The main goroutine waits for a signal, gives the HTTP server five       *)
(* seconds to finish the requests in flight, and after SIGUSR1 waits for   *)
(* App.Shutdown, which another goroutine runs.  If the five seconds pass,  *)
(* the process ends there and then.  Upgraded requests, the websockets,    *)
(* are not the HTTP server's any more: it does not wait for them.          *)
(***************************************************************************)
EXTENDS DevicePresence

\* An end that is not graceful is a crash to DevicePresence.
ASSUME EndsAssumption == Crashes = Instances /\ Shutdowns = Instances

VARIABLES
  server,    \* the main goroutine of each instance: "serving", "closing" and
             \* "polling" in srv.Shutdown, "waiting" for App.Shutdown, or Ended
  quit,      \* the first signal each instance was sent
  requests,  \* kinds of plain HTTP requests in flight on each instance
  slow,      \* gracefulShutdownTimeout is configured beyond five seconds
  late       \* history: handlers not registered when App.Shutdown began

serverVars == <<server, quit, requests, slow, late>>
allVars == <<vars, serverVars>>

\* SIGINT is treated like SIGTERM.
Signals == {"SIGTERM", "SIGUSR1"}
Ended == {"returned", "fatal", "crashed"}

ServiceInit ==
  /\ Init
  /\ server = [i \in Instances |-> "serving"]
  /\ quit = [i \in Instances |-> "none"]
  /\ requests = [i \in Instances |-> {}]
  /\ slow \in BOOLEAN
  /\ late = {}

-----------------------------------------------------------------------------
(* Requests and signals                                                    *)

\* The quit channel has room for one signal; later ones change nothing.
Send(i, s) == quit' = [quit EXCEPT ![i] = IF @ = "none" THEN s ELSE @]

Signal(i, s) ==
  /\ server[i] \notin Ended
  /\ quit[i] = "none"
  /\ Send(i, s)
  /\ UNCHANGED <<vars, server, requests, slow, late>>

\* GET /shutdown: the handler signals its own process and then sleeps for
\* gracefulShutdownTimeout, a request in flight like any other.
AskShutdown(i) ==
  /\ server[i] = "serving"
  /\ "shutdown" \notin requests[i]
  /\ requests' = [requests EXCEPT ![i] = @ \union {"shutdown"}]
  /\ Send(i, "SIGUSR1")
  /\ UNCHANGED <<vars, server, slow, late>>

\* Its sleep is over and 202 is written.  A sleep beyond five seconds outlasts
\* the deadline of the server, which its own signal set running.
ShutdownAnswered(i) ==
  /\ server[i] \notin Ended
  /\ "shutdown" \in requests[i]
  /\ ~slow
  /\ requests' = [requests EXCEPT ![i] = @ \ {"shutdown"}]
  /\ UNCHANGED <<vars, server, quit, slow, late>>

\* Any other request: a file transfer can last longer than five seconds.
RequestBegins(i) ==
  /\ server[i] = "serving"
  /\ "other" \notin requests[i]
  /\ requests' = [requests EXCEPT ![i] = @ \union {"other"}]
  /\ UNCHANGED <<vars, server, quit, slow, late>>

RequestEnds(i) ==
  /\ server[i] \notin Ended
  /\ "other" \in requests[i]
  /\ requests' = [requests EXCEPT ![i] = @ \ {"other"}]
  /\ UNCHANGED <<vars, server, quit, slow, late>>

-----------------------------------------------------------------------------
(* The main goroutine                                                      *)

\* srv.Shutdown closes the listener.
TakeSignal(i) ==
  /\ server[i] = "serving"
  /\ quit[i] # "none"
  /\ server' = [server EXCEPT ![i] = "closing"]
  /\ UNCHANGED <<vars, quit, requests, slow, late>>

Graceful(i) == quit[i] = "SIGUSR1"

\* What srv.Shutdown waits for, looking again and again.
InFlight(i) == requests[i]

ServerBusy(i) ==
  /\ server[i] = "closing"
  /\ InFlight(i) # {}
  /\ server' = [server EXCEPT ![i] = "polling"]
  /\ UNCHANGED <<vars, quit, requests, slow, late>>

ServerIdle(i) ==
  /\ server[i] \in {"closing", "polling"}
  /\ InFlight(i) = {}
  /\ Graceful(i)
  /\ server' = [server EXCEPT ![i] = "waiting"]
  /\ UNCHANGED <<vars, quit, requests, slow, late>>

\* After SIGTERM InitAndRun returns at once.
ServerIdleReturns(i) ==
  /\ server[i] \in {"closing", "polling"}
  /\ InFlight(i) = {}
  /\ ~Graceful(i)
  /\ ProcessEnds(i)
  /\ server' = [server EXCEPT ![i] = "returned"]
  /\ UNCHANGED <<quit, requests, slow, late>>

\* Mutation: srv.Shutdown is given a context without a deadline.
NoDeadline(i) == FALSE

\* The five seconds pass between two looks at the requests.
DeadlinePasses(i) == server[i] = "polling"

\* l.Fatal: the process ends, App.Shutdown or not.
ServerFatal(i) ==
  /\ DeadlinePasses(i)
  /\ ProcessEnds(i)
  /\ server' = [server EXCEPT ![i] = "fatal"]
  /\ UNCHANGED <<quit, requests, slow, late>>

\* Mutation: the main goroutine does not wait for App.Shutdown.
DoneAtOnce(i) == TRUE

\* ShutdownDone: App.Shutdown has closed its channel.
DoneReceived(i) == phase[i] = "drained"

ShutdownDone(i) ==
  /\ server[i] = "waiting"
  /\ DoneReceived(i)
  /\ ProcessEnds(i)
  /\ server' = [server EXCEPT ![i] = "returned"]
  /\ UNCHANGED <<quit, requests, slow, late>>

Crash(i) ==
  /\ server[i] \notin Ended
  /\ ProcessEnds(i)
  /\ server' = [server EXCEPT ![i] = "crashed"]
  /\ UNCHANGED <<quit, requests, slow, late>>

MainNext(i) ==
  \/ TakeSignal(i)
  \/ ServerBusy(i)
  \/ ServerIdle(i)
  \/ ServerIdleReturns(i)
  \/ ServerFatal(i)
  \/ ShutdownDone(i)

-----------------------------------------------------------------------------
(* App.Shutdown, in the goroutine srv.Shutdown starts for it               *)

AppShutdownBegins(i) ==
  /\ server[i] \notin {"serving"} \union Ended
  /\ Graceful(i)
  /\ ShutdownBegins(i)
  /\ late' = late \union
               {c \in Conns : Host[c] = i /\ pc[c] \in {"idle", "registering"}}
  /\ UNCHANGED <<server, quit, requests, slow>>

AppShutdownCancels(i) ==
  /\ ShutdownCancels(i)
  /\ UNCHANGED serverVars

\* The ticks add up to gracefulShutdownTimeout, longer than the server's five
\* seconds if slow.
AppShutdownEnds(i) ==
  /\ slow => server[i] \notin {"closing", "polling"}
  /\ ShutdownEnds(i)
  /\ UNCHANGED serverVars

AppShutdownNext(i) ==
  \/ AppShutdownBegins(i)
  \/ AppShutdownCancels(i)
  \/ AppShutdownEnds(i)

-----------------------------------------------------------------------------
\* The websocket handlers; a closed listener accepts no new ones.
HandlersNext ==
  /\ \/ ProvisionDevice
     \/ DeleteDevice
     \/ \E c \in Conns :
          \/ server[Host[c]] = "serving" /\ (Connect(c) \/ ConnectFails(c))
          \/ HandlerNext(c)
          \/ ReadFails(c)
          \/ WriterEnds(c)
          \/ WriterFails(c)
  /\ UNCHANGED serverVars

ServiceNext ==
  \/ HandlersNext
  \/ \E i \in Instances :
       \/ \E s \in Signals : Signal(i, s)
       \/ AskShutdown(i)
       \/ ShutdownAnswered(i)
       \/ RequestBegins(i)
       \/ RequestEnds(i)
       \/ MainNext(i)
       \/ AppShutdownNext(i)
       \/ Crash(i)

ServiceSpec == ServiceInit /\ [][ServiceNext]_allVars

\* The goroutines of a handler as in DevicePresence, the main goroutine and
\* App.Shutdown.  Signals, requests and their ends are not fair.
ServiceFairness ==
  /\ \A c \in Conns :
       /\ WF_vars(HandlerNext(c))
       /\ WF_vars(ReadFails(c) /\ writer[c] = "done")
       /\ WF_vars(WriterEnds(c))
  /\ \A i \in Instances :
       /\ WF_allVars(MainNext(i))
       /\ WF_allVars(AppShutdownNext(i))

FairServiceSpec == ServiceSpec /\ ServiceFairness

-----------------------------------------------------------------------------
(* Properties                                                              *)

\* A process that ends gracefully has cancelled every websocket it cuts, but
\* for a handler that had not registered when App.Shutdown took the mutex: the
\* main goroutine, the server's goroutine and the mutex agree on the order.
GracefulExitCancels ==
  \A c \in Conns :
    /\ server[Host[c]] = "returned"
    /\ Graceful(Host[c])
    /\ pc[c] = "killed"
    => c \in cancelled \union late

\* A process that was signalled ends, whatever its requests and its websockets
\* do and whoever holds the mutex of the cancel functions.
ShutdownCompletes ==
  \A i \in Instances : quit[i] # "none" ~> server[i] \in Ended
=============================================================================
