--------------------------- MODULE DevicePresence ---------------------------
(***************************************************************************)
(* The presence of one device of one tenant: its document in the           *)
(* "devices" collection and the handlers of GET /devices/v1/.../connect    *)
(* that serve its websockets, on several instances of the service.         *)
(*                                                                         *)
(* A handler is two goroutines.  The first (pc) subscribes the device's    *)
(* subject, upgrades the request, registers its cancel function for a      *)
(* graceful shutdown, writes status "connected" and reads the websocket    *)
(* until it fails; it then writes status "disconnected" under the version  *)
(* it was given and hands its error to the second (writer), which is the   *)
(* one that closes the websocket.  The document survives an instance; the  *)
(* goroutines do not.                                                      *)
(***************************************************************************)
EXTENDS Naturals, FiniteSets

CONSTANTS
  Conns,        \* calls of the connect handler by the device
  NoConn,       \* "no handler", in offBy
  Instances,    \* processes of the service
  Host,         \* the instance each call is routed to
  MaxDeletes,   \* bound on deletions of the document
  StoreFaults,  \* whether an operation of the store may fail
  Crashes,      \* the instances that may stop without a graceful shutdown
  Shutdowns     \* the instances that may be shut down gracefully

ASSUME ConnsAssumption == NoConn \notin Conns
ASSUME HostAssumption == Host \in [Conns -> Instances]
ASSUME BoundsAssumption ==
  /\ MaxDeletes \in Nat
  /\ StoreFaults \in BOOLEAN
  /\ Crashes \subseteq Instances
  /\ Shutdowns \subseteq Instances

VARIABLES
  device,      \* the document; version 0 is a document without the field
  pc,          \* where each handler is
  writer,      \* each handler's writer goroutine; it closes the websocket
  cancelled,   \* handlers whose context a shutdown has cancelled
  phase,       \* each instance: running, in App.Shutdown, after it, gone
  toCancel,    \* the cancel functions App.Shutdown still has to call
  ver,         \* the version each handler's "connected" was given, 0: none
  verEpoch,    \* history: the life of the document that version belongs to
  epoch,       \* history: how often the document has been deleted
  offBy,       \* history: the handler that last wrote "disconnected"
  offline      \* history: what became of a handler's closing write

vars == <<device, pc, writer, cancelled, phase, toCancel,
          ver, verEpoch, epoch, offBy, offline>>

\* Mutation: a deleted document that is read back as an empty one.
EmptyDocument == [status |-> "", version |-> 0]

Absent == [status |-> "absent", version |-> 0]

Handler == {"idle", "registering", "connecting", "serving", "leaving",
            "reporting", "unregistering", "done", "killed"}

TypeOK ==
  /\ device \in [status : {"absent", "unknown", "connected", "disconnected"},
                 version : Nat]
  /\ pc \in [Conns -> Handler]
  /\ writer \in [Conns -> {"none", "running", "done"}]
  /\ cancelled \subseteq Conns
  /\ phase \in [Instances -> {"up", "draining", "drained", "down"}]
  /\ toCancel \in [Instances -> SUBSET Conns]
  /\ ver \in [Conns -> Nat]
  /\ verEpoch \in [Conns -> Nat]
  /\ epoch \in 0 .. MaxDeletes
  /\ offBy \in Conns \union {NoConn}
  /\ offline \in [Conns -> {"pending", "written", "lost"}]

\* A handler between its "connected" and its closing write: the websocket's
\* reader runs and the device's subject is subscribed.
Serving(c) == pc[c] \in {"serving", "leaving"}

\* The cancel function of a handler is in app.shutdownCancels.
Registered(c) ==
  pc[c] \in {"connecting", "serving", "leaving", "reporting", "unregistering"}

\* App.Shutdown holds shutdownCancelsM for all of its loop.
MutexFree(i) == phase[i] # "draining"

Init ==
  /\ device = Absent
  /\ pc = [c \in Conns |-> "idle"]
  /\ writer = [c \in Conns |-> "none"]
  /\ cancelled = {}
  /\ phase = [i \in Instances |-> "up"]
  /\ toCancel = [i \in Instances |-> {}]
  /\ ver = [c \in Conns |-> 0]
  /\ verEpoch = [c \in Conns |-> 0]
  /\ epoch = 0
  /\ offBy = NoConn
  /\ offline = [c \in Conns |-> "pending"]

-----------------------------------------------------------------------------
(* The document: provisioning and deletion by the internal API             *)

\* An upsert of $setOnInsert only: nothing happens to a document that exists.
ProvisionDevice ==
  /\ device.status = "absent"
  /\ device' = [status |-> "unknown", version |-> 0]
  /\ UNCHANGED <<pc, writer, cancelled, phase, toCancel,
                 ver, verEpoch, epoch, offBy, offline>>

\* DeleteDevice, or DeleteTenant as far as this document goes.
DeleteDevice ==
  /\ device.status # "absent"
  /\ epoch < MaxDeletes
  /\ device' = Absent
  /\ epoch' = epoch + 1
  /\ UNCHANGED <<pc, writer, cancelled, phase, toCancel,
                 ver, verEpoch, offBy, offline>>

-----------------------------------------------------------------------------
(* The handler                                                             *)

\* ChanSubscribe and the upgrade succeed, or one of them fails and the
\* handler returns with the subscription undone.
Connect(c) ==
  /\ pc[c] = "idle"
  /\ phase[Host[c]] = "up"
  /\ pc' = [pc EXCEPT ![c] = "registering"]
  /\ UNCHANGED <<device, writer, cancelled, phase, toCancel,
                 ver, verEpoch, epoch, offBy, offline>>

ConnectFails(c) ==
  /\ pc[c] = "idle"
  /\ phase[Host[c]] = "up"
  /\ pc' = [pc EXCEPT ![c] = "done"]
  /\ UNCHANGED <<device, writer, cancelled, phase, toCancel,
                 ver, verEpoch, epoch, offBy, offline>>

\* RegisterShutdownCancel, then the writer goroutine is started.
Register(c) ==
  /\ pc[c] = "registering"
  /\ MutexFree(Host[c])
  /\ pc' = [pc EXCEPT ![c] = "connecting"]
  /\ writer' = [writer EXCEPT ![c] = "running"]
  /\ UNCHANGED <<device, cancelled, phase, toCancel,
                 ver, verEpoch, epoch, offBy, offline>>

\* Mutation of the upsert below: the projection returns the document as it was
\* before the update.
WriteConnectedReturnBefore(c) ==
  /\ device' = [status |-> "connected", version |-> device.version + 1]
  /\ ver' = [ver EXCEPT ![c] = device.version]
  /\ verEpoch' = [verEpoch EXCEPT ![c] = epoch]

\* The upsert of the store: status and version in one atomic update.
WriteConnected(c) ==
  /\ device' = [status |-> "connected", version |-> device.version + 1]
  /\ ver' = [ver EXCEPT ![c] = device.version + 1]
  /\ verEpoch' = [verEpoch EXCEPT ![c] = epoch]

SetDeviceConnected(c) ==
  /\ pc[c] = "connecting"
  /\ c \notin cancelled
  /\ WriteConnected(c)
  /\ pc' = [pc EXCEPT ![c] = "serving"]
  /\ UNCHANGED <<writer, cancelled, phase, toCancel, epoch, offBy, offline>>

\* The update reaches the database but its answer does not reach the
\* handler, which returns before it has deferred the closing write.
SetDeviceConnectedUnanswered(c) ==
  /\ pc[c] = "connecting"
  /\ StoreFaults \/ c \in cancelled
  /\ WriteConnected(c)
  /\ offline' = [offline EXCEPT ![c] = "lost"]
  /\ pc' = [pc EXCEPT ![c] = "reporting"]
  /\ UNCHANGED <<writer, cancelled, phase, toCancel, epoch, offBy>>

SetDeviceConnectedFails(c) ==
  /\ pc[c] = "connecting"
  /\ StoreFaults \/ c \in cancelled
  /\ pc' = [pc EXCEPT ![c] = "reporting"]
  /\ UNCHANGED <<device, writer, cancelled, phase, toCancel,
                 ver, verEpoch, epoch, offBy, offline>>

\* conn.ReadMessage, the decoding or the publishing of a message fails; the
\* deferred function publishes its stop messages.
ReadFails(c) ==
  /\ pc[c] = "serving"
  /\ pc' = [pc EXCEPT ![c] = "leaving"]
  /\ UNCHANGED <<device, writer, cancelled, phase, toCancel,
                 ver, verEpoch, epoch, offBy, offline>>

\* The handler reports the read's error, or none: the stop messages' Publish
\* overwrites the error that ConnectServeWS returns.
AfterLeaving(c) ==
  \E next \in {"reporting", "unregistering"} : pc' = [pc EXCEPT ![c] = next]

\* Mutations of the filter below: without the version, or with an upsert.
MatchesAnyVersion(c) == device.status # "absent"
MatchesOrInserts(c) == device.status = "absent" \/ device.version = ver[c]

\* The update matches the document only under the version of this handler.
Matches(c) == device.status # "absent" /\ device.version = ver[c]

SetDeviceDisconnected(c) ==
  /\ pc[c] = "leaving"
  /\ c \notin cancelled
  /\ IF Matches(c)
       THEN /\ device' = [device EXCEPT !.status = "disconnected"]
            /\ offBy' = c
       ELSE UNCHANGED <<device, offBy>>
  /\ offline' = [offline EXCEPT ![c] = "written"]
  /\ AfterLeaving(c)
  /\ UNCHANGED <<writer, cancelled, phase, toCancel, ver, verEpoch, epoch>>

\* The store fails; with a cancelled context it always does.
SetDeviceDisconnectedFails(c) ==
  /\ pc[c] = "leaving"
  /\ StoreFaults \/ c \in cancelled
  /\ offline' = [offline EXCEPT ![c] = "lost"]
  /\ AfterLeaving(c)
  /\ UNCHANGED <<device, writer, cancelled, phase, toCancel,
                 ver, verEpoch, epoch, offBy>>

\* errChan is unbuffered: the writer takes the error in its select, or one
\* second passes.
ReportError(c) ==
  /\ pc[c] = "reporting"
  /\ writer[c] = "running"
  /\ pc' = [pc EXCEPT ![c] = "unregistering"]
  /\ writer' = [writer EXCEPT ![c] = "done"]
  /\ UNCHANGED <<device, cancelled, phase, toCancel,
                 ver, verEpoch, epoch, offBy, offline>>

ReportTimeout(c) ==
  /\ pc[c] = "reporting"
  /\ pc' = [pc EXCEPT ![c] = "unregistering"]
  /\ UNCHANGED <<device, writer, cancelled, phase, toCancel,
                 ver, verEpoch, epoch, offBy, offline>>

\* The deferred calls, last first: UnregisterShutdownCancel, close(errChan),
\* Unsubscribe.
Return(c) ==
  /\ pc[c] = "unregistering"
  /\ MutexFree(Host[c])
  /\ pc' = [pc EXCEPT ![c] = "done"]
  /\ UNCHANGED <<device, writer, cancelled, phase, toCancel,
                 ver, verEpoch, epoch, offBy, offline>>

\* Mutation: the handler returns without closing errChan.
WriterSeesCancelOnly(c) == c \in cancelled

\* The writer's select sees a cancelled context or a closed errChan.
WriterSeesEnd(c) == c \in cancelled \/ pc[c] = "done"

WriterEnds(c) ==
  /\ writer[c] = "running"
  /\ WriterSeesEnd(c)
  /\ writer' = [writer EXCEPT ![c] = "done"]
  /\ UNCHANGED <<device, pc, cancelled, phase, toCancel,
                 ver, verEpoch, epoch, offBy, offline>>

\* A write to the websocket or a ping fails.
WriterFails(c) ==
  /\ writer[c] = "running"
  /\ writer' = [writer EXCEPT ![c] = "done"]
  /\ UNCHANGED <<device, pc, cancelled, phase, toCancel,
                 ver, verEpoch, epoch, offBy, offline>>

-----------------------------------------------------------------------------
(* An instance: graceful shutdown and its end                              *)

\* SIGUSR1: the server stops accepting and runs App.Shutdown.
ShutdownBegins(i) ==
  /\ i \in Shutdowns
  /\ phase[i] = "up"
  /\ phase' = [phase EXCEPT ![i] = "draining"]
  /\ toCancel' = [toCancel EXCEPT
                    ![i] = {c \in Conns : Host[c] = i /\ Registered(c)}]
  /\ UNCHANGED <<device, pc, writer, cancelled,
                 ver, verEpoch, epoch, offBy, offline>>

ShutdownCancels(i) ==
  /\ phase[i] = "draining"
  /\ \E c \in toCancel[i] :
       /\ cancelled' = cancelled \union {c}
       /\ toCancel' = [toCancel EXCEPT ![i] = @ \ {c}]
  /\ UNCHANGED <<device, pc, writer, phase,
                 ver, verEpoch, epoch, offBy, offline>>

ShutdownEnds(i) ==
  /\ phase[i] = "draining"
  /\ toCancel[i] = {}
  /\ phase' = [phase EXCEPT ![i] = "drained"]
  /\ UNCHANGED <<device, pc, writer, cancelled, toCancel,
                 ver, verEpoch, epoch, offBy, offline>>

\* The process ends, at the end of a graceful shutdown or by a crash, and
\* with it every goroutine, wherever it is.
ProcessEnds(i) ==
  /\ phase[i] = "drained" \/ (i \in Crashes /\ phase[i] # "down")
  /\ phase' = [phase EXCEPT ![i] = "down"]
  /\ toCancel' = [toCancel EXCEPT ![i] = {}]
  /\ pc' = [c \in Conns |-> IF Host[c] = i /\ pc[c] # "done"
                              THEN "killed" ELSE pc[c]]
  /\ writer' = [c \in Conns |-> IF Host[c] = i THEN "done" ELSE writer[c]]
  /\ offline' = [c \in Conns |-> IF Host[c] = i /\ Serving(c)
                                   THEN "lost" ELSE offline[c]]
  /\ UNCHANGED <<device, cancelled, ver, verEpoch, epoch, offBy>>

-----------------------------------------------------------------------------
HandlerNext(c) ==
  \/ Register(c)
  \/ SetDeviceConnected(c)
  \/ SetDeviceConnectedUnanswered(c)
  \/ SetDeviceConnectedFails(c)
  \/ SetDeviceDisconnected(c)
  \/ SetDeviceDisconnectedFails(c)
  \/ ReportError(c)
  \/ ReportTimeout(c)
  \/ Return(c)

Next ==
  \/ ProvisionDevice
  \/ DeleteDevice
  \/ \E c \in Conns :
       \/ Connect(c)
       \/ ConnectFails(c)
       \/ HandlerNext(c)
       \/ ReadFails(c)
       \/ WriterEnds(c)
       \/ WriterFails(c)
  \/ \E i \in Instances :
       \/ ShutdownBegins(i)
       \/ ShutdownCancels(i)
       \/ ShutdownEnds(i)
       \/ ProcessEnds(i)

Spec == Init /\ [][Next]_vars

\* A goroutine that can run does run; a read of a closed websocket fails; the
\* loop of App.Shutdown goes on.  Requests, peers and crashes are not fair.
Fairness ==
  /\ \A c \in Conns :
       /\ WF_vars(HandlerNext(c))
       /\ WF_vars(ReadFails(c) /\ writer[c] = "done")
       /\ WF_vars(WriterEnds(c))
  /\ \A i \in Instances : WF_vars(ShutdownCancels(i) \/ ShutdownEnds(i))

FairSpec == Spec /\ Fairness

-----------------------------------------------------------------------------
(* Properties                                                              *)

\* The handler whose "connected" is the newest the document has seen.
Newest(c) ==
  /\ device.status # "absent"
  /\ verEpoch[c] = epoch
  /\ ver[c] # 0
  /\ ver[c] = device.version

\* A device shown as connected is being served by the newest handler, with its
\* subject subscribed, unless that handler's closing write was lost: no
\* interleaving of opening and closing handlers leaves "connected" behind.
ShownIsServed ==
  device.status = "connected" =>
    \E c \in Conns : Newest(c) /\ (Serving(c) \/ offline[c] = "lost")

\* While the newest handler serves, the device is shown as connected: a
\* handler that was superseded never takes it off line.  Only one opened
\* before the document was last deleted can (its version is counted anew).
NewestIsShown ==
  \A c \in Conns :
    Newest(c) /\ Serving(c) =>
      \/ device.status = "connected"
      \/ device.status = "disconnected" /\ verEpoch[offBy] < epoch

\* SetDeviceConnected gives every handler a version of its own for as long as
\* the document lives, and none is beyond the document's.
VersionsDistinct ==
  \A c, d \in Conns :
    /\ ver[c] # 0 /\ verEpoch[c] = epoch =>
         device.status # "absent" /\ ver[c] <= device.version
    /\ c # d /\ ver[c] # 0 /\ ver[c] = ver[d] => verEpoch[c] # verEpoch[d]

\* A device that was deleted comes back by provisioning or by a connection of
\* its own, never by the closing write of a handler that outlived the deletion,
\* and a document that was never connected is never shown "disconnected".
NoResurrection ==
  [][device.status \in {"absent", "unknown"} =>
       device'.status # "disconnected"]_vars

\* Once either goroutine stops, both do and the websocket is closed, whatever
\* the shutdown does to the mutex and whoever stops first.
HandlerCloses ==
  \A c \in Conns :
    (pc[c] = "leaving" \/ writer[c] = "done")
      ~> (pc[c] \in {"done", "killed"} /\ writer[c] # "running")

\* What makes the invariants above inductive: which handlers have a version,
\* that no version is from a life to come, that "unknown" is the status of a
\* document never connected, and who wrote "disconnected".
HandlersVersioned ==
  \A c \in Conns :
    /\ pc[c] \in {"idle", "registering", "connecting"} =>
         ver[c] = 0 /\ offline[c] = "pending"
    /\ Serving(c) => ver[c] # 0 /\ offline[c] = "pending"
    /\ verEpoch[c] <= epoch

VersionCountsConnects ==
  IF device.status \in {"absent", "unknown"}
    THEN device.version = 0
    ELSE \E c \in Conns : Newest(c)

OffByItsVersion ==
  device.status = "disconnected" =>
    /\ offBy \in Conns
    /\ ver[offBy] = device.version
    /\ ~Serving(offBy)

IInv ==
  /\ TypeOK
  /\ HandlersVersioned
  /\ VersionsDistinct
  /\ VersionCountsConnects
  /\ OffByItsVersion
  /\ ShownIsServed

\* The detailed handlers and their version counter keep the lease's promise.
Holder == IF \E c \in Conns : Newest(c)
            THEN CHOOSE c \in Conns : Newest(c)
            ELSE NoConn
Open == {c \in Conns : Serving(c) /\ verEpoch[c] = epoch}
Old == {c \in Conns : Serving(c) /\ verEpoch[c] # epoch}

Lease == INSTANCE DeviceLease WITH
  shown <- device.status, holder <- Holder, open <- Open, old <- Old

\* Every step of the handlers and of the store is a step of DeviceLease.
ImplementsLease == Lease!Spec

\* "update the device status on websocket closing" (api/http/device.go:323):
\* when the newest handler leaves, the device is no longer shown as connected.
LeavingMeansOffline ==
  [][\A c \in Conns :
       /\ pc[c] = "leaving"
       /\ pc'[c] \in {"reporting", "unregistering"}
       /\ Newest(c)
       => device'.status # "connected"]_vars
=============================================================================
