---------------------------- MODULE UserSession ----------------------------
(***************************************************************************)
(* One call of GET /management/v1/.../devices/{id}/connect: a user's       *)
(* session with a device.                                                  *)
(*                                                                         *)
(* The reader, the handler's own goroutine, stores the session's row,      *)
(* reads the user's websocket, writes an audit log the first time the      *)
(* session uses a terminal or a tunnel, publishes what it reads to the     *)
(* device, and at its end frees the session: it deletes the row and logs   *)
(* the close of everything that was opened.  The writer, started by the    *)
(* reader, forwards the device's messages to the user, is the one that     *)
(* closes the websocket, and once the session has recorded too much stops  *)
(* the device's shell and frees the session too, while the reader goes on. *)
(***************************************************************************)
EXTENDS Naturals, FiniteSets

CONSTANTS
  HaveAuditLogs,  \* the service's configuration
  Limit,          \* app.MessageSizeLimit, in messages of device output
  StoreFaults,    \* whether a store operation may fail
  AuditFaults,    \* whether the workflows service may fail
  NatsFaults,     \* whether publishing or subscribing may fail
  TenantDeletes   \* whether the tenant may be deleted meanwhile

ASSUME SwitchesAssumption ==
  /\ HaveAuditLogs \in BOOLEAN
  /\ StoreFaults \in BOOLEAN
  /\ AuditFaults \in BOOLEAN
  /\ NatsFaults \in BOOLEAN
  /\ TenantDeletes \in BOOLEAN
ASSUME LimitAssumption == Limit \in Nat \ {0}

\* The uses of a session that are audited, and the goroutines.
Uses == {"terminal", "tunnel"}
Proc == {"reader", "writer"}

\* What a user can send, as far as the reader tells messages apart: "input" is
\* any shell message but spawn and stop, "other" any other protocol.
UserMessages == {"spawn", "stop", "input", "tunnel", "other"}
UseOf(m) == CASE m \in {"spawn", "stop", "input"} -> {"terminal"}
              [] m = "tunnel" -> {"tunnel"}
              [] OTHER -> {}

VARIABLES
  row,        \* the session's document in the "sessions" collection
  types,      \* session.Types: the uses logged so far
  opened,     \* open events submitted to the audit log, by use
  closed,     \* close events submitted to the audit log, by use
  pc,         \* where each goroutine is
  toClose,    \* the uses whose close FreeUserSession still has to log
  msg,        \* the user's message the reader handles
  readErr,    \* the reader returns an error
  running,    \* remoteTerminalRunning
  errChan,    \* the channel from the reader to the writer
  recorded,   \* recordedBytes
  over,       \* sessOverLimit
  handled,    \* sessOverLimitHandled
  forwarded,  \* what the writer will send to the user: data or the error
  lastShell,  \* history: the last shell control published to the device
  used,       \* history: the uses of messages published to the device
  late,       \* history: uses added to types after the writer had read it
  told,       \* history: the user was sent "session byte limit exceeded"
  faults      \* history: which failures have happened

storeVars == <<row, opened, closed>>
readerVars == <<types, msg, readErr, running, errChan>>
writerVars == <<recorded, over, handled, forwarded, told>>
deviceVars == <<lastShell, used, late>>
vars == <<storeVars, readerVars, writerVars, deviceVars, pc, toClose, faults>>

ReaderPc == {"prepare", "start", "reading", "logOpen", "append", "cleanUp",
             "publish", "leaving", "closing", "free", "logClose", "freed", "done"}
WriterPc == {"none", "select", "limitStop", "readTypes", "free", "logClose",
             "freed", "forward", "done"}

TypeOK ==
  /\ row \in BOOLEAN
  /\ types \subseteq Uses
  /\ opened \in [Uses -> Nat]
  /\ closed \in [Uses -> Nat]
  /\ pc \in [Proc -> ReaderPc \union WriterPc]
  /\ pc["reader"] \in ReaderPc
  /\ pc["writer"] \in WriterPc
  /\ toClose \in [Proc -> SUBSET Uses]
  /\ msg \in UserMessages
  /\ readErr \in BOOLEAN
  /\ running \in BOOLEAN
  /\ errChan \in {"empty", "error", "closed"}
  /\ recorded \in 0 .. Limit
  /\ over \in BOOLEAN
  /\ handled \in BOOLEAN
  /\ forwarded \in {"data", "limitError"}
  /\ lastShell \in {"none", "spawn", "stop"}
  /\ used \subseteq Uses
  /\ late \subseteq Uses
  /\ told \in BOOLEAN
  /\ faults \subseteq {"store", "audit", "nats", "tenant", "cancelled"}

Init ==
  /\ row = FALSE
  /\ types = {}
  /\ opened = [u \in Uses |-> 0]
  /\ closed = [u \in Uses |-> 0]
  /\ pc = [p \in Proc |-> IF p = "reader" THEN "prepare" ELSE "none"]
  /\ toClose = [p \in Proc |-> {}]
  /\ msg = "other"
  /\ readErr = FALSE
  /\ running = FALSE
  /\ errChan = "empty"
  /\ recorded = 0
  /\ over = FALSE
  /\ handled = FALSE
  /\ forwarded = "data"
  /\ lastShell = "none"
  /\ used = {}
  /\ late = {}
  /\ told = FALSE
  /\ faults = {}

Goto(p, label) == pc' = [pc EXCEPT ![p] = label]

\* The handler has returned: the request's context is cancelled.
CtxDone == pc["reader"] = "done"

\* A call to the store, the audit log or NATS fails.
Fault(kind, enabled) == enabled /\ faults' = faults \union {kind}

-----------------------------------------------------------------------------
(* PrepareUserSession and Connect, up to the start of the goroutines       *)

\* The device is unknown or not connected, or the store fails.
PrepareRefused ==
  /\ pc["reader"] = "prepare"
  /\ Goto("reader", "done")
  /\ UNCHANGED <<storeVars, readerVars, writerVars, deviceVars, toClose, faults>>

AllocateSession ==
  /\ pc["reader"] = "prepare"
  /\ row' = TRUE
  /\ Goto("reader", "start")
  /\ UNCHANGED <<opened, closed, readerVars, writerVars, deviceVars,
                 toClose, faults>>

\* The row is stored but the handler is told otherwise, and returns.
AllocateSessionUnanswered ==
  /\ pc["reader"] = "prepare"
  /\ Fault("store", StoreFaults)
  /\ row' = TRUE
  /\ Goto("reader", "done")
  /\ UNCHANGED <<opened, closed, readerVars, writerVars, deviceVars, toClose>>

\* ChanSubscribe and Upgrade succeed: the writer starts, the reader reads.
Start ==
  /\ pc["reader"] = "start"
  /\ pc' = [pc EXCEPT !["reader"] = "reading", !["writer"] = "select"]
  /\ UNCHANGED <<storeVars, readerVars, writerVars, deviceVars, toClose, faults>>

\* Mutation: FreeUserSession is deferred only once the websocket is open.
ReturnsAtOnce == "freed"

\* FreeUserSession is deferred as soon as the session is prepared.
StartFailureGoesTo == "free"

\* The session's subject cannot be subscribed, or the request not upgraded.
StartFails ==
  /\ pc["reader"] = "start"
  /\ toClose' = [toClose EXCEPT !["reader"] = types]
  /\ Goto("reader", StartFailureGoesTo)
  /\ UNCHANGED <<storeVars, readerVars, writerVars, deviceVars, faults>>

-----------------------------------------------------------------------------
(* The reader: connectServeWSProcessMessages                               *)

\* The writer's end closes the websocket; what was received can still be read.
ConnOpen == pc["writer"] # "done"

\* The first message of a use is logged before it is handled.
LogsFirst(m) == UseOf(m) \ types # {}

ReadMessage ==
  /\ pc["reader"] = "reading"
  /\ \E m \in UserMessages :
       /\ msg' = m
       /\ Goto("reader", IF LogsFirst(m) THEN "logOpen" ELSE "publish")
  /\ UNCHANGED <<storeVars, types, readErr, running, errChan,
                 writerVars, deviceVars, toClose, faults>>

\* A close frame ends the loop without an error, anything else with one: a
\* websocket that broke or was closed, a message that cannot be decoded.
ReadEnds ==
  /\ pc["reader"] = "reading"
  /\ readErr' \in BOOLEAN
  /\ Goto("reader", "leaving")
  /\ UNCHANGED <<storeVars, types, msg, running, errChan,
                 writerVars, deviceVars, toClose, faults>>

\* LogUserSession: the event is submitted and answered.
LogUserSession ==
  /\ pc["reader"] = "logOpen"
  /\ opened' = IF HaveAuditLogs
                 THEN [u \in Uses |-> IF u \in UseOf(msg) THEN opened[u] + 1
                                                          ELSE opened[u]]
                 ELSE opened
  /\ Goto("reader", "append")
  /\ UNCHANGED <<row, closed, readerVars, writerVars, deviceVars, toClose, faults>>

\* Mutation: a logged use is not added to the session's types.
TypesForgotten(m) == types

TypesAfter(m) == types \union UseOf(m)

\* The writer has read session.Types and frees, or has freed, the session.
FreeingBegan == handled \/ pc["writer"] \in {"free", "logClose", "freed"}

\* Back in the handler, the use is appended to session.Types, which the writer
\* may have read meanwhile: nothing guards it.
AppendType ==
  /\ pc["reader"] = "append"
  /\ types' = TypesAfter(msg)
  /\ late' = IF FreeingBegan THEN late \union UseOf(msg) ELSE late
  /\ Goto("reader", "publish")
  /\ UNCHANGED <<storeVars, msg, readErr, running, errChan,
                 writerVars, lastShell, used, toClose, faults>>

\* SubmitAuditLog fails, the event submitted or not; the row is cleaned up next.
LogUserSessionFails ==
  /\ pc["reader"] = "logOpen"
  /\ HaveAuditLogs
  /\ Fault("audit", AuditFaults)
  /\ \/ opened' = opened
     \/ opened' = [u \in Uses |-> IF u \in UseOf(msg) THEN opened[u] + 1
                                                      ELSE opened[u]]
  /\ Goto("reader", "cleanUp")
  /\ UNCHANGED <<row, closed, readerVars, writerVars, deviceVars, toClose>>

\* LogUserSession's own DeleteSession; its result changes the error's text only.
CleanUpSession ==
  /\ pc["reader"] = "cleanUp"
  /\ \/ row' = FALSE /\ UNCHANGED faults
     \/ row' \in {row, FALSE} /\ Fault("store", StoreFaults)
  /\ readErr' = TRUE
  /\ Goto("reader", "leaving")
  /\ UNCHANGED <<opened, closed, types, msg, running, errChan,
                 writerVars, deviceVars, toClose>>

\* Mutation: a spawned shell is not remembered.
ForgetsSpawn(m) == running /\ m # "stop"

\* remoteTerminalRunning after message m.
RunningAfter(m) == m = "spawn" \/ (running /\ m # "stop")

Publish ==
  /\ pc["reader"] = "publish"
  /\ running' = RunningAfter(msg)
  /\ lastShell' = IF msg \in {"spawn", "stop"} THEN msg ELSE lastShell
  /\ used' = used \union UseOf(msg)
  /\ Goto("reader", "reading")
  /\ UNCHANGED <<storeVars, types, msg, readErr, errChan,
                 writerVars, late, toClose, faults>>

PublishFails ==
  /\ pc["reader"] = "publish"
  /\ Fault("nats", NatsFaults)
  /\ running' = RunningAfter(msg)
  /\ readErr' = TRUE
  /\ Goto("reader", "leaving")
  /\ UNCHANGED <<storeVars, types, msg, errChan, writerVars, deviceVars, toClose>>

\* A resize that would exceed the control recording is dropped, not published.
DropResize ==
  /\ pc["reader"] = "publish"
  /\ msg = "input"
  /\ Goto("reader", "reading")
  /\ UNCHANGED <<storeVars, readerVars, writerVars, deviceVars, toClose, faults>>

\* ConnectServeWS's deferred function: the error is left in errChan, which has
\* room for it, ...
LeaveError ==
  /\ pc["reader"] = "leaving"
  /\ errChan' = IF readErr THEN "error" ELSE errChan
  /\ Goto("reader", "closing")
  /\ UNCHANGED <<storeVars, types, msg, readErr, running,
                 writerVars, deviceVars, toClose, faults>>

\* ... a shell left running is stopped, errChan is closed, and the deferred
\* function of Connect calls FreeUserSession.
StopShell ==
  /\ pc["reader"] = "closing"
  /\ \/ /\ lastShell' = IF running THEN "stop" ELSE lastShell
        /\ UNCHANGED faults
     \/ /\ running
        /\ Fault("nats", NatsFaults)
        /\ UNCHANGED lastShell
  /\ errChan' = IF errChan = "empty" THEN "closed" ELSE errChan
  /\ toClose' = [toClose EXCEPT !["reader"] = types]
  /\ Goto("reader", "free")
  /\ UNCHANGED <<storeVars, types, msg, readErr, running,
                 writerVars, used, late>>

-----------------------------------------------------------------------------
(* FreeUserSession, called by the reader at its end and by the writer for  *)
(* a session over its limit                                                *)

\* Mutation: a row that is not there is not an error.
FreesAlways == TRUE

\* DeleteSession finds the row and deletes it in one operation.
FindsRow == row

\* With the reader's return the writer's calls are cancelled.
Cancelled(p) == p = "writer" /\ CtxDone

DeleteSession(p) ==
  /\ pc[p] = "free"
  /\ ~Cancelled(p)
  /\ FindsRow
  /\ row' = FALSE
  /\ Goto(p, IF HaveAuditLogs THEN "logClose" ELSE "freed")
  /\ UNCHANGED <<opened, closed, readerVars, writerVars, deviceVars,
                 toClose, faults>>

DeleteSessionNotFound(p) ==
  /\ pc[p] = "free"
  /\ ~FindsRow
  /\ Goto(p, "freed")
  /\ UNCHANGED <<storeVars, readerVars, writerVars, deviceVars, toClose, faults>>

DeleteSessionFails(p) ==
  /\ pc[p] = "free"
  /\ \/ Fault("store", StoreFaults) /\ row' \in {row, FALSE}
     \/ Fault("cancelled", Cancelled(p)) /\ UNCHANGED row
  /\ Goto(p, "freed")
  /\ UNCHANGED <<opened, closed, readerVars, writerVars, deviceVars, toClose>>

\* The uses are logged in the order they were opened, which nothing here
\* depends on: any order is allowed.
LogClose(p) ==
  /\ pc[p] = "logClose"
  /\ \E u \in toClose[p] :
       /\ closed' = [closed EXCEPT ![u] = @ + 1]
       /\ toClose' = [toClose EXCEPT ![p] = @ \ {u}]
  /\ ~Cancelled(p)
  /\ UNCHANGED <<row, opened, readerVars, writerVars, deviceVars, pc, faults>>

LogCloseFails(p) ==
  /\ pc[p] = "logClose"
  /\ toClose[p] # {}
  /\ Fault("audit", AuditFaults) \/ Fault("cancelled", Cancelled(p))
  /\ \/ UNCHANGED closed
     \/ \E u \in toClose[p] : closed' = [closed EXCEPT ![u] = @ + 1]
  /\ Goto(p, "freed")
  /\ UNCHANGED <<row, opened, readerVars, writerVars, deviceVars, toClose>>

LogCloseEnds(p) ==
  /\ pc[p] = "logClose"
  /\ toClose[p] = {}
  /\ Goto(p, "freed")
  /\ UNCHANGED <<storeVars, readerVars, writerVars, deviceVars, toClose, faults>>

Return ==
  /\ pc["reader"] = "freed"
  /\ Goto("reader", "done")
  /\ UNCHANGED <<storeVars, readerVars, writerVars, deviceVars, toClose, faults>>

-----------------------------------------------------------------------------
(* The writer: websocketWriter                                             *)

\* Mutation: one message too many is recorded.
BelowLimitPlusOne == recorded <= Limit

BelowLimit == recorded < Limit

\* Output of the device's shell is recorded and forwarded ...
Record ==
  /\ pc["writer"] = "select"
  /\ BelowLimit
  /\ recorded' = recorded + 1
  /\ forwarded' = "data"
  /\ Goto("writer", "forward")
  /\ UNCHANGED <<storeVars, readerVars, over, handled, told, deviceVars,
                 toClose, faults>>

\* ... until the limit is reached; then the limit is handled, once.
OverLimit ==
  /\ pc["writer"] = "select"
  /\ ~BelowLimit
  /\ over' = TRUE
  /\ forwarded' = IF handled THEN "data" ELSE "limitError"
  /\ Goto("writer", IF handled THEN "forward" ELSE "limitStop")
  /\ UNCHANGED <<storeVars, readerVars, recorded, handled, told, deviceVars,
                 toClose, faults>>

\* sendLimitErrDevice, best effort, ...
LimitStop ==
  /\ pc["writer"] = "limitStop"
  /\ \/ lastShell' = "stop" /\ UNCHANGED faults
     \/ UNCHANGED lastShell /\ Fault("nats", NatsFaults)
  /\ Goto("writer", "readTypes")
  /\ UNCHANGED <<storeVars, readerVars, writerVars, used, late, toClose>>

\* ... and the call of FreeUserSession: session.Types is read for its argument,
\* whatever the reader is doing with it.
ReadTypes ==
  /\ pc["writer"] = "readTypes"
  /\ toClose' = [toClose EXCEPT !["writer"] = types]
  /\ Goto("writer", "free")
  /\ UNCHANGED <<storeVars, readerVars, writerVars, deviceVars, faults>>

LimitHandled ==
  /\ pc["writer"] = "freed"
  /\ handled' = TRUE
  /\ Goto("writer", "forward")
  /\ UNCHANGED <<storeVars, readerVars, recorded, over, forwarded, told,
                 deviceVars, toClose, faults>>

\* A message of the device that is not recorded.
ReceiveOther ==
  /\ pc["writer"] = "select"
  /\ forwarded' = "data"
  /\ Goto("writer", "forward")
  /\ UNCHANGED <<storeVars, readerVars, recorded, over, handled, told,
                 deviceVars, toClose, faults>>

\* Nothing is written to the user any more once the session is over its limit.
Forward ==
  /\ pc["writer"] = "forward"
  /\ told' = (told \/ (~over /\ forwarded = "limitError"))
  /\ Goto("writer", "select")
  /\ UNCHANGED <<storeVars, readerVars, recorded, over, handled, forwarded,
                 deviceVars, toClose, faults>>

\* A write or a ping fails, or a message of the device cannot be decoded.
WriterFails ==
  /\ \/ pc["writer"] = "select"
     \/ pc["writer"] = "forward" /\ ~over
  /\ Goto("writer", "done")
  /\ UNCHANGED <<storeVars, readerVars, writerVars, deviceVars, toClose, faults>>

\* Mutation: errChan is never closed, and the context not watched.
WriterSeesErrorOnly == errChan = "error"

\* An error, a closed errChan or a cancelled context.
WriterSeesEnd == errChan # "empty" \/ CtxDone

WriterEnds ==
  /\ pc["writer"] = "select"
  /\ WriterSeesEnd
  /\ Goto("writer", "done")
  /\ UNCHANGED <<storeVars, readerVars, writerVars, deviceVars, toClose, faults>>

-----------------------------------------------------------------------------
\* DeleteTenant deletes the row of a session that is under way.
DeleteTenant ==
  /\ row
  /\ Fault("tenant", TenantDeletes)
  /\ row' = FALSE
  /\ UNCHANGED <<opened, closed, readerVars, writerVars, deviceVars, pc, toClose>>

FreeNext(p) ==
  \/ DeleteSession(p)
  \/ DeleteSessionNotFound(p)
  \/ DeleteSessionFails(p)
  \/ LogClose(p)
  \/ LogCloseFails(p)
  \/ LogCloseEnds(p)

\* What the reader does by itself, once it has something to do.
ReaderNext ==
  \/ Start \/ StartFails
  \/ LogUserSession \/ AppendType \/ LogUserSessionFails \/ CleanUpSession
  \/ Publish \/ PublishFails \/ DropResize
  \/ LeaveError \/ StopShell \/ FreeNext("reader") \/ Return

WriterNext ==
  \/ LimitStop \/ ReadTypes \/ FreeNext("writer") \/ LimitHandled \/ Forward

Next ==
  \/ PrepareRefused \/ AllocateSession \/ AllocateSessionUnanswered
  \/ ReaderNext
  \/ ReadMessage \/ ReadEnds
  \/ WriterNext
  \/ Record \/ OverLimit \/ ReceiveOther \/ WriterFails \/ WriterEnds
  \/ DeleteTenant

Spec == Init /\ [][Next]_vars

\* Goroutines that can run do run, and a read of a closed websocket fails once
\* the finitely many messages received before are read (SF).  A
\* select picks at random among the ready cases: the end is taken eventually,
\* however many messages the device sends (SF).
Fairness ==
  /\ WF_vars(ReaderNext)
  /\ SF_vars(ReadEnds /\ ~ConnOpen)
  /\ WF_vars(WriterNext)
  /\ SF_vars(WriterEnds)

FairSpec == Spec /\ Fairness

-----------------------------------------------------------------------------
(* Properties                                                              *)

\* The audit log of a use is in order although two goroutines free the session
\* and each use is logged when first seen: with audit logs on, no message of it
\* reaches the device before its open is logged, and its close is logged at most
\* once and never without an open.
AuditInOrder ==
  \A u \in Uses :
    /\ HaveAuditLogs /\ u \in used => opened[u] > 0
    /\ closed[u] <= 1 /\ closed[u] <= opened[u]

\* Of a session that ended, every use that was opened is closed in the audit log,
\* unless a service failed, the tenant was deleted, the handler's return
\* cancelled the writer's part of the freeing, or the writer, freeing a session
\* over its limit, had read session.Types before the use was appended to it (its
\* open may have been submitted before that).
AuditComplete ==
  /\ pc["reader"] = "done"
  /\ pc["writer"] \in {"none", "done"}
  /\ faults = {}
  => \A u \in Uses : closed[u] = opened[u] \/ u \in late

\* A session that ended, or was handled for being over its limit, leaves no row
\* behind unless the store failed.
RowFreed ==
  (pc["reader"] = "done" \/ handled) /\ "store" \notin faults => ~row

\* Whatever ends the session, a shell it spawned is told to stop, and the stop
\* is the last word, unless publishing failed.
NoOrphanShell ==
  pc["reader"] = "done" /\ "nats" \notin faults => lastShell # "spawn"

\* When either goroutine stops, both do: the websocket is closed and the handler
\* returns.
SessionEnds ==
  (pc["reader"] = "leaving" \/ pc["writer"] = "done")
    ~> (pc["reader"] = "done" /\ pc["writer"] \in {"none", "done"})

\* "override original message with shell error" (api/http/management.go:405):
\* the user of a session over its limit is sent the error.
LimitTold == handled /\ pc["writer"] = "select" => told
=============================================================================
