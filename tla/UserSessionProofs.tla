------------------------- MODULE UserSessionProofs -------------------------
(***************************************************************************)
(* The safety of UserSession for any limit and any combination of faults:  *)
(* the audit log is in order and complete, the row is freed, and no shell  *)
(* is left behind.  Reader and writer share the row, which either may      *)
(* delete; who finds it logs the closes, and the row is never created      *)
(* twice.                                                                  *)
(***************************************************************************)
EXTENDS UserSession, TLAPS

\* Until the websocket is open there is no writer and nothing was handled.
BeforeStart ==
  pc["reader"] \in {"prepare", "start"} =>
    /\ pc["writer"] = "none" /\ ~handled
    /\ lastShell = "none" /\ types = {}
    /\ pc["reader"] = "prepare" => ~row

\* Whoever has tried to delete the row has deleted it, if the store worked.
RowDeleted ==
  "store" \notin faults =>
    /\ pc["reader"] \in {"logClose", "freed", "done"} => ~row
    /\ pc["writer"] \in {"logClose", "freed"} \/ handled => ~row

\* The reader knows of a shell it started, until it has stopped it.
ShellKnown ==
  "nats" \notin faults /\ lastShell = "spawn" =>
    running /\ pc["reader"] \notin {"free", "logClose", "freed", "done"}

\* One goroutine at most logs closes, the one that found the row, and each
\* close once and for an open that was logged before.
ClosesOnce ==
  /\ \A p \in Proc : pc[p] = "logClose" =>
       /\ HaveAuditLogs /\ ~row
       /\ \A u \in toClose[p] : closed[u] = 0
  /\ ~(pc["reader"] = "logClose" /\ pc["writer"] = "logClose")
  /\ row \/ pc["reader"] = "prepare" => \A u \in Uses : closed[u] = 0
  /\ \A u \in Uses : closed[u] <= 1 /\ closed[u] <= opened[u]

\* What a goroutine knows to be open was logged.
OpensLogged ==
  /\ HaveAuditLogs =>
       /\ \A u \in types \union used : opened[u] > 0
       /\ \A p \in Proc : \A u \in toClose[p] : opened[u] > 0
  /\ pc["reader"] = "append" /\ HaveAuditLogs =>
       \A u \in UseOf(msg) : opened[u] > 0
  /\ pc["reader"] = "publish" => UseOf(msg) \subseteq types
  /\ pc["reader"] \in {"logOpen", "append"} => UseOf(msg) \intersect types = {}
  /\ pc["reader"] = "cleanUp" => "audit" \in faults

\* A use is logged before the reader adds it to session.Types.
Logged(u) == u \in types \/ (pc["reader"] = "append" /\ u \in UseOf(msg))

\* Without a fault, a use is opened once, and once the row is gone each use the
\* session has is closed, about to be, or came too late for the writer.
ClosesAll ==
  faults = {} =>
    /\ \A u \in Uses :
         opened[u] = IF HaveAuditLogs /\ Logged(u) THEN 1 ELSE 0
    /\ pc["reader"] = "free" => types \subseteq toClose["reader"]
    /\ pc["writer"] = "free" => types \subseteq toClose["writer"] \union late
    /\ ~row /\ HaveAuditLogs =>
         \A u \in types :
           \/ closed[u] = 1
           \/ u \in late
           \/ \E p \in Proc : pc[p] = "logClose" /\ u \in toClose[p]
    /\ ~row /\ pc["reader"] \in {"start", "reading", "logOpen", "append",
                                "publish"} => FreeingBegan

\* What the reader's and the writer's places and the shared state agree on.
IInv ==
  /\ BeforeStart
  /\ RowDeleted
  /\ ShellKnown
  /\ ClosesOnce
  /\ OpensLogged
  /\ ClosesAll

-----------------------------------------------------------------------------
\* A message is of one use at most.
LEMMA UseOfType ==
  ASSUME NEW m \in UserMessages
  PROVE  /\ UseOf(m) \subseteq Uses
         /\ \A u, v \in UseOf(m) : u = v
  BY DEF UserMessages, UseOf, Uses

\* Every variable keeps its type.
THEOREM TypeCorrect == Spec => []TypeOK
  <1> USE LimitAssumption
      DEF TypeOK, ReaderPc, WriterPc, Proc, Goto,
          storeVars, readerVars, writerVars, deviceVars
  <1>1. ASSUME Init PROVE TypeOK
    <2>1. /\ pc \in [Proc -> ReaderPc \union WriterPc]
          /\ pc["reader"] \in ReaderPc /\ pc["writer"] \in WriterPc
      BY <1>1 DEF Init
    <2>2. msg \in UserMessages
      BY <1>1 DEF Init, UserMessages
    <2>3. /\ row \in BOOLEAN /\ readErr \in BOOLEAN /\ running \in BOOLEAN
          /\ over \in BOOLEAN /\ handled \in BOOLEAN /\ told \in BOOLEAN
      BY <1>1 DEF Init
    <2>4. /\ opened \in [Uses -> Nat] /\ closed \in [Uses -> Nat]
          /\ toClose \in [Proc -> SUBSET Uses]
      BY <1>1 DEF Init
    <2>5. QED
      BY <1>1, <2>1, <2>2, <2>3, <2>4 DEF Init
  <1>2. ASSUME TypeOK, PrepareRefused PROVE TypeOK'
    BY <1>2 DEF PrepareRefused
  <1>3. ASSUME TypeOK, AllocateSession PROVE TypeOK'
    BY <1>3 DEF AllocateSession
  <1>4. ASSUME TypeOK, AllocateSessionUnanswered PROVE TypeOK'
    BY <1>4 DEF AllocateSessionUnanswered, Fault
  <1>5. ASSUME TypeOK, Start PROVE TypeOK'
    BY <1>5 DEF Start
  <1>6. ASSUME TypeOK, StartFails PROVE TypeOK'
    BY <1>6 DEF StartFails, StartFailureGoesTo
  <1>7. ASSUME TypeOK, ReadMessage PROVE TypeOK'
    BY <1>7 DEF ReadMessage
  <1>8. ASSUME TypeOK, ReadEnds PROVE TypeOK'
    BY <1>8 DEF ReadEnds
  <1>9. ASSUME TypeOK, LogUserSession PROVE TypeOK'
    BY <1>9, UseOfType DEF LogUserSession
  <1>9a. ASSUME TypeOK, AppendType PROVE TypeOK'
    BY <1>9a, UseOfType DEF AppendType, TypesAfter
  <1>10. ASSUME TypeOK, LogUserSessionFails PROVE TypeOK'
    BY <1>10, UseOfType DEF LogUserSessionFails, Fault
  <1>11. ASSUME TypeOK, CleanUpSession PROVE TypeOK'
    BY <1>11, ZenonT(30) DEF CleanUpSession, Fault
  <1>12. ASSUME TypeOK, Publish PROVE TypeOK'
    BY <1>12, UseOfType DEF Publish, RunningAfter
  <1>13. ASSUME TypeOK, PublishFails PROVE TypeOK'
    BY <1>13 DEF PublishFails, RunningAfter, Fault
  <1>14. ASSUME TypeOK, DropResize PROVE TypeOK'
    BY <1>14 DEF DropResize
  <1>15. ASSUME TypeOK, LeaveError PROVE TypeOK'
    BY <1>15 DEF LeaveError
  <1>16. ASSUME TypeOK, StopShell PROVE TypeOK'
    BY <1>16, ZenonT(30) DEF StopShell, Fault
  <1>17. ASSUME TypeOK, Return PROVE TypeOK'
    BY <1>17 DEF Return
  <1>18. ASSUME TypeOK, NEW p \in Proc, DeleteSession(p) PROVE TypeOK'
    BY <1>18, ZenonT(30) DEF DeleteSession
  <1>19. ASSUME TypeOK, NEW p \in Proc, DeleteSessionNotFound(p) PROVE TypeOK'
    BY <1>19 DEF DeleteSessionNotFound
  <1>20. ASSUME TypeOK, NEW p \in Proc, DeleteSessionFails(p) PROVE TypeOK'
    <2>1. faults' \subseteq faults \union {"store", "cancelled"}
      BY <1>20 DEF DeleteSessionFails, Fault
    <2>2. row' \in BOOLEAN
      BY <1>20 DEF DeleteSessionFails
    <2>3. QED
      BY <1>20, <2>1, <2>2 DEF DeleteSessionFails
  <1>21. ASSUME TypeOK, NEW p \in Proc, LogClose(p) PROVE TypeOK'
    BY <1>21 DEF LogClose
  <1>22. ASSUME TypeOK, NEW p \in Proc, LogCloseFails(p) PROVE TypeOK'
    <2>1. faults' \subseteq faults \union {"audit", "cancelled"}
      BY <1>22 DEF LogCloseFails, Fault
    <2>2. closed' \in [Uses -> Nat]
      BY <1>22 DEF LogCloseFails
    <2>3. QED
      BY <1>22, <2>1, <2>2 DEF LogCloseFails
  <1>23. ASSUME TypeOK, NEW p \in Proc, LogCloseEnds(p) PROVE TypeOK'
    BY <1>23 DEF LogCloseEnds
  <1>24. ASSUME TypeOK, LimitStop PROVE TypeOK'
    <2>1. /\ lastShell' \in {"none", "spawn", "stop"}
          /\ faults' \subseteq faults \union {"nats"}
      BY <1>24 DEF LimitStop, Fault
    <2>2. QED
      BY <1>24, <2>1 DEF LimitStop
  <1>24a. ASSUME TypeOK, ReadTypes PROVE TypeOK'
    BY <1>24a DEF ReadTypes
  <1>25. ASSUME TypeOK, LimitHandled PROVE TypeOK'
    BY <1>25 DEF LimitHandled
  <1>26. ASSUME TypeOK, Record PROVE TypeOK'
    BY <1>26 DEF Record, BelowLimit
  <1>27. ASSUME TypeOK, OverLimit PROVE TypeOK'
    BY <1>27 DEF OverLimit
  <1>28. ASSUME TypeOK, ReceiveOther PROVE TypeOK'
    BY <1>28 DEF ReceiveOther
  <1>29. ASSUME TypeOK, Forward PROVE TypeOK'
    BY <1>29 DEF Forward
  <1>30. ASSUME TypeOK, WriterFails PROVE TypeOK'
    BY <1>30 DEF WriterFails
  <1>31. ASSUME TypeOK, WriterEnds PROVE TypeOK'
    BY <1>31 DEF WriterEnds
  <1>32. ASSUME TypeOK, DeleteTenant PROVE TypeOK'
    <2> HIDE DEF ReaderPc, WriterPc, Proc
    <2>1. row' = FALSE /\ faults' = faults \union {"tenant"}
      BY <1>32 DEF DeleteTenant, Fault
    <2>2. UNCHANGED <<opened, closed, readerVars, writerVars, deviceVars,
                      pc, toClose>>
      BY <1>32 DEF DeleteTenant
    <2>3. QED
      BY <1>32, <2>1, <2>2
  <1>33. ASSUME TypeOK, UNCHANGED vars PROVE TypeOK'
    BY <1>33 DEF vars
  <1>34. TypeOK /\ [Next]_vars => TypeOK'
    BY <1>2, <1>3, <1>4, <1>5, <1>6, <1>7, <1>8, <1>9, <1>9a, <1>10, <1>11,
       <1>12, <1>13, <1>14, <1>15, <1>16, <1>17, <1>18, <1>19, <1>20,
       <1>21, <1>22, <1>23, <1>24, <1>24a, <1>25, <1>26, <1>27, <1>28, <1>29,
       <1>30, <1>31, <1>32, <1>33
       DEF Next, ReaderNext, WriterNext, FreeNext
  <1>35. QED
    BY <1>1, <1>34, PTL DEF Spec

-----------------------------------------------------------------------------
\* The conjuncts of IInv hold together in every reachable state.
THEOREM Inductive == Spec => []IInv
  <1> USE DEF IInv, BeforeStart, RowDeleted, ShellKnown, ClosesOnce,
              OpensLogged, ClosesAll, Logged, TypeOK, Proc, Goto,
              storeVars, readerVars, writerVars, deviceVars
  <1>1. ASSUME Init PROVE IInv
    BY <1>1 DEF Init, Uses
  <1>2. ASSUME TypeOK, IInv, PrepareRefused PROVE IInv'
    BY <1>2 DEF PrepareRefused
  <1>3. ASSUME TypeOK, IInv, AllocateSession PROVE IInv'
    BY <1>3 DEF AllocateSession, FreeingBegan
  <1>4. ASSUME TypeOK, IInv, AllocateSessionUnanswered PROVE IInv'
    BY <1>4 DEF AllocateSessionUnanswered, Fault
  <1>5. ASSUME TypeOK, IInv, Start PROVE IInv'
    BY <1>5 DEF Start, FreeingBegan
  <1>6. ASSUME TypeOK, IInv, StartFails PROVE IInv'
    BY <1>6 DEF StartFails, StartFailureGoesTo
  <1>7. ASSUME TypeOK, IInv, ReadMessage PROVE IInv'
    BY <1>7, UseOfType DEF ReadMessage, LogsFirst, FreeingBegan
  <1>8. ASSUME TypeOK, IInv, ReadEnds PROVE IInv'
    BY <1>8 DEF ReadEnds
  <1>9. ASSUME TypeOK, IInv, LogUserSession PROVE IInv'
    <2>1. BeforeStart' /\ RowDeleted' /\ ShellKnown'
      BY <1>9 DEF LogUserSession
    <2>2. ClosesOnce'
      BY <1>9, UseOfType DEF LogUserSession
    <2>3. OpensLogged'
      BY <1>9, UseOfType DEF LogUserSession
    \* The use was not logged before, and is not in types yet.
    <2>4. ClosesAll'
      BY <1>9, UseOfType DEF LogUserSession, FreeingBegan
    <2>5. QED
      BY <2>1, <2>2, <2>3, <2>4
  <1>9a. ASSUME TypeOK, IInv, AppendType PROVE IInv'
    <2>1. BeforeStart' /\ RowDeleted' /\ ShellKnown' /\ ClosesOnce'
      BY <1>9a DEF AppendType
    <2>2. OpensLogged'
      BY <1>9a, UseOfType DEF AppendType, TypesAfter
    \* Without a row the writer has begun to free the session: the use is late.
    <2>3. ClosesAll'
      BY <1>9a, UseOfType DEF AppendType, TypesAfter, FreeingBegan
    <2>4. QED
      BY <2>1, <2>2, <2>3
  <1>10. ASSUME TypeOK, IInv, LogUserSessionFails PROVE IInv'
    BY <1>10, UseOfType DEF LogUserSessionFails, Fault
  <1>11. ASSUME TypeOK, IInv, CleanUpSession PROVE IInv'
    <2>1. /\ row' \in {row, FALSE}
          /\ faults \subseteq faults'
          /\ faults' \subseteq faults \union {"store"}
          /\ UNCHANGED <<opened, closed, types, toClose, msg, running,
                         writerVars, deviceVars>>
      BY <1>11 DEF CleanUpSession, Fault
    <2>2. /\ pc["reader"] = "cleanUp" /\ pc'["reader"] = "leaving"
          /\ pc'["writer"] = pc["writer"]
      BY <1>11 DEF CleanUpSession
    <2>3. faults' # {}
      BY <1>11, <2>1, <2>2
    <2>4. BeforeStart' /\ ShellKnown' /\ OpensLogged'
      BY <1>11, <2>1, <2>2
    <2>5. RowDeleted' /\ ClosesOnce'
      <3>1. CASE row' = row
        BY <1>11, <2>1, <2>2, <3>1
      <3>2. CASE row' = FALSE
        BY <1>11, <2>1, <2>2, <3>2
      <3>3. QED
        BY <2>1, <3>1, <3>2
    <2>6. QED
      BY <2>1, <2>3, <2>4, <2>5
  <1>12. ASSUME TypeOK, IInv, Publish PROVE IInv'
    BY <1>12, UseOfType DEF Publish, RunningAfter, FreeingBegan
  <1>13. ASSUME TypeOK, IInv, PublishFails PROVE IInv'
    BY <1>13 DEF PublishFails, RunningAfter, Fault
  <1>14. ASSUME TypeOK, IInv, DropResize PROVE IInv'
    BY <1>14 DEF DropResize, FreeingBegan
  <1>15. ASSUME TypeOK, IInv, LeaveError PROVE IInv'
    BY <1>15 DEF LeaveError
  <1>16. ASSUME TypeOK, IInv, StopShell PROVE IInv'
    <2>1. BeforeStart' /\ RowDeleted' /\ ClosesOnce' /\ OpensLogged'
      BY <1>16 DEF StopShell, Fault
    \* A shell that was started is known to be running.
    <2>2. ShellKnown'
      BY <1>16 DEF StopShell, Fault
    \* What is to be closed is what was logged.
    <2>3. ClosesAll'
      BY <1>16 DEF StopShell, Fault
    <2>4. QED
      BY <2>1, <2>2, <2>3
  <1>17. ASSUME TypeOK, IInv, Return PROVE IInv'
    BY <1>17 DEF Return
  <1>18. ASSUME TypeOK, IInv, NEW p \in Proc, DeleteSession(p) PROVE IInv'
    <2>1. BeforeStart' /\ RowDeleted' /\ ShellKnown' /\ OpensLogged'
      BY <1>18 DEF DeleteSession, FindsRow
    \* The row was there: nobody else logs closes, and none was logged.
    <2>2. ClosesOnce'
      BY <1>18 DEF DeleteSession, FindsRow
    \* What was opened is in toClose[p], or was late.
    <2>3. ClosesAll'
      BY <1>18 DEF DeleteSession, FindsRow, FreeingBegan
    <2>4. QED
      BY <2>1, <2>2, <2>3
  <1>19. ASSUME TypeOK, IInv, NEW p \in Proc, DeleteSessionNotFound(p)
         PROVE  IInv'
    BY <1>19 DEF DeleteSessionNotFound, FindsRow, FreeingBegan
  <1>20. ASSUME TypeOK, IInv, NEW p \in Proc, DeleteSessionFails(p) PROVE IInv'
    <2>1. /\ row' \in {row, FALSE} /\ faults \subseteq faults' /\ faults' # {}
          /\ pc[p] = "free" /\ pc' = [pc EXCEPT ![p] = "freed"]
          /\ UNCHANGED <<opened, closed, readerVars, writerVars, deviceVars,
                         toClose>>
      BY <1>20 DEF DeleteSessionFails, Fault
    <2>2. CASE row' = row
      BY <1>20, <2>1, <2>2 DEF DeleteSessionFails, Fault, Cancelled, CtxDone
    <2>3. CASE row' = FALSE
      BY <1>20, <2>1, <2>3
    <2>4. QED
      BY <2>1, <2>2, <2>3
  <1>21. ASSUME TypeOK, IInv, NEW p \in Proc, LogClose(p) PROVE IInv'
    <2>1. BeforeStart' /\ RowDeleted' /\ ShellKnown' /\ OpensLogged'
      BY <1>21 DEF LogClose
    \* Its close was not logged and its open was.
    <2>2. ClosesOnce'
      BY <1>21 DEF LogClose
    <2>3. ClosesAll'
      BY <1>21 DEF LogClose, FreeingBegan
    <2>4. QED
      BY <2>1, <2>2, <2>3
  <1>22. ASSUME TypeOK, IInv, NEW p \in Proc, LogCloseFails(p) PROVE IInv'
    BY <1>22 DEF LogCloseFails, Fault, FreeingBegan
  <1>23. ASSUME TypeOK, IInv, NEW p \in Proc, LogCloseEnds(p) PROVE IInv'
    BY <1>23 DEF LogCloseEnds, FreeingBegan
  <1>24. ASSUME TypeOK, IInv, LimitStop PROVE IInv'
    BY <1>24 DEF LimitStop, Fault, FreeingBegan
  <1>24a. ASSUME TypeOK, IInv, ReadTypes PROVE IInv'
    BY <1>24a DEF ReadTypes, FreeingBegan
  <1>25. ASSUME TypeOK, IInv, LimitHandled PROVE IInv'
    BY <1>25 DEF LimitHandled, FreeingBegan
  <1>26. ASSUME TypeOK, IInv, Record PROVE IInv'
    BY <1>26 DEF Record, FreeingBegan
  <1>27. ASSUME TypeOK, IInv, OverLimit PROVE IInv'
    BY <1>27 DEF OverLimit, FreeingBegan
  <1>28. ASSUME TypeOK, IInv, ReceiveOther PROVE IInv'
    BY <1>28 DEF ReceiveOther, FreeingBegan
  <1>29. ASSUME TypeOK, IInv, Forward PROVE IInv'
    BY <1>29 DEF Forward, FreeingBegan
  <1>30. ASSUME TypeOK, IInv, WriterFails PROVE IInv'
    BY <1>30 DEF WriterFails, FreeingBegan
  <1>31. ASSUME TypeOK, IInv, WriterEnds PROVE IInv'
    BY <1>31 DEF WriterEnds, FreeingBegan
  <1>32. ASSUME TypeOK, IInv, DeleteTenant PROVE IInv'
    BY <1>32 DEF DeleteTenant, Fault, FreeingBegan
  <1>33. ASSUME TypeOK, IInv, UNCHANGED vars PROVE IInv'
    BY <1>33 DEF vars, FreeingBegan
  <1> HIDE DEF IInv, TypeOK
  <1>34. TypeOK /\ IInv /\ [Next]_vars => IInv'
    BY <1>2, <1>3, <1>4, <1>5, <1>6, <1>7, <1>8, <1>9, <1>9a, <1>10, <1>11,
       <1>12, <1>13, <1>14, <1>15, <1>16, <1>17, <1>18, <1>19, <1>20,
       <1>21, <1>22, <1>23, <1>24, <1>24a, <1>25, <1>26, <1>27, <1>28, <1>29,
       <1>30, <1>31, <1>32, <1>33
       DEF Next, ReaderNext, WriterNext, FreeNext
  <1>35. QED
    BY <1>1, <1>34, TypeCorrect, PTL DEF Spec
-----------------------------------------------------------------------------
\* The audit log is in order whatever the two goroutines and the services do:
\* a use is logged before a message of it reaches the device, and its close at
\* most once, after its open.
THEOREM AuditInOrderHolds == Spec => []AuditInOrder
  <1>1. IInv => AuditInOrder
    BY DEF IInv, AuditInOrder, ClosesOnce, OpensLogged
  <1>2. QED
    BY <1>1, Inductive, PTL

\* The audit log of a session that ended without a fault is balanced but for
\* the uses appended to session.Types after the writer had read it to free the
\* session.
THEOREM AuditCompleteHolds == Spec => []AuditComplete
  <1>1. TypeOK /\ IInv => AuditComplete
    <2> SUFFICES ASSUME TypeOK, IInv,
                        pc["reader"] = "done",
                        pc["writer"] \in {"none", "done"},
                        faults = {}, NEW u \in Uses, u \notin late
                 PROVE  closed[u] = opened[u]
      BY DEF AuditComplete
    <2>1. ~row
      BY DEF IInv, RowDeleted
    <2>2. closed[u] <= opened[u] /\ closed[u] \in Nat /\ opened[u] \in Nat
      BY DEF IInv, ClosesOnce, TypeOK
    <2>3. CASE HaveAuditLogs /\ u \in types
      <3>1. \A p \in Proc : pc[p] # "logClose"
        BY DEF Proc
      <3>2. closed[u] = 1 /\ opened[u] = 1
        BY <2>1, <2>3, <3>1 DEF IInv, ClosesAll, Logged
      <3>3. QED
        BY <3>2
    <2>4. CASE ~(HaveAuditLogs /\ u \in types)
      BY <2>2, <2>4 DEF IInv, ClosesAll, Logged
    <2>5. QED
      BY <2>3, <2>4
  <1>2. QED
    BY <1>1, Inductive, TypeCorrect, PTL

\* No session leaves its row behind unless the store failed.
THEOREM RowFreedHolds == Spec => []RowFreed
  <1>1. IInv => RowFreed
    BY DEF IInv, RowFreed, RowDeleted
  <1>2. QED
    BY <1>1, Inductive, PTL

\* However the session ends, the shell it started was told to stop, unless
\* publishing failed.
THEOREM NoOrphanShellHolds == Spec => []NoOrphanShell
  <1>1. IInv => NoOrphanShell
    BY DEF IInv, NoOrphanShell, ShellKnown
  <1>2. QED
    BY <1>1, Inductive, PTL
=============================================================================
