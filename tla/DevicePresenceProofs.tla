------------------------ MODULE DevicePresenceProofs ------------------------
(***************************************************************************)
(* The safety of DevicePresence for any number of handlers and instances,  *)
(* any placement of handlers and any combination of deletions, crashes,    *)
(* shutdowns and failures of the store.  IInv is inductive; the invariants *)
(* and the action property follow from it.                                 *)
(***************************************************************************)
EXTENDS DevicePresence, TLAPS

\* Every variable keeps its type.
THEOREM TypeCorrect == Spec => []TypeOK
  <1> USE ConnsAssumption, HostAssumption, BoundsAssumption
  <1>1. Init => TypeOK
    BY DEF Init, TypeOK, Absent, Handler
  <1>2. TypeOK /\ [Next]_vars => TypeOK'
    <2> SUFFICES ASSUME TypeOK, [Next]_vars PROVE TypeOK'
      OBVIOUS
    <2> USE DEF TypeOK, Handler
    <2>1. CASE ProvisionDevice
      BY <2>1 DEF ProvisionDevice
    <2>2. CASE DeleteDevice
      BY <2>2 DEF DeleteDevice, Absent
    <2>3. ASSUME NEW c \in Conns, Connect(c) \/ ConnectFails(c)
          PROVE TypeOK'
      BY <2>3 DEF Connect, ConnectFails
    <2>4. ASSUME NEW c \in Conns, Register(c)
          PROVE TypeOK'
      BY <2>4 DEF Register
    <2>5. ASSUME NEW c \in Conns, SetDeviceConnected(c)
          PROVE TypeOK'
      BY <2>5 DEF SetDeviceConnected, WriteConnected
    <2>6. ASSUME NEW c \in Conns, SetDeviceConnectedUnanswered(c)
          PROVE TypeOK'
      BY <2>6 DEF SetDeviceConnectedUnanswered, WriteConnected
    <2>7. ASSUME NEW c \in Conns, SetDeviceConnectedFails(c)
          PROVE TypeOK'
      BY <2>7 DEF SetDeviceConnectedFails
    <2>8. ASSUME NEW c \in Conns, SetDeviceDisconnected(c)
          PROVE TypeOK'
      BY <2>8 DEF SetDeviceDisconnected, AfterLeaving, Matches
    <2>9. ASSUME NEW c \in Conns, SetDeviceDisconnectedFails(c)
          PROVE TypeOK'
      BY <2>9 DEF SetDeviceDisconnectedFails, AfterLeaving
    <2>10. ASSUME NEW c \in Conns,
                  ReportError(c) \/ ReportTimeout(c) \/ Return(c) \/ ReadFails(c)
           PROVE TypeOK'
      BY <2>10 DEF ReportError, ReportTimeout, Return, ReadFails
    <2>11. ASSUME NEW c \in Conns, WriterEnds(c) \/ WriterFails(c)
           PROVE TypeOK'
      BY <2>11 DEF WriterEnds, WriterFails
    <2>12. ASSUME NEW i \in Instances, ShutdownBegins(i)
           PROVE TypeOK'
      BY <2>12 DEF ShutdownBegins
    <2>13. ASSUME NEW i \in Instances, ShutdownCancels(i)
           PROVE TypeOK'
      BY <2>13 DEF ShutdownCancels
    <2>14. ASSUME NEW i \in Instances, ShutdownEnds(i)
           PROVE TypeOK'
      BY <2>14 DEF ShutdownEnds
    <2>15. ASSUME NEW i \in Instances, ProcessEnds(i)
           PROVE TypeOK'
      BY <2>15 DEF ProcessEnds
    <2>16. CASE UNCHANGED vars
      BY <2>16 DEF vars
    <2>17. QED
      BY <2>1, <2>2, <2>3, <2>4, <2>5, <2>6, <2>7, <2>8, <2>9, <2>10,
         <2>11, <2>12, <2>13, <2>14, <2>15, <2>16 DEF Next, HandlerNext
  <1>3. QED
    BY <1>1, <1>2, PTL DEF Spec

-----------------------------------------------------------------------------
\* The parts of IInv that speak of versions and of who wrote the status.
Versioned == HandlersVersioned /\ VersionsDistinct /\ VersionCountsConnects
Written == OffByItsVersion /\ ShownIsServed

\* Steps that leave the document, the versions and the closing writes alone
\* and move no handler into, out of or past its serving phase preserve both.
LEMMA Quiet ==
  ASSUME TypeOK, Versioned, Written,
         UNCHANGED <<device, ver, verEpoch, epoch, offBy, offline>>,
         \A c \in Conns :
           /\ Serving(c)' <=> Serving(c)
           /\ pc'[c] \in {"idle", "registering", "connecting"} =>
                pc[c] \in {"idle", "registering", "connecting"}
  PROVE  Versioned' /\ Written'
  <1>1. HandlersVersioned'
    BY DEF Versioned, HandlersVersioned
  <1>2. \A c \in Conns : Newest(c)' <=> Newest(c)
    BY DEF Newest
  <1>3. VersionsDistinct'
    BY DEF Versioned, VersionsDistinct
  <1>4. VersionCountsConnects'
    BY <1>2 DEF Versioned, VersionCountsConnects
  <1>5. OffByItsVersion'
    BY DEF Written, OffByItsVersion
  <1>6. ShownIsServed'
    BY <1>2 DEF Written, ShownIsServed
  <1>7. QED
    BY <1>1, <1>3, <1>4, <1>5, <1>6 DEF Versioned, Written

\* The upsert of a connecting handler makes it the newest, with a version no
\* other handler of this life of the document has.
LEMMA WriteConnectedVersions ==
  ASSUME TypeOK, Versioned, Written,
         NEW c \in Conns, pc[c] = "connecting", WriteConnected(c),
         UNCHANGED <<epoch, offBy>>,
         \A d \in Conns \ {c} : pc'[d] = pc[d] /\ offline'[d] = offline[d],
         \/ pc'[c] = "serving" /\ offline'[c] = offline[c]
         \/ pc'[c] = "reporting" /\ offline'[c] = "lost"
  PROVE  Versioned' /\ Written'
  <1> USE DEF TypeOK, WriteConnected
  <1>1. /\ device'.status = "connected"
        /\ device'.version = device.version + 1
        /\ device'.version # 0
        /\ ver'[c] = device'.version
        /\ verEpoch'[c] = epoch
        /\ \A d \in Conns \ {c} : ver'[d] = ver[d] /\ verEpoch'[d] = verEpoch[d]
    OBVIOUS
  <1>2. HandlersVersioned'
    BY <1>1 DEF Versioned, HandlersVersioned, Serving
  <1>3. \A d \in Conns : ver[d] # 0 /\ verEpoch[d] = epoch =>
                          ver[d] < device'.version
    BY <1>1 DEF Versioned, VersionsDistinct
  <1>4. VersionsDistinct'
    BY <1>1, <1>3 DEF Versioned, VersionsDistinct
  <1>5. Newest(c)'
    BY <1>1 DEF Newest
  <1>6. VersionCountsConnects'
    BY <1>1, <1>5 DEF VersionCountsConnects
  <1>7. OffByItsVersion'
    BY <1>1 DEF OffByItsVersion
  <1>8. ShownIsServed'
    BY <1>5 DEF ShownIsServed, Serving
  <1>9. QED
    BY <1>2, <1>4, <1>6, <1>7, <1>8 DEF Versioned, Written

\* The strengthened invariant: types, versions and who wrote the status.
THEOREM Inductive == Spec => []IInv
  <1> USE ConnsAssumption, HostAssumption, BoundsAssumption
  <1>1. Init => Versioned /\ Written
    BY DEF Init, Versioned, Written, HandlersVersioned, VersionsDistinct,
           VersionCountsConnects, OffByItsVersion, ShownIsServed, Serving, Absent
  <1>2. TypeOK /\ Versioned /\ Written /\ [Next]_vars => Versioned' /\ Written'
    <2> SUFFICES ASSUME TypeOK, Versioned, Written, [Next]_vars
                 PROVE  Versioned' /\ Written'
      OBVIOUS
    <2>1. CASE ProvisionDevice
      <3>1. \A c \in Conns : ver[c] # 0 => verEpoch[c] # epoch
        BY <2>1 DEF ProvisionDevice, Versioned, VersionsDistinct
      <3>2. Versioned'
        BY <2>1, <3>1 DEF ProvisionDevice, Versioned, HandlersVersioned,
                          VersionsDistinct, VersionCountsConnects, Serving
      <3>3. Written'
        BY <2>1 DEF ProvisionDevice, Written, OffByItsVersion, ShownIsServed
      <3>4. QED
        BY <3>2, <3>3
    <2>2. CASE DeleteDevice
      <3>1. HandlersVersioned'
        BY <2>2 DEF DeleteDevice, Versioned, HandlersVersioned, Serving, TypeOK
      <3>2. VersionsDistinct'
        BY <2>2 DEF DeleteDevice, Versioned, HandlersVersioned,
                    VersionsDistinct, TypeOK
      <3>3. VersionCountsConnects' /\ Written'
        BY <2>2 DEF DeleteDevice, VersionCountsConnects, Written,
                    OffByItsVersion, ShownIsServed, Absent
      <3>4. QED
        BY <3>1, <3>2, <3>3 DEF Versioned
    <2>3. ASSUME NEW c \in Conns,
                 \/ Connect(c) \/ ConnectFails(c) \/ Register(c)
                 \/ SetDeviceConnectedFails(c) \/ ReadFails(c)
                 \/ ReportError(c) \/ ReportTimeout(c) \/ Return(c)
          PROVE  Versioned' /\ Written'
      BY <2>3, Quiet
         DEF Connect, ConnectFails, Register, SetDeviceConnectedFails,
             ReadFails, ReportError, ReportTimeout, Return, Serving, TypeOK
    <2>4. ASSUME NEW c \in Conns, WriterEnds(c) \/ WriterFails(c)
          PROVE  Versioned' /\ Written'
      BY <2>4, Quiet DEF WriterEnds, WriterFails, Serving
    <2>5. ASSUME NEW c \in Conns, SetDeviceConnected(c)
          PROVE  Versioned' /\ Written'
      <3>1. /\ pc'[c] = "serving" /\ offline' = offline
            /\ \A d \in Conns \ {c} : pc'[d] = pc[d]
        BY <2>5 DEF SetDeviceConnected, TypeOK
      <3>2. QED
        BY <2>5, <3>1, WriteConnectedVersions DEF SetDeviceConnected
    <2>6. ASSUME NEW c \in Conns, SetDeviceConnectedUnanswered(c)
          PROVE  Versioned' /\ Written'
      <3>1. /\ pc'[c] = "reporting" /\ offline'[c] = "lost"
            /\ \A d \in Conns \ {c} : pc'[d] = pc[d] /\ offline'[d] = offline[d]
        BY <2>6 DEF SetDeviceConnectedUnanswered, TypeOK
      <3>2. QED
        BY <2>6, <3>1, WriteConnectedVersions DEF SetDeviceConnectedUnanswered
    <2>7. ASSUME NEW c \in Conns, SetDeviceDisconnected(c)
          PROVE  Versioned' /\ Written'
      <3>1. /\ Serving(c) /\ ~Serving(c)'
            /\ pc'[c] \in {"reporting", "unregistering"}
            /\ ver' = ver /\ verEpoch' = verEpoch /\ epoch' = epoch
            /\ \A d \in Conns \ {c} :
                 pc'[d] = pc[d] /\ offline'[d] = offline[d]
        BY <2>7 DEF SetDeviceDisconnected, AfterLeaving, Serving, TypeOK
      <3>2. HandlersVersioned'
        BY <3>1 DEF Versioned, HandlersVersioned, Serving
      <3>3. /\ device'.version = device.version
            /\ device'.status \in {device.status, "disconnected"}
            /\ device.status = "absent" => device'.status = "absent"
        BY <2>7 DEF SetDeviceDisconnected, Matches, TypeOK
      <3>4. VersionsDistinct'
        BY <3>1, <3>3 DEF Versioned, VersionsDistinct
      <3>5. ver[c] # 0
        BY <3>1 DEF Versioned, HandlersVersioned
      <3>6. CASE Matches(c)
        <4>1. /\ device'.status = "disconnected"
              /\ offBy' = c
              /\ device.status \notin {"absent", "unknown"}
          BY <2>7, <3>5, <3>6 DEF SetDeviceDisconnected, Matches, TypeOK,
                                  Versioned, VersionCountsConnects
        <4>2. VersionCountsConnects'
          BY <3>1, <3>3, <4>1 DEF Versioned, VersionCountsConnects, Newest
        <4>3. Written'
          BY <3>1, <3>3, <3>6, <4>1 DEF Written, OffByItsVersion, ShownIsServed,
                                        Matches
        <4>4. QED
          BY <3>2, <3>4, <4>2, <4>3 DEF Versioned
      <3>7. CASE ~Matches(c)
        <4>1. device' = device /\ offBy' = offBy
          BY <2>7, <3>7 DEF SetDeviceDisconnected
        <4>2. \A d \in Conns : Newest(d)' <=> Newest(d)
          BY <3>1, <4>1 DEF Newest
        <4>3. ~Newest(c)
          BY <3>7 DEF Newest, Matches
        <4>4. VersionCountsConnects'
          BY <4>1, <4>2 DEF Versioned, VersionCountsConnects
        <4>5. OffByItsVersion'
          BY <3>1, <4>1 DEF Written, OffByItsVersion, Serving
        <4>6. ShownIsServed'
          BY <3>1, <4>1, <4>2, <4>3 DEF Written, ShownIsServed, Serving
        <4>7. QED
          BY <3>2, <3>4, <4>4, <4>5, <4>6 DEF Versioned, Written
      <3>8. QED
        BY <3>6, <3>7
    <2>8. ASSUME NEW c \in Conns, SetDeviceDisconnectedFails(c)
          PROVE  Versioned' /\ Written'
      <3>1. /\ pc'[c] \in {"reporting", "unregistering"} /\ offline'[c] = "lost"
            /\ \A d \in Conns \ {c} :
                 pc'[d] = pc[d] /\ offline'[d] = offline[d]
            /\ UNCHANGED <<device, ver, verEpoch, epoch, offBy>>
        BY <2>8 DEF SetDeviceDisconnectedFails, AfterLeaving, TypeOK
      <3>2. \A d \in Conns : Newest(d)' <=> Newest(d)
        BY <3>1 DEF Newest
      <3>3. HandlersVersioned'
        BY <3>1 DEF Versioned, HandlersVersioned, Serving
      <3>4. VersionsDistinct' /\ VersionCountsConnects'
        BY <3>1, <3>2 DEF Versioned, VersionsDistinct, VersionCountsConnects
      <3>5. OffByItsVersion'
        BY <3>1 DEF Written, OffByItsVersion, Serving
      <3>6. ShownIsServed'
        BY <3>1, <3>2 DEF Written, ShownIsServed, Serving
      <3>7. QED
        BY <3>3, <3>4, <3>5, <3>6 DEF Versioned, Written
    <2>9. ASSUME NEW i \in Instances,
                 ShutdownBegins(i) \/ ShutdownCancels(i) \/ ShutdownEnds(i)
          PROVE  Versioned' /\ Written'
      BY <2>9, Quiet DEF ShutdownBegins, ShutdownCancels, ShutdownEnds, Serving
    <2>10. ASSUME NEW i \in Instances, ProcessEnds(i)
           PROVE  Versioned' /\ Written'
      <3>1. UNCHANGED <<device, ver, verEpoch, epoch, offBy>>
        BY <2>10 DEF ProcessEnds
      <3>2. \A d \in Conns :
              \/ pc'[d] = pc[d] /\ offline'[d] = offline[d]
              \/ /\ pc'[d] = "killed"
                 /\ offline'[d] = IF Serving(d) THEN "lost" ELSE offline[d]
        BY <2>10 DEF ProcessEnds, Serving, TypeOK
      <3>3. \A d \in Conns : Newest(d)' <=> Newest(d)
        BY <3>1 DEF Newest
      <3>4. HandlersVersioned'
        BY <3>1, <3>2 DEF Versioned, HandlersVersioned, Serving
      <3>5. VersionsDistinct' /\ VersionCountsConnects'
        BY <3>1, <3>3 DEF Versioned, VersionsDistinct, VersionCountsConnects
      <3>6. OffByItsVersion'
        BY <3>1, <3>2 DEF Written, OffByItsVersion, Serving
      <3>7. ShownIsServed'
        BY <3>1, <3>2, <3>3 DEF Written, ShownIsServed, Serving
      <3>8. QED
        BY <3>4, <3>5, <3>6, <3>7 DEF Versioned, Written
    <2>11. CASE UNCHANGED vars
      BY <2>11, Quiet DEF vars, Serving
    <2>12. QED
      BY <2>1, <2>2, <2>3, <2>4, <2>5, <2>6, <2>7, <2>8, <2>9, <2>10, <2>11
         DEF Next, HandlerNext
  <1>3. TypeOK /\ Versioned /\ Written => IInv
    BY DEF IInv, Versioned, Written
  <1>4. QED
    BY <1>1, <1>2, <1>3, TypeCorrect, PTL DEF Spec

\* Whoever may interleave, "connected" is only shown for the newest handler.
THEOREM ShownIsServedHolds == Spec => []ShownIsServed
  <1>1. IInv => ShownIsServed
    BY DEF IInv
  <1>2. QED
    BY <1>1, Inductive, PTL

\* Versions are never shared within a life of the document.
THEOREM VersionsDistinctHolds == Spec => []VersionsDistinct
  <1>1. IInv => VersionsDistinct
    BY DEF IInv
  <1>2. QED
    BY <1>1, Inductive, PTL

\* A superseded handler never takes the newest one off line.
THEOREM NewestIsShownHolds == Spec => []NewestIsShown
  <1>1. IInv => NewestIsShown
    <2> SUFFICES ASSUME IInv, NEW c \in Conns, Newest(c), Serving(c),
                        device.status # "connected"
                 PROVE  device.status = "disconnected" /\ verEpoch[offBy] < epoch
      BY DEF NewestIsShown
    <2>1. device.status = "disconnected"
      BY DEF IInv, TypeOK, VersionCountsConnects, Newest
    <2>2. offBy \in Conns /\ ver[offBy] = ver[c] /\ offBy # c /\ ver[c] # 0
      BY <2>1 DEF IInv, OffByItsVersion, Newest
    <2>3. verEpoch[offBy] # verEpoch[c]
      BY <2>2 DEF IInv, VersionsDistinct
    <2>4. verEpoch[offBy] < epoch
      BY <2>2, <2>3 DEF IInv, TypeOK, HandlersVersioned, Newest
    <2>5. QED
      BY <2>1, <2>4
  <1>2. QED
    BY <1>1, Inductive, PTL

\* The closing write neither recreates a deleted document nor touches one that
\* was never connected.
THEOREM NoResurrectionHolds == Spec => NoResurrection
  <1> DEFINE Step == device.status \in {"absent", "unknown"} =>
                       device'.status # "disconnected"
  <1>1. IInv /\ [Next]_vars => [Step]_vars
    <2> SUFFICES ASSUME IInv, [Next]_vars,
                        device.status \in {"absent", "unknown"}
                 PROVE  device'.status # "disconnected"
      OBVIOUS
    <2>1. ASSUME NEW c \in Conns, SetDeviceDisconnected(c)
          PROVE  device'.status # "disconnected"
      <3>1. ver[c] # 0 /\ device.version = 0
        BY <2>1 DEF SetDeviceDisconnected, IInv, HandlersVersioned,
                    VersionCountsConnects, Serving
      <3>2. device' = device
        BY <2>1, <3>1 DEF SetDeviceDisconnected, Matches
      <3>3. QED
        BY <3>2
    <2>2. ASSUME NEW c \in Conns,
                 SetDeviceConnected(c) \/ SetDeviceConnectedUnanswered(c)
          PROVE  device'.status # "disconnected"
      BY <2>2 DEF SetDeviceConnected, SetDeviceConnectedUnanswered, WriteConnected
    <2>3. CASE ProvisionDevice \/ DeleteDevice
      BY <2>3 DEF ProvisionDevice, DeleteDevice, Absent
    <2>4. CASE UNCHANGED device
      BY <2>4
    <2>5. QED
      BY <2>1, <2>2, <2>3, <2>4
         DEF Next, HandlerNext, vars, Connect, ConnectFails, Register,
             SetDeviceConnectedFails, ReadFails, SetDeviceDisconnectedFails,
             ReportError, ReportTimeout, Return, WriterEnds, WriterFails,
             ShutdownBegins, ShutdownCancels, ShutdownEnds, ProcessEnds
  <1>2. QED
    BY <1>1, Inductive, PTL DEF Spec, NoResurrection

-----------------------------------------------------------------------------
(* DevicePresence implements DeviceLease                                   *)

\* The newest handler is unique: it is the holder.
LEMMA HolderIsNewest ==
  ASSUME VersionsDistinct, NEW c \in Conns, Newest(c)
  PROVE  Holder = c
  <1>1. \A d \in Conns : Newest(d) => d = c
    BY DEF VersionsDistinct, Newest
  <1>2. QED
    BY <1>1 DEF Holder

\* Where no handler is the newest, nobody holds the lease.
LEMMA NoHolder ==
  ASSUME \A c \in Conns : ~Newest(c)
  PROVE  Holder = NoConn
  BY DEF Holder

\* A step that changes neither the document nor a version keeps the holder.
LEMMA HolderKept ==
  ASSUME UNCHANGED <<ver, verEpoch, epoch>>,
         device'.version = device.version,
         (device'.status = "absent") <=> (device.status = "absent")
  PROVE  Holder' = Holder
  <1>1. \A c \in Conns : Newest(c)' <=> Newest(c)
    BY DEF Newest
  <1>2. (CHOOSE c \in Conns : Newest(c))' = CHOOSE c \in Conns : Newest(c)
    BY <1>1, Zenon
  <1>3. QED
    BY <1>1, <1>2 DEF Holder

\* Handlers that stop serving without a write to the document are lost.
LEMMA LoseOrStutter ==
  ASSUME UNCHANGED <<device, ver, verEpoch, epoch>>,
         \A c \in Conns : Serving(c)' => Serving(c)
  PROVE  [Lease!Next]_(Lease!vars)
  <1> DEFINE lost == {c \in Conns : Serving(c) /\ ~Serving(c)'}
  <1>1. Holder' = Holder
    BY HolderKept
  <1>2. /\ lost \subseteq Open \union Old /\ lost \subseteq Conns
        /\ Open' = Open \ lost
        /\ Old' = Old \ lost
    BY DEF Open, Old
  <1>3. CASE lost = {}
    BY <1>1, <1>2, <1>3 DEF Lease!vars
  <1>4. CASE lost # {}
    <2>1. Lease!Lose(lost)
      BY <1>1, <1>2, <1>4 DEF Lease!Lose
    <2>2. QED
      BY <2>1, <1>2 DEF Lease!Next
  <1>5. QED
    BY <1>3, <1>4

\* The upsert of a connecting handler changes the holder and no other handler's
\* standing.
LEMMA WriteConnectedHolds ==
  ASSUME IInv, VersionsDistinct', NEW c \in Conns, WriteConnected(c),
         UNCHANGED epoch
  PROVE  /\ device'.status = "connected"
         /\ Holder' = c
         /\ verEpoch'[c] = epoch
         /\ \A d \in Conns \ {c} : verEpoch'[d] = verEpoch[d]
  <1> USE DEF IInv, TypeOK, WriteConnected
  <1>1. Newest(c)'
    BY DEF Newest
  <1>2. Holder' = c
    <2>1. \A d \in Conns : Newest(d)' => d = c
      BY <1>1 DEF VersionsDistinct, Newest
    <2>2. QED
      BY <1>1, <2>1 DEF Holder
  <1>3. QED
    BY <1>2

\* Every handler, whatever its instance does, keeps the lease's promise: the
\* version counter and its filter implement "the newest connection holds the
\* status".
THEOREM LeaseImplemented == Spec => ImplementsLease
  <1>1. Init => Lease!Init
    <2> SUFFICES ASSUME Init PROVE Lease!Init
      OBVIOUS
    <2>1. \A c \in Conns : ~Newest(c) /\ ~Serving(c)
      BY DEF Init, Newest, Serving, Absent
    <2>2. Holder = NoConn
      BY <2>1, NoHolder
    <2>3. QED
      BY <2>1, <2>2 DEF Init, Absent, Lease!Init, Open, Old
  <1>2. IInv /\ IInv' /\ [Next]_vars => [Lease!Next]_(Lease!vars)
    <2> SUFFICES ASSUME IInv, IInv', [Next]_vars
                 PROVE  [Lease!Next]_(Lease!vars)
      OBVIOUS
    <2>1. CASE ProvisionDevice
      <3>1. \A c \in Conns : ~Newest(c) /\ ~Newest(c)'
        BY <2>1 DEF ProvisionDevice, Newest
      <3>2. Holder = NoConn /\ Holder' = NoConn
        BY <3>1 DEF Holder
      <3>3. Open' = Open /\ Old' = Old
        BY <2>1 DEF ProvisionDevice, Open, Old, Serving
      <3>4. Lease!Provision
        BY <2>1, <3>2, <3>3 DEF ProvisionDevice, Lease!Provision
      <3>5. QED
        BY <3>4 DEF Lease!Next
    <2>2. CASE DeleteDevice
      <3>1. \A c \in Conns : ~Newest(c)'
        BY <2>2 DEF DeleteDevice, Newest, Absent
      <3>2. Holder' = NoConn
        BY <3>1 DEF Holder
      <3>3. \A c \in Conns : verEpoch[c] # epoch'
        BY <2>2, BoundsAssumption
           DEF DeleteDevice, IInv, TypeOK, HandlersVersioned
      <3>4. Open' = {} /\ Old' = Old \union Open
        BY <2>2, <3>3 DEF DeleteDevice, Open, Old, Serving
      <3>5. Lease!Remove
        BY <2>2, <3>2, <3>4 DEF DeleteDevice, Absent, Lease!Remove
      <3>6. QED
        BY <3>5 DEF Lease!Next
    <2>3. ASSUME NEW c \in Conns, SetDeviceConnected(c)
          PROVE  [Lease!Next]_(Lease!vars)
      <3>1. /\ ~Serving(c) /\ Serving(c)'
            /\ \A d \in Conns \ {c} : Serving(d)' <=> Serving(d)
            /\ epoch' = epoch
        BY <2>3 DEF SetDeviceConnected, Serving, IInv, TypeOK
      <3>2. /\ device'.status = "connected" /\ Holder' = c
            /\ verEpoch'[c] = epoch
            /\ \A d \in Conns \ {c} : verEpoch'[d] = verEpoch[d]
        BY <2>3, <3>1, WriteConnectedHolds DEF SetDeviceConnected, IInv
      <3>3. c \notin Open \union Old /\ Open' = Open \union {c} /\ Old' = Old
        BY <3>1, <3>2 DEF Open, Old
      <3>4. Lease!Announce(c)
        BY <3>2, <3>3 DEF Lease!Announce
      <3>5. QED
        BY <3>4 DEF Lease!Next
    <2>4. ASSUME NEW c \in Conns, SetDeviceConnectedUnanswered(c)
          PROVE  [Lease!Next]_(Lease!vars)
      <3>1. /\ ~Serving(c) /\ ~Serving(c)'
            /\ \A d \in Conns \ {c} : Serving(d)' <=> Serving(d)
            /\ epoch' = epoch
        BY <2>4 DEF SetDeviceConnectedUnanswered, Serving, IInv, TypeOK
      <3>2. /\ device'.status = "connected" /\ Holder' = c
            /\ \A d \in Conns \ {c} : verEpoch'[d] = verEpoch[d]
        BY <2>4, <3>1, WriteConnectedHolds DEF SetDeviceConnectedUnanswered, IInv
      <3>3. c \notin Open \union Old /\ Open' = Open /\ Old' = Old
        BY <3>1, <3>2 DEF Open, Old
      <3>4. Lease!AnnounceAndLose(c)
        BY <3>2, <3>3 DEF Lease!AnnounceAndLose
      <3>5. QED
        BY <3>4 DEF Lease!Next
    <2>5. ASSUME NEW c \in Conns, SetDeviceDisconnected(c)
          PROVE  [Lease!Next]_(Lease!vars)
      <3>1. /\ Serving(c) /\ ~Serving(c)'
            /\ \A d \in Conns \ {c} : Serving(d)' <=> Serving(d)
            /\ UNCHANGED <<ver, verEpoch, epoch>>
        BY <2>5 DEF SetDeviceDisconnected, AfterLeaving, Serving, IInv, TypeOK
      <3>2. ver[c] # 0
        BY <3>1 DEF IInv, HandlersVersioned
      <3>3. /\ device'.version = device.version
            /\ (device'.status = "absent") <=> (device.status = "absent")
            /\ device'.status = IF Matches(c) THEN "disconnected" ELSE device.status
        BY <2>5 DEF SetDeviceDisconnected, Matches, IInv, TypeOK
      <3>4. Holder' = Holder
        BY <3>1, <3>3, HolderKept
      <3>5. CASE verEpoch[c] = epoch
        <4>1. c \in Open /\ Open' = Open \ {c} /\ Old' = Old
          BY <3>1, <3>5 DEF Open, Old
        <4>2. Matches(c) <=> Newest(c)
          BY <3>2, <3>5 DEF Matches, Newest
        <4>3. Newest(c) <=> Holder = c
          <5>1. Newest(c) => Holder = c
            BY HolderIsNewest DEF IInv
          <5>2. Holder = c => Newest(c)
            BY ConnsAssumption DEF Holder
          <5>3. QED
            BY <5>1, <5>2
        <4>4. Lease!Withdraw(c)
          BY <3>3, <3>4, <4>1, <4>2, <4>3 DEF Lease!Withdraw
        <4>5. QED
          BY <4>4 DEF Lease!Next
      <3>6. CASE verEpoch[c] # epoch
        <4>1. c \in Old /\ Old' = Old \ {c} /\ Open' = Open
          BY <3>1, <3>6 DEF Open, Old
        <4>2. Matches(c) => Holder # NoConn
          <5>1. Matches(c) => \E d \in Conns : Newest(d)
            BY <3>2 DEF Matches, IInv, VersionCountsConnects
          <5>2. QED
            BY <5>1, HolderIsNewest, ConnsAssumption DEF IInv
        <4>3. Lease!WithdrawOld(c)
          BY <3>3, <3>4, <4>1, <4>2 DEF Lease!WithdrawOld
        <4>4. QED
          BY <4>3 DEF Lease!Next
      <3>7. QED
        BY <3>5, <3>6
    <2>6. ASSUME NEW c \in Conns,
                 \/ Connect(c) \/ ConnectFails(c) \/ Register(c)
                 \/ SetDeviceConnectedFails(c) \/ ReadFails(c)
                 \/ SetDeviceDisconnectedFails(c)
                 \/ ReportError(c) \/ ReportTimeout(c) \/ Return(c)
          PROVE  [Lease!Next]_(Lease!vars)
      <3>1. \A d \in Conns : Serving(d)' => Serving(d)
        BY <2>6 DEF Connect, ConnectFails, Register, SetDeviceConnectedFails,
                    ReadFails, SetDeviceDisconnectedFails, AfterLeaving,
                    ReportError, ReportTimeout, Return, Serving, IInv, TypeOK
      <3>2. UNCHANGED <<device, ver, verEpoch, epoch>>
        BY <2>6 DEF Connect, ConnectFails, Register, SetDeviceConnectedFails,
                    ReadFails, SetDeviceDisconnectedFails,
                    ReportError, ReportTimeout, Return
      <3>3. QED
        BY <3>1, <3>2, LoseOrStutter
    <2>7. ASSUME NEW c \in Conns, WriterEnds(c) \/ WriterFails(c)
          PROVE  [Lease!Next]_(Lease!vars)
      BY <2>7, LoseOrStutter DEF WriterEnds, WriterFails, Serving
    <2>8. ASSUME NEW i \in Instances,
                 \/ ShutdownBegins(i) \/ ShutdownCancels(i)
                 \/ ShutdownEnds(i) \/ ProcessEnds(i)
          PROVE  [Lease!Next]_(Lease!vars)
      <3>1. \A d \in Conns : Serving(d)' => Serving(d)
        BY <2>8 DEF ShutdownBegins, ShutdownCancels, ShutdownEnds, ProcessEnds,
                    Serving, IInv, TypeOK
      <3>2. UNCHANGED <<device, ver, verEpoch, epoch>>
        BY <2>8 DEF ShutdownBegins, ShutdownCancels, ShutdownEnds, ProcessEnds
      <3>3. QED
        BY <3>1, <3>2, LoseOrStutter
    <2>9. CASE UNCHANGED vars
      BY <2>9, LoseOrStutter DEF vars, Serving
    <2>10. QED
      BY <2>1, <2>2, <2>3, <2>4, <2>5, <2>6, <2>7, <2>8, <2>9
         DEF Next, HandlerNext
  <1>3. QED
    BY <1>1, <1>2, Inductive, PTL DEF Spec, ImplementsLease, Lease!Spec
=============================================================================
