-------------------------- MODULE MCDevicePresence --------------------------
(***************************************************************************)
(* Instances of DevicePresence for TLC.  Three handlers of one device on   *)
(* two instances of the service, the first two on the same one, for the    *)
(* orders in which handlers supersede each other; two handlers on one      *)
(* instance for a graceful shutdown whose store never fails.               *)
(***************************************************************************)
EXTENDS DevicePresence, TLC

CONSTANTS c1, c2, c3, i1, i2

ThreeConns == {c1, c2, c3}
TwoConns == {c1, c2}
TwoInstances == {i1, i2}
OneInstance == {i1}
OtherInstance == {i2}
TwoHosts == (c1 :> i1) @@ (c2 :> i1) @@ (c3 :> i2)
OneHost == (c1 :> i1) @@ (c2 :> i1)

\* The handlers c1 and c2 run on the same instance and are interchangeable.
Interchangeable == Permutations(TwoConns)

\* The writers left aside: their own steps change nothing else, and the only
\* step that waits for one, ReportError, leads where ReportTimeout leads too.
\* Of this run's properties only TypeOK speaks of them.
WritersAside ==
  <<device, pc, cancelled, phase, toCancel, ver, verEpoch, epoch, offBy,
    offline>>
=============================================================================
