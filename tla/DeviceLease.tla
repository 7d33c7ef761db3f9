---------------------------- MODULE DeviceLease ----------------------------
(***************************************************************************)
(* What the presence of one device promises, without the version counter   *)
(* that implements it.  The newest connection that announced the device    *)
(* holds its status: the device is shown connected from the announcement   *)
(* until that connection withdraws; a connection that was superseded       *)
(* withdraws without a trace.  The one exception is explicit: a connection *)
(* opened before the device was last deleted can switch off the device's   *)
(* new record (WithdrawOld).                                               *)
(***************************************************************************)
CONSTANTS Conns,     \* the connections of the device
          NoConn     \* "nobody holds the status"

VARIABLES
  shown,    \* the status the management API reports, "absent" for no record
  holder,   \* the newest connection announced since the record was created
  open,     \* announced since the record was created, not withdrawn
  old       \* announced before the record was last deleted, not withdrawn

vars == <<shown, holder, open, old>>

Init ==
  /\ shown = "absent"
  /\ holder = NoConn
  /\ open = {}
  /\ old = {}

Provision ==
  /\ shown = "absent"
  /\ shown' = "unknown"
  /\ UNCHANGED <<holder, open, old>>

Remove ==
  /\ shown # "absent"
  /\ shown' = "absent"
  /\ holder' = NoConn
  /\ old' = old \union open
  /\ open' = {}

\* A connection announces the device and will withdraw it later ...
Announce(c) ==
  /\ c \notin open \union old
  /\ shown' = "connected"
  /\ holder' = c
  /\ open' = open \union {c}
  /\ UNCHANGED old

\* ... or announces it and is never heard of again.
AnnounceAndLose(c) ==
  /\ c \notin open \union old
  /\ shown' = "connected"
  /\ holder' = c
  /\ UNCHANGED <<open, old>>

Withdraw(c) ==
  /\ c \in open
  /\ shown' = IF holder = c THEN "disconnected" ELSE shown
  /\ open' = open \ {c}
  /\ UNCHANGED <<holder, old>>

WithdrawOld(c) ==
  /\ c \in old
  /\ shown' \in {shown} \union
                (IF holder # NoConn THEN {"disconnected"} ELSE {})
  /\ old' = old \ {c}
  /\ UNCHANGED <<holder, open>>

\* Connections end without a withdrawal: a crash, a failed store.
Lose(lost) ==
  /\ lost \subseteq open \union old
  /\ lost # {}
  /\ open' = open \ lost
  /\ old' = old \ lost
  /\ UNCHANGED <<shown, holder>>

Next ==
  \/ Provision
  \/ Remove
  \/ \E c \in Conns :
       \/ Announce(c)
       \/ AnnounceAndLose(c)
       \/ Withdraw(c)
       \/ WithdrawOld(c)
  \/ \E lost \in SUBSET Conns : Lose(lost)

Spec == Init /\ [][Next]_vars
=============================================================================
