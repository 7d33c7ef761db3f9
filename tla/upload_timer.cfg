CONSTANTS
  FileSize = 2
  MaxRead = 2
  Window = 2
  ChanSize = 2
  NatsFaults = FALSE
SPECIFICATION Spec
CHECK_DEADLOCK FALSE
INVARIANTS
  TimeoutIsDue
