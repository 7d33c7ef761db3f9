CONSTANTS
  c1 = c1
  c2 = c2
  i1 = i1
  s1 = s1
  NoConn = NoConn
  Conns <- TwoConns
  Instances <- OneInstance
  Host <- OneHost
  Sessions <- OneSession
  ChanSize = 1
  MaxDeletes = 0
  StoreFaults = FALSE
  NatsFaults = TRUE
  Crashes = {}
  Shutdowns = {}
SPECIFICATION RelaySpec
CHECK_DEADLOCK FALSE
SYMMETRY Interchangeable
INVARIANTS
  RelayTypeOK
  EndedShellIsStopped
  StartedIsTold
PROPERTIES
  AcceptedIsDelivered
