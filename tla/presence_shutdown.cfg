CONSTANTS
  c1 = c1
  c2 = c2
  c3 = c3
  i1 = i1
  i2 = i2
  NoConn = NoConn
  Conns <- TwoConns
  Instances <- OneInstance
  Host <- OneHost
  MaxDeletes = 0
  StoreFaults = FALSE
  Crashes = {}
  Shutdowns <- OneInstance
SPECIFICATION Spec
CHECK_DEADLOCK FALSE
PROPERTIES
  LeavingMeansOffline
