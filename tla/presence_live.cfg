CONSTANTS
  c1 = c1
  c2 = c2
  i1 = i1
  NoConn = NoConn
  Conns <- TwoConns
  Instances <- OneInstance
  Host <- OneHost
  MaxDeletes = 0
  StoreFaults = FALSE
  Crashes <- OneInstance
  Shutdowns <- OneInstance
SPECIFICATION FairServiceSpec
CHECK_DEADLOCK FALSE
INVARIANTS
  GracefulExitCancels
PROPERTIES
  ShutdownCompletes
  HandlerCloses
