CONSTANTS
  c1 = c1
  c2 = c2
  c3 = c3
  i1 = i1
  i2 = i2
  NoConn = NoConn
  Conns <- ThreeConns
  Instances <- TwoInstances
  Host <- TwoHosts
  MaxDeletes = 1
  StoreFaults = TRUE
  Crashes <- TwoInstances
  Shutdowns <- OtherInstance
SPECIFICATION Spec
CHECK_DEADLOCK FALSE
SYMMETRY Interchangeable
VIEW WritersAside
INVARIANTS
  TypeOK
  ShownIsServed
  NewestIsShown
PROPERTIES
  NoResurrection
  ImplementsLease
