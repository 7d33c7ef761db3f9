CONSTANTS
  p1 = p1
  p2 = p2
  t1 = t1
  t2 = t2
  Devices = Devices
  sessions = sessions
  a = a
  b = b
  c = c
  d = d
  e = e
  f = f
  Main = Main
  Procs <- Processes
  Tenants <- TwoTenants
  Collections <- TwoCollections
  Docs <- Documents
  Legacy <- OldDocuments
  BatchSize = 2
  CursorFaults = TRUE
  MaxStarts = 2
  MaxChanges = 1
SPECIFICATION Spec
CHECK_DEADLOCK FALSE
SYMMETRY Interchangeable
INVARIANTS
  TypeOK
  NothingLost
  OwnPlace
PROPERTIES
  NoLateOverwrite
