CONSTANTS
  FileSize = 5
  AckEvery = 2
  DeviceWindow = 2
  ChanSize = 3
  Loss = TRUE
  NatsFaults = TRUE
SPECIFICATION FairSpec
CHECK_DEADLOCK FALSE
INVARIANTS
  TypeOK
  BodyIsPrefix
  OkMeansWhole
  NobodyStarves
PROPERTIES
  SilenceEnds
