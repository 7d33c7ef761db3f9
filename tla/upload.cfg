CONSTANTS
  FileSize = 5
  MaxRead = 2
  Window = 2
  ChanSize = 2
  NatsFaults = TRUE
SPECIFICATION FairSpec
CHECK_DEADLOCK FALSE
INVARIANTS
  TypeOK
  CreatedMeansStored
  LatestAckKept
  ChunksInFlight
PROPERTIES
  Answers
