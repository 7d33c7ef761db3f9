CONSTANTS
  BufferSize <- Sizes
  Limit = 3
  Bodies = {0, 2, 3}
  MaxMessages = 2
  MaxResizes = 1
  StoreFaults = TRUE
  ReadSize = 2
  ControlsRead = 1
SPECIFICATION Spec
CHECK_DEADLOCK FALSE
INVARIANTS
  TypeOK
  StoredInOrder
  StoredIsAll
  PlayedIsStored
  ControlsInTime
  InconsistentOnlyByResize
