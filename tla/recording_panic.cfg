CONSTANTS
  BufferSize <- Sizes
  Limit = 4
  Bodies = {2, 3}
  MaxMessages = 2
  MaxResizes = 0
  StoreFaults = TRUE
  ReadSize = 2
  ControlsRead = 1
SPECIFICATION Spec
CHECK_DEADLOCK FALSE
INVARIANT OffsetInBuffer
