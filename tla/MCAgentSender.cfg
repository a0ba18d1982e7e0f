SPECIFICATION SenderSpec
CONSTANTS
  First = First
  Second = Second
  Other = Other
  Torn = Torn
  None = None
  MaxFiles = 2
  Interval = 2
  Initial = 1
  Cap = 4
  MaxFailures = 2
INVARIANTS
  BufferSound
PROPERTIES
  LeavesInOrder
  CatchesUp
