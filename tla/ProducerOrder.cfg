\* The flush loop resends while the produce loop sends.
CONSTANTS
  MaxMessages = 3
  BufferMax = 2
  BatchLimit = 2
  MaxCrashes = 0
  DbFaults = FALSE
SPECIFICATION Spec
INVARIANT ArriveInOrder
