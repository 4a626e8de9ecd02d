\* Two messages for a buffer of one, a crash, and a database that may fail: a
\* count that fails puts both in the buffer, and in one batch.
CONSTANTS
  MaxMessages = 2
  BufferMax = 1
  BatchLimit = 2
  MaxCrashes = 1
  DbFaults = TRUE
SPECIFICATION LiveSpec
INVARIANTS
  TypeOK
  NoSilentLoss
  SentImpliesPublished
  PendingWithinLimit
PROPERTIES
  DurableRowLifecycle
  Promise
  EventuallyFlushed
