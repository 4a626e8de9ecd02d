\* Redelivery, failures, a refused record, a crash and the retention, with serial control calls.
CONSTANTS
  Msg = {"m1", "m2", "bad"}
  Refused = {"bad"}
  Loop = {1, 2}
  Client = {1, 2}
  MaxLog = 3
  MaxCrashes = 1
  SerialControl = TRUE
SPECIFICATION LiveSpec
INVARIANTS
  TypeOK
  CommittedIsStored
  StoredInOrder
  StoredOnce
  OneLoop
PROPERTIES
  EventuallyStored
  Promise
