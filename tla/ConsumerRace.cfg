\* A start may come while a stop is waiting.
CONSTANTS
  Msg = {"m1", "m2"}
  Refused = {}
  Loop = {1, 2}
  Client = {1, 2, 3, 4}
  MaxLog = 2
  MaxCrashes = 0
  SerialControl = FALSE
SPECIFICATION Spec
INVARIANT CommittedIsStored
