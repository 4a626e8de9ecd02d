\* Watched from before the first message, without faults or restarts.
CONSTANTS
  MaxMessages = 2
  RecentCap = 2
  Threshold = 60
  MaxRestarts = 0
  ApiFaults = FALSE
SPECIFICATION Spec
INVARIANT CatchingUpIsNotLoss
