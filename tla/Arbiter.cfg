\* Two overlapping passes, a restart of the producer, failing calls.
CONSTANTS
  MaxMessages = 2
  RecentCap = 2
  Threshold = 60
  MaxRestarts = 1
  ApiFaults = TRUE
SPECIFICATION LiveSpec
INVARIANTS
  TypeOK
  VouchedWasStored
  OnlyDetouredIsMissing
PROPERTY LossIsReported
