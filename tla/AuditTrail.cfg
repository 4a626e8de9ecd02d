\* Two producers with secrets of their own, overlapping passes, one stop or crash.
CONSTANTS
  Producers = 2
  MaxPasses = 2
  MaxUpsets = 1
SPECIFICATION LiveSpec
INVARIANTS
  TypeOK
  ToldIsKept
  OnlyTheUnreachedAreLeftOut
PROPERTIES
  Promise
  LatestIsPushed
  PassesEnd
