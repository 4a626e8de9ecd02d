\* Tests of up to five sends or retries of a batch of two, with a counter_max of
\* 2 or 3, a crash or shutdown, and serial control calls.
CONSTANTS
  CounterMax = 3
  Maxima = {2, 3}
  MaxSends = 5
  MaxBatch = 2
  MaxCrashes = 1
  SerialControl = TRUE
SPECIFICATION Spec
INVARIANTS
  TypeOK
  MissingWasLost
  GapIsReported
