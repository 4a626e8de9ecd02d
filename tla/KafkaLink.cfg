\* Both sending loops, two reconnect tasks at once besides the loop's own.
CONSTANTS
  Sender = {"produce", "flush"}
  Spawned = {"t1", "t2"}
  Client = {1, 2, 3, 4, 5}
SPECIFICATION LiveSpec
INVARIANTS
  TypeOK
  ConnectedHasLiveClient
PROPERTY EventuallyConnected
