\* One call alone, only the database fails.
CONSTANTS
  NoMake = NoMake
  Calls = {c1}
  MakeIds <- MCMakeIds
  ValidMakes <- MCValidMakes
  Feeds <- MCFeeds
  ChunkSize = 2
  MaxRetries = 2
  Faults = {"db"}
  MaxCrashes = 0
SPECIFICATION Spec
INVARIANT FailedCompletionIsNotLeftRunning
\* every call may be over
CHECK_DEADLOCK FALSE
