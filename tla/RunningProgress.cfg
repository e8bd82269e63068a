\* One call alone, nothing fails.
CONSTANTS
  NoMake = NoMake
  Calls = {c1}
  MakeIds <- MCMakeIds
  ValidMakes <- MCValidMakes
  Feeds <- MCFeeds
  ChunkSize = 2
  MaxRetries = 2
  Faults = {}
  MaxCrashes = 0
SPECIFICATION Spec
INVARIANT RunningRowShowsProgress
\* every call may be over
CHECK_DEADLOCK FALSE
