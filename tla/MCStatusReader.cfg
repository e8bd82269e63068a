\* Two calls and one client; everything may fail and the process die once.
CONSTANTS
  NoMake = NoMake
  NoJob = NoJob
  Calls = {c1, c2}
  Clients = {r}
  MakeIds <- MCMakeIds
  ValidMakes <- MCMakeIds
  Feeds <- MCFeeds
  ChunkSize = 2
  MaxRetries = 0
  Faults = {"db", "broker", "api"}
  MaxCrashes = 1
SPECIFICATION FairReaderSpec
PROPERTIES
  PollsNeverGoBack
  CurrentIsNotStale
  UndisturbedJobsGetAnOutcome
\* every call may be over
CHECK_DEADLOCK FALSE
