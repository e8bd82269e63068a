\* Two calls, every awaited operation may fail, the process may die once.
CONSTANTS
  NoMake = NoMake
  Calls = {c1, c2}
  MakeIds <- MCMakeIds
  ValidMakes <- MCValidMakes
  Feeds <- MCFeeds
  ChunkSize = 2
  MaxRetries = 2
  Faults = {"db", "broker", "api"}
  MaxCrashes = 1
SPECIFICATION FairSpec
INVARIANTS
  TypeOK
  OutcomeAccountsForEveryMake
  AnnouncedOutcomeIsDurable
  CompletedIngestionIsStored
  Consistent
PROPERTIES
  TerminalRowsNeverChange
  OrphanBlocksForever
  ImplementsLedger
  CallsSettle
\* every call may be over
CHECK_DEADLOCK FALSE
