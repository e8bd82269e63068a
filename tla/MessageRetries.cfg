\* One ingestion and its message, with the limit of the code.
CONSTANTS
  Jobs = {j1, j2}
  None = None
  MaxTriggers = 1
  MAX_RETRIES = 3
  MaxCrashes = 0
  MaxLosses = 0
SPECIFICATION CountedSpec
INVARIANT RetriesAreBounded
CHECK_DEADLOCK FALSE
