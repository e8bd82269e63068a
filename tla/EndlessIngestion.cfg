\* One ingestion and its message, and the job it creates.
CONSTANTS
  Jobs = {j1, j2}
  None = None
  MaxTriggers = 1
  MAX_RETRIES = 3
  MaxCrashes = 0
  MaxLosses = 0
SPECIFICATION CountedSpec
INVARIANT OneJobPerTrigger
CHECK_DEADLOCK FALSE
