\* Two loops, two attempts each, two requests per attempt.
CONSTANTS
  Fetches = {f1, f2}
  MaxRetries = 1
  MaxAttempts = 2
  VolumeThreshold = 2
  WindowBound = 2
SPECIFICATION FairSpec
INVARIANTS
  TypeOK
  ProbeIsAlone
  AwaitedCallRuns
PROPERTIES
  FetchSettles
  BreakerRecovers
