\* Two triggers, three jobs, one crash, one lost channel; one retry before the limit.
CONSTANTS
  Jobs = {j1, j2, j3}
  None = None
  MaxTriggers = 2
  MAX_RETRIES = 1
  MaxCrashes = 1
  MaxLosses = 1
SYMMETRY Symmetry
SPECIFICATION Spec
INVARIANTS
  TypeOK
  OneAtWorkPerChannel
  AckedHasOutcome
  NoDoubleProcessing
PROPERTY OrphanStopsTheQueue
CHECK_DEADLOCK FALSE
