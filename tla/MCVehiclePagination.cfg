\* Pages of two, transactions of two.
CONSTANTS
  MakeIds <- MCMakeIds
  First = 2
  ChunkSize = 2
SPECIFICATION FairSpec
INVARIANTS
  TypeOK
  WalkIsComplete
  PagesAscend
  TotalCoversSeen
PROPERTIES
  WalkEnds
\* the walk ends
CHECK_DEADLOCK FALSE
