\* Transactions of one make, pages of two.
CONSTANTS
  Empty = Empty
  Names <- MCNames
  MakeFeeds <- MCMakeFeeds
  TypeFeeds <- MCTypeFeeds
  ChunkSize = 1
  First = 2
SPECIFICATION Spec
INVARIANTS
  TransformationNeverThrows
  CatalogueIsTheFeed
  LoaderAgreesWithPage
  SearchFindsTheFeed
  MutatorsKeepTypesUnique
\* the ingestion is over and the request answered
CHECK_DEADLOCK FALSE
