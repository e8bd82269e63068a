\* publishWithRetry with two tries, publishMany of two events; one ack of
\* the audit log's consumer is lost or throws.
CONSTANTS
  retry = retry
  many = many
  Publishers = {retry, many}
  Batch <- MCBatch
  Attempts <- MCAttempts
  MaxRedeliveries = 1
SPECIFICATION FairAuditSpec
INVARIANTS
  ResolvedIsAccepted
  FailureHasACause
  LoggedInOrder
  RepeatsNeedARedelivery
PROPERTIES
  ImplementsPublication
  PublishSettles
  ConfirmedIsLogged
\* every call may be over
CHECK_DEADLOCK FALSE
