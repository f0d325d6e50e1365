CONSTANTS
  Org = {o1}
  Row = {r1, r2}
  Worker = {w1, w2}
  NoRow = noRow
  OrgOf <- MCOrgOf
  AllowSuspended = {}
  AllowPending = {r1, r2}
  FailureKind = {"retryable"}
  MaxRetries = 1
  BatchSize = 1
  MaxCopies = 1
  MaxFaults = 2
  MaxFailures = 1
  MaxCrashes = 0
  MaxUnpublished = 0
  MaxLost = 1
  MaxChanges = 0
  o1 = o1
  r1 = r1
  r2 = r2
  w1 = w1
  w2 = w2
SPECIFICATION Spec
CHECK_DEADLOCK FALSE
PROPERTY EveryRowIsDelivered
