CONSTANTS
  Org = {o1}
  Row = {r1, r2}
  Worker = {w1, w2}
  NoRow = noRow
  OrgOf <- MCOrgOf
  AllowSuspended = {r2}
  AllowPending = {r1}
  FailureKind = {"retryable", "other"}
  MaxRetries = 1
  BatchSize = 1
  MaxCopies = 1
  MaxFaults = 2
  MaxFailures = 1
  MaxCrashes = 1
  MaxUnpublished = 1
  MaxLost = 1
  MaxChanges = 1
  o1 = o1
  r1 = r1
  r2 = r2
  w1 = w1
  w2 = w2
SPECIFICATION Spec
CHECK_DEADLOCK FALSE
PROPERTY EveryRowIsAttempted
PROPERTY DeliveredUnlessLost
