CONSTANTS
  c1 = c1
  c2 = c2
  m1 = m1
  m2 = m2
  Client = {c1, c2}
  Call = {v1}
  Inspection = {i1}
  CallOf <- MCCallOf
  Nobody = nobody
  MaxInFlight = 1
  SyncScopes <- MCSyncScopes
  Mount = {m1, m2}
  Capture = {1, 2}
  QueueScopes <- MCQueueScopes
SPECIFICATION Spec
SYMMETRY MCSymmetry
CHECK_DEADLOCK FALSE
INVARIANT NoBlindWrite
INVARIANT PromiseKept
INVARIANT StoreTypeOK
INVARIANT RetiredKeepsUp
