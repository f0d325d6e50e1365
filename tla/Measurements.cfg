CONSTANTS
  s1 = s1
  s2 = s2
  a1 = a1
  a2 = a2
  l1 = l1
  l2 = l2
  d1 = d1
  d2 = d2
  g1 = g1
  g2 = g2
  b1 = b1
  b2 = b2
  n1 = n1
  n2 = n2
  Staff = {s1, s2}
  Agencies = {a1, a2}
  Lines = {l1, l2}
  Quantities <- MCQuantities
  Terms <- MCTerms
  Schedules = {d1, d2}
  MaxReadings = 2
  MaxProposals = 3
  MaxAssessments = 3
  Scopes <- MCScopes
  Pages = {g1, g2}
  Bodies = {b1, b2}
  Names = {n1, n2}
  MaxLinks = 2
  MaxKeys = 2
  NoOne = NoOne
SPECIFICATION PortalSpec
CHECK_DEADLOCK FALSE
INVARIANT PortalTypeOK
INVARIANT BilledIsEntitlement
INVARIANT OneLinkReading
PROPERTY NoFalseRefusal
INVARIANT FinalIsSound
