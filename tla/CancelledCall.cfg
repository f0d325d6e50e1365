CONSTANTS
  Invoice = {i1, i2}
  Legacy = {}
  Dues = {0, 1, 2}
  Reference = {r1}
  LegacyReference = legacyRef
  Key = {}
  NoKey = noKey
  ReviewStep <- MCReviewStep
  CustomStep = {}
  PaidStep = paid
  NoStep = noStep
  DefaultPosition <- MCDefaultPosition
  MaxAmount = 2
  MaxRevision = 7
  SumAmounts <- MCSumAmounts
  review1 = review1
  paid = paid
  Call = {c1}
  Inspection = {n1, n2}
  InspectionKey = {k1}
  NoInvoice = noInvoice
  Nrt = {1, 2}
  Cargo = {"dry", "other"}
  Untariffed = "other"
  Rates <- MCRates
  Cent = 2
SPECIFICATION Spec
CHECK_DEADLOCK FALSE
PROPERTY CancelledIsFinal
