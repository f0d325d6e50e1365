CONSTANTS
  Invoice = {i1, i2}
  Legacy = {i2}
  Dues = {0, 2}
  Reference = {r1, r2}
  LegacyReference = legacyRef
  Key = {k1}
  NoKey = noKey
  ReviewStep <- MCReviewStep
  CustomStep = {custom1}
  PaidStep = paid
  NoStep = noStep
  DefaultPosition <- MCDefaultPosition
  MaxAmount = 2
  MaxRevision = 7
  SumAmounts <- MCSumAmounts
  review1 = review1
  paid = paid
  custom1 = custom1
  r1 = r1
  r2 = r2
SPECIFICATION BillingSpec
SYMMETRY MCSymmetry
CHECK_DEADLOCK FALSE
INVARIANT TypeOK
INVARIANT NeverOverpaid
INVARIANT PaidIffCovered
INVARIANT HistoryExplainsStep
INVARIANT PaidIsGated
INVARIANT WorkflowUsable
PROPERTY EntersLiveSteps
PROPERTY ImplementsLedger
