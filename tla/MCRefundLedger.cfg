CONSTANTS
  k1 = k1
  k2 = k2
  w1 = w1
  w2 = w2
  Keys = {k1, k2}
  Workers = {w1, w2}
  Paid = 2
  MaxAttempts = 2
  Operations = {"request", "retry", "scan", "webhook", "ship"}
  MaxCrashes = 1
SPECIFICATION Spec
SYMMETRY Symmetry
INVARIANTS
  TypeOK
  NeverOverRefunded
  RefundedIsPaidBack
  ShippedKeepsMoney
  LedgerTruth
CHECK_DEADLOCK FALSE
