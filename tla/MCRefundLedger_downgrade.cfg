CONSTANTS
  k1 = k1
  w1 = w1
  w2 = w2
  Keys = {k1}
  Workers = {w1, w2}
  Paid = 1
  MaxAttempts = 2
  Operations = {"request", "scan", "webhook"}
  MaxCrashes = 0
SPECIFICATION Spec
SYMMETRY Symmetry
PROPERTIES
  MoneyNotDowngraded
CHECK_DEADLOCK FALSE
