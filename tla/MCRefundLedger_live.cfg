CONSTANTS
  k1 = k1
  w1 = w1
  w2 = w2
  Keys = {k1}
  Workers = {w1, w2}
  Paid = 1
  MaxAttempts = 3
  Operations = {"request", "retry", "scan", "webhook", "ship"}
  MaxCrashes = 1
SPECIFICATION FairSpec
PROPERTIES
  FullRefundSettles
CHECK_DEADLOCK FALSE
