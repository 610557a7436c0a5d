CONSTANTS
  Tabs = {t1}
  Workers = {w1}
  Details = {d1}
  Guest = TRUE
  MaxKeys = 2
  MaxRevisions = 2
  MaxOrders = 2
  MaxFaults = 1
SPECIFICATION Spec
INVARIANTS
  TokenOpensOrder
CHECK_DEADLOCK FALSE
