CONSTANTS
  None = None
  Absent = Absent
  Broken = Broken
  w1 = w1
  w2 = w2
  w3 = w3
  t1 = t1
  t2 = t2
  d1 = d1
  p1 = p1
  c1 = c1
  v1 = v1
  v2 = v2
  b1 = b1
  Tabs = {t1, t2}
  Workers = {w1, w2}
  Details = {d1}
  Guest = FALSE
  MaxKeys = 2
  MaxRevisions = 2
  MaxOrders = 2
  MaxFaults = 1
SPECIFICATION SceneSpec
SYMMETRY Symmetry
INVARIANTS
  OnePaymentPerAttempt
  
PROPERTIES
  ReportedIsSo
  EventsKept
  SnapshotIsCart
CHECK_DEADLOCK FALSE
