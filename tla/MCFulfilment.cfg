CONSTANTS
  None = None
  Short = Short
  dear = dear
  w1 = w1
  w2 = w2
  w3 = w3
  w4 = w4
  i1 = i1
  i2 = i2
  s1 = s1
  s2 = s2
  r1 = r1
  r2 = r2
  r3 = r3
  q1 = q1
  u1 = u1
  u2 = u2
  e1 = e1
  e2 = e2
  e3 = e3
  Emails = {i1, i2}
  Alerted = {i1}
  Workers = {w1, w2}
  MaxAttempts = 2
  MaxFaults = 1
  MaxVersions = 2
  MaxRetries = 1
SPECIFICATION SceneSpec
SYMMETRY Symmetry
INVARIANTS
  BookedOnce
  PointsConserved
  
  WishesAnswered
  
  
PROPERTIES
  OrderFollowsParcels
  SentOnce
  RenewalsKept
CHECK_DEADLOCK FALSE
