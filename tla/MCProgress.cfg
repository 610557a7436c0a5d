CONSTANTS
  None = None
  Absent = Absent
  NoUser = NoUser
  Short = Short
  w1 = w1
  w2 = w2
  k1 = k1
  k2 = k2
  p1 = p1
  i1 = i1
  i2 = i2
  s1 = s1
  v1 = v1
  v2 = v2
  u1 = u1
  e1 = e1
  e2 = e2
  Orders = {i1}
  Coupons = {k1}
  NumVariants = 3
  Carts = {{1, 2}, {2, 3}, {1, 2, 3}}
  ItemOrders <- InOrder
  Workers = {w1, w2}
  MaxBegun = 3
SPECIFICATION SceneSpec
INVARIANTS
  NoDeadlock
PROPERTIES
  StoredWorkSettles
  BuyerIsNotStranded
  AskedIsAnswered
CHECK_DEADLOCK FALSE
