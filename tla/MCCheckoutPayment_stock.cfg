CONSTANTS
  o1 = o1
  o2 = o2
  v1 = v1
  w1 = w1
  w2 = w2
  Orders = {o1, o2}
  Variants = {v1}
  Workers = {w1, w2}
  Demand <- MCDemand
  InitStock <- MCInitStock
  CouponOrders = {o1, o2}
  MaxUses = 1
  MaxPayments = 1
  HeaderIds = FALSE
  Operations = {"checkout", "orderCancel", "verify", "ship", "refund"}
  MaxCrashes = 0
SPECIFICATION Spec
SYMMETRY Symmetry
INVARIANTS
  StockConserved
  CouponConserved
PROPERTIES
  KeepsBook
CHECK_DEADLOCK FALSE
