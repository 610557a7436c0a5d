CONSTANTS
  o1 = o1
  o2 = o2
  v1 = v1
  w1 = w1
  w2 = w2
  Orders = {o1}
  Variants = {v1}
  Workers = {w1, w2}
  Demand <- MCDemand
  InitStock <- MCInitStock
  CouponOrders = {o1}
  MaxUses = 1
  MaxPayments = 1
  HeaderIds = TRUE
  Operations <- AllOps
  MaxCrashes = 1
SPECIFICATION Spec
SYMMETRY Symmetry
INVARIANTS
  TypeOK
  PaidIsCaptured
  CaptureAcknowledged
  AuditTrail
PROPERTIES
  MoneyNeverRegresses
CHECK_DEADLOCK FALSE
