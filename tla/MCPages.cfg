CONSTANTS
  None = None
  Absent = Absent
  NoUser = NoUser
  s1 = s1
  s2 = s2
  w1 = w1
  w2 = w2
  v1 = v1
  v2 = v2
  v3 = v3
  b1 = b1
  u1 = u1
  u2 = u2
  Admins = {w1, w2}
  Numbers = {v1}
  Paid = 1
  Offered = {"dispatch", "act", "refund"}
  Starts = {"PAID", "CONFIRMED"}
  Slots = {s1, s2}
  MaxKeys = 1
  MaxLost = 0
SPECIFICATION SceneSpec
SYMMETRY Symmetry
INVARIANTS
  
  FormIsKept
  WindowIsRight
  DeskIsSafe
  ImagesAgree

  
CHECK_DEADLOCK FALSE
