SPECIFICATION Spec
CONSTANTS
  a = a
  b = b
  u1 = u1
  u2 = u2
  Procs = {p1, p2}
  Users = {u1}
  Variants = {a}
  OrderIds = {o1, o2}
  Baskets <- Single
  InitialStock <- StockTwo
  InitialCart <- NoCart
  StockLevels = {}
  AdminTargets = {}
  UsageLimit = 0
  PerUserLimit = 1
  COUPON = COUPON
  NONE = NONE
INVARIANT EarmarkedForPending
CHECK_DEADLOCK FALSE
