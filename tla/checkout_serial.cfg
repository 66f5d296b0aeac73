SPECIFICATION Spec
CONSTANTS
  a = a
  b = b
  u1 = u1
  u2 = u2
  Procs = {p1}
  Users = {u1}
  Variants = {a, b}
  OrderIds = {o1, o2}
  Baskets <- Crossing
  InitialStock <- StockTwo
  InitialCart <- CartOf
  StockLevels = {1, 3}
  AdminTargets = {"confirmed", "processing", "cancelled"}
  UsageLimit = 1
  PerUserLimit = 1
  COUPON = COUPON
  NONE = NONE
PROPERTY AtomicWhenSerial
CHECK_DEADLOCK FALSE
