SPECIFICATION FairSpec
CONSTANTS
  a = a
  b = b
  u1 = u1
  u2 = u2
  Procs = {p1, p2}
  Users = {u1}
  Variants = {a, b}
  OrderIds = {o1, o2}
  Baskets <- Crossing
  InitialStock <- StockOne
  InitialCart <- CartOf
  StockLevels = {}
  AdminTargets = {"cancelled"}
  UsageLimit = 1
  PerUserLimit = 1
  COUPON = COUPON
  NONE = NONE
INVARIANT StockBounds
PROPERTY RequestsEnd
CHECK_DEADLOCK FALSE
