SPECIFICATION Spec
CONSTANTS
  a = a
  b = b
  u1 = u1
  u2 = u2
  Procs = {p1, p2}
  Users = {u1, u2}
  Variants = {a, b}
  OrderIds = {o1, o2, o3}
  Baskets <- Single
  InitialStock <- StockOne
  InitialCart <- CartsOfB
  StockLevels = {0}
  AdminTargets = {}
  UsageLimit = 2
  PerUserLimit = 1
  COUPON = COUPON
  NONE = NONE
SYMMETRY UserSymmetry
INVARIANTS TypeOK ReservedExactUnlessRaced UsedCountExact CouponOvershoot PerUserOvershoot
PROPERTY PlacedIfAvailable
CHECK_DEADLOCK FALSE
