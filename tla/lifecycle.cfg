SPECIFICATION Spec
CONSTANTS
  Procs = {p1, p2}
  Intents = {i1}
  Charges = {k1}
  ReturnIds = {r1, r2, r3}
  CancelIds = {c1}
  AdminTargets = {"processing", "delivered", "returned", "refunded", "cancelled"}
  InitialPaths <- Fulfilled
  MaxHistory = 7
  NONE = NONE
  NotLoaded = NotLoaded
SYMMETRY Symmetry
INVARIANTS TypeOK MilestonesInOrder LogExplainsStatus PendingReturnsBounded PaidIsBacked
PROPERTY AppendOnly
CHECK_DEADLOCK FALSE
