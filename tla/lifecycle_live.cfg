SPECIFICATION FairSpec
CONSTANTS
  Procs = {p1, p2}
  Intents = {i1, i2}
  Charges = {k1}
  ReturnIds = {}
  CancelIds = {}
  AdminTargets = {"confirmed", "cancelled"}
  InitialPaths <- JustPlaced
  MaxHistory = 2
  NONE = NONE
  NotLoaded = NotLoaded
INVARIANT PaidIsBacked
PROPERTY CapturedIsRecorded
CHECK_DEADLOCK FALSE
