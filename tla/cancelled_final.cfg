SPECIFICATION Spec
CONSTANTS
  Procs = {p1}
  Intents = {i1}
  Charges = {k1}
  ReturnIds = {}
  CancelIds = {}
  AdminTargets = {"confirmed"}
  InitialPaths <- JustPlaced
  MaxHistory = 2
  NONE = NONE
  NotLoaded = NotLoaded
PROPERTY CancelledIsFinal
CHECK_DEADLOCK FALSE
