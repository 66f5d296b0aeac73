\* Three requests that overlap in any way, over three connections.
CONSTANTS
  Reqs = {r1, r2, r3}
  FIRST = FIRST
  Users = {u1}
  Skus = {k1, k2}
  FirstSku = k1
  Ratings = {1,2}
  NewSlugs = {0,1}
  FirstRating = 1
  PoolSize = 3
  Failing = {r1, r2, r3}
  ABSENT = ABSENT
SPECIFICATION Spec
INVARIANTS TypeOK KeysUnique EveryVariantStocked StatsWrongOnlyByRaces DeletedStaysDeleted
PROPERTY EveryRequestEnds
CHECK_DEADLOCK FALSE
