\* Two requests, of any two customers, that do not fail, over three connections.
CONSTANTS
  Reqs = {r1, r2}
  FIRST = FIRST
  Users = {u1, u2}
  Skus = {k1}
  FirstSku = k1
  Ratings = {1, 2}
  NewSlugs = {}
  FirstRating = 1
  PoolSize = 3
  Failing = {}
  ABSENT = ABSENT
SPECIFICATION Spec
INVARIANT AlwaysLiveStats
CHECK_DEADLOCK FALSE
