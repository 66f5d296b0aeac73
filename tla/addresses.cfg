\* Two requests at a time of one customer, three addresses (the run stops
\* where all are removed and no more may be created).
CONSTANTS
  Reqs = {r1, r2}
  MaxAddresses = 3
SPECIFICATION Spec
SYMMETRY Symmetry
INVARIANTS TypeOK DefaultsBounded DefaultKept RemovedStaysRemoved
PROPERTY SetDefaultHeals
CHECK_DEADLOCK FALSE
