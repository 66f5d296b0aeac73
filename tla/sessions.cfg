\* One account, two browsers, two requests at a time, three refresh tokens.
\* The run stops where the bounds are spent.
CONSTANTS
  Reqs = {r1, r2}
  Devices = {d1, d2}
  Emails = {ann}
  AdminEmails = {}
  MaxTokens = 3
  MaxResets = 1
  NOBODY = NOBODY
SPECIFICATION Spec
SYMMETRY Symmetry
INVARIANTS TypeOK OneLivePerSession LogoutEndsSession SignedInCanRenew OldPasswordSessionsEnd
CHECK_DEADLOCK FALSE
