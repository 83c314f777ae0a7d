\* Two attempts; the user does nothing and nothing fails.
SPECIFICATION Spec
CHECK_DEADLOCK FALSE
CONSTANTS
  Attempts = {t1, t2}
  UserTexts = {u1}
  Handles = {h1}
  Processes = {app}
  Elevated = {}
  MaxUser = 0
  MaxFaults = 0
  NonText = NonText
  None = None
INVARIANT
  LeftoverIsTold
