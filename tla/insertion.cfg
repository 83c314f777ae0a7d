SPECIFICATION Spec
CHECK_DEADLOCK FALSE
CONSTANTS
  Attempts = {t1, t2}
  UserTexts = {u1}
  Handles = {h1}
  Processes = {app, other, admin}
  Elevated = {admin}
  MaxUser = 1
  MaxFaults = 1
  NonText = NonText
  None = None
INVARIANTS
  LeftoverIsExplained
PROPERTIES
  InsertedIsTranscript
  PastesIntoTarget
  NewerClipboardKept
