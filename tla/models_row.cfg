SPECIFICATION Spec
CHECK_DEADLOCK FALSE
CONSTANTS
  Models = {m1}
  Calls = {c1, c2}
  Size = 2
  MaxFaults = 0
  MaxDeletes = 1
  NoFile = NoFile
  NoDir = NoDir
  None = None
  Leaked = Leaked
INVARIANT
  CatalogIsTrue
