\* One binding; two threads, so that the id that has just become free may be used
\* again or not.
SPECIFICATION Spec
CONSTANTS
  Bindings = {b1}
  Threads = {t1, t2}
  Other = Other
  None = None
INVARIANTS
  ShownHotkeyWorks
CHECK_DEADLOCK FALSE
