\* Two bindings, and three threads: the active one, the next one and an orphan.
\* The process may end, and does no more then.
SPECIFICATION Spec
CONSTANTS
  Bindings = {b1, b2}
  Threads = {t1, t2, t3}
  Other = Other
  None = None
SYMMETRY Symmetry
INVARIANTS
  RegistrationHasOwner
  StatusIsTruthful
CHECK_DEADLOCK FALSE
