\* Two bindings and two threads, whose ids are used again.  The process may end,
\* and does no more then.
SPECIFICATION FairSpec
CONSTANTS
  Bindings = {b1, b2}
  Threads = {t1, t2}
  Other = Other
  None = None
INVARIANTS
  RegistrationHasOwner
  StatusIsTruthful
PROPERTIES
  CommandsReturn
CHECK_DEADLOCK FALSE
