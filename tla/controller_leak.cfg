\* Two jobs, no cancellation; the Windows settings may be unreadable.
SPECIFICATION FairSpec
CONSTANTS
  NoJob = NoJob
  j1 = j1
  j2 = j2
  Jobs = {j1, j2}
  LocalJobs = {j1, j2}
  Cancels = {}
  Faults = {"integration"}
PROPERTIES
  EveryStopReturns
CHECK_DEADLOCK FALSE
