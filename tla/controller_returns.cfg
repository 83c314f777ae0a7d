\* Two jobs and one cancellation; the Windows settings may be unreadable.  The
\* recording that waits behind a job that returned early sleeps for ever, so the
\* system may stop.
SPECIFICATION FairSpec
CONSTANTS
  NoJob = NoJob
  j1 = j1
  j2 = j2
  c1 = c1
  Jobs = {j1, j2}
  LocalJobs = {j1}
  Cancels = {c1}
  Faults = {"integration"}
INVARIANTS
  OneRunningJob
  WakeupNotLost
PROPERTIES
  StopReturns
CHECK_DEADLOCK FALSE
