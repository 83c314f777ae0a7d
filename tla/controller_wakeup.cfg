\* Three local jobs and one cancellation, no faults.
SPECIFICATION Spec
CONSTANTS
  NoJob = NoJob
  j1 = j1
  j2 = j2
  j3 = j3
  c1 = c1
  Jobs = {j1, j2, j3}
  LocalJobs = {j1, j2, j3}
  Cancels = {c1}
  Faults = {}
SYMMETRY Symmetry
INVARIANTS
  WakeupNotLost
CHECK_DEADLOCK FALSE
