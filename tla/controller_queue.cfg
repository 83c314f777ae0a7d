\* Three local jobs, none cancelled and none failing, so that the third finds the
\* slot and the queue taken.
SPECIFICATION Spec
CONSTANTS
  NoJob = NoJob
  j1 = j1
  j2 = j2
  j3 = j3
  Jobs = {j1, j2, j3}
  LocalJobs = {j1, j2, j3}
  Cancels = {}
  Faults = {}
SYMMETRY Symmetry
INVARIANTS
  QueueEntryHasOwner
  WakeupNotLost
PROPERTIES
  PipelineSpec
