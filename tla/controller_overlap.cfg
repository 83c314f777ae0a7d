\* Two jobs and one cancellation, no faults.
SPECIFICATION Spec
CONSTANTS
  NoJob = NoJob
  j1 = j1
  j2 = j2
  c1 = c1
  Jobs = {j1, j2}
  LocalJobs = {j1}
  Cancels = {c1}
  Faults = {}
INVARIANTS
  OneInference
