\* Two jobs, local and remote, one cancellation, every fault.  After the early
\* return for unreadable settings a waiting job really sleeps for ever, so the
\* system may stop.
SPECIFICATION Spec
CONSTANTS
  NoJob = NoJob
  j1 = j1
  j2 = j2
  c1 = c1
  Jobs = {j1, j2}
  LocalJobs = {j1}
  Cancels = {c1}
  Faults = {"preferences", "model", "microphone", "audio", "silence", "lexicon",
            "worker", "save", "shutdown", "cancel", "integration"}
INVARIANTS
  MicrophoneHasOwner
  QueueEntryHasOwner
  SlotHasOwner
  SidecarHasOwner
PROPERTIES
  JobsKeepToThemselves
  PipelineSpec
  JobMachineSpec
CHECK_DEADLOCK FALSE
