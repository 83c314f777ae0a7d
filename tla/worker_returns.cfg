\* A request, its cancellation and a probe; everything may fail.
SPECIFICATION FairSpec
CONSTANTS
  NoTask = NoTask
  r1 = r1
  c1 = c1
  h1 = h1
  i1 = i1
  Tasks = {r1, c1, h1}
  Requests = {r1}
  CancelCalls = {c1}
  Probes = {h1}
  Ids = {i1}
  IdOf <- OwnIds
  Failures = {"files", "startup", "probe", "inspect", "kill", "crash", "rate", "body", "inference", "disconnect"}
INVARIANTS
  EngineHasOwner
  GateHasOwner
  PermitHasOwner
PROPERTY
  CallsReturn
