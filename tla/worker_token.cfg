\* One request whose client may disconnect.
SPECIFICATION Spec
CONSTANTS
  NoTask = NoTask
  r1 = r1
  i1 = i1
  Tasks = {r1}
  Requests = {r1}
  CancelCalls = {}
  Probes = {}
  Ids = {i1}
  IdOf <- OwnIds
  Failures = {"disconnect"}
INVARIANT
  TokenHasOwner
