\* Two requests with their own ids and one cancellation; nothing fails.
SPECIFICATION Spec
CONSTANTS
  NoTask = NoTask
  r1 = r1
  r2 = r2
  c1 = c1
  i1 = i1
  i2 = i2
  Tasks = {r1, r2, c1}
  Requests = {r1, r2}
  CancelCalls = {c1}
  Probes = {}
  Ids = {i1, i2}
  IdOf <- OwnIds
  Failures = {}
INVARIANT
  OnlyOwnCancellation
