\* Two requests with one id, a cancellation and two probes; the engine works and
\* nobody disconnects.
SPECIFICATION Spec
SYMMETRY RequestSymmetry
CONSTANTS
  NoTask = NoTask
  r1 = r1
  r2 = r2
  c1 = c1
  h1 = h1
  h2 = h2
  i1 = i1
  Tasks = {r1, r2, c1, h1, h2}
  Requests = {r1, r2}
  CancelCalls = {c1}
  Probes = {h1, h2}
  Ids = {i1}
  IdOf <- SameId
  Failures = {"rate", "body"}
INVARIANTS
  TokenHasOwner
  FailsOnlyAfterCancellation
