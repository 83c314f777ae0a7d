SPECIFICATION ProviderFairSpec
CONSTANTS
  Calls = {start, stop, cancel}
  Children = {k1, k2, k3}
  MaxFaults = 2
  None = None
INVARIANTS
  ChildHasOwner
  OneChild
  ClientKeepsWorker
PROPERTIES
  ProviderReturns
