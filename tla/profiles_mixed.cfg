SPECIFICATION Spec
SYMMETRY Symmetry
CONSTANTS
  Profiles = {p1}
  Workers = {w1, w2}
  MaxFaults = 0
  None = None
INVARIANTS
  PairsAreTested
