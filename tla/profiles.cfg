SPECIFICATION Spec
SYMMETRY Symmetry
CONSTANTS
  Profiles = {p1, p2}
  Workers = {w1, w2}
  MaxFaults = 1
  None = None
INVARIANTS
  ActiveIsUsable
  TestedPairIsUsed
  SecretHasProfile
