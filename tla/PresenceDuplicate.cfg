SPECIFICATION Spec
CONSTANTS
  Instances = {p1, p2}
  Forged = Forged
  Deleted = Deleted
  MaxFaults = 2
  MaxRefresh = 0
  Lingering = FALSE
SYMMETRY Symmetry
INVARIANTS DuplicateStaysUnready
CHECK_DEADLOCK FALSE
