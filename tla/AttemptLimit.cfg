SPECIFICATION Spec
CONSTANTS
  Attempts = {a1, a2}
  Limit = 2
  Window = 2
  TTL = 3
  Skew = 0
  MaxDelay = 1
  MaxTime = 5
  MaxLate = 1
SYMMETRY Symmetry
INVARIANTS TypeOK SlotSpacing AttemptBudget
CHECK_DEADLOCK FALSE
