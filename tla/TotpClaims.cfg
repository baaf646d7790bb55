SPECIFICATION Spec
CONSTANTS
  Attempts = {a1, a2}
  Counters <- CounterSet
  Codes <- CodeSet
  Totp <- CodeOfCounter
  Period = 1
  Drift = 1
  TTL = 6
  Skew = 1
  MaxDelay = 1
  MaxTime = 6
  MaxLate = 1
SYMMETRY Symmetry
INVARIANTS TypeOK OneGrantPerCounter
CHECK_DEADLOCK FALSE
