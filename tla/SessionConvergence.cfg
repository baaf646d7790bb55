SPECIFICATION FairSpec
CONSTANTS
  Bots = {b1, b2}
  MaxExpiry = 2
  MaxLife = 2
  MaxQueue = 1
  Tries = 2
  MaxFaults = 1
  Faulty = {b1}
  Lingering = TRUE
  Budgets <- MCBudgets
INVARIANTS TypeOK DoomedGrantNeverHolds RevocationNotLost
PROPERTIES EventuallyAgree EventuallyCurrent
CHECK_DEADLOCK FALSE
