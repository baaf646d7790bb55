SPECIFICATION FairSpec
CONSTANTS
  Instances = {p1, p2}
  Forged = Forged
  Deleted = Deleted
  MaxFaults = 1
  MaxRefresh = 0
  Lingering = TRUE
PROPERTIES EventuallyOneOwner
CHECK_DEADLOCK FALSE
