SPECIFICATION FairSpec
CONSTANTS Bots = {b1, b2} Names = {n1, n2} IrcName = n1 Keys = {} NoKey = NoKey
  Tags = 2 Tries = 1 MaxCommands = 2 MaxModes = 0 MaxFaults = 1 Lingering = TRUE
INVARIANTS TypeOK
PROPERTIES RecordsOnlyRise EventuallyConverged
CHECK_DEADLOCK FALSE
