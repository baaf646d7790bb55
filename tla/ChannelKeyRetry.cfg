SPECIFICATION Spec
CONSTANTS Bots = {b1} Names = {n1} IrcName = n1 Keys = {k1, k2} NoKey = NoKey
  Tags = 1 Tries = 1 MaxCommands = 1 MaxModes = 2 MaxFaults = 1 Lingering = FALSE
PROPERTIES RetryWritesSeenKey
CHECK_DEADLOCK FALSE
