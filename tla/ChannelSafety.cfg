SPECIFICATION Spec
CONSTANTS Bots = {b1, b2} Names = {n1} IrcName = n1 Keys = {k1} NoKey = NoKey
  Tags = 2 Tries = 2 MaxCommands = 1 MaxModes = 1 MaxFaults = 1 Lingering = FALSE
SYMMETRY Symmetry
INVARIANTS UpdatesChain ViewIsStored
CHECK_DEADLOCK FALSE
