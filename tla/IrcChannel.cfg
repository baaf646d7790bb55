SPECIFICATION FairSpec
CONSTANTS
  b1 = b1
  b2 = b2
  b3 = b3
  Bots = {b1, b2, b3}
  Budgets <- Scenarios
  Droppable = {"JOIN", "PART", "+o", "INVITE", "-b", "+l"}
INVARIANTS TypeOK ViewTracks
PROPERTIES EventuallyPlaced EventuallyKnown EventuallyOpped EventuallyEnforced
CHECK_DEADLOCK FALSE
