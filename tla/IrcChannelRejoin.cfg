SPECIFICATION FairSpec
CONSTANTS
  b1 = b1
  b2 = b2
  b3 = b3
  Bots = {b1, b2, b3}
  Budgets <- Rejoin
  Droppable = {"JOIN", "PART", "+o", "INVITE", "-b", "+l"}
PROPERTY EventuallyKnown
CHECK_DEADLOCK FALSE
