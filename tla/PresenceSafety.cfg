SPECIFICATION Spec
CONSTANTS
  Instances = {p1, p2}
  Forged = Forged
  Deleted = Deleted
  MaxFaults = 1
  MaxRefresh = 1
  Lingering = TRUE
SYMMETRY Symmetry
INVARIANTS TypeOK OwnRevision
PROPERTIES NeverEvictsPeer RevisionNeverRegresses
CHECK_DEADLOCK FALSE
