SPECIFICATION EndpointsSpec
CONSTANTS
  N = 2
  Watched = {1, 2}
  MaxDrops = 2
  MaxFaults = 2
  Nicks = {"n1", "n2"}
  Desired = "n1"
  Servers = 2
  Dead = {0}
  Offers <- MCOffers
  OutboundLimit = 9
  CollisionLimit = 1
  IdentityAttempts = 2
  MaxWork = 1
  MaxTroubles = 1
  Drift = 2
  Ttl = 6
  MaxLag = 1
  MaxTime = 9
  MaxEnvelopes = 2
  Senders = {"s1", "s2", "s3"}
  RateLimit = 2
  Window = 3
  MaxBuckets = 2
  LastTime = 7
  Members = {"n1"}
  Keys = {"k1"}
  Masks = {"m1"}
  Limits = {"5"}
  Advertised <- MCAdvertised
  MaxChanges = 3
  Characters = {"a", "b"}
  MaxPattern = 4
  MaxValue = 4
INVARIANTS TypeOK HandlesCurrent SyncedExactly OneWatcher ClientTypeOK NickAgrees AcceptedOnce WithinLimit ModesTracked GlobDecides
PROPERTIES EventuallyReady LiveNeverClosed LinesKeepToTheirConnection EventuallyIdentified
CHECK_DEADLOCK FALSE
