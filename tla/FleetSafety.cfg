CONSTANTS
  Key = {3}
  Worker = {1, 2}
  Ghost = {}
  Score <- Scores
  Sources = {"peers", "dns", "store"}
  Lists <- PeerLists
  Endpoints <- Resolved
  Alive <- AllKeys
  WorkerTTL = 3
  SnapshotCacheTTL = 1
  Mortal = {1, 2}
  Collects = TRUE
  SlowTick = 1
  MaxWrites = 2
  MaxFaults = 1
SPECIFICATION Spec
INVARIANT TypeOK
INVARIANT SameViewIsDisjoint
INVARIANT RunningViewsCover
INVARIANT CacheIsCoherent
INVARIANT FleetInv
