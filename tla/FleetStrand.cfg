CONSTANTS
  Key = {1}
  Worker = {1, 2, 3}
  Ghost = {3}
  Score <- Scores
  Sources = {"peers"}
  Lists <- GhostLists
  Endpoints = {}
  Alive <- AllKeys
  WorkerTTL = 3
  SnapshotCacheTTL = 2
  Mortal = {}
  Collects = FALSE
  SlowTick = 1
  MaxWrites = 1
  MaxFaults = 0
SPECIFICATION Spec
INVARIANT StrandNeedsSharedGhost
