CONSTANTS
  Key = {1}
  Worker = {1, 2}
  Ghost = {}
  Score <- Scores
  Sources = {"store"}
  Lists = {}
  Endpoints = {}
  Alive <- AllKeys
  WorkerTTL = 3
  SnapshotCacheTTL = 3
  Mortal = {2}
  Collects = FALSE
  SlowTick = 2
  MaxWrites = 1
  MaxFaults = 2
SPECIFICATION FairSpec
PROPERTY KeysKeepPublishing
