CONSTANTS
  Key = {k1}
  Worker = {w1, w2}
  Nobody = Nobody
  NoRow = NoRow
  TrainConcurrency = 1
  RetrainLease = 1
  RetrainRetry = 1
  RetrainRetryMax = 2
  MaxCronGap = 1
  ScanLag = 0
  Sweeps = TRUE
  Views <- AliveOrDead
  Refused <- AllCalls
  Lost <- AllCalls
  Restarted = {w1}
  Killable = {w1}
  Prompt = TRUE
  Operator = FALSE
  Past = 0
  MaxAttempts = 1
  MaxFaults = 1
  MaxDuration = 63
SPECIFICATION FairSpec
PROPERTY EveryClaimEnds
PROPERTY OrphanModelIsCollected
