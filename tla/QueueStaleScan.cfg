CONSTANTS
  Key = {k1}
  Worker = {w1, w2}
  Nobody = Nobody
  NoRow = NoRow
  TrainConcurrency = 1
  RetrainLease = 2
  RetrainRetry = 1
  RetrainRetryMax = 2
  MaxCronGap = 2
  ScanLag = 0
  Sweeps = TRUE
  Views <- AliveOrDead
  Refused = {}
  Lost = {}
  Restarted = {}
  Killable = {}
  Prompt = TRUE
  Operator = FALSE
  Past = 0
  MaxAttempts = 2
  MaxFaults = 0
  MaxDuration = 63
SPECIFICATION Spec
SYMMETRY Symmetry
INVARIANT NeverTrainedTwiceAtOnce
