CONSTANTS
  Key = {k1, k2}
  Worker = {w1}
  Nobody = Nobody
  NoRow = NoRow
  TrainConcurrency = 1
  RetrainLease = 1
  RetrainRetry = 1
  RetrainRetryMax = 2
  MaxCronGap = 1
  ScanLag = 0
  Sweeps = TRUE
  Views <- AllAlive
  Refused = {}
  Lost = {}
  Restarted = {w1}
  Killable = {}
  Prompt = TRUE
  Operator = TRUE
  Past = 1
  MaxAttempts = 1
  MaxFaults = 0
  MaxDuration = 63
SPECIFICATION FairSpec
PROPERTY DueRowIsClaimed
