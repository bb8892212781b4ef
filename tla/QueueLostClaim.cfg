CONSTANTS
  Key = {k1}
  Worker = {w1, w2}
  Nobody = Nobody
  NoRow = NoRow
  TrainConcurrency = 1
  RetrainLease = 2
  RetrainRetry = 1
  RetrainRetryMax = 2
  MaxCronGap = 2
  ScanLag = 0
  Sweeps = TRUE
  Views <- AllAlive
  Refused = {}
  Lost = {"claim"}
  Restarted = {w1, w2}
  Killable = {}
  Prompt = FALSE
  Operator = FALSE
  Past = 0
  MaxAttempts = 2
  MaxFaults = 2
  MaxDuration = 63
SPECIFICATION Spec
SYMMETRY Symmetry
PROPERTY ReleaseLeavesAttempts
