CONSTANTS
  Key = {k1}
  Worker = {w1, w2}
  Nobody = Nobody
  NoRow = NoRow
  TrainConcurrency = 1
  RetrainLease = 2
  RetrainRetry = 1
  RetrainRetryMax = 2
  MaxCronGap = 2
  ScanLag = 0
  Sweeps = TRUE
  Views <- AliveOrDead
  Refused <- AllButRelease
  Lost <- AllButClaim
  Restarted = {w2}
  Killable = {w1}
  Prompt = FALSE
  Operator = FALSE
  Past = 0
  MaxAttempts = 1
  MaxFaults = 1
  MaxDuration = 63
SPECIFICATION Spec
INVARIANT TypeOK
INVARIANT LeaseCoversFit
INVARIANT OneCoveredFit
INVARIANT RecentOkHasModel
INVARIANT QueueInv
INVARIANT ClaimsAreHeld
INVARIANT HeldIsCurrent
PROPERTY AttemptsCountFailures
PROPERTY ImplementsLedger
