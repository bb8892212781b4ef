CONSTANTS
  Workers = {owner, reader}
  Migrators = {cli}
  DryRuns = {}
  Creators = {owner, cli}
  Nobody = Nobody
  Missing = Missing
  Files = 2
  MaxFaults = 1
SPECIFICATION FairSpec
INVARIANT MigrationsInv
INVARIANT LedgerIsTrue
INVARIANT NoRaceErrors
INVARIANT ReadyIsProvisioned
INVARIANT ExitZeroIsApplied
PROPERTY ImplementsProvisioning
PROPERTY EveryWorkerIsReady
CHECK_DEADLOCK FALSE
