CONSTANTS
  MaxDuration = 31
  Second = 1
  Minute = 2
  Day = 6
  DefaultDruidTimeout = 2
  DefaultHashScanTTL = 2
  DefaultWorkerTTL = 3
  DefaultRetrainRetry = 2
  DefaultRetrainRetryMax = 5
  Configured <- Every
  Watched <- Scans
  Others = TRUE
  Horizon = 6
  MaxFaults = 1
  MaxFailures = 8
SPECIFICATION FairSpec
INVARIANT SettingsServe
INVARIANT LeaseCoversWork
INVARIANT DelayIsCappedDoubling
INVARIANT BackoffSpacesOut
PROPERTY SteadyIsReady
PROPERTY SteadyIsNotRetired
PROPERTY StoppedIsRetired
CHECK_DEADLOCK FALSE
