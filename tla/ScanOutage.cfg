CONSTANTS
  MaxDuration = 31
  Second = 1
  Minute = 2
  Day = 6
  DefaultDruidTimeout = 2
  DefaultHashScanTTL = 2
  DefaultWorkerTTL = 3
  DefaultRetrainRetry = 2
  DefaultRetrainRetryMax = 5
  Configured <- Every
  Watched <- Scans
  Others = TRUE
  Horizon = 6
  MaxFaults = 1
  MaxFailures = 8
CHECK_DEADLOCK FALSE
SPECIFICATION Spec
PROPERTY OutageKeepsPublishing
