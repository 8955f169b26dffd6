\* One loop that crashes once; operational time passes, virtual time need not.
SPECIFICATION FairSpec
CONSTANTS
  Jobs = {1}
  KnownJobs = {1}
  AsyncJobs = {}
  Schedulers = {s1}
  BatchSize = 1
  LeaseDuration = 1
  MaxAttempts = 2
  RetryAfter <- RetryDelays
  Deferrals = {1}
  MaxTime = 3
  MaxFaults = 1
PROPERTIES
  WallClockLeaseRecovery
