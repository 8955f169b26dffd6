\* The deployed configuration: one loop, several jobs, one of them of a type
\* no handler is registered for.
SPECIFICATION FairSpec
CONSTANTS
  Jobs = {1, 2, 3}
  KnownJobs = {1, 3}
  AsyncJobs = {3}
  Schedulers = {s1}
  BatchSize = 2
  LeaseDuration = 1
  MaxAttempts = 2
  RetryAfter <- RetryDelays
  Deferrals = {1}
  MaxTime = 3
  MaxFaults = 1
PROPERTIES
  BackoffIsKept
  DueJobsAreTaken
  ExpiredLeasesAreTaken
