\* Two loops contend for one job, with a crash or a failed statement.
SPECIFICATION Spec
CONSTANTS
  Jobs = {1}
  KnownJobs = {1}
  AsyncJobs = {}
  Schedulers = {s1, s2}
  BatchSize = 1
  LeaseDuration = 1
  MaxAttempts = 2
  RetryAfter <- RetryDelays
  Deferrals = {1}
  MaxTime = 4
  MaxFaults = 1
SYMMETRY SchedulerSymmetry
INVARIANTS
  TypeOK
  OneHolderPerGeneration
  RunsOncePerAttempt
  AttemptsWithinBudget
  SettledForCause
  AuditCoversHistory
PROPERTIES
  JobsMoveForward
  WritesAreFenced
