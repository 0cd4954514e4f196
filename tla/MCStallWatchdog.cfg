CONSTANTS
  Interval = 6
  Missed = 2
  Poll = 2
  WriteTime = 1
  RetryWait = 1
  Resolution = 1
  MaxPerBranch = 1
  Startup = 6
  Linger = 1
  MaxFails = 1
  MaxOutages = 1
  MaxAttempts = 2
  Horizon = 32
SPECIFICATION Spec
INVARIANTS TypeOK StalledIsFailed
PROPERTY HealthyIsSpared
