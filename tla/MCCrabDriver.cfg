CONSTANTS
  NJobs = 3
  NParallel = 2
  RefillPercent = 60
  ReleasePolls = 1
  Retries = 1
  Tolerance = 0
  MaxLegs = 2
  MaxLosses = 1
  EarlyLosses = FALSE
SPECIFICATION Spec
INVARIANTS TypeOK EveryJobCountedOnce DiskAccountsForAll InFlightCap OneAttemptPerFailure ParkedIsOnTheClock DoneIsComplete NoMassRegeneration
PROPERTIES WindowKeepsRunning
