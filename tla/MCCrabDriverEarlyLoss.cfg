CONSTANTS
  NJobs = 2
  NParallel = 2
  RefillPercent = 60
  ReleasePolls = 1
  Retries = 1
  Tolerance = 1
  MaxLegs = 2
  MaxLosses = 1
  EarlyLosses = TRUE
SPECIFICATION FairSpec
PROPERTY LoopEnds
