CONSTANTS
  NBranches = 2
  MaxUnreadable = 1
  MaxUnscheduled = 1
  MaxRefused = 2
  MaxFailedSubmissions = 2
  PollFails = 1
  MinRunning = 2
  StalePercent = 50
  MaxPerInterval = 1
  MaxPerBranch = 1
  MaxTasks = 2
  MaxLegs = 2
SPECIFICATION Spec
INVARIANTS TypeOK SiteRecordIsTrue
PROPERTIES StopIsEarned EveryRunEnds
