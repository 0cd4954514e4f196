CONSTANTS
  CRAB_MB_PER_CORE = 2500
  CRAB_MB_SINGLE_CORE = 3000
  Requests <- MCRequests
  Whitelist <- MCWhitelist
  StaticBlacklist = {}
  Sites = {s1, s2}
  MinFailures = 2
  MinFailurePercent = 50
  RelativeFactor = 2
  MinBaselineJobs = 1
  QuarantineTicks = 2
  MaxQuarantineTicks = 3
  BurstFailures = 2
  BurstTicks = 0
  WindowTicks = 2
  MaxSites = 1
  MaxTime = 5
  MaxRunning = 1
  MaxEvents = 2
SPECIFICATION Spec
INVARIANTS TypeOK
PROPERTIES BanNeedsFreshFailures BlackHoleIsHeldOut BanIsServed BansEscalate SubmissionHonoursRequest
SYMMETRY Symmetry
