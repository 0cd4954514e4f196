CONSTANTS
  NSeeds = 1
  NVersions = 2
  FilesPerMerge = 1
  Sizes = {1}
  MaxRepairs = 1
  MaxStalePercent = 100
  Slots = {k1}
  MaxFaults = 1
  MaxLosses = 1
  MaxSweeps = 1
  MaxEdits = 0
SPECIFICATION FairSpec
PROPERTY Finishes
CHECK_DEADLOCK FALSE
