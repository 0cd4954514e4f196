CONSTANTS
  NSeeds = 2
  NVersions = 1
  FilesPerMerge = 2
  Sizes = {1}
  MaxRepairs = 1
  MaxStalePercent = 50
  Slots = {k1, k2}
  MaxFaults = 2
  MaxLosses = 1
  MaxSweeps = 0
  MaxEdits = 0
SPECIFICATION Spec
INVARIANTS TypeOK RecordIsBacked
PROPERTIES NoRegeneration PruneOnlyLost
CHECK_DEADLOCK FALSE
SYMMETRY Symmetry
