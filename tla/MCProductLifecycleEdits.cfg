CONSTANTS
  NSeeds = 2
  NVersions = 1
  FilesPerMerge = 2
  Sizes = {1, 2, 3}
  MaxRepairs = 0
  MaxStalePercent = 50
  Slots = {k1, k2}
  MaxFaults = 2
  MaxLosses = 0
  MaxSweeps = 0
  MaxEdits = 2
SPECIFICATION Spec
INVARIANT MergedHonoursContract
CHECK_DEADLOCK FALSE
SYMMETRY Symmetry
