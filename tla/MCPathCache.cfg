CONSTANTS
  base = base
  era = era
  task = task
  a = a
  b = b
  Paths <- MCPaths
  Root <- base
  Parent <- MCParent
  Above <- MCAbove
  Files <- MCFiles
  Validity = 1
SPECIFICATION Spec
INVARIANTS TypeOK VerdictIsCurrent NoAbsentParent

