SPECIFICATION Spec
CONSTANTS
  Paths <- TreePaths
  MaxSize = 2
  MaxWriteBytes = 1
  MaxCopyBytes = 1
  MaxListEntries = 1
  MaxDeleteEntries = 1
  CallSet <- RaceCalls
  Trees <- SmallTrees
  MaxCalls = 1
  MaxForeign = 2
  Faults = TRUE
INVARIANTS ChangesOnlyNamed ReportsTrue LimitsRespected
PROPERTIES DestroysAtMost CallsFinish
