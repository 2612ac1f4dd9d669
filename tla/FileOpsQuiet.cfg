SPECIFICATION Spec
CONSTANTS
  Paths <- TreePaths
  MaxSize = 2
  MaxWriteBytes = 1
  MaxCopyBytes = 1
  MaxListEntries = 1
  MaxDeleteEntries = 2
  CallSet <- EveryCall
  Trees <- AllTrees
  MaxCalls = 2
  MaxForeign = 0
  Faults = TRUE
INVARIANTS ActsAtOnce RepeatHarmless
