SPECIFICATION Spec
CONSTANTS
  Paths <- TreePaths
  MaxSize = 2
  MaxWriteBytes = 1
  MaxCopyBytes = 1
  MaxListEntries = 1
  MaxDeleteEntries = 4
  CallSet <- Copies
  Trees <- AllTrees
  MaxCalls = 1
  MaxForeign = 0
  Faults = FALSE
INVARIANT CopyKeepsSource
