SPECIFICATION Spec
CONSTANTS
  a = a
  b = b
  MaxReadBytes = 2
  LineLengths = {2, 3, 4}
  TailLengths = {0, 2, 3}
  MaxLines = 3
  Ids = {a, b}
  Policy = {"2025-11-25"}
  Registry = {"write_file"}
  ClientMessages <- Traffic
  ClientLines <- TrafficLines
  Lockstep = FALSE
INVARIANTS IndInv AnsweredOnce ToolsAccounted EndsCleanly
PROPERTIES ImplementsService LinesDealtWith
CHECK_DEADLOCK FALSE
