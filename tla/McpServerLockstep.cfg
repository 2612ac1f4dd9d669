SPECIFICATION Spec
CONSTANTS
  a = a
  b = b
  MaxReadBytes = 2
  LineLengths = {2, 3, 4}
  TailLengths = {0, 3}
  MaxLines = 2
  Ids = {a, b}
  Policy = {"2025-11-25"}
  Registry = {"write_file"}
  ClientMessages <- Traffic
  ClientLines <- TrafficLines
  Lockstep = TRUE
PROPERTY OverlongRejected
CHECK_DEADLOCK FALSE
