SPECIFICATION Spec
CONSTANTS
  MaxReadBytes = 2
  MaxLineBytes = 4
  MaxLines = 3
INVARIANTS BufferBounded
PROPERTIES ImplementsLines LinesConsumed
CHECK_DEADLOCK FALSE
