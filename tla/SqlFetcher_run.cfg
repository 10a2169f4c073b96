SPECIFICATION Spec
CONSTANTS
  SizeOf <- MCSizeOf
  Queries <- MCQueries
  Numbers = {2}
  Hdr = 2
  Size = 13
  Chunk = 2
  Margin = 1
  Bars = {b1}
INVARIANTS
  FetchInv
PROPERTIES
  FetchServed
  ShutdownEndsUnlessFull
CHECK_DEADLOCK FALSE
