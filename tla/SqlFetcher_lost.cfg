SPECIFICATION Spec
CONSTANTS
  SizeOf <- MCSizeOf
  Queries <- MCQueries
  Numbers = {2}
  Hdr = 2
  Size = 13
  Chunk = 2
  Margin = 1
  Bars = {b1}
INVARIANT AllFetched
CHECK_DEADLOCK FALSE
