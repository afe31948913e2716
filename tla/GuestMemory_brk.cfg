SPECIFICATION Spec
CONSTANTS
  Base = 3
  SHMSize = 12
  Image <- MCImage
  FS <- MCFS
  Stack <- MCStack
  DataOffset = 2
  DataSize = 4
  MmapBase = 8
  Increments <- MCGrow
  Lengths <- MCLengths
  MaxThreads = 3
  MaxMmaps = 3
  MaxMoves = 4
INVARIANT BreakInArea
CHECK_DEADLOCK FALSE
