CONSTANTS
  MaxThreads = 3
  MaxMaps = 2
  MmapLens <- PageLens
  Program <- OneMapper
  InitialPaused = 0
  CounterMax = 7
SPECIFICATION FairSpec
INVARIANTS
  TypeOK
PROPERTIES
  MmapReturns
