CONSTANTS
  MaxThreads = 3
  MaxMaps = 3
  MmapLens <- TwoPages
  Program <- MapAndClone
  InitialPaused = 0
  CounterMax = 7
SPECIFICATION Spec
INVARIANTS
  PausedCount
  MapperAlone
  FirstMappingQuiescent
  EngineSeesRegions
PROPERTIES
  MmapImplementsAllocator
