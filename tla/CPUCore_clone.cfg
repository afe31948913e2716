CONSTANTS
  MaxThreads = 4
  MaxMaps = 1
  MmapLens <- TwoPages
  Program <- CloneAndStop
  InitialPaused = 0
  CounterMax = 7
SPECIFICATION FairSpec
INVARIANTS
  StartGate
  TIDIsSlot
  JoinStarted
PROPERTIES
  CloneStarts
  StopEndsProcess
