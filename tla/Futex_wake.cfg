CONSTANTS
  Thread <- Threads
  Word <- Words
  Value <- Values
  MaxWaits = 4
  Program <- SharedWord
  InitTid <- NoTid
  InitMem <- BothOne
SPECIFICATION FairSpec
INVARIANTS
  WaitersFindable
  SoleWaiterFound
PROPERTIES
  ExitWakesBlocked
  WakeWakesBlocked
\* The guest may wait for ever.
CHECK_DEADLOCK FALSE
