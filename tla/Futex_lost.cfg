CONSTANTS
  Thread <- Threads
  Word <- Words
  Value <- Values
  MaxWaits = 1
  Program <- Join
  InitTid <- TidOf3
  InitMem <- BothOne
SPECIFICATION FairSpec
PROPERTIES
  ExitWakesWaiter
\* The guest may wait for ever.
CHECK_DEADLOCK FALSE
