CONSTANTS
  NumInsts = 3
  Addr <- Addrs
  Data <- DataSet
  Effect <- Mix
  Programs <- AllPrograms
  Entry = 2
SPECIFICATION FairSpec
INVARIANTS
  TypeOK
  CleanStart
PROPERTIES
  ImplementsMachine
  GuestProgress
