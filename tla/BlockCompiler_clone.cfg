CONSTANTS
  NumInsts = 2
  Addr <- Addrs
  Data <- DataSet
  Effect <- Mix
  Programs <- AllPrograms
  Entry = 2
SPECIFICATION Spec
INVARIANTS
  CloneResumesAfterSyscall
