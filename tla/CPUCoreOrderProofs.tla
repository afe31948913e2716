------------------------ MODULE CPUCoreOrderProofs -------------------------
(***************************************************************************)
(* Proofs about CPUCore, continued: the order in which ThreadStates are    *)
(* made, numbered and joined; the quiet of the first mapping, and what     *)
(* the engines see of the regions that mmap returns.                       *)
(***************************************************************************)
EXTENDS CPUCoreProofs

\* The critical section of InitThread and NewThread has one process in it.
LockHeld == \A p \in Process : pc[p] \in {"emplace", "tid"} => CPUThreadLock = p

\* lastThreadID counts the slots, but for one that is about to get its TID,
\* which is the last one.
LastIDCounts ==
  /\ \A p \in Process : pc[p] = "tid" => lastThreadID + 1 = size /\ child[p] = size
  /\ (\A p \in Process : pc[p] # "tid") => lastThreadID = size

\* A ThreadState past the critical section has its slot number as TID.
ChildTID ==
  \A p \in Process : pc[p] \in {"setup", "regs", "kick"} => TID[child[p]] = child[p]

\* A thread is created by one in an earlier slot.
CreatorEarlier == \A p \in Process : Creating(p) => p < child[p]

\* A slot without a running thread has somebody who is about to start it.
UnbornHasCreator ==
  \A t \in 1..size : pc[t] = "unborn" =>
    \E p \in Process : pc[p] \in {"tid", "setup"} /\ child[p] = t

\* InitThread is over before any guest code runs.
MainFirst ==
  pc[Main] \in CloneSteps =>
    /\ \A t \in Thread : pc[t] \in {"unborn", "boot", "cvwait"}
    /\ pc[Main] \in {"lock", "emplace"} => size = 0
    /\ Creating(Main) => size = 1 /\ child[Main] = 1

Order ==
  /\ LockHeld /\ LastIDCounts /\ ChildTID /\ TIDIsSlot
  /\ CreatorEarlier /\ UnbornHasCreator /\ MainFirst

----------------------------------------------------------------------------
USE DEF Thread, Process, Main, NoOne
USE DEF vars, threadVars, startVars, pauseVars, mmapVars, engineVars, iterVars,
        Goto, LoopContinues, InWindow, Mapping, HoldsStartMutex

\* The main thread is in InitThread and has made nothing.
LEMMA OrderInit == Init => Order
<1> SUFFICES ASSUME Init PROVE Order
  OBVIOUS
<1>1. /\ pc[Main] = "lock" /\ \A t \in Thread : pc[t] = "unborn"
      /\ size = 0 /\ lastThreadID = 0 /\ 1..size = {}
      /\ \A p \in Process : p = Main \/ p \in Thread
  BY BoundsAssumption DEF Init
<1>2. \A p \in Process : pc[p] \in {"lock", "unborn"}
  BY <1>1
<1> QED
  BY <1>1, <1>2 DEF Order, LockHeld, LastIDCounts, ChildTID, TIDIsSlot,
                    CreatorEarlier, UnbornHasCreator, MainFirst, Creating

\* The types Order speaks of.
LEMMA OrderTypes ==
  ASSUME Inv
  PROVE  /\ pc \in [Process -> PC] /\ child \in [Process -> 0..MaxThreads]
         /\ TID \in [Thread -> Nat] /\ lastThreadID \in Nat
         /\ size \in Nat /\ size <= MaxThreads /\ MaxThreads \in Nat
         /\ Thread \subseteq Process /\ Main \in Process
         /\ \A p \in Process : p = Main \/ p \in Thread
         /\ \A p \in Process : p \in Nat
         /\ \A p \in Process : pc[p] # "unborn" => p <= size
<1>1. /\ pc \in [Process -> PC] /\ child \in [Process -> 0..MaxThreads]
      /\ TID \in [Thread -> Nat] /\ lastThreadID \in Nat /\ size \in 0..MaxThreads
  BY DEF Inv, TypeOK, ThreadTypes
<1>2. \A p \in Process : pc[p] # "unborn" => p <= size
  BY <1>1, BoundsAssumption DEF Inv, SlotsUnused
<1> QED
  BY <1>1, <1>2, BoundsAssumption

\* A process that is not creating a thread moves.
LEMMA OrderMove ==
  ASSUME Inv, Order, UNCHANGED threadVars, NEW p \in Process, NEW l,
         pc' = [pc EXCEPT ![p] = l],
         pc[p] \notin {"unborn", "lock", "emplace"}, ~Creating(p),
         l \notin {"unborn", "emplace", "tid", "setup", "regs", "kick"},
         p = Main => l \notin CloneSteps,
         pc[Main] \in CloneSteps => l \in {"boot", "cvwait"}
  PROVE  Order'
<1>1. /\ pc \in [Process -> PC] /\ Thread \subseteq Process /\ Main \in Process
      /\ size \in Nat /\ size <= MaxThreads
  BY OrderTypes
<1>2. /\ pc'[p] = l
      /\ \A q \in Process : q # p => pc'[q] = pc[q]
      /\ UNCHANGED <<size, TID, lastThreadID, CPUThreadLock, child>>
  BY <1>1
<1>3. LockHeld' /\ ChildTID'
  BY <1>2 DEF Order, LockHeld, ChildTID
<1>4. LastIDCounts'
  BY <1>2 DEF Order, LastIDCounts, Creating
<1>5. TIDIsSlot'
  BY <1>1, <1>2 DEF Order, TIDIsSlot
<1>6. CreatorEarlier'
  BY <1>2 DEF Order, CreatorEarlier, Creating
<1>7. UnbornHasCreator'
  <2>1. \A t \in 1..size : t \in Process
    BY <1>1, BoundsAssumption
  <2>2. \A q \in Process : pc[q] \in {"tid", "setup"} => pc'[q] = pc[q]
    BY <1>2 DEF Creating
  <2>3. ASSUME NEW t \in 1..size, pc'[t] = "unborn"
        PROVE  \E q \in Process : pc'[q] \in {"tid", "setup"} /\ child'[q] = t
    <3>1. pc[t] = "unborn"
      BY <1>2, <2>1, <2>3
    <3>2. PICK q \in Process : pc[q] \in {"tid", "setup"} /\ child[q] = t
      BY <3>1 DEF Order, UnbornHasCreator
    <3> QED
      BY <1>2, <2>2, <3>2
  <2> QED
    BY <1>2, <2>3 DEF UnbornHasCreator
<1>8. MainFirst'
  BY <1>1, <1>2 DEF Order, MainFirst, Creating
<1> QED
  BY <1>3, <1>4, <1>5, <1>6, <1>7, <1>8 DEF Order

\* The steps that create no thread leave the table of threads alone.
LEMMA TableKept ==
  ASSUME \/ RunLoopStep
         \/ \E t \in Thread : \/ TestShouldStart(t) \/ SpuriousWakeup(t)
                              \/ BlockStep(t) \/ MmapStep(t) \/ PauseStep(t)
  PROVE  UNCHANGED threadVars
<1>1. CASE RunLoopStep
  BY <1>1 DEF RunLoopStep, RunLoopBegin, RunLoopDeref, RunLoopJoin, RunLoopReturn
<1>2. ASSUME NEW t \in Thread,
             TestShouldStart(t) \/ SpuriousWakeup(t) \/ BlockStep(t)
      PROVE  UNCHANGED threadVars
  BY <1>2 DEF TestShouldStart, SpuriousWakeup, BlockStep, LeaveLoop, RunBlock,
              HitZero, StopOnFault, SyscallExit, SyscallClone
<1>3. ASSUME NEW t \in Thread, MmapStep(t) \/ PauseStep(t)
      PROVE  UNCHANGED threadVars
  BY <1>3 DEF MmapStep, SyscallMmap, ReloadLastMMAP, BumpLastMMAP,
              SetPauseThreads, LoadNumPaused, CompareSize, MapLoopBegin,
              MapRegion, ClearPauseThreads, PauseStep, PauseCheck, EnterPause,
              SpinUntilResumed, LeavePause
<1> QED
  BY <1>1, <1>2, <1>3

----------------------------------------------------------------------------
(* The steps of InitThread and clone.                                      *)

\* One process enters the critical section.
LEMMA OrderLock ==
  ASSUME Inv, Order, NEW p \in Process, LockThreads(p)
  PROVE  Order'
<1>1. /\ pc \in [Process -> PC] /\ Thread \subseteq Process /\ Main \in Process
      /\ size \in Nat /\ size <= MaxThreads /\ MaxThreads \in Nat
  BY OrderTypes
<1>2. /\ pc[p] = "lock" /\ pc'[p] = "emplace" /\ CPUThreadLock' = p
      /\ \A q \in Process : q # p => pc'[q] = pc[q]
      /\ UNCHANGED <<size, TID, lastThreadID, child>>
  BY <1>1 DEF LockThreads
<1>3. \A q \in Process : pc[q] \notin {"emplace", "tid"}
  BY <1>1 DEF LockThreads, Order, LockHeld
<1>4. LockHeld'
  BY <1>2, <1>3 DEF LockHeld
<1>5. LastIDCounts' /\ ChildTID'
  BY <1>2 DEF Order, LastIDCounts, ChildTID
<1>6. TIDIsSlot'
  BY <1>1, <1>2 DEF Order, TIDIsSlot
<1>7. CreatorEarlier'
  BY <1>2 DEF Order, CreatorEarlier, Creating
<1>8. UnbornHasCreator'
  <2>1. ASSUME NEW t \in 1..size, pc'[t] = "unborn"
        PROVE  \E q \in Process : pc'[q] \in {"tid", "setup"} /\ child'[q] = t
    <3>1. pc[t] = "unborn"
      BY <1>1, <1>2, <2>1
    <3>2. PICK q \in Process : pc[q] \in {"tid", "setup"} /\ child[q] = t
      BY <3>1 DEF Order, UnbornHasCreator
    <3> QED
      BY <1>2, <3>2
  <2> QED
    BY <1>2, <2>1 DEF UnbornHasCreator
<1>9. MainFirst'
  BY <1>1, <1>2 DEF Order, MainFirst, Creating, CloneSteps
<1> QED
  BY <1>4, <1>5, <1>6, <1>7, <1>8, <1>9 DEF Order

\* The new slot is the last one, and its creator is in an earlier one.
LEMMA OrderEmplace ==
  ASSUME Inv, Order, NEW p \in Process, EmplaceThread(p)
  PROVE  Order'
<1>1. /\ pc \in [Process -> PC] /\ child \in [Process -> 0..MaxThreads]
      /\ Thread \subseteq Process /\ Main \in Process
      /\ size \in Nat /\ size <= MaxThreads /\ MaxThreads \in Nat
      /\ \A q \in Process : q \in Nat
      /\ \A q \in Process : q = Main \/ q \in Thread
      /\ \A q \in Process : pc[q] # "unborn" => q <= size
  BY OrderTypes
<1>2. /\ pc[p] = "emplace" /\ pc'[p] = "tid" /\ size' = size + 1
      /\ child'[p] = size + 1
      /\ \A q \in Process : q # p => pc'[q] = pc[q] /\ child'[q] = child[q]
      /\ UNCHANGED <<TID, lastThreadID, CPUThreadLock>>
  BY <1>1 DEF EmplaceThread
<1>3. size < MaxThreads
  BY <1>2, SlotForPending DEF Pending
<1>4. \A q \in Process : q # p => pc[q] \notin {"emplace", "tid"}
  BY <1>2 DEF Order, LockHeld
<1>5. LockHeld'
  BY <1>2, <1>4 DEF Order, LockHeld
<1>6. LastIDCounts'
  <2>1. lastThreadID = size
    BY <1>2, <1>4 DEF Order, LastIDCounts
  <2> QED
    BY <1>1, <1>2, <1>4, <2>1 DEF LastIDCounts
<1>7. ChildTID'
  BY <1>2 DEF Order, ChildTID
<1>8. TIDIsSlot'
  BY <1>1, <1>2 DEF Order, TIDIsSlot
<1>9. CreatorEarlier'
  <2>1. p < size + 1
    BY <1>1, <1>2
  <2> QED
    BY <1>2, <2>1 DEF Order, CreatorEarlier, Creating
<1>10. UnbornHasCreator'
  <2>1. ASSUME NEW t \in 1..(size + 1), pc'[t] = "unborn"
        PROVE  \E q \in Process : pc'[q] \in {"tid", "setup"} /\ child'[q] = t
    <3>1. CASE t = size + 1
      BY <1>2, <3>1
    <3>2. CASE t \in 1..size
      <4>1. pc[t] = "unborn"
        BY <1>1, <1>2, <2>1, <3>2, SMTT(60)
      <4>2. PICK q \in Process : pc[q] \in {"tid", "setup"} /\ child[q] = t
        BY <3>2, <4>1 DEF Order, UnbornHasCreator
      <4> QED
        BY <1>2, <4>2
    <3> QED
      BY <1>1, <3>1, <3>2
  <2> QED
    BY <1>2, <2>1 DEF UnbornHasCreator
<1>11. MainFirst'
  <2>1. CASE p = Main
    <3>1. size = 0 /\ \A t \in Thread : pc[t] \in {"unborn", "boot", "cvwait"}
      BY <1>2, <2>1 DEF Order, MainFirst, CloneSteps
    <3> QED
      BY <1>1, <1>2, <2>1, <3>1, SMTT(60) DEF MainFirst
  <2>2. CASE p # Main
    BY <1>1, <1>2, <2>2 DEF Order, MainFirst
  <2> QED
    BY <2>1, <2>2
<1> QED
  BY <1>5, <1>6, <1>7, <1>8, <1>9, <1>10, <1>11 DEF Order

\* The TID of the last slot is its number.
LEMMA OrderTID ==
  ASSUME Inv, Order, NEW p \in Process, AssignTID(p)
  PROVE  Order'
<1>1. /\ pc \in [Process -> PC] /\ child \in [Process -> 0..MaxThreads]
      /\ TID \in [Thread -> Nat]
      /\ Thread \subseteq Process /\ Main \in Process
      /\ size \in Nat /\ size <= MaxThreads /\ MaxThreads \in Nat
      /\ lastThreadID \in Nat
  BY OrderTypes
<1>2. /\ pc[p] = "tid" /\ pc'[p] = "setup"
      /\ lastThreadID' = lastThreadID + 1
      /\ TID' = [TID EXCEPT ![child[p]] = lastThreadID + 1]
      /\ \A q \in Process : q # p => pc'[q] = pc[q]
      /\ UNCHANGED <<size, child>>
  BY <1>1 DEF AssignTID
<1>3. lastThreadID + 1 = size /\ child[p] = size
  BY <1>2 DEF Order, LastIDCounts
<1>4. child[p] \in Thread /\ pc[child[p]] = "unborn" /\ child[p] # p
  <2>1. child[p] \in 1..size /\ pc[child[p]] = "unborn"
    BY <1>2 DEF Inv, Births
  <2> QED
    BY <1>1, <1>2, <2>1
<1>5. /\ TID'[child[p]] = child[p]
      /\ \A t \in Thread : t # child[p] => TID'[t] = TID[t]
  BY <1>1, <1>2, <1>3, <1>4
<1>6. \A q \in Process : q # p => pc[q] \notin {"emplace", "tid"}
  BY <1>2 DEF Order, LockHeld
<1>7. LockHeld'
  BY <1>2, <1>6 DEF LockHeld
<1>8. LastIDCounts'
  BY <1>2, <1>3, <1>6 DEF LastIDCounts
<1>9. ChildTID'
  <2>1. ASSUME NEW q \in Process, pc'[q] \in {"setup", "regs", "kick"}, q # p
        PROVE  TID'[child[q]] = child[q]
    <3>1. child[q] # child[p] /\ child[q] \in 1..size
      BY <1>2, <2>1 DEF Inv, Births, Creating
    <3>2. child[q] \in Thread
      BY <1>1, <3>1
    <3>3. TID[child[q]] = child[q]
      BY <1>2, <2>1 DEF Order, ChildTID
    <3> QED
      BY <1>5, <3>1, <3>2, <3>3
  <2> QED
    BY <1>2, <1>5, <2>1 DEF ChildTID
<1>10. TIDIsSlot'
  BY <1>1, <1>2, <1>4, <1>5 DEF Order, TIDIsSlot
<1>11. CreatorEarlier'
  BY <1>2 DEF Order, CreatorEarlier, Creating
<1>12. UnbornHasCreator'
  <2>1. ASSUME NEW t \in 1..size, pc'[t] = "unborn"
        PROVE  \E q \in Process : pc'[q] \in {"tid", "setup"} /\ child'[q] = t
    <3>1. pc[t] = "unborn"
      BY <1>1, <1>2, <2>1, SMTT(60)
    <3>2. PICK q \in Process : pc[q] \in {"tid", "setup"} /\ child[q] = t
      BY <3>1 DEF Order, UnbornHasCreator
    <3> QED
      BY <1>2, <3>2
  <2> QED
    BY <1>2, <2>1 DEF UnbornHasCreator
<1>13. MainFirst'
  BY <1>1, <1>2 DEF Order, MainFirst, Creating, CloneSteps
<1> QED
  BY <1>7, <1>8, <1>9, <1>10, <1>11, <1>12, <1>13 DEF Order

\* The child's thread starts, in the slot its creator has made; or it is let
\* through the gate.
LEMMA OrderStart ==
  ASSUME Inv, Order, NEW p \in Process, StartThread(p) \/ FinishClone(p) \/ KickThread(p)
  PROVE  Order'
<1>1. /\ pc \in [Process -> PC] /\ child \in [Process -> 0..MaxThreads]
      /\ Thread \subseteq Process /\ Main \in Process
      /\ size \in Nat /\ size <= MaxThreads /\ MaxThreads \in Nat
      /\ \A q \in Process : q = Main \/ q \in Thread
      /\ \A q \in Process : q \in Nat
  BY OrderTypes
<1> DEFINE c == child[p]
<1>2. /\ pc[p] \in {"setup", "regs", "kick"} /\ c \in 1..size /\ c \in Thread
      /\ pc[c] \in {"unborn", "boot", "cvwait"} /\ c # p /\ c # Main
      /\ TID[c] = c
  <2>1. pc[p] \in {"setup", "regs", "kick"}
    BY DEF StartThread, FinishClone, KickThread
  <2>2. c \in 1..size /\ pc[c] \in {"unborn", "boot", "cvwait"}
    BY <2>1 DEF Inv, Births
  <2>3. TID[c] = c
    BY <2>1 DEF Order, ChildTID
  <2>4. c \in Thread /\ c # Main
    BY <1>1, <2>2
  <2>5. c # p
    BY <2>1, <2>2
  <2> QED
    BY <2>1, <2>2, <2>3, <2>4, <2>5
<1>3. /\ UNCHANGED <<size, TID, lastThreadID, CPUThreadLock, child>>
      /\ \A q \in Process : q # p /\ q # c => pc'[q] = pc[q]
      /\ pc[c] # "unborn" => pc'[c] \in {"boot", "cvwait"}
      /\ pc'[c] \in {"unborn", "boot", "cvwait"}
      /\ pc'[p] \in {"regs", "kick", "runloop", "pausecheck"}
      /\ pc[p] = "setup" => pc'[c] = "boot"
      /\ pc'[p] = "runloop" => p = Main
      /\ pc'[p] = "pausecheck" => p # Main
  <2>1. CASE StartThread(p)
    BY <1>1, <1>2, <2>1 DEF StartThread
  <2>2. CASE FinishClone(p)
    BY <1>1, <1>2, <2>2 DEF FinishClone
  <2>3. CASE KickThread(p)
    BY <1>1, <1>2, <2>3 DEF KickThread
  <2> QED
    BY <2>1, <2>2, <2>3
<1> HIDE DEF c
<1>4. c \in Process /\ p \in Process
  BY <1>1, <1>2
<1>5. LockHeld'
  <2>1. \A q \in Process : pc'[q] \in {"emplace", "tid"} => pc'[q] = pc[q]
    BY <1>3
  <2> QED
    BY <1>3, <2>1 DEF Order, LockHeld
<1>6. LastIDCounts'
  <2>1. \A q \in Process : pc'[q] = "tid" <=> pc[q] = "tid"
    BY <1>2, <1>3
  <2> QED
    BY <1>3, <2>1 DEF Order, LastIDCounts
<1>7. ChildTID'
  <2>1. \A q \in Process : pc'[q] \in {"setup", "regs", "kick"} =>
                             pc[q] \in {"setup", "regs", "kick"}
    BY <1>2, <1>3
  <2> QED
    BY <1>3, <2>1 DEF Order, ChildTID
<1>8. TIDIsSlot'
  <2>1. ASSUME NEW t \in Thread, pc'[t] # "unborn"
        PROVE  TID[t] = t
    <3>1. CASE t = c
      BY <1>2, <3>1
    <3>2. CASE t # c
      BY <1>1, <1>2, <1>3, <2>1, <3>2 DEF Order, TIDIsSlot
    <3> QED
      BY <3>1, <3>2
  <2> QED
    BY <1>3, <2>1 DEF TIDIsSlot
<1>9. CreatorEarlier'
  <2>1. \A q \in Process : Creating(q)' => Creating(q)
    BY <1>2, <1>3 DEF Creating
  <2> QED
    BY <1>3, <2>1 DEF Order, CreatorEarlier
<1>10. UnbornHasCreator'
  <2>1. ASSUME NEW t \in 1..size, pc'[t] = "unborn"
        PROVE  \E q \in Process : pc'[q] \in {"tid", "setup"} /\ child[q] = t
    <3>1. t \in Process
      BY <1>1
    <3> HIDE DEF Process
    <3>2. t # p
      BY <1>3, <2>1
    <3>3. pc[t] = "unborn"
      BY <1>3, <2>1, <3>1, <3>2
    <3>4. PICK q \in Process : pc[q] \in {"tid", "setup"} /\ child[q] = t
      BY <3>3 DEF Order, UnbornHasCreator
    <3>5. q # p
      <4>1. q = p => t = c /\ pc[p] = "setup"
        BY <1>2, <3>4 DEF c
      <4> QED
        BY <1>3, <2>1, <4>1
    <3>6. q # c
      BY <1>2, <3>4
    <3> QED
      BY <1>3, <3>4, <3>5, <3>6
  <2> QED
    BY <1>3, <2>1 DEF UnbornHasCreator
<1>11. MainFirst'
  <2>1. CASE p = Main
    <3>1. /\ size = 1 /\ child[Main] = 1
          /\ \A t \in Thread : pc[t] \in {"unborn", "boot", "cvwait"}
      BY <1>2, <2>1 DEF Order, MainFirst, CloneSteps, Creating
    <3>2. \A t \in Thread : pc'[t] \in {"unborn", "boot", "cvwait"}
      BY <1>1, <1>3, <2>1, <3>1, SMTT(60)
    <3>3. pc'[Main] \notin {"lock", "emplace"}
      BY <1>3, <2>1
    <3> QED
      BY <1>3, <3>1, <3>2, <3>3 DEF MainFirst
  <2>2. CASE p # Main
    <3>1. pc[Main] \notin CloneSteps
      BY <1>1, <1>2, <2>2 DEF Order, MainFirst
    <3> QED
      BY <1>1, <1>2, <1>3, <2>2, <3>1 DEF MainFirst
  <2> QED
    BY <2>1, <2>2
<1> QED
  BY <1>5, <1>6, <1>7, <1>8, <1>9, <1>10, <1>11 DEF Order

\* A gate is passed only after InitThread.
LEMMA GateAfterInit ==
  ASSUME Inv, Order, NEW t \in Thread, pc[t] \in {"boot", "cvwait"},
         pc[Main] \in CloneSteps
  PROVE  ~ShouldStart[t]
<1>1. t <= size
  BY OrderTypes
<1>2. Creating(Main) /\ size = 1 /\ child[Main] = 1
  BY <1>1, OrderTypes DEF Order, MainFirst, CloneSteps, Creating
<1>3. t = child[Main]
  BY <1>1, <1>2
<1>4. pc[Main] \in {"regs", "kick"}
  BY <1>2, <1>3, OrderTypes DEF Inv, Births, Creating
<1> QED
  BY <1>3, <1>4, OrderTypes DEF Inv, Births

\* Every step keeps the order.
LEMMA OrderStep ==
  ASSUME Inv, Order, [Next]_vars
  PROVE  Order'
<1>1. CASE UNCHANGED vars
  BY <1>1 DEF Order, LockHeld, LastIDCounts, ChildTID, TIDIsSlot,
              CreatorEarlier, UnbornHasCreator, MainFirst, Creating
<1>2. ASSUME NEW p \in Process, CreateStep(p)
      PROVE  Order'
  BY <1>2, OrderLock, OrderEmplace, OrderTID, OrderStart DEF CreateStep
<1>3. CASE RunLoopStep
  <2>1. PICK l \in MainSteps : pc' = [pc EXCEPT ![Main] = l]
    BY <1>3, MainMove
  <2>2. pc[Main] \in MainSteps /\ UNCHANGED threadVars
    BY <1>3, MainMove, TableKept
  <2> QED
    BY <2>1, <2>2, OrderMove, OrderTypes DEF MainSteps, CloneSteps, Creating
<1>4. ASSUME NEW t \in Thread, TestShouldStart(t) \/ SpuriousWakeup(t)
      PROVE  Order'
  <2>1. PICK l \in {"boot", "cvwait", "loop"} :
          pc' = [pc EXCEPT ![t] = l] /\ (l = "loop" => ShouldStart[t])
    BY <1>4, GateMove
  <2>2. pc[t] \in {"boot", "cvwait"} /\ UNCHANGED threadVars
    BY <1>4, GateMove, TableKept
  <2>3. pc[Main] \in CloneSteps => l \in {"boot", "cvwait"}
    BY <2>1, <2>2, GateAfterInit
  <2>4. t \in Process /\ t # Main
    BY OrderTypes
  <2> QED
    BY <2>1, <2>2, <2>3, <2>4, OrderMove DEF Creating
<1>5. ASSUME NEW t \in Thread, BlockStep(t) \/ MmapStep(t) \/ PauseStep(t)
      PROVE  Order'
  <2>1. PICK l \in RunPC \cup {"lock", "exited"} : pc' = [pc EXCEPT ![t] = l]
    BY <1>5, RunMove
  <2>2. pc[t] \in RunPC /\ UNCHANGED threadVars
    BY <1>5, RunMove, TableKept
  <2>3. pc[Main] \notin CloneSteps
    BY <2>2 DEF Order, MainFirst, RunPC, MmapSteps, PauseSteps
  <2>4. t \in Process /\ t # Main
    BY OrderTypes
  <2> QED
    BY <2>1, <2>2, <2>3, <2>4, OrderMove DEF Creating, RunPC, MmapSteps, PauseSteps
<1> QED
  BY <1>1, <1>2, <1>3, <1>4, <1>5, StepCases

\* Order is an invariant of the specification.
THEOREM OrderInvariance == Spec => []Order
<1>1. ASSUME Inv, Order, [Next]_vars
      PROVE  Order'
  BY <1>1, OrderStep
<1> QED
  BY <1>1, OrderInit, Invariance, PTL DEF Spec

\* Every thread that runs has its slot number as TID, for any number of threads
\* that clone at once.
THEOREM TIDIsSlotHolds == Spec => []TIDIsSlot
<1>1. Order => TIDIsSlot
  BY DEF Order
<1> QED
  BY <1>1, OrderInvariance, PTL

----------------------------------------------------------------------------
(* RunLoop and its joins.                                                  *)

\* A step of InitThread or clone moves its process and, at most, the thread
\* it creates, which is not past the gate.
LEMMA CreateMove ==
  ASSUME Inv, NEW p \in Process, CreateStep(p)
  PROVE  /\ pc[p] \in CloneSteps
         /\ pc'[p] \in CloneSteps \cup {"runloop", "pausecheck"}
         /\ pc'[p] = "pausecheck" => p # Main
         /\ \A q \in Process : q # p =>
              \/ pc'[q] = pc[q]
              \/ pc[q] \in {"unborn", "boot", "cvwait"} /\ pc'[q] = "boot"
         /\ size' \in {size, size + 1} /\ UNCHANGED <<iterVars, pauseVars, mmapVars>>
<1>1. /\ pc \in [Process -> PC] /\ child \in [Process -> 0..MaxThreads]
      /\ size \in Nat
  BY OrderTypes
<1>2. CASE LockThreads(p) \/ EmplaceThread(p) \/ AssignTID(p) \/ FinishClone(p)
  <2>1. /\ pc[p] \in CloneSteps
        /\ \E l \in CloneSteps : pc' = [pc EXCEPT ![p] = l]
        /\ size' \in {size, size + 1} /\ UNCHANGED <<iterVars, pauseVars, mmapVars>>
    BY <1>2 DEF LockThreads, EmplaceThread, AssignTID, FinishClone, CloneSteps
  <2> QED
    BY <1>1, <2>1 DEF CloneSteps
<1>3. CASE StartThread(p) \/ KickThread(p)
  <2>1. pc[p] \in {"tid", "setup", "regs", "kick"}
    BY <1>3 DEF StartThread, KickThread
  <2>2. pc[child[p]] \in {"unborn", "boot", "cvwait"}
    BY <2>1 DEF Inv, Births
  <2>3. child[p] # p
    BY <2>1, <2>2
  <2>4. CASE StartThread(p)
    BY <1>1, <2>2, <2>3, <2>4 DEF StartThread, CloneSteps
  <2>5. CASE KickThread(p)
    BY <1>1, <2>2, <2>3, <2>5 DEF KickThread, CloneSteps
  <2> QED
    BY <1>3, <2>4, <2>5
<1> QED
  BY <1>2, <1>3 DEF CreateStep

\* No thread comes back, the table only grows, and only RunLoop moves the main
\* thread through it.
LEMMA ExitIsFinal ==
  ASSUME Inv, [Next]_vars
  PROVE  /\ \A t \in Thread : pc[t] = "exited" => pc'[t] = "exited"
         /\ size' >= size
         /\ \/ RunLoopStep
            \/ /\ idx'[Main] = idx[Main] /\ end'[Main] = end[Main]
               /\ pc'[Main] \in {"deref", "join"} => pc'[Main] = pc[Main]
<1>1. /\ pc \in [Process -> PC] /\ size \in Nat
      /\ Thread \subseteq Process /\ Main \in Process /\ Main \notin Thread
  BY OrderTypes
<1>2. idx \in [Process -> Nat] /\ end \in [Process -> Nat]
  BY DEF Inv, TypeOK, ThreadTypes
<1>3. CASE UNCHANGED vars
  BY <1>1, <1>3
<1>4. CASE \E p \in Process : CreateStep(p)
  BY <1>1, <1>4, CreateMove DEF CloneSteps
<1>5. CASE RunLoopStep
  <2>1. PICK l \in MainSteps : pc' = [pc EXCEPT ![Main] = l]
    BY <1>5, MainMove
  <2>2. size' = size
    BY <1>5, MainMove
  <2>3. \A t \in Thread : pc'[t] = pc[t]
    BY <1>1, <2>1
  <2> QED
    BY <1>1, <1>5, <2>2, <2>3
<1>6. CASE \E t \in Thread : TestShouldStart(t) \/ SpuriousWakeup(t)
  <2>1. PICK t \in Thread : TestShouldStart(t) \/ SpuriousWakeup(t)
    BY <1>6
  <2>2. UNCHANGED iterVars
    BY <2>1 DEF TestShouldStart, SpuriousWakeup
  <2>3. PICK l \in {"boot", "cvwait", "loop"} : pc' = [pc EXCEPT ![t] = l]
    BY <2>1, GateMove
  <2>4. size' = size /\ pc[t] # "exited"
    BY <2>1, GateMove
  <2>5. \A q \in Process : q # t => pc'[q] = pc[q]
    BY <1>1, <2>3
  <2> QED
    BY <1>1, <2>2, <2>4, <2>5
<1>7. CASE \E t \in Thread : BlockStep(t) \/ MmapStep(t) \/ PauseStep(t)
  <2>1. PICK t \in Thread : BlockStep(t) \/ MmapStep(t) \/ PauseStep(t)
    BY <1>7
  <2>2. pc[t] # "exited" /\ t # Main
    BY <1>1, <2>1, RunMove DEF RunPC, MmapSteps, PauseSteps
  <2>3. size' = size /\ \A q \in Process : q # t => pc'[q] = pc[q]
    BY <1>1, <2>1, RunMove
  <2>4. CASE BlockStep(t) \/ PauseStep(t)
    <3>1. UNCHANGED iterVars
      BY <2>4 DEF BlockStep, LeaveLoop, RunBlock, HitZero, StopOnFault,
                  SyscallExit, SyscallClone, PauseStep, PauseCheck, EnterPause,
                  SpinUntilResumed, LeavePause
    <3> QED
      BY <1>1, <2>2, <2>3, <3>1
  <2>5. CASE MmapStep(t)
    <3>1. idx'[Main] = idx[Main] /\ end'[Main] = end[Main]
      BY <1>1, <1>2, <2>2, <2>5
      DEF MmapStep, SyscallMmap, ReloadLastMMAP, BumpLastMMAP,
          SetPauseThreads, LoadNumPaused, CompareSize, MapLoopBegin,
          MapRegion, ClearPauseThreads
    <3> QED
      BY <1>1, <2>2, <2>3, <3>1
  <2> QED
    BY <2>1, <2>4, <2>5
<1> QED
  BY <1>3, <1>4, <1>5, <1>6, <1>7, StepCases

\* The threads RunLoop has been through have exited, and those it will go
\* through are in Threads.
Joined ==
  pc[Main] \in {"deref", "join"} =>
    /\ idx[Main] # 0 /\ end[Main] <= size
    /\ pc[Main] = "join" => idx[Main] <= end[Main]
    /\ \A t \in Thread : t < idx[Main] => pc[t] = "exited"

\* Every step keeps Joined.
LEMMA JoinedStep ==
  ASSUME Inv, Inv', Joined, [Next]_vars
  PROVE  Joined'
<1>1. /\ pc \in [Process -> PC] /\ size \in Nat
      /\ Thread \subseteq Process /\ Main \in Process /\ Main \notin Thread
  BY OrderTypes
<1>2. /\ idx \in [Process -> Nat] /\ end \in [Process -> Nat]
      /\ idx[Main] \in Nat /\ end[Main] \in Nat
  BY <1>1 DEF Inv, TypeOK, ThreadTypes
<1>3. size' \in Nat /\ size' >= size
      /\ \A t \in Thread : pc[t] = "exited" => pc'[t] = "exited"
  <2>1. size' \in 0..MaxThreads
    BY DEF Inv, TypeOK, ThreadTypes
  <2> QED
    BY <2>1, ExitIsFinal, BoundsAssumption
<1>4. CASE RunLoopBegin
  <2>1. idx'[Main] = 1 /\ end'[Main] = size /\ pc'[Main] = "deref" /\ size' = size
    BY <1>1, <1>2, <1>4 DEF RunLoopBegin
  <2> QED
    BY <1>1, <2>1 DEF Joined
<1>5. CASE RunLoopDeref
  BY <1>1, <1>3, <1>5 DEF RunLoopDeref, Joined
<1>6. CASE RunLoopJoin
  <2>1. /\ pc[Main] = "join" /\ pc'[Main] = "deref"
        /\ idx'[Main] = idx[Main] + 1 /\ pc[idx[Main]] = "exited"
        /\ UNCHANGED <<size, end>>
    BY <1>1, <1>2, <1>6 DEF RunLoopJoin
  <2>2. \A t \in Thread : t < idx[Main] + 1 => pc[t] = "exited"
    BY <1>2, <2>1 DEF Joined
  <2> QED
    BY <1>2, <1>3, <2>1, <2>2 DEF Joined
<1>7. CASE RunLoopReturn
  BY <1>1, <1>3, <1>7 DEF RunLoopReturn, Joined
<1>8. CASE ~RunLoopStep
  BY <1>1, <1>2, <1>3, <1>8, ExitIsFinal DEF Joined
<1> QED
  BY <1>4, <1>5, <1>6, <1>7, <1>8 DEF RunLoopStep

\* RunLoop never joins a ThreadState whose std::thread has not been assigned:
\* the thread that is about to start it would be in an earlier slot, and would
\* have exited.
THEOREM JoinStartedHolds == Spec => []JoinStarted
<1>1. Init => Joined
  BY BoundsAssumption DEF Init, Joined
<1>2. ASSUME Inv, Inv', Joined, [Next]_vars
      PROVE  Joined'
  BY <1>2, JoinedStep
<1>3. ASSUME Inv, Order, Joined
      PROVE  JoinStarted
  <2> SUFFICES ASSUME pc[Main] = "deref", idx[Main] <= end[Main],
                      pc[idx[Main]] = "unborn"
               PROVE  FALSE
    BY DEF JoinStarted
  <2>1. idx[Main] \in 1..size
    <3>1. /\ idx[Main] \in Nat /\ end[Main] \in Nat /\ size \in Nat
      BY <1>3, OrderTypes DEF Inv, TypeOK, ThreadTypes
    <3> QED
      BY <1>3, <3>1 DEF Joined
  <2>2. PICK p \in Process : pc[p] \in {"tid", "setup"} /\ child[p] = idx[Main]
    BY <1>3, <2>1 DEF Order, UnbornHasCreator
  <2>3. p < idx[Main]
    BY <1>3, <2>2 DEF Order, CreatorEarlier, Creating
  <2>4. p \in Thread
    BY <1>3, <2>2, OrderTypes
  <2> QED
    BY <1>3, <2>2, <2>3, <2>4 DEF Joined
<1> QED
  BY <1>1, <1>2, <1>3, Invariance, OrderInvariance, PTL DEF Spec

----------------------------------------------------------------------------
(* Mapping.                                                                *)

PausedPC == {"enter", "spin", "leave"}

\* The steps of mmap before PauseThreads is set.
BeforePause == {"reload", "bump", "pause"}

\* While the first mmap call is under way it is the only one, PauseThreads is
\* set by it alone, and no thread leaves the window before it is cleared: the
\* count that the call has loaded can only have become too small.
FirstCall(t) ==
  /\ \A u \in Thread : InMmap(u) => u = t
  /\ pc[t] \in BeforePause =>
       ~PauseThreads /\ \A u \in Thread : pc[u] \notin PausedPC
  /\ pc[t] \notin BeforePause =>
       PauseThreads /\ \A u \in Thread : pc[u] # "leave"
  /\ pc[t] = "compare" => seen[t] <= Cardinality(Window)
  /\ Mapping(t) => \A u \in 1..size : u # t => pc[u] = "spin"
  /\ pc[t] = "map" => end[t] = size

First ==
  /\ maps = 0 =>
       ~PauseThreads /\ \A t \in Thread : ~InMmap(t) /\ pc[t] \notin PausedPC
  /\ maps = 1 => \A t \in Thread : InMmap(t) => FirstCall(t)

\* No mmap call before InitThread is over.
LateReturns == pc[Main] \in CloneSteps => returned = {}

\* The first entry of MappedRegions is the whole file; so it is in the engine
\* of every thread that clone has made.
ChildEngines ==
  /\ Len(MappedRegions) >= 1 /\ MappedRegions[1] = SHMRegion
  /\ \A t \in Thread : t # 1 /\ pc[t] # "unborn" => SHMRegion \in ucMap[t]

\* Whatever mmap hands out lies above what InitThread maps.
AboveBase ==
  /\ LastMMAP >= MMAP_BASE
  /\ \A t \in Thread : pc[t] = "bump" => base[t] >= MMAP_BASE
  /\ \A t \in Thread : InMmap(t) => region[t].off >= MMAP_BASE

\* The mapper has put its region into the first engine.
MappedFirst(t) == pc[t] = "map" /\ idx[t] > 1

\* A mapper is in Threads, and begins with the first engine.
MapperPosition ==
  \A t \in Thread : pc[t] = "map" => idx[t] >= 1 /\ end[t] >= 1

\* The first engine has what InitThread mapped, what has been returned and
\* what is about to be.
FirstEngine ==
  /\ returned \subseteq ucMap[1]
  /\ \A t \in Thread : MappedFirst(t) => region[t] \in ucMap[1]
  /\ \A s \in ucMap[1] :
       \/ s \in {ImageRegion, StackRegion, FSRegion} \cup returned
       \/ \E t \in Thread : MappedFirst(t) /\ s = region[t]

Engines ==
  LateReturns /\ ChildEngines /\ AboveBase /\ MapperPosition /\ FirstEngine

----------------------------------------------------------------------------
(* The first mapping.                                                      *)

\* Nothing has been mapped, and nobody pauses.
LEMMA FirstInit == Init => First
<1> SUFFICES ASSUME Init PROVE First
  OBVIOUS
<1>1. \A t \in Thread : pc[t] = "unborn"
  BY BoundsAssumption DEF Init
<1> QED
  BY <1>1 DEF Init, First, InMmap, MmapSteps, PausedPC

\* Steps outside mmap and the pause check keep First, when they do not add to
\* Threads under a mapper.
LEMMA FirstFrame ==
  ASSUME Inv, First, UNCHANGED <<maps, PauseThreads, seen>>,
         \A t \in Thread : end'[t] = end[t],
         (\E t \in Thread : Mapping(t)) => size' = size,
         \A t \in Thread : \/ pc'[t] = pc[t]
                           \/ /\ pc[t] \notin MmapSteps \cup PausedPC
                              /\ pc'[t] \notin MmapSteps \cup PausedPC
  PROVE  First'
<1>1. \A t \in Thread : /\ InMmap(t)' <=> InMmap(t)
                        /\ InMmap(t) => pc'[t] = pc[t]
                        /\ pc[t] \in PausedPC => pc'[t] = pc[t]
                        /\ pc'[t] \in PausedPC => pc'[t] = pc[t]
  BY DEF InMmap
<1>2. Window' = Window
  BY <1>1 DEF Window, PausedPC
<1>3. size <= MaxThreads /\ size \in Nat /\ MaxThreads \in Nat
  BY OrderTypes
<1>4. maps = 0 => /\ ~PauseThreads'
                  /\ \A t \in Thread : ~InMmap(t)' /\ pc'[t] \notin PausedPC
  BY <1>1 DEF First
<1>5. ASSUME maps = 1, NEW t \in Thread, InMmap(t)'
      PROVE  FirstCall(t)'
  <2>1. FirstCall(t) /\ pc'[t] = pc[t]
    BY <1>1, <1>5 DEF First
  <2>2. Mapping(t)' => \A u \in 1..size' : u # t => pc'[u] = "spin"
    <3> SUFFICES ASSUME Mapping(t)', NEW u \in 1..size', u # t
                 PROVE  pc'[u] = "spin"
      OBVIOUS
    <3>1. u \in 1..size /\ u \in Thread
      BY <1>3, <2>1
    <3>2. pc[u] = "spin"
      BY <2>1, <3>1 DEF FirstCall
    <3> QED
      BY <1>1, <3>1, <3>2 DEF PausedPC
  <2>3. pc'[t] = "map" => end'[t] = size'
    BY <2>1 DEF FirstCall
  <2>4. \A u \in Thread : InMmap(u)' => u = t
    BY <1>1, <2>1 DEF FirstCall
  <2>5. pc'[t] \in BeforePause =>
          ~PauseThreads' /\ \A u \in Thread : pc'[u] \notin PausedPC
    BY <1>1, <2>1 DEF FirstCall
  <2>6. pc'[t] \notin BeforePause =>
          PauseThreads' /\ \A u \in Thread : pc'[u] # "leave"
    BY <1>1, <2>1 DEF FirstCall, PausedPC
  <2>7. pc'[t] = "compare" => seen'[t] <= Cardinality(Window')
    BY <1>2, <2>1 DEF FirstCall
  <2> QED
    BY <2>2, <2>3, <2>4, <2>5, <2>6, <2>7 DEF FirstCall
<1> QED
  BY <1>4, <1>5 DEF First

\* Nobody creates a thread during the first mapping, since everybody spins.
LEMMA FirstCreate ==
  ASSUME Inv, Order, First, NEW p \in Process, CreateStep(p)
  PROVE  First'
<1>1. /\ pc \in [Process -> PC] /\ Thread \subseteq Process
      /\ size \in Nat /\ \A q \in Process : q = Main \/ q \in Thread
      /\ \A q \in Process : pc[q] # "unborn" => q <= size
      /\ \A q \in Process : q \in Nat
  BY OrderTypes
<1>2. CASE maps \notin {0, 1}
  BY <1>2, CreateMove DEF First
<1>3. CASE maps \in {0, 1}
  <2>1. ASSUME NEW t \in Thread, Mapping(t)
        PROVE  FALSE
    <3>1. InMmap(t) /\ maps = 1
      BY <1>3, <2>1 DEF InMmap, MmapSteps, First
    <3>2. pc[p] \in CloneSteps /\ p # t
      BY <2>1, CreateMove DEF CloneSteps
    <3>3. p # Main
      BY <2>1, <3>2 DEF Order, MainFirst
    <3>4. p \in 1..size
      BY <1>1, <3>2, <3>3 DEF CloneSteps
    <3>5. pc[p] = "spin"
      BY <2>1, <3>1, <3>2, <3>4 DEF First, FirstCall
    <3> QED
      BY <3>2, <3>5 DEF CloneSteps
  <2>2. UNCHANGED <<maps, PauseThreads, seen, end>>
    BY CreateMove
  <2>3. \A t \in Thread : \/ pc'[t] = pc[t]
                          \/ /\ pc[t] \notin MmapSteps \cup PausedPC
                             /\ pc'[t] \notin MmapSteps \cup PausedPC
    BY <1>1, CreateMove DEF CloneSteps, MmapSteps, PausedPC
  <2> QED
    BY <2>1, <2>2, <2>3, FirstFrame
<1> QED
  BY <1>2, <1>3

\* The main thread, the start gate and the blocks keep First.
LEMMA FirstRun ==
  ASSUME Inv, First,
         \/ RunLoopStep
         \/ \E t \in Thread : TestShouldStart(t) \/ SpuriousWakeup(t) \/ BlockStep(t)
  PROVE  First'
<1>1. /\ pc \in [Process -> PC] /\ Thread \subseteq Process
      /\ Main \in Process /\ Main \notin Thread
  BY OrderTypes
<1>2. idx \in [Process -> Nat] /\ end \in [Process -> Nat]
  BY DEF Inv, TypeOK, ThreadTypes
<1>3. CASE RunLoopStep
  <2>1. UNCHANGED <<maps, PauseThreads, seen, size>> /\ \A t \in Thread : end'[t] = end[t]
    BY <1>1, <1>2, <1>3
    DEF RunLoopStep, RunLoopBegin, RunLoopDeref, RunLoopJoin, RunLoopReturn
  <2>2. PICK l \in MainSteps : pc' = [pc EXCEPT ![Main] = l]
    BY <1>3, MainMove
  <2>3. \A t \in Thread : pc'[t] = pc[t]
    BY <1>1, <2>2
  <2> QED
    BY <2>1, <2>3, FirstFrame
<1>4. ASSUME NEW t \in Thread, TestShouldStart(t) \/ SpuriousWakeup(t)
      PROVE  First'
  <2>1. UNCHANGED <<maps, PauseThreads, seen, size, end>>
    BY <1>4 DEF TestShouldStart, SpuriousWakeup
  <2>2. pc[t] \in {"boot", "cvwait"} /\ pc'[t] \in {"boot", "cvwait", "loop"}
    BY <1>1, <1>4, GateMove
  <2>3. \A u \in Thread : u # t => pc'[u] = pc[u]
    <3>1. PICK l \in {"boot", "cvwait", "loop"} : pc' = [pc EXCEPT ![t] = l]
      BY <1>4, GateMove
    <3> QED
      BY <1>1, <3>1
  <2>4. \A u \in Thread : \/ pc'[u] = pc[u]
                          \/ /\ pc[u] \notin MmapSteps \cup PausedPC
                             /\ pc'[u] \notin MmapSteps \cup PausedPC
    BY <2>2, <2>3 DEF MmapSteps, PausedPC
  <2> QED
    BY <2>1, <2>4, FirstFrame
<1>5. ASSUME NEW t \in Thread, BlockStep(t)
      PROVE  First'
  <2>1. /\ UNCHANGED <<maps, PauseThreads, seen, size, end>> /\ pc[t] = "loop"
        /\ \E l \in {"exited", "pausecheck", "lock"} : pc' = [pc EXCEPT ![t] = l]
    BY <1>5 DEF BlockStep, LeaveLoop, RunBlock, HitZero, StopOnFault,
                SyscallExit, SyscallClone
  <2>2. \A u \in Thread : \/ pc'[u] = pc[u]
                          \/ /\ pc[u] \notin MmapSteps \cup PausedPC
                             /\ pc'[u] \notin MmapSteps \cup PausedPC
    BY <1>1, <2>1 DEF MmapSteps, PausedPC
  <2> QED
    BY <2>1, <2>2, FirstFrame
<1> QED
  BY <1>3, <1>4, <1>5

\* The pause check: during the first call threads enter the window and stay.
LEMMA FirstPause ==
  ASSUME Inv, First, NEW t \in Thread, PauseStep(t)
  PROVE  First'
<1>1. pc \in [Process -> PC] /\ Thread \subseteq Process /\ size \in Nat
  BY OrderTypes
<1>2. /\ UNCHANGED <<maps, PauseThreads, seen, size, end>>
      /\ pc[t] \in PauseSteps /\ pc'[t] \in PauseSteps \cup {"loop"}
      /\ pc'[t] = "enter" => pc[t] = "pausecheck" /\ PauseThreads
      /\ pc'[t] = "spin" => pc[t] = "enter"
      /\ pc'[t] = "leave" => pc[t] = "spin" /\ ~PauseThreads
      /\ pc'[t] = "loop" => pc[t] \in {"pausecheck", "leave"}
      /\ pc'[t] # "pausecheck"
      /\ \A u \in Thread : u # t => pc'[u] = pc[u]
  BY <1>1 DEF PauseStep, PauseCheck, EnterPause, SpinUntilResumed, LeavePause,
              PauseSteps
<1>3. /\ ~InMmap(t) /\ ~InMmap(t)'
      /\ \A u \in Thread : InMmap(u)' <=> InMmap(u)
  BY <1>2 DEF InMmap, MmapSteps, PauseSteps
<1>4. maps = 0 => /\ ~PauseThreads'
                  /\ \A u \in Thread : ~InMmap(u)' /\ pc'[u] \notin PausedPC
  BY <1>2, <1>3 DEF First, PausedPC, PauseSteps
<1>5. ASSUME maps = 1, NEW u \in Thread, InMmap(u)'
      PROVE  FirstCall(u)'
  <2>1. FirstCall(u) /\ pc'[u] = pc[u] /\ u # t
    BY <1>2, <1>3, <1>5 DEF First
  <2>2. \A v \in Thread : InMmap(v)' => v = u
    BY <1>3, <2>1 DEF FirstCall
  <2>3. pc'[u] \in BeforePause =>
          ~PauseThreads' /\ \A v \in Thread : pc'[v] \notin PausedPC
    BY <1>2, <2>1 DEF FirstCall, PausedPC, PauseSteps
  <2>4. pc'[u] \notin BeforePause =>
          PauseThreads' /\ \A v \in Thread : pc'[v] # "leave"
    BY <1>2, <2>1 DEF FirstCall
  <2>5. pc'[u] = "compare" => seen'[u] <= Cardinality(Window')
    <3> SUFFICES ASSUME pc[u] = "compare" PROVE seen[u] <= Cardinality(Window')
      BY <1>2, <2>1
    <3>1. PauseThreads /\ pc[t] # "leave" /\ seen[u] <= Cardinality(Window)
      BY <2>1 DEF FirstCall, BeforePause
    <3>2. Window \subseteq Window' /\ Window' \subseteq Thread
      BY <1>2, <3>1 DEF Window, PauseSteps
    <3>3. IsFiniteSet(Window')
      BY <3>2, FiniteProcesses, FS_Subset
    <3>4. Cardinality(Window) <= Cardinality(Window')
      BY <3>2, <3>3, FS_Subset
    <3>5. Cardinality(Window) \in Nat /\ Cardinality(Window') \in Nat
      BY <3>3, FiniteProcesses, FS_CardinalityType
    <3>6. seen[u] \in Nat
      BY MapTypes
    <3> QED
      BY <3>1, <3>4, <3>5, <3>6
  <2>6. Mapping(u)' => \A v \in 1..size' : v # u => pc'[v] = "spin"
    <3> SUFFICES ASSUME Mapping(u), NEW v \in 1..size, v # u
                 PROVE  pc'[v] = "spin"
      BY <1>2, <2>1
    <3>1. pc[v] = "spin" /\ v \in Thread /\ PauseThreads
      BY <1>1, <2>1, OrderTypes DEF FirstCall, BeforePause
    <3> QED
      BY <1>2, <3>1 DEF PauseSteps
  <2>7. pc'[u] = "map" => end'[u] = size'
    BY <1>2, <2>1 DEF FirstCall
  <2> QED
    BY <2>2, <2>3, <2>4, <2>5, <2>6, <2>7 DEF FirstCall
<1> QED
  BY <1>2, <1>4, <1>5 DEF First

\* The first call begins when nobody pauses.
LEMMA FirstBegin ==
  ASSUME Inv, First, NEW t \in Thread, SyscallMmap(t)
  PROVE  First'
<1>1. pc \in [Process -> PC] /\ Thread \subseteq Process
  BY OrderTypes
<1>2. /\ maps' = maps + 1 /\ maps \in Nat /\ UNCHANGED PauseThreads
      /\ pc'[t] = "reload" /\ \A u \in Thread : u # t => pc'[u] = pc[u]
  BY <1>1, BoundsAssumption DEF SyscallMmap, Inv, TypeOK, MemoryTypes
<1>3. CASE maps = 0
  <2>1. \A u \in Thread : InMmap(u)' => u = t
    BY <1>2, <1>3 DEF First, InMmap
  <2>2. ~PauseThreads' /\ \A u \in Thread : pc'[u] \notin PausedPC
    BY <1>2, <1>3 DEF First, PausedPC
  <2>3. FirstCall(t)'
    BY <1>2, <2>1, <2>2 DEF FirstCall, BeforePause
  <2> QED
    BY <1>2, <1>3, <2>1, <2>3 DEF First
<1>4. CASE maps # 0
  BY <1>2, <1>4 DEF First
<1> QED
  BY <1>3, <1>4

\* The steps of the first call.
LEMMA FirstMmap ==
  ASSUME InitialPaused = 0, PausedCount, Inv, Order, First,
         NEW t \in Thread, MmapStep(t), ~SyscallMmap(t)
  PROVE  First'
<1>1. /\ pc \in [Process -> PC] /\ Thread \subseteq Process
      /\ size \in Nat /\ size <= MaxThreads /\ MaxThreads \in Nat
      /\ idx \in [Process -> Nat] /\ end \in [Process -> Nat]
      /\ seen \in [Thread -> 0..CounterMax]
  BY OrderTypes DEF Inv, TypeOK, ThreadTypes, PauseTypes
<1>2. /\ UNCHANGED <<maps, size>> /\ InMmap(t)
      /\ \A u \in Thread : u # t => pc'[u] = pc[u]
      /\ pc'[t] \in MmapSteps \cup {"pausecheck"}
  BY <1>1 DEF MmapStep, ReloadLastMMAP, BumpLastMMAP, SetPauseThreads,
              LoadNumPaused, CompareSize, MapLoopBegin, MapRegion,
              ClearPauseThreads, InMmap, MmapSteps
<1>3. CASE maps # 1
  BY <1>2, <1>3 DEF First
<1>4. CASE maps = 1
  <2>1. FirstCall(t)
    BY <1>2, <1>4 DEF First
  <2>2. \A u \in Thread : InMmap(u)' => u = t
    BY <1>2, <2>1 DEF FirstCall, InMmap
  <2>3. SUFFICES ASSUME InMmap(t)' PROVE FirstCall(t)'
    BY <1>2, <1>4, <2>2 DEF First
  <2>4. \A u \in Thread : pc'[u] \in PausedPC => pc'[u] = pc[u]
    BY <1>2 DEF MmapSteps, PausedPC
  <2>5. Window' = Window
    BY <1>2 DEF Window, MmapSteps, InMmap
  <2>6. CASE ReloadLastMMAP(t) \/ BumpLastMMAP(t)
    <3>1. /\ pc[t] \in BeforePause /\ pc'[t] \in {"bump", "pause"}
          /\ UNCHANGED PauseThreads
      BY <1>1, <2>6 DEF ReloadLastMMAP, BumpLastMMAP, BeforePause
    <3> QED
      BY <2>1, <2>2, <2>4, <3>1 DEF FirstCall, BeforePause
  <2>7. CASE SetPauseThreads(t)
    <3>1. pc[t] \in BeforePause /\ pc'[t] = "load" /\ PauseThreads' = TRUE
      BY <1>1, <2>7 DEF SetPauseThreads, BeforePause
    <3> QED
      BY <2>1, <2>2, <2>4, <3>1 DEF FirstCall, BeforePause, PausedPC
  <2>8. CASE LoadNumPaused(t)
    <3>1. /\ pc[t] = "load" /\ pc'[t] = "compare" /\ UNCHANGED PauseThreads
          /\ seen'[t] = NumThreadsPaused
      BY <1>1, <2>8 DEF LoadNumPaused
    <3>2. NumThreadsPaused = Cardinality(Window)
      BY FiniteProcesses, BoundsAssumption, CounterAssumption DEF PausedCount
    <3>3. seen'[t] <= Cardinality(Window')
      BY <2>5, <3>1, <3>2, FiniteProcesses
    <3> QED
      BY <2>1, <2>2, <2>4, <3>1, <3>3 DEF FirstCall, BeforePause, PausedPC
  <2>9. CASE CompareSize(t)
    <3>1. /\ pc[t] = "compare" /\ UNCHANGED PauseThreads
          /\ pc'[t] \in {"begin", "load"}
          /\ pc'[t] = "begin" => seen[t] = size - 1
      BY <1>1, <2>9 DEF CompareSize
    <3>2. ASSUME pc'[t] = "begin", NEW u \in 1..size, u # t
          PROVE  pc'[u] = "spin"
      <4>1. t \notin Window /\ pc[t] # "unborn"
        BY <3>1 DEF Window
      <4>2. seen[t] <= Cardinality(Window) /\ seen[t] = size - 1
        BY <2>1, <3>1, <3>2 DEF FirstCall
      <4>3. Cardinality(Window) = size - 1
        BY <1>1, <4>1, <4>2, AllOthersInWindow, FiniteProcesses
      <4>4. u \in Window /\ u \in Thread
        BY <1>1, <3>2, <4>1, <4>3, AllOthersInWindow
      <4>5. pc[u] # "leave"
        BY <2>1, <3>1, <4>4 DEF FirstCall, BeforePause
      <4> QED
        BY <1>2, <3>2, <4>4, <4>5 DEF Window
    <3>3. PauseThreads' /\ \A u \in Thread : pc'[u] # "leave"
      BY <2>1, <2>4, <3>1 DEF FirstCall, BeforePause, PausedPC
    <3> QED
      BY <1>2, <2>2, <3>1, <3>2, <3>3 DEF FirstCall, BeforePause
  <2>10. CASE MapLoopBegin(t) \/ MapRegion(t)
    <3>1. /\ Mapping(t) /\ pc'[t] = "map" /\ UNCHANGED PauseThreads
          /\ pc[t] = "begin" => end'[t] = size
          /\ pc[t] = "map" => end'[t] = end[t]
      BY <1>1, <2>10 DEF MapLoopBegin, MapRegion
    <3>2. end'[t] = size'
      BY <1>2, <2>1, <3>1 DEF FirstCall
    <3>3. PauseThreads' /\ \A u \in Thread : pc'[u] # "leave"
      BY <2>1, <2>4, <3>1 DEF FirstCall, BeforePause, PausedPC
    <3>4. ASSUME NEW u \in 1..size', u # t
          PROVE  pc'[u] = "spin"
      <4>1. u \in Thread /\ u \in 1..size
        BY <1>1, <1>2
      <4> QED
        BY <1>2, <2>1, <3>1, <3>4, <4>1 DEF FirstCall
    <3> QED
      BY <2>2, <3>1, <3>2, <3>3, <3>4 DEF FirstCall, BeforePause
  <2>11. CASE ClearPauseThreads(t)
    BY <1>1, <2>3, <2>11 DEF ClearPauseThreads, InMmap, MmapSteps
  <2> QED
    BY <2>6, <2>7, <2>8, <2>9, <2>10, <2>11 DEF MmapStep
<1> QED
  BY <1>3, <1>4

\* Every step keeps First.
LEMMA FirstStep ==
  ASSUME InitialPaused = 0, PausedCount, Inv, Order, First, [Next]_vars
  PROVE  First'
<1>1. CASE UNCHANGED vars
  <2>1. \A t \in Thread : pc'[t] = pc[t] /\ end'[t] = end[t]
    BY <1>1
  <2> QED
    BY <1>1, <2>1, FirstFrame
<1>2. CASE \E t \in Thread : MmapStep(t)
  BY <1>2, FirstBegin, FirstMmap
<1> QED
  BY <1>1, <1>2, StepCases, FirstCreate, FirstRun, FirstPause

\* During the first mapping every other thread spins, and Threads does not
\* change, for any number of threads that run, clone or leave around it.
THEOREM FirstMappingQuiescentHolds == Spec => []FirstMappingQuiescent
<1>1. ASSUME First
      PROVE  FirstMappingQuiescent
  BY <1>1 DEF First, FirstCall, FirstMappingQuiescent, InMmap, MmapSteps
<1>2. CASE InitialPaused = 0
  <2>1. ASSUME PausedCount, Inv, Order, First, [Next]_vars
        PROVE  First'
    BY <1>2, <2>1, FirstStep
  <2> QED
    BY <1>1, <2>1, FirstInit, Invariance, OrderInvariance, PausedCountHolds,
       PTL DEF Spec
<1>3. CASE InitialPaused # 0
  <2>1. FirstMappingQuiescent
    BY <1>3 DEF FirstMappingQuiescent
  <2> QED
    BY <2>1, PTL
<1> QED
  BY <1>2, <1>3

----------------------------------------------------------------------------
(* What the engines see.                                                   *)

\* The image, the stack and the FS page lie below the first mmap region, and
\* the file begins at guest address zero.
LEMMA LayoutBelow ==
  /\ MMAP_BASE \in Nat
  /\ \A s \in {ImageRegion, StackRegion, FSRegion} : EndOf(s) <= MMAP_BASE
  /\ SHMRegion.off = 0 /\ SHMRegion.len \in Nat
BY SMT DEF MMAP_BASE, ImageRegion, StackRegion, FSRegion, SHMRegion, EndOf

\* uc_mem_map_ptr refuses no region that lies above what is mapped.
LEMMA MapAbove ==
  ASSUME NEW mapped, NEW r \in Region, mapped \subseteq Region,
         \A s \in mapped : EndOf(s) <= r.off
  PROVE  UcMemMap(mapped, r) = mapped \cup {r}
<1>1. ASSUME NEW s \in mapped
      PROVE  ~Overlap(r, s)
  <2>1. s.off + s.len <= r.off
    BY <1>1 DEF EndOf
  <2>2. s.off \in Nat /\ s.len \in Nat /\ r.off \in Nat
    BY <1>1 DEF Region
  <2> QED
    BY <2>1, <2>2 DEF Overlap
<1> QED
  BY <1>1 DEF UcMemMap

\* NewThread maps the first entry of MappedRegions, whatever follows it.
LEMMA FirstEntryMapped ==
  ASSUME NEW regions \in Seq(Region), Len(regions) >= 1
  PROVE  regions[1] \in UcMapAll(regions)
<1>1. 1 \in DOMAIN regions
  OBVIOUS
<1>2. 1..(1 - 1) = {}
  OBVIOUS
<1> QED
  BY <1>1, <1>2 DEF UcMapAll

\* The types Engines speaks of.
LEMMA EngineTypes ==
  ASSUME Inv
  PROVE  /\ pc \in [Process -> PC] /\ idx \in [Process -> Nat] /\ end \in [Process -> Nat]
         /\ Thread \subseteq Process /\ Main \in Process /\ Main \notin Thread
         /\ 1 \in Thread /\ size \in Nat /\ size <= MaxThreads
         /\ LastMMAP \in Nat /\ region \in [Thread -> Region]
         /\ base \in [Thread -> Nat] /\ MappedRegions \in Seq(Region)
         /\ ucMap \in [Thread -> SUBSET Region] /\ returned \subseteq Region
         /\ \A t \in Thread : /\ region[t] \in Region /\ region[t].off \in Nat
                              /\ region[t].len \in Nat /\ base[t] \in Nat
                              /\ idx[t] \in Nat /\ end[t] \in Nat
<1>1. /\ pc \in [Process -> PC] /\ Thread \subseteq Process
      /\ Main \in Process /\ Main \notin Thread /\ 1 \in Thread
      /\ size \in Nat /\ size <= MaxThreads
  BY OrderTypes, BoundsAssumption, SMTT(60)
<1>2. idx \in [Process -> Nat] /\ end \in [Process -> Nat]
  BY DEF Inv, TypeOK, ThreadTypes
<1>3. /\ LastMMAP \in Nat /\ region \in [Thread -> Region]
      /\ base \in [Thread -> Nat] /\ MappedRegions \in Seq(Region)
      /\ ucMap \in [Thread -> SUBSET Region] /\ returned \subseteq Region
  BY DEF Inv, TypeOK, MemoryTypes
<1>4. \A r \in Region : r.off \in Nat /\ r.len \in Nat
  BY DEF Region
<1>5. \A t \in Thread : /\ region[t] \in Region /\ region[t].off \in Nat
                        /\ region[t].len \in Nat /\ base[t] \in Nat
  BY <1>3, <1>4
<1>6. \A t \in Thread : idx[t] \in Nat /\ end[t] \in Nat
  BY <1>1, <1>2
<1> QED
  BY <1>1, <1>2, <1>3, <1>5, <1>6

\* Nothing is mapped but the file.
LEMMA EnginesInit == Init => Engines
<1> SUFFICES ASSUME Init PROVE Engines
  OBVIOUS
<1>1. /\ \A t \in Thread : pc[t] = "unborn"
      /\ ucMap[1] = {} /\ returned = {} /\ LastMMAP = MMAP_BASE
      /\ MappedRegions = <<SHMRegion>>
  BY BoundsAssumption DEF Init
<1>2. Len(MappedRegions) >= 1 /\ MappedRegions[1] = SHMRegion
  BY <1>1
<1>3. LastMMAP >= MMAP_BASE
  BY <1>1, LayoutBelow
<1> QED
  BY <1>1, <1>2, <1>3 DEF Engines, LateReturns, ChildEngines, AboveBase,
       MapperPosition, FirstEngine, MappedFirst, InMmap, MmapSteps

\* A step that leaves the engines and the mmap calls alone, and starts no
\* thread.
LEMMA EnginesFrame ==
  ASSUME Inv, Engines,
         UNCHANGED <<LastMMAP, base, region, returned, MappedRegions, ucMap>>,
         pc'[Main] \in CloneSteps => pc[Main] \in CloneSteps,
         \A t \in Thread :
           /\ idx'[t] = idx[t] /\ end'[t] = end[t]
           /\ pc[t] = "unborn" => pc'[t] = "unborn"
           /\ \/ pc'[t] = pc[t]
              \/ pc[t] \notin MmapSteps /\ pc'[t] \notin MmapSteps
  PROVE  Engines'
<1>1. \A t \in Thread : /\ InMmap(t)' <=> InMmap(t)
                        /\ MappedFirst(t)' <=> MappedFirst(t)
                        /\ pc'[t] = "map" <=> pc[t] = "map"
                        /\ pc'[t] = "bump" <=> pc[t] = "bump"
  BY DEF InMmap, MappedFirst, MmapSteps
<1>2. LateReturns' /\ ChildEngines' /\ MapperPosition'
  BY <1>1 DEF Engines, LateReturns, ChildEngines, MapperPosition
<1>3. AboveBase'
  BY <1>1 DEF Engines, AboveBase
<1>4. FirstEngine'
  BY <1>1 DEF Engines, FirstEngine
<1> QED
  BY <1>2, <1>3, <1>4 DEF Engines

\* InitThread fills the first engine before any mmap call; clone puts the
\* whole file into the engine of its child, which is never the first.
LEMMA EnginesStart ==
  ASSUME Inv, Order, Engines, NEW p \in Process, StartThread(p)
  PROVE  Engines'
<1>1. /\ pc \in [Process -> PC] /\ Thread \subseteq Process
      /\ Main \in Process /\ Main \notin Thread /\ 1 \in Thread
      /\ size \in Nat /\ size <= MaxThreads
      /\ ucMap \in [Thread -> SUBSET Region] /\ MappedRegions \in Seq(Region)
  BY EngineTypes
<1> DEFINE c == child[p]
<1>2. pc[p] = "setup" /\ c \in 1..size /\ pc[c] = "unborn" /\ c # p /\ c \in Thread
  <2>1. pc[p] = "setup"
    BY DEF StartThread
  <2>2. c \in 1..size /\ pc[c] = "unborn"
    BY <2>1 DEF Inv, Births
  <2>3. c \in Thread
    BY <1>1, <2>2, OrderTypes
  <2> QED
    BY <2>1, <2>2, <2>3
<1>3. /\ pc'[p] \in {"kick", "regs"} /\ pc'[c] = "boot"
      /\ \A q \in Process : q # p /\ q # c => pc'[q] = pc[q]
      /\ UNCHANGED <<idx, end, LastMMAP, base, region, returned>>
      /\ \A t \in Thread : t # c => ucMap'[t] = ucMap[t]
  BY <1>1, <1>2 DEF StartThread
<1>4. /\ p = Main => /\ ucMap'[c] = {ImageRegion, StackRegion, FSRegion}
                     /\ MappedRegions' =
                          MappedRegions \o <<ImageRegion, StackRegion, FSRegion>>
      /\ p # Main => /\ ucMap'[c] = UcMapAll(MappedRegions)
                     /\ UNCHANGED MappedRegions
  BY <1>1, <1>2 DEF StartThread
<1> HIDE DEF c
<1>5. \A t \in Thread : /\ InMmap(t)' <=> InMmap(t)
                        /\ InMmap(t) => pc'[t] = pc[t]
  BY <1>1, <1>2, <1>3 DEF InMmap, MmapSteps
<1>6. \A t \in Thread : /\ MappedFirst(t)' <=> MappedFirst(t)
                        /\ pc'[t] = "map" <=> pc[t] = "map"
                        /\ pc'[t] = "bump" <=> pc[t] = "bump"
  BY <1>3, <1>5 DEF MappedFirst, InMmap, MmapSteps
<1>7. AboveBase' /\ MapperPosition'
  BY <1>3, <1>5, <1>6 DEF Engines, AboveBase, MapperPosition
<1>8. LateReturns'
  BY <1>1, <1>2, <1>3 DEF Engines, LateReturns, CloneSteps
<1>9. Len(MappedRegions') >= 1 /\ MappedRegions'[1] = SHMRegion
  <2>1. Len(MappedRegions) >= 1 /\ MappedRegions[1] = SHMRegion
    BY DEF Engines, ChildEngines
  <2>2. CASE p = Main
    <3> DEFINE more == <<ImageRegion, StackRegion, FSRegion>>
    <3>1. more \in Seq(Region)
      BY Layout
    <3>2. MappedRegions' = MappedRegions \o more
      BY <1>4, <2>2
    <3> HIDE DEF more
    <3> QED
      BY <1>1, <2>1, <3>1, <3>2
  <2> QED
    BY <1>4, <2>1, <2>2
<1>10. CASE p = Main
  <2>1. /\ c = 1 /\ returned = {}
        /\ \A t \in Thread : pc[t] \in {"unborn", "boot", "cvwait"}
    BY <1>2, <1>10 DEF Order, MainFirst, Creating, CloneSteps, Engines, LateReturns, c
  <2>2. \A t \in Thread : ~MappedFirst(t)
    BY <2>1 DEF MappedFirst
  <2>3. FirstEngine'
    BY <1>3, <1>4, <1>6, <1>10, <2>1, <2>2 DEF FirstEngine
  <2>4. \A t \in Thread : t # 1 /\ pc'[t] # "unborn" => SHMRegion \in ucMap'[t]
    BY <1>1, <1>3, <1>10, <2>1 DEF Engines, ChildEngines
  <2> QED
    BY <1>7, <1>8, <1>9, <2>3, <2>4 DEF Engines, ChildEngines
<1>11. CASE p # Main
  <2>1. c # 1
    <3>1. p < c /\ p \in Nat
      BY <1>2, OrderTypes DEF Order, CreatorEarlier, Creating, c
    <3> QED
      BY <1>11, <3>1
  <2>2. FirstEngine'
    BY <1>1, <1>3, <1>6, <2>1 DEF Engines, FirstEngine
  <2>3. SHMRegion \in ucMap'[c]
    BY <1>1, <1>4, <1>11, FirstEntryMapped DEF Engines, ChildEngines
  <2>4. ASSUME NEW t \in Thread, t # 1, pc'[t] # "unborn"
        PROVE  SHMRegion \in ucMap'[t]
    <3>1. CASE t = c
      BY <2>3, <3>1
    <3>2. CASE t # c
      <4>1. pc[t] # "unborn"
        BY <1>1, <1>2, <1>3, <2>4, <3>2
      <4> QED
        BY <1>3, <2>4, <3>2, <4>1 DEF Engines, ChildEngines
    <3> QED
      BY <3>1, <3>2
  <2> QED
    BY <1>7, <1>8, <1>9, <2>2, <2>4 DEF Engines, ChildEngines
<1> QED
  BY <1>10, <1>11

\* The other steps outside mmap.
LEMMA EnginesQuiet ==
  ASSUME Inv, Order, Engines, [Next]_vars, ~\E t \in Thread : MmapStep(t)
  PROVE  Engines'
<1>1. /\ pc \in [Process -> PC] /\ Thread \subseteq Process
      /\ Main \in Process /\ Main \notin Thread
      /\ idx \in [Process -> Nat] /\ end \in [Process -> Nat]
  BY EngineTypes
<1>2. CASE UNCHANGED vars
  BY <1>2, EnginesFrame
<1>3. ASSUME NEW p \in Process, CreateStep(p), ~StartThread(p)
      PROVE  Engines'
  <2>1. /\ UNCHANGED <<idx, end, LastMMAP, base, region, returned>>
        /\ pc[p] \in CloneSteps
        /\ pc'[p] \in CloneSteps \cup {"runloop", "pausecheck"}
        /\ \A q \in Process : q # p =>
              \/ pc'[q] = pc[q]
              \/ pc[q] \in {"unborn", "boot", "cvwait"} /\ pc'[q] = "boot"
    BY <1>3, CreateMove
  <2>2. UNCHANGED <<MappedRegions, ucMap>>
    BY <1>3 DEF CreateStep, LockThreads, EmplaceThread, AssignTID, FinishClone,
                KickThread
  <2>3. \A t \in Thread : pc[t] = "unborn" => pc'[t] = "unborn"
    <3>1. CASE KickThread(p)
      <4>1. pc[child[p]] \in {"boot", "cvwait"} /\ pc[p] # "unborn"
        BY <3>1 DEF KickThread, Inv, Births
      <4> QED
        BY <1>1, <3>1, <4>1 DEF KickThread
    <3>2. CASE ~KickThread(p)
      BY <1>1, <1>3, <3>2
      DEF CreateStep, LockThreads, EmplaceThread, AssignTID, FinishClone
    <3> QED
      BY <3>1, <3>2
  <2>4. pc'[Main] \in CloneSteps => pc[Main] \in CloneSteps
    BY <1>1, <2>1 DEF CloneSteps
  <2>5. \A t \in Thread : \/ pc'[t] = pc[t]
                          \/ pc[t] \notin MmapSteps /\ pc'[t] \notin MmapSteps
    BY <1>1, <2>1 DEF CloneSteps, MmapSteps
  <2> QED
    BY <2>1, <2>2, <2>3, <2>4, <2>5, EnginesFrame
<1>4. CASE RunLoopStep
  <2>1. /\ UNCHANGED <<LastMMAP, base, region, returned, MappedRegions, ucMap>>
        /\ \A t \in Thread : idx'[t] = idx[t] /\ end'[t] = end[t]
    BY <1>1, <1>4
    DEF RunLoopStep, RunLoopBegin, RunLoopDeref, RunLoopJoin, RunLoopReturn
  <2>2. PICK l \in MainSteps : pc' = [pc EXCEPT ![Main] = l]
    BY <1>4, MainMove
  <2>3. pc'[Main] \notin CloneSteps /\ \A t \in Thread : pc'[t] = pc[t]
    BY <1>1, <2>2 DEF CloneSteps, MainSteps
  <2> QED
    BY <2>1, <2>3, EnginesFrame
<1>5. ASSUME NEW t \in Thread,
             TestShouldStart(t) \/ SpuriousWakeup(t) \/ BlockStep(t) \/ PauseStep(t)
      PROVE  Engines'
  <2>1. /\ UNCHANGED <<LastMMAP, base, region, returned, MappedRegions, ucMap, idx, end>>
        /\ pc[t] \in {"boot", "cvwait", "loop"} \cup PauseSteps
        /\ \E l \in {"boot", "cvwait", "loop", "exited", "lock"} \cup PauseSteps :
             pc' = [pc EXCEPT ![t] = l]
    BY <1>5 DEF TestShouldStart, SpuriousWakeup, BlockStep, LeaveLoop, RunBlock,
                HitZero, StopOnFault, SyscallExit, SyscallClone, PauseStep,
                PauseCheck, EnterPause, SpinUntilResumed, LeavePause, PauseSteps
  <2>2. PICK l \in {"boot", "cvwait", "loop", "exited", "lock"} \cup PauseSteps :
          pc' = [pc EXCEPT ![t] = l]
    BY <2>1
  <2>3. pc[t] \notin MmapSteps \cup {"unborn"} /\ l \notin MmapSteps
    BY <2>1, <2>2 DEF MmapSteps, PauseSteps
  <2>4. pc'[Main] = pc[Main] /\ pc'[t] = l /\ \A u \in Thread : u # t => pc'[u] = pc[u]
    BY <1>1, <2>2
  <2> QED
    BY <2>1, <2>3, <2>4, EnginesFrame
<1> QED
  BY <1>2, <1>3, <1>4, <1>5, EnginesStart, StepCases

\* A step of an mmap call that touches no engine.
LEMMA EnginesCall ==
  ASSUME Inv, Order, Engines, NEW t \in Thread,
         SyscallMmap(t) \/ ReloadLastMMAP(t) \/ BumpLastMMAP(t)
         \/ SetPauseThreads(t) \/ LoadNumPaused(t) \/ CompareSize(t)
         \/ MapLoopBegin(t)
  PROVE  Engines'
<1>1. /\ pc \in [Process -> PC] /\ Thread \subseteq Process
      /\ Main \in Process /\ Main \notin Thread
      /\ idx \in [Process -> Nat] /\ end \in [Process -> Nat]
      /\ size \in Nat /\ LastMMAP \in Nat
      /\ base \in [Thread -> Nat] /\ region \in [Thread -> Region]
      /\ \A u \in Thread : /\ region[u].off \in Nat /\ region[u].len \in Nat
                           /\ base[u] \in Nat
  BY EngineTypes
<1>2. /\ UNCHANGED <<returned, MappedRegions, ucMap, size>>
      /\ pc[t] \in MmapSteps \cup {"loop"} /\ pc[t] # "map" /\ InMmap(t)'
      /\ \A u \in Process : u # t => pc'[u] = pc[u] /\ idx'[u] = idx[u] /\ end'[u] = end[u]
      /\ \A u \in Thread : u # t => region'[u] = region[u] /\ base'[u] = base[u]
      /\ pc'[t] = "map" => MapLoopBegin(t)
      /\ pc[t] # "loop" => region'[t] = region[t]
  BY <1>1 DEF SyscallMmap, ReloadLastMMAP, BumpLastMMAP, SetPauseThreads,
              LoadNumPaused, CompareSize, MapLoopBegin, InMmap, MmapSteps
<1>3. LateReturns'
  BY <1>1, <1>2 DEF Engines, LateReturns
<1>4. ChildEngines'
  BY <1>2 DEF Engines, ChildEngines, MmapSteps
<1>5. pc'[t] = "map" => idx'[t] = 1 /\ end'[t] = size /\ size >= 1
  <2> SUFFICES ASSUME MapLoopBegin(t)
               PROVE  idx'[t] = 1 /\ end'[t] = size /\ size >= 1
    BY <1>2
  <2>1. pc[t] = "begin" /\ idx'[t] = 1 /\ end'[t] = size
    BY <1>1 DEF MapLoopBegin
  <2>2. t <= size
    BY <1>1, <2>1, OrderTypes
  <2> QED
    BY <1>1, <2>1, <2>2
<1>6. MapperPosition'
  BY <1>1, <1>2, <1>5 DEF Engines, MapperPosition
<1>7. /\ ~MappedFirst(t) /\ ~MappedFirst(t)'
      /\ \A u \in Thread : u # t => (MappedFirst(u)' <=> MappedFirst(u))
  BY <1>1, <1>2, <1>5 DEF MappedFirst
<1>8. FirstEngine'
  <2>1. \A u \in Thread : MappedFirst(u)' => MappedFirst(u) /\ region'[u] = region[u]
    BY <1>2, <1>7
  <2>2. \A u \in Thread : MappedFirst(u) => MappedFirst(u)' /\ region'[u] = region[u]
    BY <1>2, <1>7
  <2> QED
    BY <1>2, <2>1, <2>2 DEF Engines, FirstEngine
<1>9. AboveBase'
  <2> DEFINE B == MMAP_BASE
  <2>1. B \in Nat /\ LastMMAP >= B
    BY Layout DEF Engines, AboveBase
  <2>2. /\ \A u \in Thread : pc[u] = "bump" => base[u] >= B
        /\ \A u \in Thread : InMmap(u) => region[u].off >= B
    BY DEF Engines, AboveBase
  <2> HIDE DEF B
  <2>3. CASE SyscallMmap(t)
    <3>1. /\ UNCHANGED <<LastMMAP, base>> /\ pc'[t] = "reload"
      BY <1>1, <2>3 DEF SyscallMmap
    <3>2. region'[t].off = LastMMAP
      <4>1. PICK length \in MmapLens :
              region' = [region EXCEPT ![t] = [off |-> LastMMAP, len |-> AlignUp(length)]]
        BY <2>3 DEF SyscallMmap
      <4> QED
        BY <1>1, <4>1
    <3>3. \A u \in Thread : u # t => (InMmap(u)' <=> InMmap(u))
      BY <1>1, <1>2 DEF InMmap
    <3>4. \A u \in Thread : pc'[u] = "bump" => base'[u] >= B
      BY <1>1, <1>2, <2>2, <3>1
    <3>5. \A u \in Thread : InMmap(u)' => region'[u].off >= B
      BY <1>2, <2>1, <2>2, <3>2, <3>3
    <3> QED
      BY <2>1, <3>1, <3>4, <3>5 DEF AboveBase, B
  <2>4. CASE ~SyscallMmap(t)
    <3>1. /\ UNCHANGED region /\ InMmap(t)
          /\ LastMMAP' # LastMMAP => pc[t] = "bump" /\ LastMMAP' = base[t] + region[t].len
          /\ pc'[t] = "bump" => base'[t] = LastMMAP
      BY <1>1, <2>4 DEF ReloadLastMMAP, BumpLastMMAP, SetPauseThreads,
              LoadNumPaused, CompareSize, MapLoopBegin, InMmap, MmapSteps
    <3>2. LastMMAP' >= B
      BY <1>1, <2>1, <2>2, <3>1
    <3>3. \A u \in Thread : InMmap(u)' <=> InMmap(u)
      BY <1>1, <1>2, <3>1 DEF InMmap
    <3>4. \A u \in Thread : pc'[u] = "bump" => base'[u] >= B
      BY <1>1, <1>2, <2>1, <2>2, <3>1
    <3>5. \A u \in Thread : InMmap(u)' => region'[u].off >= B
      BY <2>2, <3>1, <3>3
    <3> QED
      BY <3>2, <3>4, <3>5 DEF AboveBase, B
  <2> QED
    BY <2>3, <2>4
<1> QED
  BY <1>3, <1>4, <1>6, <1>8, <1>9 DEF Engines

\* One mapper at a time puts its region into the engines, the first one first,
\* where nothing overlaps it.
LEMMA EnginesMap ==
  ASSUME Inv, MapInv, Engines, NEW t \in Thread, MapRegion(t)
  PROVE  Engines'
<1>1. /\ pc \in [Process -> PC] /\ Thread \subseteq Process
      /\ Main \in Process /\ Main \notin Thread /\ 1 \in Thread
      /\ idx \in [Process -> Nat] /\ end \in [Process -> Nat]
      /\ ucMap \in [Thread -> SUBSET Region] /\ MappedRegions \in Seq(Region)
      /\ region[t] \in Region /\ region[t].off \in Nat
      /\ idx[t] \in Nat /\ end[t] \in Nat
  BY EngineTypes
<1>2. /\ pc[t] = "map" /\ UNCHANGED <<pc, end, LastMMAP, base, region, returned, size>>
      /\ \A u \in Thread : u # t => idx'[u] = idx[u]
      /\ idx[t] >= 1 /\ end[t] >= 1
  BY <1>1 DEF MapRegion, Engines, MapperPosition
<1>3. LateReturns' /\ AboveBase'
  BY <1>2 DEF Engines, LateReturns, AboveBase, InMmap
<1>4. \A u \in Thread : pc[u] = "map" => u = t
  BY <1>2 DEF MapInv, OnePassed, Passed
<1>5. CASE UNCHANGED <<engineVars, idx>>
  BY <1>2, <1>3, <1>5
  DEF Engines, ChildEngines, MapperPosition, FirstEngine, MappedFirst
<1>6. CASE /\ MappedRegions' = Append(MappedRegions, region[t])
           /\ ucMap' = [ucMap EXCEPT ![idx[t]] = UcMemMap(@, region[t])]
           /\ idx' = [idx EXCEPT ![t] = @ + 1]
  <2>1. idx'[t] = idx[t] + 1
    BY <1>1, <1>6
  <2>2. MapperPosition'
    BY <1>1, <1>2, <2>1 DEF Engines, MapperPosition
  <2>3. \A u \in Thread : MappedFirst(u)' <=> u = t
    BY <1>1, <1>2, <1>4, <2>1 DEF MappedFirst
  <2>4. Len(MappedRegions') >= 1 /\ MappedRegions'[1] = SHMRegion
    BY <1>1, <1>6 DEF Engines, ChildEngines
  <2>5. \A m : m \subseteq UcMemMap(m, region[t])
    BY DEF UcMemMap
  <2>6. \A u \in Thread : ucMap[u] \subseteq ucMap'[u]
    BY <1>1, <1>6, <2>5
  <2>7. ChildEngines'
    BY <1>2, <2>4, <2>6 DEF Engines, ChildEngines
  <2>8. CASE idx[t] = 1
    <3>1. \A u \in Thread : ~MappedFirst(u)
      BY <1>4, <2>8 DEF MappedFirst
    <3>2. ASSUME NEW s \in ucMap[1]
          PROVE  EndOf(s) <= region[t].off
      <4>1. CASE s \in returned
        BY <1>2, <4>1 DEF MapInv, ReturnedBelow, InMmap, MmapSteps
      <4>2. CASE s \in {ImageRegion, StackRegion, FSRegion}
        <5>1. region[t].off >= MMAP_BASE
          BY <1>2 DEF Engines, AboveBase, InMmap, MmapSteps
        <5>2. EndOf(s) <= MMAP_BASE /\ MMAP_BASE \in Nat
          BY <4>2, LayoutBelow
        <5>3. EndOf(s) \in Nat
          BY <1>1, <3>2 DEF EndOf, Region
        <5> QED
          BY <1>1, <5>1, <5>2, <5>3
      <4> QED
        BY <3>1, <3>2, <4>1, <4>2 DEF Engines, FirstEngine
    <3>3. UcMemMap(ucMap[1], region[t]) = ucMap[1] \cup {region[t]}
      BY <1>1, <3>2, MapAbove
    <3>4. ucMap'[1] = ucMap[1] \cup {region[t]}
      BY <1>1, <1>6, <2>8, <3>3
    <3>5. FirstEngine'
      BY <1>2, <2>3, <3>1, <3>4 DEF Engines, FirstEngine
    <3> QED
      BY <1>3, <2>2, <2>7, <3>5 DEF Engines
  <2>9. CASE idx[t] # 1
    <3>1. ucMap'[1] = ucMap[1]
      BY <1>1, <1>6, <2>9
    <3>2. \A u \in Thread : MappedFirst(u)' <=> MappedFirst(u)
      BY <1>1, <1>2, <1>4, <2>3, <2>9 DEF MappedFirst
    <3>3. FirstEngine'
      BY <1>2, <3>1, <3>2 DEF Engines, FirstEngine
    <3> QED
      BY <1>3, <2>2, <2>7, <3>3 DEF Engines
  <2> QED
    BY <2>8, <2>9
<1> QED
  BY <1>5, <1>6 DEF MapRegion

\* A call returns a region that the first engine has.
LEMMA EnginesReturn ==
  ASSUME Inv, Order, Engines, NEW t \in Thread, ClearPauseThreads(t)
  PROVE  Engines'
<1>1. /\ pc \in [Process -> PC] /\ Thread \subseteq Process
      /\ Main \in Process /\ Main \notin Thread
      /\ idx[t] \in Nat /\ end[t] \in Nat
  BY EngineTypes
<1>2. /\ pc[t] = "map" /\ pc'[t] = "pausecheck" /\ idx[t] > end[t]
      /\ \A u \in Process : u # t => pc'[u] = pc[u]
      /\ returned' = returned \cup {region[t]}
      /\ UNCHANGED <<LastMMAP, base, region, MappedRegions, ucMap, idx, end, size>>
  BY <1>1 DEF ClearPauseThreads
<1>3. MappedFirst(t)
  BY <1>1, <1>2 DEF Engines, MapperPosition, MappedFirst
<1>4. pc[Main] \notin CloneSteps
  BY <1>2 DEF Order, MainFirst
<1>5. LateReturns'
  BY <1>1, <1>2, <1>4 DEF LateReturns
<1>6. ChildEngines' /\ MapperPosition' /\ AboveBase'
  BY <1>1, <1>2
  DEF Engines, ChildEngines, MapperPosition, AboveBase, InMmap, MmapSteps
<1>7. \A u \in Thread : MappedFirst(u)' <=> MappedFirst(u) /\ u # t
  BY <1>1, <1>2 DEF MappedFirst
<1>8. FirstEngine'
  BY <1>2, <1>3, <1>7 DEF Engines, FirstEngine
<1> QED
  BY <1>5, <1>6, <1>8 DEF Engines

\* Engines is an invariant of the specification when the counter starts at
\* zero.
THEOREM EnginesInvariance == InitialPaused = 0 /\ Spec => []Engines
<1>1. ASSUME Inv, Order, MapInv, Engines, [Next]_vars
      PROVE  Engines'
  <2>1. ASSUME NEW t \in Thread, MmapStep(t)
        PROVE  Engines'
    BY <1>1, <2>1, EnginesCall, EnginesMap, EnginesReturn DEF MmapStep
  <2> QED
    BY <1>1, <2>1, EnginesQuiet
<1> QED
  BY <1>1, EnginesInit, Invariance, OrderInvariance, MapInvariance, PTL DEF Spec

\* A region that mmap has returned, and that lies in the file, is mapped in
\* the engine of every thread: by the call itself in the first, and with the
\* whole file in all others.
THEOREM EngineSeesRegionsHolds == Spec => []EngineSeesRegions
<1>1. ASSUME Inv, Engines
      PROVE  EngineSeesRegions
  <2> SUFFICES ASSUME NEW r \in returned, NEW t \in Thread,
                      r.off + r.len <= SHMRegion.len, pc[t] # "unborn"
               PROVE  \E s \in ucMap[t] : /\ s.off <= r.off
                                          /\ r.off + r.len <= s.off + s.len
    BY DEF EngineSeesRegions
  <2>1. r.off \in Nat /\ r.len \in Nat
    BY <1>1, EngineTypes DEF Region
  <2>2. CASE t = 1
    <3>1. r \in ucMap[1]
      BY <1>1 DEF Engines, FirstEngine
    <3> QED
      BY <2>1, <2>2, <3>1
  <2>3. CASE t # 1
    <3>1. SHMRegion \in ucMap[t]
      BY <1>1, <2>3 DEF Engines, ChildEngines
    <3>2. SHMRegion.off = 0 /\ SHMRegion.len \in Nat
      BY LayoutBelow
    <3> QED
      BY <2>1, <3>1, <3>2
  <2> QED
    BY <2>2, <2>3
<1>2. CASE InitialPaused = 0
  BY <1>1, <1>2, Invariance, EnginesInvariance, PTL
<1>3. CASE InitialPaused # 0
  <2>1. EngineSeesRegions
    BY <1>3 DEF EngineSeesRegions
  <2> QED
    BY <2>1, PTL
<1> QED
  BY <1>2, <1>3

============================================================================
