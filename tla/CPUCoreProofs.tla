--------------------------- MODULE CPUCoreProofs ---------------------------
(***************************************************************************)
(* Proofs about CPUCore, for any number of threads, mmap calls and guest   *)
(* programs.                                                               *)
(***************************************************************************)
EXTENDS CPUCore, FiniteSetTheorems, TLAPS

\* The steps in which a process owns a ThreadState under construction.
Creating(p) == pc[p] \in {"tid", "setup", "regs", "kick"}

\* Slots above size are unused.
SlotsUnused == \A t \in Thread : t > size => pc[t] = "unborn"

\* A ThreadState under construction belongs to one process and is not yet
\* past the start gate.
Births ==
  \A p \in Process :
    /\ pc[p] \in {"tid", "setup"} =>
         child[p] \in 1..size /\ pc[child[p]] = "unborn"
    /\ pc[p] \in {"regs", "kick"} =>
         /\ child[p] \in 1..size
         /\ pc[child[p]] \in {"boot", "cvwait"}
         /\ ~ShouldStart[child[p]]
    /\ \A q \in Process :
         Creating(p) /\ Creating(q) /\ p # q => child[p] # child[q]

\* The bound on clone calls leaves a slot for every call under way.
SlotsLeft == size + Cardinality(Pending) <= MaxThreads

\* A thread past the gate was let through.
GatePassed == \A t \in Thread : HoldsStartMutex(t) => ShouldStart[t]

Inv == TypeOK /\ SlotsUnused /\ Births /\ SlotsLeft /\ GatePassed

----------------------------------------------------------------------------
USE DEF Thread, Process, Main, NoOne

\* The layout of the guest's address space.
LEMMA Layout ==
  /\ MMAP_BASE \in Nat
  /\ SHMRegion \in Region /\ ImageRegion \in Region
  /\ StackRegion \in Region /\ FSRegion \in Region
  /\ \A length \in Nat \ {0} : AlignUp(length) \in Nat \ {0}
BY SMT DEF MMAP_BASE, SHMRegion, ImageRegion, StackRegion, FSRegion, Region,
           AlignUp, PAGE_SIZE

\* Window and Pending are sets of processes, of which there are finitely many.
LEMMA FiniteProcesses ==
  /\ IsFiniteSet(Process) /\ Cardinality(Process) = MaxThreads + 1
  /\ IsFiniteSet(Thread) /\ Cardinality(Thread) = MaxThreads
  /\ IsFiniteSet(Pending) /\ Cardinality(Pending) \in Nat
  /\ IsFiniteSet(Window) /\ Cardinality(Window) \in 0..MaxThreads
<1>1. IsFiniteSet(Process) /\ Cardinality(Process) = MaxThreads + 1
  BY FS_Interval, BoundsAssumption
<1>2. IsFiniteSet(Thread) /\ Cardinality(Thread) = MaxThreads
  BY FS_Interval, BoundsAssumption
<1>3. Pending \subseteq Process /\ Window \subseteq Thread
  BY DEF Pending, Window
<1>4. IsFiniteSet(Pending) /\ Cardinality(Pending) \in Nat
  BY <1>1, <1>3, FS_Subset, FS_CardinalityType
<1>5. IsFiniteSet(Window) /\ Cardinality(Window) <= MaxThreads
  BY <1>2, <1>3, FS_Subset
<1>6. Cardinality(Window) \in Nat
  BY <1>5, FS_CardinalityType
<1> QED
  BY <1>1, <1>2, <1>4, <1>5, <1>6, BoundsAssumption

\* The initial state satisfies the invariant.
LEMMA InvInit == Init => Inv
<1> SUFFICES ASSUME Init PROVE Inv
  OBVIOUS
<1> USE BoundsAssumption
<1>1. TypeOK
  <2>1. ThreadTypes
    BY DEF Init, ThreadTypes, PC, CloneSteps
  <2>2. FlagTypes
    BY DEF Init, FlagTypes
  <2>3. PauseTypes
    BY CounterAssumption DEF Init, PauseTypes
  <2>4. MemoryTypes
    <3>1. region \in [Thread -> Region]
      BY DEF Init, Region
    <3>2. MappedRegions \in Seq(Region)
      BY Layout DEF Init
    <3>3. LastMMAP \in Nat
      BY Layout DEF Init
    <3>4. ucMap \in [Thread -> SUBSET Region] /\ returned \in SUBSET Region
      BY DEF Init
    <3>5. maps \in 0..MaxMaps
      BY DEF Init
    <3>6. base \in [Thread -> Nat]
      BY DEF Init
    <3> QED
      BY <3>1, <3>2, <3>3, <3>4, <3>5, <3>6 DEF MemoryTypes
  <2> QED
    BY <2>1, <2>2, <2>3, <2>4 DEF TypeOK
<1>2. SlotsUnused /\ Births /\ GatePassed
  BY DEF Init, SlotsUnused, Births, Creating, GatePassed, HoldsStartMutex
<1>3. SlotsLeft
  <2>1. Pending = {0}
    BY DEF Init, Pending
  <2>2. Cardinality(Pending) = 1
    BY <2>1, FS_Singleton
  <2> QED
    BY <2>2 DEF Init, SlotsLeft
<1> QED
  BY <1>1, <1>2, <1>3 DEF Inv

----------------------------------------------------------------------------
USE DEF vars, threadVars, startVars, pauseVars, mmapVars, engineVars, iterVars,
        Goto, LoopContinues, InWindow, Mapping, HoldsStartMutex

\* What a step of the emulator can be.
LEMMA StepCases ==
  ASSUME [Next]_vars
  PROVE  \/ UNCHANGED vars
         \/ \E p \in Process : CreateStep(p)
         \/ RunLoopStep
         \/ \E t \in Thread : TestShouldStart(t) \/ SpuriousWakeup(t)
         \/ \E t \in Thread : BlockStep(t)
         \/ \E t \in Thread : MmapStep(t)
         \/ \E t \in Thread : PauseStep(t)
BY BoundsAssumption DEF Next, Running, MainStep, Spurious, Over, ThreadStep

\* The flags stay Boolean.
LEMMA FlagTypesStep ==
  ASSUME Inv, [Next]_vars
  PROVE  FlagTypes'
<1> USE DEF Inv, TypeOK, FlagTypes
<1>1. CASE UNCHANGED vars
  BY <1>1
<1>2. ASSUME NEW p \in Process, CreateStep(p)
      PROVE  FlagTypes'
  BY <1>2 DEF CreateStep, LockThreads, EmplaceThread, AssignTID, StartThread,
              FinishClone, KickThread
<1>3. CASE RunLoopStep
  BY <1>3 DEF RunLoopStep, RunLoopBegin, RunLoopDeref, RunLoopJoin,
              RunLoopReturn
<1>4. ASSUME NEW t \in Thread, TestShouldStart(t) \/ SpuriousWakeup(t)
      PROVE  FlagTypes'
  BY <1>4 DEF TestShouldStart, SpuriousWakeup
<1>5. ASSUME NEW t \in Thread, BlockStep(t)
      PROVE  FlagTypes'
  BY <1>5 DEF BlockStep, LeaveLoop, RunBlock, HitZero, StopOnFault,
              SyscallExit, SyscallClone
<1>6. ASSUME NEW t \in Thread, MmapStep(t)
      PROVE  FlagTypes'
  BY <1>6 DEF MmapStep, SyscallMmap, ReloadLastMMAP, BumpLastMMAP,
              SetPauseThreads, LoadNumPaused, CompareSize, MapLoopBegin,
              MapRegion, ClearPauseThreads
<1>7. ASSUME NEW t \in Thread, PauseStep(t)
      PROVE  FlagTypes'
  BY <1>7 DEF PauseStep, PauseCheck, EnterPause, SpinUntilResumed,
              LeavePause
<1> QED
  BY <1>1, <1>2, <1>3, <1>4, <1>5, <1>6, <1>7, StepCases

\* The counter stays in its range, the width of a uint32_t.
LEMMA PauseTypesStep ==
  ASSUME Inv, [Next]_vars
  PROVE  PauseTypes'
<1> USE DEF Inv, TypeOK, PauseTypes
<1>1. CASE UNCHANGED vars
  BY <1>1
<1>2. ASSUME NEW p \in Process, CreateStep(p)
      PROVE  PauseTypes'
  BY <1>2 DEF CreateStep, LockThreads, EmplaceThread, AssignTID, StartThread,
              FinishClone, KickThread
<1>3. CASE RunLoopStep
  BY <1>3 DEF RunLoopStep, RunLoopBegin, RunLoopDeref, RunLoopJoin,
              RunLoopReturn
<1>4. ASSUME NEW t \in Thread, TestShouldStart(t) \/ SpuriousWakeup(t)
      PROVE  PauseTypes'
  BY <1>4 DEF TestShouldStart, SpuriousWakeup
<1>5. ASSUME NEW t \in Thread, BlockStep(t)
      PROVE  PauseTypes'
  BY <1>5 DEF BlockStep, LeaveLoop, RunBlock, HitZero, StopOnFault,
              SyscallExit, SyscallClone
<1>6. ASSUME NEW t \in Thread, MmapStep(t)
      PROVE  PauseTypes'
  BY <1>6 DEF MmapStep, SyscallMmap, ReloadLastMMAP, BumpLastMMAP,
              SetPauseThreads, LoadNumPaused, CompareSize, MapLoopBegin,
              MapRegion, ClearPauseThreads
<1>7. ASSUME NEW t \in Thread, PauseStep(t)
      PROVE  PauseTypes'
  BY <1>7, CounterAssumption DEF PauseStep, PauseCheck, EnterPause,
              SpinUntilResumed, LeavePause, Increment, Decrement
<1> QED
  BY <1>1, <1>2, <1>3, <1>4, <1>5, <1>6, <1>7, StepCases

\* A clone call on its way to emplace_back finds a free slot.
LEMMA SlotForPending ==
  ASSUME Inv, NEW p \in Pending
  PROVE  size < MaxThreads
<1>1. Cardinality(Pending) # 0
  BY FiniteProcesses, FS_EmptySet
<1> QED
  BY <1>1, FiniteProcesses, BoundsAssumption
  DEF Inv, SlotsLeft, TypeOK, ThreadTypes

\* The threads, their slots and their control points stay in range.
LEMMA ThreadTypesStep ==
  ASSUME Inv, [Next]_vars
  PROVE  ThreadTypes'
<1> USE DEF Inv, TypeOK, ThreadTypes, PC, CloneSteps, MmapSteps, PauseSteps, MainSteps
<1>1. CASE UNCHANGED vars
  BY <1>1
<1>2. ASSUME NEW p \in Process, CreateStep(p)
      PROVE  ThreadTypes'
  <2>1. CASE EmplaceThread(p)
    <3>1. size < MaxThreads
      BY <2>1, SlotForPending DEF EmplaceThread, Pending
    <3>2. size + 1 \in 0..MaxThreads
      BY <3>1, BoundsAssumption
    <3>3. size' \in 0..MaxThreads /\ child' \in [Process -> 0..MaxThreads]
      BY <2>1, <3>2 DEF EmplaceThread
    <3>4. pc' \in [Process -> PC]
      BY <2>1 DEF EmplaceThread
    <3> QED
      BY <2>1, <3>3, <3>4 DEF EmplaceThread
  <2>2. CASE StartThread(p)
    BY <2>2 DEF StartThread
  <2>3. CASE KickThread(p)
    BY <2>3 DEF KickThread
  <2>4. CASE AssignTID(p)
    <3>1. lastThreadID + 1 \in Nat
      OBVIOUS
    <3>2. TID' \in [Thread -> Nat] /\ lastThreadID' \in Nat
      BY <2>4, <3>1 DEF AssignTID
    <3>3. pc' \in [Process -> PC]
      BY <2>4 DEF AssignTID
    <3> QED
      BY <2>4, <3>2, <3>3 DEF AssignTID
  <2>5. CASE LockThreads(p) \/ FinishClone(p)
    BY <2>5 DEF LockThreads, FinishClone
  <2> QED
    BY <1>2, <2>1, <2>2, <2>3, <2>4, <2>5 DEF CreateStep
<1>3. CASE RunLoopStep
  <2>1. CASE RunLoopBegin
    <3>1. idx' \in [Process -> Nat] /\ end' \in [Process -> Nat]
      <4>1. /\ idx \in [Process -> Nat] /\ end \in [Process -> Nat] /\ size \in Nat
            /\ idx' = [idx EXCEPT ![Main] = 1] /\ end' = [end EXCEPT ![Main] = size]
        BY <2>1 DEF RunLoopBegin
      <4> HIDE DEF Inv
      <4> QED
        BY <4>1
    <3>2. pc' \in [Process -> PC]
      BY <2>1 DEF RunLoopBegin
    <3> QED
      BY <2>1, <3>1, <3>2 DEF RunLoopBegin
  <2>2. CASE RunLoopDeref
    BY <2>2 DEF RunLoopDeref
  <2>3. CASE RunLoopJoin
    <3>1. idx' \in [Process -> Nat]
      <4>1. idx \in [Process -> Nat] /\ idx' = [idx EXCEPT ![Main] = @ + 1]
        BY <2>3 DEF RunLoopJoin
      <4> HIDE DEF Inv
      <4>2. Main \in Process
        BY BoundsAssumption
      <4>3. idx[Main] + 1 \in Nat
        BY <4>1, <4>2
      <4> QED
        BY <4>1, <4>3
    <3>2. pc' \in [Process -> PC]
      BY <2>3 DEF RunLoopJoin
    <3> QED
      BY <2>3, <3>1, <3>2 DEF RunLoopJoin
  <2>4. CASE RunLoopReturn
    BY <2>4 DEF RunLoopReturn
  <2> QED
    BY <1>3, <2>1, <2>2, <2>3, <2>4 DEF RunLoopStep
<1>4. ASSUME NEW t \in Thread, TestShouldStart(t) \/ SpuriousWakeup(t)
      PROVE  ThreadTypes'
  BY <1>4 DEF TestShouldStart, SpuriousWakeup
<1>5. ASSUME NEW t \in Thread, BlockStep(t)
      PROVE  ThreadTypes'
  BY <1>5 DEF BlockStep, LeaveLoop, RunBlock, HitZero, StopOnFault,
              SyscallExit, SyscallClone
<1>6. ASSUME NEW t \in Thread, MmapStep(t)
      PROVE  ThreadTypes'
  <2>1. CASE SyscallMmap(t) \/ ReloadLastMMAP(t) \/ BumpLastMMAP(t)
    BY <2>1 DEF SyscallMmap, ReloadLastMMAP, BumpLastMMAP
  <2>2. CASE SetPauseThreads(t) \/ LoadNumPaused(t) \/ CompareSize(t)
    BY <2>2 DEF SetPauseThreads, LoadNumPaused, CompareSize
  <2>3. CASE MapLoopBegin(t) \/ ClearPauseThreads(t)
    <3>1. pc' \in [Process -> PC]
      BY <2>3 DEF MapLoopBegin, ClearPauseThreads
    <3>2. size \in Nat
      BY BoundsAssumption
    <3>3. idx' \in [Process -> Nat]
      BY <2>3 DEF MapLoopBegin, ClearPauseThreads
    <3>4. end' \in [Process -> Nat]
      BY <2>3, <3>2 DEF MapLoopBegin, ClearPauseThreads
    <3> QED
      BY <2>3, <3>1, <3>3, <3>4 DEF MapLoopBegin, ClearPauseThreads
  <2>4. CASE MapRegion(t)
    <3>1. idx' \in [Process -> Nat] /\ proc' \in {"live", "exited", "crashed"}
      BY <2>4 DEF MapRegion
    <3> QED
      BY <2>4, <3>1 DEF MapRegion
  <2> QED
    BY <1>6, <2>1, <2>2, <2>3, <2>4 DEF MmapStep
<1>7. ASSUME NEW t \in Thread, PauseStep(t)
      PROVE  ThreadTypes'
  BY <1>7 DEF PauseStep, PauseCheck, EnterPause, SpinUntilResumed,
              LeavePause
<1> QED
  BY <1>1, <1>2, <1>3, <1>4, <1>5, <1>6, <1>7, StepCases

\* Regions stay regions.
LEMMA MemoryTypesStep ==
  ASSUME Inv, [Next]_vars
  PROVE  MemoryTypes'
<1> USE DEF Inv, TypeOK, MemoryTypes
<1>1. CASE UNCHANGED vars
  BY <1>1
<1>2. ASSUME NEW p \in Process, CreateStep(p)
      PROVE  MemoryTypes'
  <2>1. CASE StartThread(p)
    <3>1. UcMapAll(MappedRegions) \subseteq Region
      BY DEF UcMapAll
    <3>2. {ImageRegion, StackRegion, FSRegion} \subseteq Region
      BY Layout
    <3>3. MappedRegions \o <<ImageRegion, StackRegion, FSRegion>> \in Seq(Region)
      BY Layout
    <3>4. PICK m \in SUBSET Region : ucMap' = [ucMap EXCEPT ![child[p]] = m]
      BY <2>1, <3>1, <3>2 DEF StartThread
    <3>5. ucMap' \in [Thread -> SUBSET Region]
      BY <3>4
    <3>6. MappedRegions' \in Seq(Region)
      BY <2>1, <3>3 DEF StartThread
    <3> QED
      BY <2>1, <3>5, <3>6 DEF StartThread
  <2>2. CASE ~StartThread(p)
    BY <1>2, <2>2 DEF CreateStep, LockThreads, EmplaceThread, AssignTID,
                      FinishClone, KickThread
  <2> QED
    BY <2>1, <2>2
<1>3. CASE RunLoopStep
  BY <1>3 DEF RunLoopStep, RunLoopBegin, RunLoopDeref, RunLoopJoin,
              RunLoopReturn
<1>4. ASSUME NEW t \in Thread, TestShouldStart(t) \/ SpuriousWakeup(t)
      PROVE  MemoryTypes'
  BY <1>4 DEF TestShouldStart, SpuriousWakeup
<1>5. ASSUME NEW t \in Thread, BlockStep(t)
      PROVE  MemoryTypes'
  BY <1>5 DEF BlockStep, LeaveLoop, RunBlock, HitZero, StopOnFault,
              SyscallExit, SyscallClone
<1>6. ASSUME NEW t \in Thread, MmapStep(t)
      PROVE  MemoryTypes'
  <2>1. CASE SyscallMmap(t)
    <3>1. \A length \in MmapLens :
            [off |-> LastMMAP, len |-> AlignUp(length)] \in Region
      BY Layout, MmapAssumption DEF Region
    <3> QED
      BY <2>1, <3>1, BoundsAssumption DEF SyscallMmap
  <2>2. CASE ReloadLastMMAP(t) \/ BumpLastMMAP(t)
    <3>1. base[t] + region[t].len \in Nat
      BY DEF Region
    <3> QED
      BY <2>2, <3>1 DEF ReloadLastMMAP, BumpLastMMAP
  <2>3. CASE MapRegion(t)
    <3>1. \A m \in SUBSET Region : UcMemMap(m, region[t]) \in SUBSET Region
      BY DEF UcMemMap
    <3>2. Append(MappedRegions, region[t]) \in Seq(Region)
      OBVIOUS
    <3>3. ucMap' \in [Thread -> SUBSET Region]
      BY <2>3, <3>1, SMTT(60) DEF MapRegion
    <3>4. MappedRegions' \in Seq(Region)
      BY <2>3, <3>2 DEF MapRegion
    <3> QED
      BY <2>3, <3>3, <3>4 DEF MapRegion
  <2>4. CASE ClearPauseThreads(t)
    BY <2>4 DEF ClearPauseThreads
  <2>5. CASE \/ SetPauseThreads(t) \/ LoadNumPaused(t) \/ CompareSize(t)
             \/ MapLoopBegin(t)
    BY <2>5 DEF SetPauseThreads, LoadNumPaused, CompareSize, MapLoopBegin
  <2> QED
    BY <1>6, <2>1, <2>2, <2>3, <2>4, <2>5 DEF MmapStep
<1>7. ASSUME NEW t \in Thread, PauseStep(t)
      PROVE  MemoryTypes'
  BY <1>7 DEF PauseStep, PauseCheck, EnterPause, SpinUntilResumed,
              LeavePause
<1> QED
  BY <1>1, <1>2, <1>3, <1>4, <1>5, <1>6, <1>7, StepCases

----------------------------------------------------------------------------
(* How each group of steps moves the control, which is all that the other  *)
(* invariants need to know about most of them.                             *)

RunPC == {"loop"} \cup MmapSteps \cup PauseSteps

\* A step inside a block, an mmap call or the pause check moves one thread,
\* past the gate before and after.
LEMMA RunMove ==
  ASSUME Inv, NEW t \in Thread, BlockStep(t) \/ MmapStep(t) \/ PauseStep(t)
  PROVE  /\ pc[t] \in RunPC
         /\ \E l \in RunPC \cup {"lock", "exited"} :
              pc' = [pc EXCEPT ![t] = l] /\ (l = "lock" => SyscallClone(t))
         /\ UNCHANGED <<size, child, ShouldStart>>
<1> USE DEF RunPC, MmapSteps, PauseSteps
<1>1. pc \in [Process -> PC] /\ t \in Process
  BY BoundsAssumption DEF Inv, TypeOK, ThreadTypes
<1>2. CASE BlockStep(t)
  BY <1>1, <1>2 DEF BlockStep, LeaveLoop, RunBlock, HitZero, StopOnFault,
                    SyscallExit, SyscallClone
<1>3. CASE MmapStep(t) /\ ~MapRegion(t)
  BY <1>1, <1>3 DEF MmapStep, SyscallMmap, ReloadLastMMAP, BumpLastMMAP, SetPauseThreads,
                    LoadNumPaused, CompareSize, MapLoopBegin, ClearPauseThreads
<1>4. CASE MapRegion(t)
  <2>1. pc' = [pc EXCEPT ![t] = "map"]
    BY <1>1, <1>4 DEF MapRegion
  <2> QED
    BY <1>4, <2>1 DEF MapRegion
<1>5. CASE PauseStep(t)
  BY <1>1, <1>5 DEF PauseStep, PauseCheck, EnterPause, SpinUntilResumed,
                    LeavePause
<1> QED
  BY <1>2, <1>3, <1>4, <1>5

\* A step at the start gate moves one thread, past the gate only when
\* ShouldStart is set.
LEMMA GateMove ==
  ASSUME Inv, NEW t \in Thread, TestShouldStart(t) \/ SpuriousWakeup(t)
  PROVE  /\ pc[t] \in {"boot", "cvwait"}
         /\ \E l \in {"boot", "cvwait", "loop"} :
              pc' = [pc EXCEPT ![t] = l] /\ (l = "loop" => ShouldStart[t])
         /\ UNCHANGED <<size, child, ShouldStart>>
BY DEF TestShouldStart, SpuriousWakeup

\* A step of RunLoop moves the main thread only.
LEMMA MainMove ==
  ASSUME Inv, RunLoopStep
  PROVE  /\ pc[Main] \in MainSteps
         /\ \E l \in MainSteps : pc' = [pc EXCEPT ![Main] = l]
         /\ UNCHANGED <<size, child, ShouldStart>>
<1> USE DEF MainSteps
<1>1. CASE RunLoopBegin \/ RunLoopJoin
  BY <1>1 DEF RunLoopBegin, RunLoopJoin
<1>2. CASE RunLoopDeref \/ RunLoopReturn
  <2>1. pc \in [Process -> PC] /\ Main \in Process
    BY BoundsAssumption DEF Inv, TypeOK, ThreadTypes
  <2>2. UNCHANGED pc => pc' = [pc EXCEPT ![Main] = "deref"]
    BY <1>2, <2>1 DEF RunLoopDeref, RunLoopReturn
  <2> QED
    BY <1>2, <2>2 DEF RunLoopDeref, RunLoopReturn
<1> QED
  BY <1>1, <1>2 DEF RunLoopStep

----------------------------------------------------------------------------
(* The life of a ThreadState.                                              *)

Lifecycle == SlotsUnused /\ Births /\ GatePassed

\* A process that is not creating a thread moves, past the gate only when it
\* may.
LEMMA LifecycleMove ==
  ASSUME Inv, NEW p \in Process, NEW l,
         pc' = [pc EXCEPT ![p] = l], UNCHANGED <<size, child, ShouldStart>>,
         ~Creating(p), pc[p] # "unborn",
         l \notin {"tid", "setup", "regs", "kick", "unborn"},
         p \in Thread =>
           \/ ShouldStart[p] /\ pc[p] # "unborn"
           \/ pc[p] \in {"boot", "cvwait"} /\ l \in {"boot", "cvwait"}
  PROVE  Lifecycle'
<1>1. pc \in [Process -> PC] /\ size \in 0..MaxThreads
      /\ child \in [Process -> 0..MaxThreads]
  BY DEF Inv, TypeOK, ThreadTypes
<1> USE BoundsAssumption
<1>2. SlotsUnused'
  BY <1>1 DEF Inv, SlotsUnused
<1>3. GatePassed'
  BY <1>1 DEF Inv, GatePassed
<1>4. Births'
  <2> SUFFICES ASSUME NEW q \in Process
      PROVE /\ pc'[q] \in {"tid", "setup"} =>
                 child[q] \in 1..size /\ pc'[child[q]] = "unborn"
            /\ pc'[q] \in {"regs", "kick"} =>
                 /\ child[q] \in 1..size
                 /\ pc'[child[q]] \in {"boot", "cvwait"}
                 /\ ~ShouldStart[child[q]]
            /\ \A r \in Process :
                 Creating(q)' /\ Creating(r)' /\ q # r => child[q] # child[r]
    BY DEF Births
  <2>1. \A r \in Process : Creating(r)' => Creating(r) /\ r # p /\ pc'[r] = pc[r]
    BY <1>1 DEF Creating
  <2>2. ASSUME Creating(q), q # p
        PROVE  /\ child[q] \in 1..size
               /\ pc[child[q]] = "unborn" => child[q] # p
               /\ pc[child[q]] \in {"boot", "cvwait"} /\ ~ShouldStart[child[q]] =>
                    pc'[child[q]] \in {"boot", "cvwait"}
    <3>1. child[q] \in 1..size
      BY <2>2 DEF Inv, Births, Creating
    <3>2. child[q] \in Thread /\ child[q] \in Process
      BY <1>1, <3>1
    <3>3. child[q] # p => pc'[child[q]] = pc[child[q]]
      BY <1>1, <3>2
    <3>4. child[q] = p => pc'[child[q]] = l
      BY <1>1, <3>2
    <3> QED
      BY <3>1, <3>2, <3>3, <3>4
  <2>3. pc'[q] \in {"tid", "setup"} =>
          child[q] \in 1..size /\ pc'[child[q]] = "unborn"
    BY <1>1, <2>1, <2>2 DEF Inv, Births, Creating
  <2>4. pc'[q] \in {"regs", "kick"} =>
          /\ child[q] \in 1..size
          /\ pc'[child[q]] \in {"boot", "cvwait"}
          /\ ~ShouldStart[child[q]]
    BY <1>1, <2>1, <2>2 DEF Inv, Births, Creating
  <2>5. \A r \in Process :
          Creating(q)' /\ Creating(r)' /\ q # r => child[q] # child[r]
    BY <2>1 DEF Inv, Births
  <2> QED
    BY <2>3, <2>4, <2>5
<1> QED
  BY <1>2, <1>3, <1>4 DEF Lifecycle

\* The steps of InitThread and clone.
LEMMA LifecycleCreate ==
  ASSUME Inv, NEW p \in Process, CreateStep(p)
  PROVE  Lifecycle'
<1>1. /\ pc \in [Process -> PC] /\ size \in 0..MaxThreads
      /\ child \in [Process -> 0..MaxThreads]
      /\ ShouldStart \in [Thread -> BOOLEAN]
  BY DEF Inv, TypeOK, ThreadTypes, FlagTypes
<1> USE BoundsAssumption
<1>2. ASSUME NEW q \in Process, Creating(q)
      PROVE  child[q] \in 1..size /\ child[q] \in Thread
  <2>1. child[q] \in 1..size
    BY <1>2 DEF Inv, Births, Creating
  <2> QED
    BY <1>1, <2>1
<1>3. \A q \in Process : Creating(q) => ~Creating(child[q])
  BY <1>1, <1>2 DEF Inv, Births, Creating
<1>4. CASE LockThreads(p)
  <2>1. pc' = [pc EXCEPT ![p] = "emplace"] /\ pc[p] = "lock"
        /\ UNCHANGED <<size, child, ShouldStart>>
    BY <1>4 DEF LockThreads
  <2>2. p \in Thread => ShouldStart[p]
    BY <2>1 DEF Inv, GatePassed
  <2> QED
    BY <2>1, <2>2, LifecycleMove DEF Creating
<1>5. CASE EmplaceThread(p)
  <2>1. /\ pc[p] = "emplace" /\ pc' = [pc EXCEPT ![p] = "tid"]
        /\ size' = size + 1 /\ child' = [child EXCEPT ![p] = size + 1]
        /\ UNCHANGED ShouldStart
    BY <1>5 DEF EmplaceThread
  <2>2. size + 1 \in Thread /\ pc[size + 1] = "unborn" /\ size + 1 # p
    <3>1. size < MaxThreads
      BY <2>1, SlotForPending DEF Pending
    <3> QED
      BY <1>1, <2>1, <3>1 DEF Inv, SlotsUnused
  <2>3. SlotsUnused'
    <3> SUFFICES ASSUME NEW t \in Thread, t > size + 1
                 PROVE  pc'[t] = "unborn"
      BY <2>1 DEF SlotsUnused
    <3>1. t \in Process /\ t > size
      BY <1>1
    <3>2. pc[t] = "unborn"
      BY <3>1 DEF Inv, SlotsUnused
    <3>3. t # p
      BY <2>1, <3>2
    <3> QED
      BY <1>1, <2>1, <3>1, <3>2, <3>3
  <2>4. GatePassed'
    BY <1>1, <2>1 DEF Inv, GatePassed
  <2>5. \A q \in Process : q # p => (Creating(q)' <=> Creating(q))
                                    /\ pc'[q] = pc[q] /\ child'[q] = child[q]
    BY <1>1, <2>1 DEF Creating
  <2>6. child'[p] = size + 1 /\ pc'[p] = "tid" /\ pc'[size + 1] = "unborn"
    BY <1>1, <2>1, <2>2
  <2>7. ASSUME NEW q \in Process, Creating(q)
        PROVE  /\ q # p /\ child[q] # p /\ child[q] # size + 1
               /\ child[q] \in 1..(size + 1) /\ pc'[child[q]] = pc[child[q]]
    <3>1. q # p
      BY <2>1, <2>7 DEF Creating
    <3>2. child[q] # p
      BY <2>1, <2>7 DEF Inv, Births, Creating
    <3>3. child[q] \in 1..size /\ child[q] \in Process
      BY <1>1, <1>2, <2>7
    <3>4. child[q] # size + 1 /\ child[q] \in 1..(size + 1)
      <4>1. size \in Int
        BY <1>1
      <4> QED
        BY <4>1, <3>3
    <3>5. pc'[child[q]] = pc[child[q]]
      BY <1>1, <2>1, <3>2, <3>3
    <3> QED
      BY <3>1, <3>2, <3>4, <3>5
  <2>8. Births'
    <3>1. ASSUME NEW q \in Process
          PROVE  /\ pc'[q] \in {"tid", "setup"} =>
                      child'[q] \in 1..size' /\ pc'[child'[q]] = "unborn"
                 /\ pc'[q] \in {"regs", "kick"} =>
                      /\ child'[q] \in 1..size'
                      /\ pc'[child'[q]] \in {"boot", "cvwait"}
                      /\ ~ShouldStart'[child'[q]]
      <4>1. CASE q = p
        BY <1>1, <2>1, <2>2, <2>6, <4>1
      <4>2. CASE q # p
        BY <2>1, <2>5, <2>7, <4>2 DEF Inv, Births, Creating
      <4> QED
        BY <4>1, <4>2
    <3>2. ASSUME NEW q \in Process, NEW r \in Process,
                 Creating(q)', Creating(r)', q # r
          PROVE  child'[q] # child'[r]
      BY <2>5, <2>6, <2>7, <3>2 DEF Inv, Births
    <3> QED
      BY <3>1, <3>2 DEF Births
  <2> QED
    BY <2>3, <2>4, <2>8 DEF Lifecycle
<1>6. CASE AssignTID(p)
  <2>1. /\ pc[p] = "tid" /\ pc' = [pc EXCEPT ![p] = "setup"]
        /\ UNCHANGED <<size, child, ShouldStart>>
    BY <1>6 DEF AssignTID
  <2>2. SlotsUnused'
    BY <1>1, <2>1 DEF Inv, SlotsUnused
  <2>3. GatePassed'
    BY <1>1, <2>1 DEF Inv, GatePassed
  <2>4. Births'
    BY <1>1, <1>2, <1>3, <2>1 DEF Inv, Births, Creating
  <2> QED
    BY <2>2, <2>3, <2>4 DEF Lifecycle
<1>7. CASE FinishClone(p)
  <2>1. /\ pc[p] = "regs" /\ pc' = [pc EXCEPT ![p] = "kick"]
        /\ UNCHANGED <<size, child, ShouldStart>>
    BY <1>7 DEF FinishClone
  <2>2. SlotsUnused'
    BY <1>1, <2>1 DEF Inv, SlotsUnused
  <2>3. GatePassed'
    BY <1>1, <2>1 DEF Inv, GatePassed
  <2>4. Births'
    BY <1>1, <1>2, <1>3, <2>1 DEF Inv, Births, Creating
  <2> QED
    BY <2>2, <2>3, <2>4 DEF Lifecycle
<1>8. CASE StartThread(p)
  <2> DEFINE c == child[p]
  <2>1. /\ pc[p] = "setup" /\ Creating(p)
        /\ pc' = [pc EXCEPT ![p] = IF p = Main THEN "kick" ELSE "regs",
                            ![c] = "boot"]
        /\ ShouldStart' = [ShouldStart EXCEPT ![c] = FALSE]
        /\ UNCHANGED <<size, child>>
    BY <1>8 DEF StartThread, Creating
  <2>2. c \in 1..size /\ c \in Thread /\ pc[c] = "unborn" /\ c # p
    BY <1>1, <1>2, <2>1 DEF Inv, Births
  <2>3. SlotsUnused' /\ GatePassed'
    <3>1. \A t \in Thread : t # c /\ t # p => pc'[t] = pc[t]
      BY <1>1, <2>1
    <3>2. \A t \in Thread : t # c => ShouldStart'[t] = ShouldStart[t]
      BY <1>1, <2>1
    <3>3. ASSUME NEW t \in Thread, t > size
          PROVE  t # c /\ t # p
      <4>1. pc[t] = "unborn"
        BY <3>3 DEF Inv, SlotsUnused
      <4>2. t # c
        BY <1>1, <2>2, <3>3
      <4> QED
        BY <2>1, <4>1, <4>2
    <3>4. pc'[c] = "boot"
      BY <1>1, <2>1, <2>2
    <3>5. \A t \in Thread : t = p => ShouldStart[t]
      BY <2>1 DEF Inv, GatePassed
    <3>6. SlotsUnused'
      BY <2>1, <3>1, <3>3 DEF Inv, SlotsUnused
    <3>7. GatePassed'
      <4> SUFFICES ASSUME NEW t \in Thread, t # c, HoldsStartMutex(t)'
                   PROVE  ShouldStart[t]
        BY <3>2, <3>4 DEF GatePassed
      <4> QED
        BY <3>1, <3>5 DEF Inv, GatePassed
    <3> QED
      BY <3>6, <3>7
  <2>4. pc'[p] \in {"regs", "kick"} /\ pc'[c] = "boot" /\ ~ShouldStart'[c]
    BY <1>1, <2>1, <2>2
  <2>5. \A q \in Process : q # p /\ q # c => pc'[q] = pc[q]
    BY <1>1, <2>1
  <2>6. \A q \in Process : Creating(q) /\ q # p =>
          q # c /\ child[q] # c /\ child[q] # p /\ pc'[q] = pc[q]
          /\ pc'[child[q]] = pc[child[q]]
          /\ ShouldStart'[child[q]] = ShouldStart[child[q]]
    BY <1>1, <1>2, <1>3, <2>1, <2>2, <2>5 DEF Inv, Births, Creating
  <2>7. \A q \in Process : Creating(q)' /\ q # p => Creating(q)
    BY <2>2, <2>4, <2>5 DEF Creating
  <2>8. Births'
    <3>1. ASSUME NEW q \in Process, q # p
          PROVE  /\ pc'[q] \in {"tid", "setup"} =>
                      child[q] \in 1..size /\ pc'[child[q]] = "unborn"
                 /\ pc'[q] \in {"regs", "kick"} =>
                      /\ child[q] \in 1..size
                      /\ pc'[child[q]] \in {"boot", "cvwait"}
                      /\ ~ShouldStart'[child[q]]
      BY <2>6, <2>7, <3>1 DEF Inv, Births, Creating
    <3>2. ASSUME NEW q \in Process, NEW r \in Process,
                 Creating(q)', Creating(r)', q # r
          PROVE  child[q] # child[r]
      BY <2>1, <2>7, <3>2 DEF Inv, Births
    <3> QED
      BY <2>1, <2>2, <2>4, <3>1, <3>2 DEF Births, Creating
  <2> QED
    BY <2>3, <2>8 DEF Lifecycle
<1>9. CASE KickThread(p)
  <2> DEFINE c == child[p]
  <2>1. /\ pc[p] = "kick" /\ Creating(p)
        /\ pc' = [pc EXCEPT ![p] = IF p = Main THEN "runloop" ELSE "pausecheck",
                            ![c] = IF pc[c] = "cvwait" THEN "boot" ELSE pc[c]]
        /\ ShouldStart' = [ShouldStart EXCEPT ![c] = TRUE]
        /\ UNCHANGED <<size, child>>
    BY <1>9 DEF KickThread, Creating
  <2>2. c \in 1..size /\ c \in Thread /\ pc[c] \in {"boot", "cvwait"} /\ c # p
    BY <1>1, <1>2, <2>1 DEF Inv, Births
  <2>3. SlotsUnused' /\ GatePassed'
    <3>1. \A t \in Thread : t # c /\ t # p => pc'[t] = pc[t]
      BY <1>1, <2>1
    <3>2. \A t \in Thread : t # c => ShouldStart'[t] = ShouldStart[t]
      BY <1>1, <2>1
    <3>3. ASSUME NEW t \in Thread, t > size
          PROVE  t # c /\ t # p
      <4>1. pc[t] = "unborn"
        BY <3>3 DEF Inv, SlotsUnused
      <4>2. t # c
        BY <1>1, <2>2, <3>3
      <4> QED
        BY <2>1, <4>1, <4>2
    <3>4. pc'[c] = "boot"
      BY <1>1, <2>1, <2>2
    <3>5. \A t \in Thread : t = p => ShouldStart[t]
      BY <2>1 DEF Inv, GatePassed
    <3>6. SlotsUnused'
      BY <2>1, <3>1, <3>3 DEF Inv, SlotsUnused
    <3>7. GatePassed'
      <4> SUFFICES ASSUME NEW t \in Thread, t # c, HoldsStartMutex(t)'
                   PROVE  ShouldStart[t]
        BY <3>2, <3>4 DEF GatePassed
      <4> QED
        BY <3>1, <3>5 DEF Inv, GatePassed
    <3> QED
      BY <3>6, <3>7
  <2>4. ~Creating(p)' /\ pc'[c] = "boot"
    BY <1>1, <2>1, <2>2 DEF Creating
  <2>5. \A q \in Process : q # p /\ q # c => pc'[q] = pc[q]
    BY <1>1, <2>1
  <2>6. \A q \in Process : Creating(q) /\ q # p =>
          q # c /\ child[q] # c /\ child[q] # p /\ pc'[q] = pc[q]
          /\ pc'[child[q]] = pc[child[q]]
          /\ ShouldStart'[child[q]] = ShouldStart[child[q]]
    BY <1>1, <1>2, <1>3, <2>1, <2>2, <2>5 DEF Inv, Births, Creating
  <2>7. \A q \in Process : Creating(q)' => Creating(q) /\ q # p
    BY <2>2, <2>4, <2>5 DEF Creating
  <2>8. Births'
    <3>1. ASSUME NEW q \in Process, q # p
          PROVE  /\ pc'[q] \in {"tid", "setup"} =>
                      child[q] \in 1..size /\ pc'[child[q]] = "unborn"
                 /\ pc'[q] \in {"regs", "kick"} =>
                      /\ child[q] \in 1..size
                      /\ pc'[child[q]] \in {"boot", "cvwait"}
                      /\ ~ShouldStart'[child[q]]
      BY <2>6, <2>7, <3>1 DEF Inv, Births, Creating
    <3>2. ASSUME NEW q \in Process, NEW r \in Process,
                 Creating(q)', Creating(r)', q # r
          PROVE  child[q] # child[r]
      BY <2>1, <2>7, <3>2 DEF Inv, Births
    <3> QED
      BY <2>1, <2>2, <2>4, <3>1, <3>2 DEF Births, Creating
  <2> QED
    BY <2>3, <2>8 DEF Lifecycle
<1> QED
  BY <1>4, <1>5, <1>6, <1>7, <1>8, <1>9 DEF CreateStep

\* Every step keeps the order of creation, start and kick.
LEMMA LifecycleStep ==
  ASSUME Inv, [Next]_vars
  PROVE  Lifecycle'
<1> USE BoundsAssumption
<1>1. CASE UNCHANGED vars
  BY <1>1 DEF Inv, Lifecycle, SlotsUnused, Births, Creating, GatePassed
<1>2. ASSUME NEW p \in Process, CreateStep(p)
      PROVE  Lifecycle'
  BY <1>2, LifecycleCreate
<1>3. CASE RunLoopStep
  BY <1>3, MainMove, LifecycleMove DEF MainSteps, Creating
<1>4. ASSUME NEW t \in Thread, TestShouldStart(t) \/ SpuriousWakeup(t)
      PROVE  Lifecycle'
  BY <1>4, GateMove, LifecycleMove DEF Creating
<1>5. ASSUME NEW t \in Thread, BlockStep(t) \/ MmapStep(t) \/ PauseStep(t)
      PROVE  Lifecycle'
  <2>1. ShouldStart[t]
    BY <1>5, RunMove DEF Inv, GatePassed, RunPC, MmapSteps, PauseSteps
  <2> QED
    BY <1>5, <2>1, RunMove, LifecycleMove
    DEF Creating, RunPC, MmapSteps, PauseSteps
<1> QED
  BY <1>1, <1>2, <1>3, <1>4, <1>5, StepCases

\* Every clone call under way keeps its slot.
LEMMA SlotsLeftStep ==
  ASSUME Inv, [Next]_vars
  PROVE  SlotsLeft'
<1>1. /\ pc \in [Process -> PC] /\ size \in 0..MaxThreads
      /\ child \in [Process -> 0..MaxThreads]
  BY DEF Inv, TypeOK, ThreadTypes
<1> USE BoundsAssumption
<1> DEFINE Waiting(q) == pc[q] \in {"lock", "emplace"}
<1>2. ASSUME UNCHANGED size, \A q \in Process : Waiting(q)' <=> Waiting(q)
      PROVE  SlotsLeft'
  <2>1. Pending' = Pending
    BY <1>2 DEF Pending
  <2> QED
    BY <1>2, <2>1 DEF Inv, SlotsLeft
<1>3. ASSUME NEW p \in Process, NEW l, pc' = [pc EXCEPT ![p] = l],
             UNCHANGED size, Waiting(p) <=> l \in {"lock", "emplace"}
      PROVE  SlotsLeft'
  BY <1>1, <1>2, <1>3
<1>4. CASE UNCHANGED vars
  BY <1>2, <1>4
<1>5. ASSUME NEW p \in Process, CreateStep(p)
      PROVE  SlotsLeft'
  <2>1. CASE EmplaceThread(p)
    <3>1. size' = size + 1 /\ pc[p] = "emplace" /\ pc' = [pc EXCEPT ![p] = "tid"]
      BY <2>1 DEF EmplaceThread
    <3>2. Pending' = Pending \ {p} /\ p \in Pending
      BY <1>1, <3>1 DEF Pending
    <3>3. Cardinality(Pending') = Cardinality(Pending) - 1
      BY <3>2, FiniteProcesses, FS_RemoveElement
    <3> QED
      BY <1>1, <3>1, <3>3, FiniteProcesses DEF Inv, SlotsLeft
  <2>2. CASE StartThread(p) \/ KickThread(p)
    <3>1. Creating(p)
      BY <2>2 DEF StartThread, KickThread, Creating
    <3>2. child[p] \in Process /\ child[p] # p
          /\ pc[child[p]] \in {"unborn", "boot", "cvwait"}
      BY <1>1, <3>1 DEF Inv, Births, Creating
    <3>3. \A q \in Process : q # p /\ q # child[p] => pc'[q] = pc[q]
      BY <1>1, <2>2 DEF StartThread, KickThread
    <3>4. \A q \in {p, child[p]} : ~Waiting(q) /\ ~Waiting(q)'
      BY <1>1, <2>2, <3>2 DEF StartThread, KickThread
    <3>5. UNCHANGED size
      BY <2>2 DEF StartThread, KickThread
    <3>6. ASSUME NEW q \in Process
          PROVE  Waiting(q)' <=> Waiting(q)
      <4>1. CASE q = p \/ q = child[p]
        BY <3>4, <4>1
      <4>2. CASE q # p /\ q # child[p]
        BY <3>3, <4>2
      <4> QED
        BY <4>1, <4>2
    <3> QED
      BY <1>2, <3>5, <3>6
  <2>3. CASE LockThreads(p) \/ AssignTID(p) \/ FinishClone(p)
    BY <1>3, <2>3 DEF LockThreads, AssignTID, FinishClone
  <2> QED
    BY <1>5, <2>1, <2>2, <2>3 DEF CreateStep
<1>6. CASE RunLoopStep
  BY <1>3, <1>6, MainMove DEF MainSteps
<1>7. ASSUME NEW t \in Thread, TestShouldStart(t) \/ SpuriousWakeup(t)
      PROVE  SlotsLeft'
  BY <1>3, <1>7, GateMove
<1>8. ASSUME NEW t \in Thread, BlockStep(t) \/ MmapStep(t) \/ PauseStep(t)
      PROVE  SlotsLeft'
  <2>1. PICK l \in RunPC \cup {"lock", "exited"} :
          pc' = [pc EXCEPT ![t] = l] /\ (l = "lock" => SyscallClone(t))
    BY <1>8, RunMove
  <2>2. pc[t] \in RunPC /\ UNCHANGED size
    BY <1>8, RunMove
  <2>3. CASE l # "lock"
    <3>1. ~Waiting(t) /\ l \notin {"lock", "emplace"}
      BY <2>1, <2>2, <2>3 DEF RunPC, MmapSteps, PauseSteps
    <3>2. t \in Process
      OBVIOUS
    <3>3. Waiting(t) <=> l \in {"lock", "emplace"}
      BY <3>1
    <3> QED
      BY <1>3, <2>1, <2>2, <3>2, <3>3
  <2>4. CASE l = "lock"
    <3>1. size + Cardinality(Pending) < MaxThreads
      BY <2>1, <2>4 DEF SyscallClone
    <3>2. Pending' = Pending \cup {t} /\ t \notin Pending
      BY <1>1, <2>1, <2>2, <2>4 DEF Pending, RunPC, MmapSteps, PauseSteps
    <3>3. Cardinality(Pending') = Cardinality(Pending) + 1
      BY <3>2, FiniteProcesses, FS_AddElement
    <3> QED
      BY <1>1, <2>2, <3>1, <3>3, FiniteProcesses DEF SlotsLeft
  <2> QED
    BY <2>3, <2>4
<1> QED
  BY <1>4, <1>5, <1>6, <1>7, <1>8, StepCases

----------------------------------------------------------------------------
\* Inv is an invariant of the specification.
THEOREM Invariance == Spec => []Inv
<1>1. ASSUME Inv, [Next]_vars
      PROVE  Inv'
  BY <1>1, ThreadTypesStep, FlagTypesStep, PauseTypesStep, MemoryTypesStep,
     LifecycleStep, SlotsLeftStep DEF Inv, TypeOK, Lifecycle
<1> QED
  BY <1>1, InvInit, PTL DEF Spec

\* Type correctness of CPUCore.
THEOREM TypeCorrect == Spec => []TypeOK
<1>1. Inv => TypeOK
  BY DEF Inv
<1> QED
  BY <1>1, Invariance, PTL

\* No thread runs guest code before InitThread or the clone that created it
\* is done with its ThreadState, whatever the schedule and however often the
\* wait wakes up.
THEOREM StartGateHolds == Spec => []StartGate
<1>1. ASSUME Inv
      PROVE  StartGate
  <2>1. ASSUME NEW t \in Thread, HoldsStartMutex(t),
               NEW p \in Process, pc[p] \in {"tid", "setup", "regs", "kick"}
        PROVE  child[p] # t
    BY <1>1, <2>1 DEF Inv, Births
  <2> QED
    BY <1>1, <2>1 DEF Inv, GatePassed, StartGate
<1> QED
  BY <1>1, Invariance, PTL

----------------------------------------------------------------------------
(* The counter of paused threads.                                          *)

\* Only the ++ and the -- of ExecutionThread change the window, and with it
\* the counter.
LEMMA WindowSteps ==
  ASSUME Inv, [Next]_vars
  PROVE  \/ UNCHANGED <<Window, NumThreadsPaused>>
         \/ \E t \in Thread :
              /\ t \notin Window /\ Window' = Window \cup {t}
              /\ NumThreadsPaused' = Increment(NumThreadsPaused)
         \/ \E t \in Thread :
              /\ t \in Window /\ Window' = Window \ {t}
              /\ NumThreadsPaused' = Decrement(NumThreadsPaused)
<1>1. /\ pc \in [Process -> PC] /\ child \in [Process -> 0..MaxThreads]
      /\ size \in 0..MaxThreads
  BY DEF Inv, TypeOK, ThreadTypes
<1> USE BoundsAssumption
<1>2. ASSUME UNCHANGED NumThreadsPaused,
             \A t \in Thread : InWindow(t)' <=> InWindow(t)
      PROVE  UNCHANGED <<Window, NumThreadsPaused>>
  BY <1>2 DEF Window
<1>3. ASSUME NEW p \in Process, NEW l, pc' = [pc EXCEPT ![p] = l],
             UNCHANGED NumThreadsPaused, ~InWindow(p), l \notin {"spin", "leave"}
      PROVE  UNCHANGED <<Window, NumThreadsPaused>>
  BY <1>1, <1>2, <1>3
<1>4. CASE UNCHANGED vars
  BY <1>2, <1>4
<1>5. ASSUME NEW p \in Process, CreateStep(p)
      PROVE  UNCHANGED <<Window, NumThreadsPaused>>
  <2>1. CASE StartThread(p) \/ KickThread(p)
    <3>1. Creating(p) /\ UNCHANGED NumThreadsPaused
      BY <2>1 DEF StartThread, KickThread, Creating
    <3>2. child[p] \in Process /\ child[p] # p
          /\ pc[child[p]] \in {"unborn", "boot", "cvwait"}
      BY <1>1, <3>1 DEF Inv, Births, Creating
    <3>3. \A q \in Process : q # p /\ q # child[p] => pc'[q] = pc[q]
      BY <1>1, <2>1 DEF StartThread, KickThread
    <3>4. \A q \in {p, child[p]} : ~InWindow(q) /\ ~InWindow(q)'
      BY <1>1, <2>1, <3>2 DEF StartThread, KickThread
    <3>5. ASSUME NEW q \in Thread
          PROVE  InWindow(q)' <=> InWindow(q)
      <4>1. CASE q = p \/ q = child[p]
        BY <3>4, <4>1
      <4>2. CASE q # p /\ q # child[p]
        BY <3>3, <4>2
      <4> QED
        BY <4>1, <4>2
    <3> QED
      BY <1>2, <3>1, <3>5
  <2>2. CASE \/ LockThreads(p) \/ EmplaceThread(p) \/ AssignTID(p)
             \/ FinishClone(p)
    BY <1>3, <2>2 DEF LockThreads, EmplaceThread, AssignTID, FinishClone
  <2> QED
    BY <1>5, <2>1, <2>2 DEF CreateStep
<1>6. CASE RunLoopStep
  <2>1. UNCHANGED NumThreadsPaused
    BY <1>6 DEF RunLoopStep, RunLoopBegin, RunLoopDeref, RunLoopJoin,
                RunLoopReturn
  <2> QED
    BY <1>3, <1>6, <2>1, MainMove DEF MainSteps
<1>7. ASSUME NEW t \in Thread, TestShouldStart(t) \/ SpuriousWakeup(t)
      PROVE  UNCHANGED <<Window, NumThreadsPaused>>
  <2>1. UNCHANGED NumThreadsPaused
    BY <1>7 DEF TestShouldStart, SpuriousWakeup
  <2> QED
    BY <1>3, <1>7, <2>1, GateMove
<1>8. ASSUME NEW t \in Thread, BlockStep(t)
      PROVE  UNCHANGED <<Window, NumThreadsPaused>>
  <2>1. /\ pc[t] = "loop" /\ UNCHANGED NumThreadsPaused
        /\ \E l \in {"exited", "pausecheck", "lock"} : pc' = [pc EXCEPT ![t] = l]
    BY <1>8 DEF BlockStep, LeaveLoop, RunBlock, HitZero, StopOnFault,
                SyscallExit, SyscallClone
  <2>2. PICK l \in {"exited", "pausecheck", "lock"} : pc' = [pc EXCEPT ![t] = l]
    BY <2>1
  <2>3. t \in Process /\ ~InWindow(t) /\ l \notin {"spin", "leave"}
    BY <2>1, <2>2
  <2> QED
    BY <1>3, <2>1, <2>2, <2>3
<1>9. ASSUME NEW t \in Thread, MmapStep(t)
      PROVE  UNCHANGED <<Window, NumThreadsPaused>>
  <2>1. CASE MapRegion(t)
    BY <1>2, <2>1 DEF MapRegion
  <2>2. CASE ~MapRegion(t)
    <3>1. /\ pc[t] \in MmapSteps \cup {"loop"} /\ UNCHANGED NumThreadsPaused
          /\ \E l \in MmapSteps \cup {"pausecheck"} : pc' = [pc EXCEPT ![t] = l]
      BY <1>9, <2>2
      DEF MmapStep, SyscallMmap, ReloadLastMMAP, BumpLastMMAP, SetPauseThreads,
          LoadNumPaused, CompareSize, MapLoopBegin, ClearPauseThreads, MmapSteps
    <3>2. PICK l \in MmapSteps \cup {"pausecheck"} : pc' = [pc EXCEPT ![t] = l]
      BY <3>1
    <3>3. t \in Process /\ ~InWindow(t) /\ l \notin {"spin", "leave"}
      BY <3>1, <3>2 DEF MmapSteps
    <3> QED
      BY <1>3, <3>1, <3>2, <3>3
  <2> QED
    BY <2>1, <2>2
<1>10. ASSUME NEW t \in Thread, PauseCheck(t)
       PROVE  UNCHANGED <<Window, NumThreadsPaused>>
  <2>1. PICK l \in {"enter", "loop"} : pc' = [pc EXCEPT ![t] = l]
    BY <1>10 DEF PauseCheck
  <2>2. t \in Process /\ pc[t] = "pausecheck" /\ UNCHANGED NumThreadsPaused
    BY <1>10 DEF PauseCheck
  <2> QED
    BY <1>3, <2>1, <2>2
<1>11. ASSUME NEW t \in Thread, SpinUntilResumed(t)
       PROVE  UNCHANGED <<Window, NumThreadsPaused>>
  BY <1>1, <1>2, <1>11 DEF SpinUntilResumed
<1>12. ASSUME NEW t \in Thread, EnterPause(t)
       PROVE  /\ t \notin Window /\ Window' = Window \cup {t}
              /\ NumThreadsPaused' = Increment(NumThreadsPaused)
  <2>1. /\ pc[t] = "enter" /\ pc' = [pc EXCEPT ![t] = "spin"]
        /\ NumThreadsPaused' = Increment(NumThreadsPaused)
    BY <1>12 DEF EnterPause
  <2>2. pc'[t] = "spin" /\ \A u \in Thread : u # t => pc'[u] = pc[u]
    BY <1>1, <2>1
  <2> QED
    BY <2>1, <2>2 DEF Window
<1>13. ASSUME NEW t \in Thread, LeavePause(t)
       PROVE  /\ t \in Window /\ Window' = Window \ {t}
              /\ NumThreadsPaused' = Decrement(NumThreadsPaused)
  <2>1. /\ pc[t] = "leave" /\ pc' = [pc EXCEPT ![t] = "loop"]
        /\ NumThreadsPaused' = Decrement(NumThreadsPaused)
    BY <1>13 DEF LeavePause
  <2>2. pc'[t] = "loop" /\ \A u \in Thread : u # t => pc'[u] = pc[u]
    BY <1>1, <2>1
  <2> QED
    BY <2>1, <2>2 DEF Window
<1> QED
  BY <1>4, <1>5, <1>6, <1>7, <1>8, <1>9, <1>10, <1>11, <1>12, <1>13, StepCases
  DEF PauseStep

\* The counter is exact, modulo its width and up to its initial value.
THEOREM PausedCountHolds == Spec => []PausedCount
<1> USE CounterAssumption, BoundsAssumption
<1>1. Init => PausedCount
  <2> SUFFICES ASSUME Init PROVE PausedCount
    OBVIOUS
  <2>1. Window = {}
    BY DEF Init, Window
  <2>2. Cardinality(Window) = 0
    BY <2>1, FS_EmptySet
  <2> QED
    BY <2>2 DEF Init, PausedCount
<1>2. ASSUME Inv, Inv', PausedCount, [Next]_vars
      PROVE  PausedCount'
  <2>1. Cardinality(Window) \in 0..MaxThreads
    BY FiniteProcesses
  <2>2. Cardinality(Window') \in 0..MaxThreads
    <3>1. Window' \subseteq Thread
      BY DEF Window
    <3>2. IsFiniteSet(Window') /\ Cardinality(Window') <= MaxThreads
      BY <3>1, FiniteProcesses, FS_Subset
    <3> QED
      BY <3>2, FS_CardinalityType
  <2>3. CASE UNCHANGED <<Window, NumThreadsPaused>>
    BY <1>2, <2>3 DEF PausedCount
  <2>4. ASSUME NEW t \in Thread, t \notin Window, Window' = Window \cup {t},
               NumThreadsPaused' = Increment(NumThreadsPaused)
        PROVE  PausedCount'
    <3>1. Cardinality(Window') = Cardinality(Window) + 1
      BY <2>4, FiniteProcesses, FS_AddElement
    <3> QED
      BY <1>2, <2>1, <2>2, <2>4, <3>1 DEF PausedCount, Increment
  <2>5. ASSUME NEW t \in Thread, t \in Window, Window' = Window \ {t},
               NumThreadsPaused' = Decrement(NumThreadsPaused)
        PROVE  PausedCount'
    <3>1. Cardinality(Window') = Cardinality(Window) - 1
      BY <2>5, FiniteProcesses, FS_RemoveElement
    <3> QED
      BY <1>2, <2>1, <2>2, <2>5, <3>1 DEF PausedCount, Decrement
  <2> QED
    BY <1>2, <2>3, <2>4, <2>5, WindowSteps
<1> QED
  BY <1>1, <1>2, Invariance, PTL DEF Spec

----------------------------------------------------------------------------
(* One mapper at a time.                                                   *)

InMmap(t) == pc[t] \in MmapSteps
EndOf(r) == r.off + r.len

\* t has found, or is about to find, every other thread paused.
Passed(t) == Mapping(t) \/ (pc[t] = "compare" /\ seen[t] = size - 1)

\* The count a mapper has loaded leaves itself out, and Threads only grows.
SeenBound == \A t \in Thread : pc[t] = "compare" => seen[t] < size

OnePassed == \A t, u \in Thread : Passed(t) /\ Passed(u) => t = u

\* Everything returned lies below LastMMAP, below the value that a call is
\* about to add to, and below every region under way.
ReturnedBelow ==
  \A r \in returned :
    /\ EndOf(r) <= LastMMAP
    /\ \A t \in Thread : pc[t] = "bump" => EndOf(r) <= base[t]
    /\ \A t \in Thread : InMmap(t) => EndOf(r) <= region[t].off

RegionsNonempty == \A t \in Thread : InMmap(t) => region[t].len > 0

\* The same for the region of a mapper that has passed and the calls that
\* began since.
PassedBelow ==
  \A t \in Thread : Passed(t) =>
    /\ EndOf(region[t]) <= LastMMAP
    /\ \A u \in Thread : pc[u] = "bump" => EndOf(region[t]) <= base[u]
    /\ \A u \in Thread : u # t /\ InMmap(u) => EndOf(region[t]) <= region[u].off

\* Another call is under way that has not passed.
Contended(t) == \E u \in Thread : u # t /\ InMmap(u) /\ ~Passed(u)

\* LastMMAP may be behind the region of a call only when another call raced
\* with it; neither can then pass.
BumpedBelow ==
  \A t \in Thread : InMmap(t) /\ ~Contended(t) =>
    /\ pc[t] = "reload" => region[t].off <= LastMMAP
    /\ pc[t] = "bump" => region[t].off <= base[t]
    /\ pc[t] \notin {"reload", "bump"} => EndOf(region[t]) <= LastMMAP

MapInv ==
  /\ SeenBound /\ OnePassed /\ ReturnedBelow /\ RegionsNonempty
  /\ PassedBelow /\ BumpedBelow

\* No mmap call is under way at first.
LEMMA MapInvInit == Init => MapInv
<1> SUFFICES ASSUME Init PROVE MapInv
  OBVIOUS
<1>1. \A t \in Thread : pc[t] = "unborn"
  BY BoundsAssumption DEF Init
<1>2. \A t \in Thread : ~InMmap(t) /\ ~Passed(t)
  BY <1>1 DEF InMmap, Passed, MmapSteps
<1> QED
  BY <1>1, <1>2 DEF Init, MapInv, SeenBound, OnePassed, ReturnedBelow,
                    RegionsNonempty, PassedBelow, BumpedBelow

\* Steps that let no call in, out or through keep MapInv.
LEMMA MapFrame ==
  ASSUME Inv, MapInv, Inv',
         UNCHANGED <<seen, region, base, LastMMAP, returned>>, size' >= size,
         \A t \in Thread : /\ InMmap(t)' <=> InMmap(t)
                           /\ Passed(t)' => Passed(t)
                           /\ pc'[t] = "bump" <=> pc[t] = "bump"
                           /\ pc'[t] = "reload" <=> pc[t] = "reload"
                           /\ pc'[t] = "compare" => pc[t] = "compare"
  PROVE  MapInv'
<1>1. SeenBound'
  <2>1. size \in Int /\ size' \in Int /\ \A t \in Thread : seen[t] \in Int
    <3>1. size \in 0..MaxThreads /\ size' \in 0..MaxThreads
      BY DEF Inv, TypeOK, ThreadTypes
    <3>2. \A t \in Thread : seen[t] \in Int
      BY CounterAssumption DEF Inv, TypeOK, PauseTypes
    <3> QED
      BY <3>1, <3>2, BoundsAssumption
  <2> QED
    BY <2>1 DEF MapInv, SeenBound
<1>2. OnePassed'
  BY DEF MapInv, OnePassed
<1>3. ReturnedBelow' /\ RegionsNonempty'
  BY DEF MapInv, ReturnedBelow, RegionsNonempty, EndOf
<1>4. PassedBelow'
  BY DEF MapInv, PassedBelow, EndOf
<1>5. BumpedBelow'
  <2>1. \A t \in Thread : Contended(t) => Contended(t)'
    BY DEF Contended
  <2> QED
    BY <2>1 DEF MapInv, BumpedBelow, EndOf
<1> QED
  BY <1>1, <1>2, <1>3, <1>4, <1>5 DEF MapInv

\* The steps of other system calls and of the pause check are of that kind.
LEMMA MapQuiet ==
  ASSUME Inv, MapInv, Inv',
         UNCHANGED <<seen, region, base, LastMMAP, returned>>, size' >= size,
         \A t \in Thread : \/ pc'[t] = pc[t]
                           \/ pc[t] \notin MmapSteps /\ pc'[t] \notin MmapSteps
  PROVE  MapInv'
<1>1. size \in Int /\ size' \in Int /\ \A t \in Thread : seen[t] \in Int
  <2>1. size \in Int
    BY DEF Inv, TypeOK, ThreadTypes
  <2>2. size' \in Int
    BY DEF Inv, TypeOK, ThreadTypes
  <2>3. \A t \in Thread : seen[t] \in Int
    BY DEF Inv, TypeOK, PauseTypes
  <2> QED
    BY <2>1, <2>2, <2>3
<1>2. ASSUME NEW t \in Thread
      PROVE  /\ InMmap(t)' <=> InMmap(t)
             /\ Passed(t)' => Passed(t)
             /\ pc'[t] = "bump" <=> pc[t] = "bump"
             /\ pc'[t] = "reload" <=> pc[t] = "reload"
             /\ pc'[t] = "compare" => pc[t] = "compare"
  <2>1. CASE pc'[t] = pc[t]
    BY <1>1, <2>1 DEF InMmap, Passed, MapInv, SeenBound
  <2>2. CASE pc[t] \notin MmapSteps /\ pc'[t] \notin MmapSteps
    BY <2>2 DEF InMmap, Passed, MmapSteps
  <2> QED
    BY <2>1, <2>2
<1> QED
  BY <1>2, MapFrame

\* When a mapper counts everybody else, everybody else is in the window.
LEMMA AllOthersInWindow ==
  ASSUME Inv, NEW t \in Thread, t \notin Window, pc[t] # "unborn"
  PROVE  /\ Cardinality(Window) < size
         /\ Cardinality(Window) = size - 1 =>
              /\ \A u \in Thread : u # t /\ pc[u] # "unborn" => u \in Window
              /\ \A u \in 1..size : u # t => u \in Window
<1>1. size \in 0..MaxThreads /\ MaxThreads \in Nat
  BY BoundsAssumption DEF Inv, TypeOK, ThreadTypes
<1> DEFINE Others == (1..size) \ {t}
<1>2. \A u \in Thread : pc[u] # "unborn" => u \in 1..size
  BY <1>1 DEF Inv, SlotsUnused
<1>3. Window \subseteq Others
  BY <1>2 DEF Window
<1>4. IsFiniteSet(1..size) /\ Cardinality(1..size) = size
  BY <1>1, FS_Interval
<1>5. IsFiniteSet(Others) /\ Cardinality(Others) = size - 1
  BY <1>2, <1>4, FS_RemoveElement
<1>6. /\ Cardinality(Window) <= size - 1
      /\ Cardinality(Window) = size - 1 => Window = Others
  <2>1. /\ Cardinality(Window) <= Cardinality(Others)
        /\ Cardinality(Others) = Cardinality(Window) => Others = Window
    BY <1>3, <1>5, FS_Subset
  <2> QED
    BY <1>5, <2>1
<1>7. Cardinality(Window) < size
  BY <1>1, <1>6, FiniteProcesses
<1> QED
  BY <1>2, <1>6, <1>7


\* The types MapInv speaks of.
LEMMA MapTypes ==
  ASSUME Inv
  PROVE  /\ size \in Nat /\ LastMMAP \in Nat
         /\ \A t \in Thread : /\ seen[t] \in Nat
                              /\ region[t].off \in Nat /\ region[t].len \in Nat
                              /\ base[t] \in Nat
                              /\ EndOf(region[t]) \in Nat
         /\ \A r \in returned : EndOf(r) \in Nat
<1>1. size \in Nat
  BY BoundsAssumption DEF Inv, TypeOK, ThreadTypes
<1>2. /\ LastMMAP \in Nat /\ region \in [Thread -> Region]
      /\ base \in [Thread -> Nat] /\ returned \in SUBSET Region
  BY DEF Inv, TypeOK, MemoryTypes
<1>3. \A t \in Thread : seen[t] \in Nat
  BY CounterAssumption DEF Inv, TypeOK, PauseTypes
<1>4. \A r \in Region : r.off \in Nat /\ r.len \in Nat /\ EndOf(r) \in Nat
  BY DEF Region, EndOf
<1> QED
  BY <1>1, <1>2, <1>3, <1>4

\* A call that begins takes its base from LastMMAP.
LEMMA MapInvBegin ==
  ASSUME Inv, MapInv, Inv', NEW t \in Thread, SyscallMmap(t)
  PROVE  MapInv'
<1>1. /\ pc[t] = "loop" /\ pc' = [pc EXCEPT ![t] = "reload"]
      /\ UNCHANGED <<seen, size, base, LastMMAP, returned>>
  BY DEF SyscallMmap, LoopContinues, Goto, threadVars, pauseVars
<1>2. PICK length \in MmapLens :
        region' = [region EXCEPT ![t] = [off |-> LastMMAP, len |-> AlignUp(length)]]
  BY DEF SyscallMmap
<1>3. AlignUp(length) > 0
  BY MmapAssumption, SMT DEF AlignUp, PAGE_SIZE
<1>4. /\ region'[t].off = LastMMAP /\ region'[t].len > 0
      /\ \A u \in Thread : u # t => region'[u] = region[u]
  <2>1. region \in [Thread -> Region]
    BY DEF Inv, TypeOK, MemoryTypes
  <2> QED
    BY <1>2, <1>3, <2>1
<1>5. /\ pc'[t] = "reload"
      /\ \A u \in Thread : u # t => pc'[u] = pc[u]
  BY <1>1 DEF Inv, TypeOK, ThreadTypes, Process, Thread, Main
<1>6. /\ ~Passed(t) /\ ~Passed(t)' /\ ~InMmap(t) /\ InMmap(t)'
      /\ \A u \in Thread : u # t => /\ Passed(u)' <=> Passed(u)
                                    /\ InMmap(u)' <=> InMmap(u)
  BY <1>1, <1>5 DEF Passed, Mapping, InMmap, MmapSteps
<1>7. SeenBound'
  BY <1>1, <1>5 DEF MapInv, SeenBound
<1>8. OnePassed'
  BY <1>6 DEF MapInv, OnePassed
<1>9. ReturnedBelow' /\ RegionsNonempty'
  BY <1>1, <1>4, <1>5, <1>6 DEF MapInv, ReturnedBelow, RegionsNonempty, EndOf
<1>10. PassedBelow'
  BY <1>1, <1>4, <1>5, <1>6 DEF MapInv, PassedBelow, EndOf
<1>11. BumpedBelow'
  <2>1. \A u \in Thread : Contended(u) => Contended(u)'
    BY <1>6 DEF Contended
  <2>2. /\ InMmap(t)' /\ pc'[t] = "reload" /\ region'[t].off <= LastMMAP'
    BY <1>1, <1>4, <1>5, <1>6, MapTypes
  <2>3. ASSUME NEW u \in Thread, u # t, InMmap(u)', ~Contended(u)'
        PROVE  /\ pc'[u] = "reload" => region'[u].off <= LastMMAP'
               /\ pc'[u] = "bump" => region'[u].off <= base'[u]
               /\ pc'[u] \notin {"reload", "bump"} => EndOf(region'[u]) <= LastMMAP'
    BY <1>1, <1>4, <1>5, <1>6, <2>1, <2>3 DEF MapInv, BumpedBelow
  <2> QED
    BY <2>2, <2>3 DEF BumpedBelow, EndOf
<1> QED
  BY <1>7, <1>8, <1>9, <1>10, <1>11 DEF MapInv

\* The value that += BaseSize adds to is not below what was returned.
LEMMA MapInvReload ==
  ASSUME Inv, MapInv, Inv', NEW t \in Thread, ReloadLastMMAP(t)
  PROVE  MapInv'
<1>1. /\ pc[t] = "reload" /\ pc' = [pc EXCEPT ![t] = "bump"]
      /\ base' = [base EXCEPT ![t] = LastMMAP]
      /\ UNCHANGED <<seen, size, region, LastMMAP, returned>>
  BY DEF ReloadLastMMAP
<1>2. /\ pc'[t] = "bump"
      /\ \A u \in Thread : u # t => pc'[u] = pc[u]
  BY <1>1 DEF Inv, TypeOK, ThreadTypes, Process, Thread, Main
<1>3. /\ base'[t] = LastMMAP
      /\ \A u \in Thread : u # t => base'[u] = base[u]
  BY <1>1 DEF Inv, TypeOK, MemoryTypes
<1>4. \A u \in Thread : /\ Passed(u)' <=> Passed(u)
                        /\ InMmap(u)' <=> InMmap(u)
  BY <1>1, <1>2 DEF Passed, InMmap, MmapSteps
<1>5. SeenBound' /\ OnePassed' /\ RegionsNonempty'
  BY <1>1, <1>2, <1>4 DEF MapInv, SeenBound, OnePassed, RegionsNonempty
<1>6. ReturnedBelow'
  BY <1>1, <1>2, <1>3, <1>4 DEF MapInv, ReturnedBelow, EndOf
<1>7. PassedBelow'
  BY <1>1, <1>2, <1>3, <1>4 DEF MapInv, PassedBelow, EndOf
<1>8. BumpedBelow'
  <2>1. \A u \in Thread : Contended(u)' <=> Contended(u)
    BY <1>4 DEF Contended
  <2> QED
    BY <1>1, <1>2, <1>3, <1>4, <2>1 DEF MapInv, BumpedBelow, EndOf
<1> QED
  BY <1>5, <1>6, <1>7, <1>8 DEF MapInv

\* A call that advances LastMMAP may put it behind the region of a call that
\* raced with it, but is then itself a call that has not passed.
LEMMA MapInvBump ==
  ASSUME Inv, MapInv, Inv', NEW t \in Thread, BumpLastMMAP(t)
  PROVE  MapInv'
<1>1. /\ pc[t] = "bump" /\ pc' = [pc EXCEPT ![t] = "pause"]
      /\ LastMMAP' = base[t] + region[t].len
      /\ UNCHANGED <<seen, size, region, base, returned>>
  BY DEF BumpLastMMAP
<1>2. /\ pc'[t] = "pause"
      /\ \A u \in Thread : u # t => pc'[u] = pc[u]
  BY <1>1 DEF Inv, TypeOK, ThreadTypes, Process, Thread, Main
<1>3. /\ ~Passed(t) /\ ~Passed(t)' /\ InMmap(t) /\ InMmap(t)'
      /\ \A u \in Thread : /\ Passed(u)' <=> Passed(u)
                           /\ InMmap(u)' <=> InMmap(u)
  BY <1>1, <1>2 DEF Passed, Mapping, InMmap, MmapSteps
<1>4. base[t] <= LastMMAP' /\ LastMMAP' \in Nat
  BY <1>1, MapTypes
<1>5. SeenBound' /\ OnePassed' /\ RegionsNonempty'
  BY <1>1, <1>2, <1>3 DEF MapInv, SeenBound, OnePassed, RegionsNonempty
<1>6. ReturnedBelow'
  <2> SUFFICES ASSUME NEW r \in returned
               PROVE  /\ EndOf(r) <= LastMMAP'
                      /\ \A u \in Thread : pc'[u] = "bump" => EndOf(r) <= base[u]
                      /\ \A u \in Thread : InMmap(u) => EndOf(r) <= region[u].off
    BY <1>1, <1>3 DEF ReturnedBelow, EndOf
  <2>1. EndOf(r) <= base[t]
    BY <1>1 DEF MapInv, ReturnedBelow
  <2>2. EndOf(r) <= LastMMAP'
    BY <2>1, <1>4, MapTypes
  <2> QED
    BY <1>1, <1>2, <2>2 DEF MapInv, ReturnedBelow
<1>7. PassedBelow'
  <2> SUFFICES ASSUME NEW v \in Thread, Passed(v)
               PROVE  /\ EndOf(region[v]) <= LastMMAP'
                      /\ \A u \in Thread :
                           pc'[u] = "bump" => EndOf(region[v]) <= base[u]
                      /\ \A u \in Thread :
                           u # v /\ InMmap(u) => EndOf(region[v]) <= region[u].off
    BY <1>1, <1>3 DEF PassedBelow, EndOf
  <2>1. EndOf(region[v]) <= base[t]
    BY <1>1 DEF MapInv, PassedBelow
  <2>2. EndOf(region[v]) <= LastMMAP'
    BY <2>1, <1>4, MapTypes
  <2> QED
    BY <1>1, <1>2, <2>2 DEF MapInv, PassedBelow
<1>8. BumpedBelow'
  <2>1. \A v \in Thread : v # t => Contended(v)'
    BY <1>3 DEF Contended
  <2>2. ~Contended(t)' => EndOf(region[t]) <= LastMMAP'
    <3>1. Contended(t)' <=> Contended(t)
      BY <1>3 DEF Contended
    <3>2. ~Contended(t) => region[t].off <= base[t]
      BY <1>1, <1>3 DEF MapInv, BumpedBelow
    <3> QED
      BY <1>1, <3>1, <3>2, MapTypes DEF EndOf
  <2> QED
    BY <1>1, <1>2, <2>1, <2>2 DEF BumpedBelow, EndOf
<1> QED
  BY <1>5, <1>6, <1>7, <1>8 DEF MapInv

\* A call passes only when every other thread is in the window, and so in no
\* mmap call: the counter is read before the size, and the size never shrinks.
LEMMA MapInvLoad ==
  ASSUME InitialPaused = 0, PausedCount, Inv, MapInv, Inv',
         NEW t \in Thread, LoadNumPaused(t)
  PROVE  MapInv'
<1>1. /\ pc[t] = "load" /\ pc' = [pc EXCEPT ![t] = "compare"]
      /\ seen' = [seen EXCEPT ![t] = NumThreadsPaused]
      /\ UNCHANGED <<size, region, base, LastMMAP, returned>>
  BY DEF LoadNumPaused, Goto, threadVars, mmapVars
<1>2. /\ pc'[t] = "compare"
      /\ \A u \in Thread : u # t => pc'[u] = pc[u]
  BY <1>1 DEF Inv, TypeOK, ThreadTypes, Process, Thread, Main
<1>3. t \notin Window /\ pc[t] # "unborn"
  BY <1>1 DEF Window, InWindow
<1>4. NumThreadsPaused = Cardinality(Window)
  <2>1. Cardinality(Window) < size
    BY <1>3, AllOthersInWindow
  <2>2. size <= MaxThreads /\ size \in Int
    BY BoundsAssumption DEF Inv, TypeOK, ThreadTypes
  <2>3. Cardinality(Window) \in Nat
    BY FiniteProcesses
  <2> QED
    BY <2>1, <2>2, <2>3, BoundsAssumption, CounterAssumption DEF PausedCount
<1>5. /\ seen'[t] = NumThreadsPaused
      /\ \A u \in Thread : u # t => seen'[u] = seen[u]
  BY <1>1 DEF Inv, TypeOK, PauseTypes
<1>6. /\ ~Passed(t) /\ InMmap(t) /\ InMmap(t)'
      /\ \A u \in Thread : u # t => (Passed(u)' <=> Passed(u))
      /\ \A u \in Thread : InMmap(u)' <=> InMmap(u)
  BY <1>1, <1>2, <1>5 DEF Passed, Mapping, InMmap, MmapSteps
<1>7. Passed(t)' => \A u \in Thread : u # t => ~InMmap(u) /\ ~Passed(u)
  <2> SUFFICES ASSUME Passed(t)', NEW u \in Thread, u # t
               PROVE  ~InMmap(u) /\ ~Passed(u)
    OBVIOUS
  <2>1. Cardinality(Window) = size - 1
    BY <1>1, <1>2, <1>4, <1>5 DEF Passed, Mapping
  <2>2. pc[u] = "unborn" \/ u \in Window
    BY <1>3, <2>1, AllOthersInWindow
  <2> QED
    BY <2>2 DEF Window, InWindow, InMmap, Passed, Mapping, MmapSteps
<1>8. SeenBound'
  BY <1>1, <1>2, <1>3, <1>4, <1>5, AllOthersInWindow DEF MapInv, SeenBound
<1>9. OnePassed'
  BY <1>6, <1>7 DEF MapInv, OnePassed
<1>10. ReturnedBelow' /\ RegionsNonempty'
  BY <1>1, <1>2, <1>6 DEF MapInv, ReturnedBelow, RegionsNonempty, EndOf
<1>11. PassedBelow'
  <2> SUFFICES ASSUME NEW v \in Thread, Passed(v)'
               PROVE  /\ EndOf(region[v]) <= LastMMAP
                      /\ \A u \in Thread :
                           pc'[u] = "bump" => EndOf(region[v]) <= base[u]
                      /\ \A u \in Thread :
                           u # v /\ InMmap(u) => EndOf(region[v]) <= region[u].off
    BY <1>1, <1>6 DEF PassedBelow, EndOf
  <2>1. CASE v = t
    <3>1. \A u \in Thread : u # t => ~InMmap(u)
      BY <1>7, <2>1
    <3>2. EndOf(region[t]) <= LastMMAP
      BY <1>1, <1>6, <3>1 DEF MapInv, BumpedBelow, Contended
    <3>3. \A u \in Thread : pc'[u] # "bump"
      BY <1>2, <3>1 DEF InMmap, MmapSteps
    <3> QED
      BY <2>1, <3>1, <3>2, <3>3
  <2>2. CASE v # t
    BY <1>2, <1>6, <2>2 DEF MapInv, PassedBelow
  <2> QED
    BY <2>1, <2>2
<1>12. BumpedBelow'
  <2>1. ASSUME NEW v \in Thread, InMmap(v), Contended(v)
        PROVE  Contended(v)'
    <3>1. PICK u \in Thread : u # v /\ InMmap(u) /\ ~Passed(u)
      BY <2>1 DEF Contended
    <3>2. ~Passed(u)'
      BY <1>6, <1>7, <2>1, <3>1
    <3> QED
      BY <1>6, <3>1, <3>2 DEF Contended
  <2> QED
    BY <1>1, <1>2, <1>6, <2>1 DEF MapInv, BumpedBelow, EndOf
<1> QED
  BY <1>8, <1>9, <1>10, <1>11, <1>12 DEF MapInv

\* The region of a call that returns is below everything still under way.
LEMMA MapInvReturn ==
  ASSUME Inv, MapInv, Inv', NEW t \in Thread, ClearPauseThreads(t)
  PROVE  MapInv'
<1>1. /\ pc[t] = "map" /\ pc' = [pc EXCEPT ![t] = "pausecheck"]
      /\ returned' = returned \cup {region[t]}
      /\ UNCHANGED <<seen, size, region, base, LastMMAP>>
  BY DEF ClearPauseThreads, Goto, threadVars
<1>2. /\ pc'[t] = "pausecheck"
      /\ \A u \in Thread : u # t => pc'[u] = pc[u]
  BY <1>1 DEF Inv, TypeOK, ThreadTypes, Process, Thread, Main
<1>3. /\ Passed(t) /\ ~Passed(t)' /\ ~InMmap(t)'
      /\ \A u \in Thread : u # t => /\ Passed(u)' <=> Passed(u)
                                    /\ InMmap(u)' <=> InMmap(u)
  BY <1>1, <1>2 DEF Passed, Mapping, InMmap, MmapSteps
<1>4. /\ EndOf(region[t]) <= LastMMAP
      /\ \A u \in Thread : pc[u] = "bump" => EndOf(region[t]) <= base[u]
      /\ \A u \in Thread : u # t /\ InMmap(u) => EndOf(region[t]) <= region[u].off
  BY <1>3 DEF MapInv, PassedBelow
<1>5. SeenBound' /\ OnePassed' /\ RegionsNonempty'
  BY <1>1, <1>2, <1>3 DEF MapInv, SeenBound, OnePassed, RegionsNonempty
<1>6. ReturnedBelow'
  BY <1>1, <1>2, <1>3, <1>4 DEF MapInv, ReturnedBelow, EndOf
<1>7. PassedBelow'
  BY <1>1, <1>2, <1>3 DEF MapInv, PassedBelow, EndOf
<1>8. BumpedBelow'
  <2>1. \A u \in Thread : u # t /\ Contended(u) => Contended(u)'
    BY <1>3 DEF Contended
  <2> QED
    BY <1>1, <1>2, <1>3, <2>1 DEF MapInv, BumpedBelow, EndOf
<1> QED
  BY <1>5, <1>6, <1>7, <1>8 DEF MapInv


\* Creating a thread moves no process into or out of an mmap call.
LEMMA CreateQuiet ==
  ASSUME Inv, NEW p \in Process, CreateStep(p)
  PROVE  /\ UNCHANGED <<seen, region, base, LastMMAP, returned>> /\ size' >= size
         /\ \A t \in Thread : \/ pc'[t] = pc[t]
                              \/ pc[t] \notin MmapSteps /\ pc'[t] \notin MmapSteps
<1>1. pc \in [Process -> PC] /\ size \in Int /\ Thread \subseteq Process
  <2>1. size \in 0..MaxThreads /\ pc \in [Process -> PC]
    BY DEF Inv, TypeOK, ThreadTypes
  <2> QED
    BY <2>1, BoundsAssumption
<1>2. CASE LockThreads(p) \/ EmplaceThread(p) \/ AssignTID(p) \/ FinishClone(p)
  <2>1. /\ UNCHANGED <<seen, region, base, LastMMAP, returned>> /\ size' >= size
        /\ pc[p] \in CloneSteps
        /\ \E l \in CloneSteps : pc' = [pc EXCEPT ![p] = l]
    BY <1>1, <1>2 DEF LockThreads, EmplaceThread, AssignTID, FinishClone,
                      CloneSteps
  <2> QED
    BY <1>1, <2>1 DEF CloneSteps, MmapSteps
<1>3. CASE StartThread(p) \/ KickThread(p)
  <2>1. pc[p] \in {"tid", "setup", "regs", "kick"}
    BY <1>3 DEF StartThread, KickThread
  <2>2. child[p] \in 1..size /\ pc[child[p]] \in {"unborn", "boot", "cvwait"}
    BY <2>1 DEF Inv, Births
  <2>3. CASE StartThread(p)
    BY <1>1, <2>1, <2>2, <2>3 DEF StartThread, MmapSteps
  <2>4. CASE KickThread(p)
    BY <1>1, <2>1, <2>2, <2>4 DEF KickThread, MmapSteps
  <2> QED
    BY <1>3, <2>3, <2>4
<1> QED
  BY <1>2, <1>3 DEF CreateStep

\* A step that lets no process into, through or out of an mmap call.
MmapQuiet ==
  /\ UNCHANGED <<seen, region, base, LastMMAP, returned>> /\ size' >= size
  /\ \A t \in Thread : \/ pc'[t] = pc[t]
                       \/ pc[t] \notin MmapSteps /\ pc'[t] \notin MmapSteps

\* Only the steps of SYSCALL_MMAP are not.
LEMMA QuietStep ==
  ASSUME Inv, [Next]_vars
  PROVE  MmapQuiet \/ \E t \in Thread : MmapStep(t)
<1>1. size \in Int /\ pc \in [Process -> PC] /\ Thread \subseteq Process
  <2>1. size \in 0..MaxThreads /\ pc \in [Process -> PC]
    BY DEF Inv, TypeOK, ThreadTypes
  <2> QED
    BY <2>1, BoundsAssumption
<1>2. CASE UNCHANGED vars
  BY <1>1, <1>2 DEF MmapQuiet
<1>3. ASSUME NEW p \in Process, CreateStep(p)
      PROVE  MmapQuiet
  BY <1>3, CreateQuiet DEF MmapQuiet
<1>4. CASE RunLoopStep
  <2>1. \A t \in Thread : pc'[t] = pc[t]
    BY <1>1, <1>4, MainMove, BoundsAssumption
  <2>2. UNCHANGED <<seen, region, base, LastMMAP, returned, size>>
    BY <1>4 DEF RunLoopStep, RunLoopBegin, RunLoopDeref, RunLoopJoin,
                RunLoopReturn
  <2> QED
    BY <1>1, <2>1, <2>2 DEF MmapQuiet
<1>5. ASSUME NEW t \in Thread, TestShouldStart(t) \/ SpuriousWakeup(t)
      PROVE  MmapQuiet
  <2>1. UNCHANGED <<seen, region, base, LastMMAP, returned, size>>
    BY <1>5 DEF TestShouldStart, SpuriousWakeup
  <2>2. \A u \in Thread : \/ pc'[u] = pc[u]
                          \/ pc[u] \notin MmapSteps /\ pc'[u] \notin MmapSteps
    BY <1>1, <1>5, GateMove DEF MmapSteps
  <2> QED
    BY <1>1, <2>1, <2>2 DEF MmapQuiet
<1>6. ASSUME NEW t \in Thread, BlockStep(t)
      PROVE  MmapQuiet
  <2>1. UNCHANGED <<seen, region, base, LastMMAP, returned, size>>
    BY <1>6 DEF BlockStep, LeaveLoop, RunBlock, HitZero, StopOnFault,
                SyscallExit, SyscallClone
  <2>2. pc[t] = "loop" /\ \E l \in {"exited", "pausecheck", "lock"} :
                            pc' = [pc EXCEPT ![t] = l]
    BY <1>6 DEF BlockStep, LeaveLoop, RunBlock, HitZero, StopOnFault,
                SyscallExit, SyscallClone
  <2>3. \A u \in Thread : \/ pc'[u] = pc[u]
                          \/ pc[u] \notin MmapSteps /\ pc'[u] \notin MmapSteps
    BY <1>1, <2>2 DEF MmapSteps
  <2> QED
    BY <1>1, <2>1, <2>3 DEF MmapQuiet
<1>7. ASSUME NEW t \in Thread, PauseStep(t)
      PROVE  MmapQuiet
  <2>1. UNCHANGED <<seen, region, base, LastMMAP, returned, size>>
    BY <1>7 DEF PauseStep, PauseCheck, EnterPause, SpinUntilResumed, LeavePause
  <2>2. pc[t] \in PauseSteps /\ \E l \in PauseSteps \cup {"loop"} :
                                  pc' = [pc EXCEPT ![t] = l]
    BY <1>7 DEF PauseStep, PauseCheck, EnterPause, SpinUntilResumed, LeavePause,
                PauseSteps
  <2>3. \A u \in Thread : \/ pc'[u] = pc[u]
                          \/ pc[u] \notin MmapSteps /\ pc'[u] \notin MmapSteps
    BY <1>1, <2>2 DEF MmapSteps, PauseSteps
  <2> QED
    BY <1>1, <2>1, <2>3 DEF MmapQuiet
<1> QED
  BY <1>2, <1>3, <1>4, <1>5, <1>6, <1>7, StepCases

\* Every step keeps MapInv.
LEMMA MapInvStep ==
  ASSUME InitialPaused = 0, PausedCount, Inv, MapInv, Inv', [Next]_vars
  PROVE  MapInv'
<1>1. size \in Int /\ pc \in [Process -> PC] /\ Thread \subseteq Process
  <2>1. size \in 0..MaxThreads /\ pc \in [Process -> PC]
    BY DEF Inv, TypeOK, ThreadTypes
  <2> QED
    BY <2>1, BoundsAssumption
<1>2. ASSUME NEW t \in Thread,
             SetPauseThreads(t) \/ CompareSize(t) \/ MapLoopBegin(t) \/ MapRegion(t)
      PROVE  MapInv'
  <2>1. UNCHANGED <<seen, region, base, LastMMAP, returned, size>>
    BY <1>2 DEF SetPauseThreads, CompareSize, MapLoopBegin, MapRegion
  <2>2. ASSUME NEW u \in Thread
        PROVE  /\ InMmap(u)' <=> InMmap(u)
               /\ Passed(u)' => Passed(u)
               /\ pc'[u] = "bump" <=> pc[u] = "bump"
               /\ pc'[u] = "reload" <=> pc[u] = "reload"
               /\ pc'[u] = "compare" => pc[u] = "compare"
    <3>1. CASE pc'[u] = pc[u]
      BY <2>1, <3>1 DEF InMmap, Passed
    <3>2. CASE u = t /\ SetPauseThreads(t)
      BY <1>1, <3>2 DEF SetPauseThreads, InMmap, Passed, MmapSteps
    <3>3. CASE u = t /\ CompareSize(t)
      BY <1>1, <3>3 DEF CompareSize, InMmap, Passed, MmapSteps
    <3>4. CASE u = t /\ MapLoopBegin(t)
      BY <1>1, <3>4 DEF MapLoopBegin, InMmap, Passed, MmapSteps
    <3>5. u = t \/ pc'[u] = pc[u]
      BY <1>1, <1>2 DEF SetPauseThreads, CompareSize, MapLoopBegin, MapRegion
    <3>6. MapRegion(t) => pc'[u] = pc[u]
      BY DEF MapRegion
    <3> QED
      BY <1>2, <3>1, <3>2, <3>3, <3>4, <3>5, <3>6
  <2> QED
    BY <1>1, <2>1, <2>2, MapFrame
<1>3. ASSUME NEW t \in Thread, MmapStep(t)
      PROVE  MapInv'
  BY <1>2, <1>3, MapInvBegin, MapInvReload, MapInvBump, MapInvLoad,
     MapInvReturn DEF MmapStep
<1> QED
  BY <1>3, QuietStep, MapQuiet DEF MmapQuiet

\* MapInv is an invariant of the specification when the counter starts at
\* zero.
THEOREM MapInvariance == InitialPaused = 0 /\ Spec => []MapInv
<1>1. ASSUME InitialPaused = 0, PausedCount, Inv, MapInv, Inv', [Next]_vars
      PROVE  MapInv'
  BY <1>1, MapInvStep
<1>2. CASE InitialPaused = 0
  <2>1. ASSUME PausedCount, Inv, MapInv, Inv', [Next]_vars
        PROVE  MapInv'
    BY <1>1, <1>2, <2>1
  <2> QED
    BY <2>1, MapInvInit, Invariance, PausedCountHolds, PTL DEF Spec
<1> QED
  BY <1>2

\* No two threads are past the spin loop of MapRegionOnAll at once.
THEOREM MapperAloneHolds == Spec => []MapperAlone
<1>1. MapInv => MapperAlone
  BY DEF MapInv, OnePassed, Passed, MapperAlone
<1>2. CASE InitialPaused = 0
  BY <1>1, <1>2, MapInvariance, PTL
<1>3. CASE InitialPaused # 0
  <2>1. MapperAlone
    BY <1>3 DEF MapperAlone
  <2> QED
    BY <2>1, PTL
<1> QED
  BY <1>2, <1>3


----------------------------------------------------------------------------
(* SYSCALL_MMAP implements RegionAllocator.                                *)

\* The mapper that has passed the spin loop is the one that is served.
LEMMA ServerIs ==
  ASSUME MapInv
  PROVE  /\ \A t \in Thread : Mapping(t) => Server = t
         /\ (\A t \in Thread : ~Mapping(t)) => Server = Main
<1>1. ASSUME NEW t \in Thread, Mapping(t)
      PROVE  Server = t
  <2>1. Mappers = {t}
    BY <1>1 DEF MapInv, OnePassed, Passed, Mappers
  <2> QED
    BY <2>1 DEF Server
<1>2. ASSUME \A t \in Thread : ~Mapping(t)
      PROVE  Server = Main
  <2>1. Mappers = {}
    BY <1>2 DEF Mappers
  <2> QED
    BY <2>1 DEF Server
<1> QED
  BY <1>1, <1>2

\* Every step is a step of the allocator or leaves it alone.
LEMMA AllocatorStep ==
  ASSUME Inv, MapInv, Inv', MapInv', [Next]_vars
  PROVE  [Allocator!Next]_<<Server, returned>>
<1>1. pc \in [Process -> PC] /\ Thread \subseteq Process
  <2>1. pc \in [Process -> PC]
    BY DEF Inv, TypeOK, ThreadTypes
  <2> QED
    BY <2>1, BoundsAssumption
<1>2. ASSUME UNCHANGED returned, \A u \in Thread : Mapping(u)' <=> Mapping(u)
      PROVE  UNCHANGED <<Server, returned>>
  <2>1. Mappers' = Mappers
    BY <1>2 DEF Mappers
  <2> QED
    BY <1>2, <2>1 DEF Server
<1>3. CASE MmapQuiet
  BY <1>2, <1>3 DEF MmapQuiet, MmapSteps
<1>4. ASSUME NEW t \in Thread, MmapStep(t), ~CompareSize(t), ~ClearPauseThreads(t)
      PROVE  UNCHANGED <<Server, returned>>
  <2>1. UNCHANGED returned
    BY <1>4 DEF MmapStep, SyscallMmap, ReloadLastMMAP, BumpLastMMAP, SetPauseThreads,
                LoadNumPaused, MapLoopBegin, MapRegion
  <2>2. CASE MapRegion(t)
    BY <1>2, <2>1, <2>2 DEF MapRegion
  <2>3. CASE SyscallMmap(t) \/ ReloadLastMMAP(t) \/ BumpLastMMAP(t) \/ SetPauseThreads(t)
               \/ LoadNumPaused(t) \/ MapLoopBegin(t)
    <3>1. \A u \in Thread : Mapping(u)' <=> Mapping(u)
      BY <1>1, <2>3 DEF SyscallMmap, ReloadLastMMAP, BumpLastMMAP, SetPauseThreads,
                        LoadNumPaused, MapLoopBegin
    <3> QED
      BY <1>2, <2>1, <3>1
  <2> QED
    BY <1>4, <2>2, <2>3 DEF MmapStep
<1>5. ASSUME NEW t \in Thread, CompareSize(t)
      PROVE  Allocator!Next \/ UNCHANGED <<Server, returned>>
  <2>1. CASE seen[t] # size - 1
    BY <1>1, <1>2, <1>5, <2>1 DEF CompareSize
  <2>2. CASE seen[t] = size - 1
    <3>1. Passed(t) /\ ~Mapping(t) /\ Mapping(t)' /\ UNCHANGED returned
      BY <1>1, <1>5, <2>2 DEF CompareSize, Passed
    <3>2. \A u \in Thread : ~Mapping(u)
      BY <3>1 DEF MapInv, OnePassed, Passed
    <3>3. Server = Main
      BY <3>2, ServerIs
    <3>4. Mappers' = {t}
      BY <3>1 DEF MapInv, OnePassed, Passed, Mappers
    <3>5. Server' = t
      BY <3>4 DEF Server
    <3> QED
      BY <3>1, <3>3, <3>5 DEF Allocator!Next, Allocator!Begin
  <2> QED
    BY <2>1, <2>2
<1>6. ASSUME NEW t \in Thread, ClearPauseThreads(t)
      PROVE  Allocator!Next
  <2>1. /\ Mapping(t) /\ returned' = returned \cup {region[t]}
        /\ pc' = [pc EXCEPT ![t] = "pausecheck"]
    BY <1>6 DEF ClearPauseThreads
  <2>2. InMmap(t) /\ Passed(t)
    BY <2>1 DEF InMmap, MmapSteps, Passed
  <2>3. Server = t
    BY <2>1, ServerIs
  <2>4. \A u \in Thread : ~Mapping(u)'
    BY <1>1, <2>1, <2>2 DEF MapInv, OnePassed, Passed
  <2>5. Server' = Main
    <3>1. Mappers' = {}
      BY <2>4 DEF Mappers
    <3> QED
      BY <3>1 DEF Server
  <2>6. region[t].len > 0
    BY <2>2 DEF MapInv, RegionsNonempty
  <2>7. \A s \in returned : Allocator!Disjoint(region[t], s)
    BY <2>2 DEF MapInv, ReturnedBelow, EndOf, Allocator!Disjoint
  <2>8. Server # Main
    BY <2>3, BoundsAssumption
  <2>9. Allocator!Return(region[t])
    BY <2>1, <2>5, <2>6, <2>7, <2>8 DEF Allocator!Return
  <2> QED
    BY <2>1, <2>9 DEF Allocator!Next
<1> QED
  BY <1>3, <1>2, <1>4, <1>5, <1>6, QuietStep DEF MmapStep

\* With the counter at zero at the start, and for any number of threads and
\* mmap calls in any interleaving, mmap serves one call at a time and returns
\* regions that are disjoint.
THEOREM MmapRefinement == InitialPaused = 0 => (Spec => MmapImplementsAllocator)
<1> SUFFICES ASSUME InitialPaused = 0
             PROVE  Spec => MmapImplementsAllocator
  OBVIOUS
<1>1. Init => Allocator!Init
  <2> SUFFICES ASSUME Init PROVE Allocator!Init
    OBVIOUS
  <2>1. \A t \in Thread : ~Mapping(t)
    BY BoundsAssumption DEF Init
  <2>2. Server = Main
    BY <2>1, MapInvInit, ServerIs
  <2> QED
    BY <2>2 DEF Init, Allocator!Init
<1>2. ASSUME Inv, MapInv, Inv', MapInv', [Next]_vars
      PROVE  [Allocator!Next]_<<Server, returned>>
  BY <1>2, AllocatorStep
<1> QED
  BY <1>1, <1>2, Invariance, MapInvariance, PTL
  DEF Spec, MmapImplementsAllocator, Allocator!Spec

============================================================================
