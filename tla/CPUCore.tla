------------------------------ MODULE CPUCore ------------------------------
(***************************************************************************)
(* The host threads of the emulator (Source/Core/CPU/CPUCore.cpp with the  *)
(* clone, mmap and exit cases of Source/Core/HLE/Syscalls/Syscalls.cpp).   *)
(*                                                                         *)
(* Process 0 is the host's main thread: Core::Load runs InitThread and     *)
(* RunLoop.  Process t > 0 is the std::thread that runs                    *)
(* CPUCore::ExecutionThread for the ThreadState in slot t of the vector    *)
(* Threads.  One step is one access to state that other threads can see:   *)
(* an atomic load, store or read-modify-write, or a critical section.      *)
(* What a guest block computes is left open: a block is one of the things  *)
(* it can do to the emulator's own state, chosen from Program[t].          *)
(***************************************************************************)
EXTENDS Integers, Sequences, FiniteSets

CONSTANTS
  MaxThreads,     \* bound on the ThreadStates ever created
  MaxMaps,        \* bound on the mmap calls of a behaviour
  MmapLens,       \* the byte lengths the guest passes to mmap
  Program,        \* Program[t]: what the guest code of thread t may do
  InitialPaused,  \* what the uninitialised counter NumThreadsPaused holds
  CounterMax      \* largest value of that counter: 2^32 - 1, scaled for TLC

GuestOps == {"mmap", "clone", "exit", "zero", "fault"}

ASSUME BoundsAssumption ==
  /\ MaxThreads \in Nat \ {0}
  /\ MaxMaps \in Nat
ASSUME MmapAssumption == MmapLens \subseteq Nat \ {0}
ASSUME ProgramAssumption == Program \in [1..MaxThreads -> SUBSET GuestOps]
ASSUME CounterAssumption ==
  /\ CounterMax \in Nat
  /\ CounterMax > MaxThreads
  /\ InitialPaused \in 0..CounterMax

VARIABLES
  proc,              \* the host process: "live", "exited" or "crashed"
  pc,                \* control point of every process
  size,              \* Threads.size(); the slots in use are 1..size
  TID,               \* threadmanager.TID of every slot
  lastThreadID,
  CPUThreadLock,     \* owner of the mutex, or NoOne
  child,             \* local threadstate of InitThread and NewThread
  ShouldStart,
  ThreadStop,        \* ThreadState::StopRunning
  StopRunning,       \* CPUCore::StopRunning
  PauseThreads,
  NumThreadsPaused,
  seen,              \* MapRegionOnAll: the count it loaded last
  idx, end,          \* position and end of a range-for over Threads
  LastMMAP,          \* in pages
  region,            \* BasePtr and BaseSize of the mmap call, in pages
  base,              \* the value of LastMMAP that += BaseSize adds to
  MappedRegions,     \* Memmap::MappedRegions
  ucMap,             \* regions mapped in the unicorn engine of every slot
  returned,          \* regions that mmap calls have returned to the guest
  maps               \* mmap calls made, for the bound

threadVars == <<size, TID, lastThreadID, CPUThreadLock, child>>
startVars  == <<ShouldStart, ThreadStop, StopRunning>>
pauseVars  == <<PauseThreads, NumThreadsPaused, seen>>
mmapVars   == <<LastMMAP, region, base, returned, maps>>
engineVars == <<MappedRegions, ucMap>>
iterVars   == <<idx, end>>
vars == <<proc, pc, threadVars, startVars, pauseVars, mmapVars, engineVars,
          iterVars>>

Main == 0
Thread == 1..MaxThreads
Process == Main..MaxThreads
NoOne == MaxThreads + 1

----------------------------------------------------------------------------
(* Control points.  "unborn": the slot has no running std::thread yet.     *)
(* "boot" and "cvwait": the start gate.  "loop": the head of the loop of   *)
(* ExecutionThread.  "pausecheck" to "leave": its tail.  "reload" to       *)
(* "map": SYSCALL_MMAP.  "lock" to "kick": InitThread, or SYSCALL_CLONE.   *)
CloneSteps == {"lock", "emplace", "tid", "setup", "regs", "kick"}
MmapSteps  == {"reload", "bump", "pause", "load", "compare", "begin", "map"}
PauseSteps == {"pausecheck", "enter", "spin", "leave"}
MainSteps  == {"runloop", "deref", "join"}
PC == {"unborn", "boot", "cvwait", "loop", "exited"}
        \cup CloneSteps \cup MmapSteps \cup PauseSteps \cup MainSteps

\* ExecutionThread owns StartRunningMutex from the gate to its return.
HoldsStartMutex(t) == pc[t] \notin {"unborn", "boot", "cvwait", "exited"}

Goto(p, label) == pc' = [pc EXCEPT ![p] = label]

\* The threads that NumThreadsPaused counts: between its ++ and its --.
InWindow(t) == pc[t] \in {"spin", "leave"}
Window == {t \in Thread : InWindow(t)}

\* Threads iterating over Threads in MapRegionOnAll.
Mapping(t) == pc[t] \in {"begin", "map"}

\* Clone calls that have not yet emplaced their ThreadState.
Pending == {p \in Process : pc[p] \in {"lock", "emplace"}}

\* Faulty variant: the counter saturates.
IncrementSaturating(n) == IF n = CounterMax THEN n ELSE n + 1
\* std::atomic<uint32_t>::operator++ and operator--.
Increment(n) == IF n = CounterMax THEN 0 ELSE n + 1
Decrement(n) == IF n = 0 THEN CounterMax ELSE n - 1

PAGE_SIZE == 4096
MMAP_BASE == 851968   \* 0xd0000000, in pages

\* Faulty variant: a wrong sign, rounding below zero.
AlignUpSignSlip(value) == (value - PAGE_SIZE + 1) \div PAGE_SIZE
\* AlignUp(value, PAGE_SIZE), counted in pages.
AlignUp(value) == (value + PAGE_SIZE - 1) \div PAGE_SIZE

Region == [off : Nat, len : Nat]
Overlap(r, s) == r.off < s.off + s.len /\ s.off < r.off + r.len

\* The entry AllocateSHMRegion(1ULL << 33) leaves in MappedRegions, and the
\* image (of a static executable), stack and FS page that InitThread maps.
SHMRegion   == [off |-> 0, len |-> 2097152]
ImageRegion == [off |-> 1024, len |-> 512]
StackRegion == [off |-> 786432, len |-> 2048]
FSRegion    == [off |-> 720896, len |-> 1]

\* uc_mem_map_ptr refuses a region that overlaps a mapped one.
UcMemMap(mapped, r) ==
  IF \E s \in mapped : Overlap(r, s) THEN mapped ELSE mapped \cup {r}

\* NewThread maps a copy of MappedRegions, in its order, into an empty engine:
\* a region that overlaps an earlier one is refused.  (The first region is
\* never refused, and it is the whole SHM.)
UcMapAll(regions) ==
  {regions[i] : i \in {k \in DOMAIN regions :
                         \A j \in 1..(k - 1) : ~Overlap(regions[k], regions[j])}}

\* A vector of n elements grown by emplace_back has the storage of the least
\* power of two; storage that has been replaced is freed.
Capacity(n) == CHOOSE c \in {2^k : k \in 0..n} : n <= c /\ c < 2 * n
Moved(n) == Capacity(size) # Capacity(n)

----------------------------------------------------------------------------
(* Faulty variants of the actions below, one plausible slip each.  They    *)
(* are no part of Next: replacing the action by its variant must make TLC  *)
(* find the property that the action is needed for violated.               *)

\* NewThread without CPUThreadLock.
LockThreadsUnlocked(p) ==
  /\ pc[p] = "lock"
  /\ CPUThreadLock' = p
  /\ Goto(p, "emplace")
  /\ UNCHANGED <<proc, size, TID, lastThreadID, child, startVars, pauseVars,
                 mmapVars, engineVars, iterVars>>

\* ShouldStart starts out true.
StartThreadOpenGate(p) ==
  LET c == child[p] IN
  /\ pc[p] = "setup"
  /\ ShouldStart' = [ShouldStart EXCEPT ![c] = TRUE]
  /\ pc' = [pc EXCEPT ![p] = IF p = Main THEN "kick" ELSE "regs",
                      ![c] = "boot"]
  /\ UNCHANGED <<proc, ThreadStop, StopRunning, threadVars, pauseVars,
                 mmapVars, engineVars, iterVars>>

\* ShouldStart is set without notify_all.
KickThreadSilently(p) ==
  LET c == child[p] IN
  /\ pc[p] = "kick"
  /\ ~HoldsStartMutex(c)
  /\ ShouldStart' = [ShouldStart EXCEPT ![c] = TRUE]
  /\ Goto(p, IF p = Main THEN "runloop" ELSE "pausecheck")
  /\ UNCHANGED <<proc, ThreadStop, StopRunning, threadVars, pauseVars,
                 mmapVars, engineVars, iterVars>>

\* RunLoop goes on without waiting for the thread.
RunLoopDetach ==
  /\ pc[Main] = "join"
  /\ idx' = [idx EXCEPT ![Main] = @ + 1]
  /\ Goto(Main, "deref")
  /\ UNCHANGED <<proc, end, threadVars, startVars, pauseVars, mmapVars,
                 engineVars>>

\* The loop condition of ExecutionThread forgets the global flag.
LoopContinuesOwnFlagOnly(t) == pc[t] = "loop" /\ ~ThreadStop[t]

\* LastMMAP advances by one page whatever the length.
BumpLastMMAPOnePage(t) ==
  /\ pc[t] = "bump"
  /\ LastMMAP' = base[t] + 1
  /\ Goto(t, "pause")
  /\ UNCHANGED <<proc, region, base, returned, maps, threadVars, startVars,
                 pauseVars, engineVars, iterVars>>

\* One thread too few is waited for.
CompareSizeTooFew(t) ==
  /\ pc[t] = "compare"
  /\ Goto(t, IF seen[t] >= size - 2 THEN "begin" ELSE "load")
  /\ UNCHANGED <<proc, threadVars, startVars, pauseVars, mmapVars, engineVars,
                 iterVars>>

\* The caller waits for itself.
CompareSizeTooMany(t) ==
  /\ pc[t] = "compare"
  /\ Goto(t, IF seen[t] = size THEN "begin" ELSE "load")
  /\ UNCHANGED <<proc, threadVars, startVars, pauseVars, mmapVars, engineVars,
                 iterVars>>

\* The region goes into the caller's engine only.
MapRegionOnCaller(t) ==
  /\ pc[t] = "map"
  /\ idx[t] <= end[t]
  /\ MappedRegions' = Append(MappedRegions, region[t])
  /\ ucMap' = [ucMap EXCEPT ![t] = UcMemMap(@, region[t])]
  /\ idx' = [idx EXCEPT ![t] = @ + 1]
  /\ UNCHANGED <<proc, pc, end, threadVars, startVars, pauseVars, mmapVars>>

\* A paused thread does not wait for PauseThreads to be cleared.
SpinNotAtAll(t) ==
  /\ pc[t] = "spin"
  /\ Goto(t, "leave")
  /\ UNCHANGED <<proc, threadVars, startVars, pauseVars, mmapVars, engineVars,
                 iterVars>>

\* A thread that is about to stop leaves without the decrement.
LeavePauseWhenStopped(t) ==
  /\ pc[t] = "leave"
  /\ NumThreadsPaused' = IF ThreadStop[t] THEN NumThreadsPaused
                                          ELSE Decrement(NumThreadsPaused)
  /\ Goto(t, "loop")
  /\ UNCHANGED <<proc, PauseThreads, seen, threadVars, startVars, mmapVars,
                 engineVars, iterVars>>

----------------------------------------------------------------------------
Init ==
  /\ proc = "live"
  /\ pc = [p \in Process |-> IF p = Main THEN "lock" ELSE "unborn"]
  /\ size = 0
  /\ TID = [t \in Thread |-> 1]
  /\ lastThreadID = 0
  /\ CPUThreadLock = NoOne
  /\ child = [p \in Process |-> 0]
  /\ ShouldStart = [t \in Thread |-> FALSE]
  /\ ThreadStop = [t \in Thread |-> FALSE]
  /\ StopRunning = FALSE
  /\ PauseThreads = FALSE
  /\ NumThreadsPaused = InitialPaused
  /\ seen = [t \in Thread |-> 0]
  /\ idx = [p \in Process |-> 0]
  /\ end = [p \in Process |-> 0]
  /\ LastMMAP = MMAP_BASE
  /\ region = [t \in Thread |-> [off |-> 0, len |-> 0]]
  /\ base = [t \in Thread |-> 0]
  /\ MappedRegions = <<SHMRegion>>
  /\ ucMap = [t \in Thread |-> {}]
  /\ returned = {}
  /\ maps = 0

----------------------------------------------------------------------------
(* InitThread and NewThread: the part they share.                          *)

LockThreads(p) ==
  /\ pc[p] = "lock"
  /\ CPUThreadLock = NoOne
  /\ CPUThreadLock' = p
  /\ Goto(p, "emplace")
  /\ UNCHANGED <<proc, size, TID, lastThreadID, child, startVars, pauseVars,
                 mmapVars, engineVars, iterVars>>

EmplaceThread(p) ==
  /\ pc[p] = "emplace"
  /\ size' = size + 1
  /\ child' = [child EXCEPT ![p] = size + 1]
  /\ Goto(p, "tid")
  /\ UNCHANGED <<proc, TID, lastThreadID, CPUThreadLock, startVars, pauseVars,
                 mmapVars, engineVars, iterVars>>

\* TID = ++lastThreadID, then the lock_guard goes out of scope.
AssignTID(p) ==
  /\ pc[p] = "tid"
  /\ lastThreadID' = lastThreadID + 1
  /\ TID' = [TID EXCEPT ![child[p]] = lastThreadID + 1]
  /\ CPUThreadLock' = NoOne
  /\ Goto(p, "setup")
  /\ UNCHANGED <<proc, size, child, startVars, pauseVars, mmapVars,
                 engineVars, iterVars>>

\* From the constructor of ThreadState to the start of std::thread in one step.
\* The fields are private until then, except for the engine: it is open before
\* the regions are copied, and a MapRegionOnAll that meets it in between would
\* map in it, where MapOne has the process end.
\* InitThread maps image, stack and FS page; NewThread what the emulator has
\* mapped so far.
StartThread(p) ==
  LET c == child[p] IN
  /\ pc[p] = "setup"
  /\ ShouldStart' = [ShouldStart EXCEPT ![c] = FALSE]
  /\ ThreadStop' = [ThreadStop EXCEPT ![c] = FALSE]
  /\ IF p = Main
       THEN /\ MappedRegions' =
                  MappedRegions \o <<ImageRegion, StackRegion, FSRegion>>
            /\ ucMap' =
                  [ucMap EXCEPT ![c] = {ImageRegion, StackRegion, FSRegion}]
       ELSE /\ ucMap' = [ucMap EXCEPT ![c] = UcMapAll(MappedRegions)]
            /\ UNCHANGED MappedRegions
  /\ pc' = [pc EXCEPT ![p] = IF p = Main THEN "kick" ELSE "regs",
                      ![c] = "boot"]
  /\ UNCHANGED <<proc, StopRunning, threadVars, pauseVars, mmapVars, iterVars>>

\* Back in SYSCALL_CLONE: RBX, RBP and *parent_tidptr are stored.
FinishClone(p) ==
  /\ pc[p] = "regs"
  /\ Goto(p, "kick")
  /\ UNCHANGED <<proc, threadVars, startVars, pauseVars, mmapVars, engineVars,
                 iterVars>>

\* ShouldStart is set and notify_all called under the child's
\* StartRunningMutex.  A notified thread has to take the mutex and test the
\* predicate again, as a booting one does.
KickThread(p) ==
  LET c == child[p] IN
  /\ pc[p] = "kick"
  /\ ~HoldsStartMutex(c)
  /\ ShouldStart' = [ShouldStart EXCEPT ![c] = TRUE]
  /\ pc' = [pc EXCEPT ![p] = IF p = Main THEN "runloop" ELSE "pausecheck",
                      ![c] = IF pc[c] = "cvwait" THEN "boot" ELSE pc[c]]
  /\ UNCHANGED <<proc, ThreadStop, StopRunning, threadVars, pauseVars,
                 mmapVars, engineVars, iterVars>>

----------------------------------------------------------------------------
(* RunLoop, and the return of main after it.                               *)

RunLoopBegin ==
  /\ pc[Main] = "runloop"
  /\ idx' = [idx EXCEPT ![Main] = 1]
  /\ end' = [end EXCEPT ![Main] = size]
  /\ Goto(Main, "deref")
  /\ UNCHANGED <<proc, threadVars, startVars, pauseVars, mmapVars, engineVars>>

\* Reading the next element through an iterator into freed storage, or
\* joining a std::thread that has not been started, ends the process.
RunLoopDeref ==
  /\ pc[Main] = "deref"
  /\ idx[Main] <= end[Main]
  /\ IF Moved(end[Main]) \/ pc[idx[Main]] = "unborn"
       THEN proc' = "crashed" /\ UNCHANGED pc
       ELSE Goto(Main, "join") /\ UNCHANGED proc
  /\ UNCHANGED <<threadVars, startVars, pauseVars, mmapVars, engineVars,
                 iterVars>>

RunLoopJoin ==
  /\ pc[Main] = "join"
  /\ pc[idx[Main]] = "exited"
  /\ idx' = [idx EXCEPT ![Main] = @ + 1]
  /\ Goto(Main, "deref")
  /\ UNCHANGED <<proc, end, threadVars, startVars, pauseVars, mmapVars,
                 engineVars>>

RunLoopReturn ==
  /\ pc[Main] = "deref"
  /\ idx[Main] > end[Main]
  /\ proc' = "exited"
  /\ UNCHANGED <<pc, threadVars, startVars, pauseVars, mmapVars, engineVars,
                 iterVars>>

----------------------------------------------------------------------------
(* ExecutionThread: the start gate.                                        *)

\* Take StartRunningMutex and test the predicate; waiting releases the mutex.
TestShouldStart(t) ==
  /\ pc[t] = "boot"
  /\ Goto(t, IF ShouldStart[t] THEN "loop" ELSE "cvwait")
  /\ UNCHANGED <<proc, threadVars, startVars, pauseVars, mmapVars, engineVars,
                 iterVars>>

SpuriousWakeup(t) ==
  /\ pc[t] = "cvwait"
  /\ Goto(t, "boot")
  /\ UNCHANGED <<proc, threadVars, startVars, pauseVars, mmapVars, engineVars,
                 iterVars>>

----------------------------------------------------------------------------
(* ExecutionThread: the loop.  Its condition is tested together with the   *)
(* start of the block, which touches nothing shared before its own step.   *)

LoopContinues(t) == pc[t] = "loop" /\ ~StopRunning /\ ~ThreadStop[t]

LeaveLoop(t) ==
  /\ pc[t] = "loop"
  /\ StopRunning \/ ThreadStop[t]
  /\ Goto(t, "exited")
  /\ UNCHANGED <<proc, threadVars, startVars, pauseVars, mmapVars, engineVars,
                 iterVars>>

\* A block, or one instruction under unicorn, without effect on this state.
RunBlock(t) ==
  /\ LoopContinues(t)
  /\ Goto(t, "pausecheck")
  /\ UNCHANGED <<proc, threadVars, startVars, pauseVars, mmapVars, engineVars,
                 iterVars>>

\* rip is zero after the block: break, without the pause check.
HitZero(t) ==
  /\ LoopContinues(t)
  /\ "zero" \in Program[t]
  /\ StopRunning' = (StopRunning \/ TID[t] = 1)
  /\ Goto(t, "exited")
  /\ UNCHANGED <<proc, ShouldStart, ThreadStop, threadVars, pauseVars,
                 mmapVars, engineVars, iterVars>>

\* An unknown encoding, an error of uc_emu_start or an unknown arch_prctl.
StopOnFault(t) ==
  /\ LoopContinues(t)
  /\ "fault" \in Program[t]
  /\ StopRunning' = TRUE
  /\ Goto(t, "pausecheck")
  /\ UNCHANGED <<proc, ShouldStart, ThreadStop, threadVars, pauseVars,
                 mmapVars, engineVars, iterVars>>

SyscallExit(t) ==
  /\ LoopContinues(t)
  /\ "exit" \in Program[t]
  /\ ThreadStop' = [ThreadStop EXCEPT ![t] = TRUE]
  /\ Goto(t, "pausecheck")
  /\ UNCHANGED <<proc, ShouldStart, StopRunning, threadVars, pauseVars,
                 mmapVars, engineVars, iterVars>>

\* The guard on the number of ThreadStates is the bound MaxThreads.
SyscallClone(t) ==
  /\ LoopContinues(t)
  /\ "clone" \in Program[t]
  /\ size + Cardinality(Pending) < MaxThreads
  /\ Goto(t, "lock")
  /\ UNCHANGED <<proc, threadVars, startVars, pauseVars, mmapVars, engineVars,
                 iterVars>>

----------------------------------------------------------------------------
(* SYSCALL_MMAP and MapRegionOnAll.                                        *)

\* BasePtr and BaseSize are computed from an unlocked read of LastMMAP.  The
\* build sets no optimisation level, so += BaseSize loads it a second time.
SyscallMmap(t) ==
  /\ LoopContinues(t)
  /\ "mmap" \in Program[t]
  /\ maps < MaxMaps
  /\ maps' = maps + 1
  /\ \E length \in MmapLens :
       region' = [region EXCEPT
                    ![t] = [off |-> LastMMAP, len |-> AlignUp(length)]]
  /\ Goto(t, "reload")
  /\ UNCHANGED <<proc, LastMMAP, base, returned, threadVars, startVars,
                 pauseVars, engineVars, iterVars>>

ReloadLastMMAP(t) ==
  /\ pc[t] = "reload"
  /\ base' = [base EXCEPT ![t] = LastMMAP]
  /\ Goto(t, "bump")
  /\ UNCHANGED <<proc, LastMMAP, region, returned, maps, threadVars, startVars,
                 pauseVars, engineVars, iterVars>>

BumpLastMMAP(t) ==
  /\ pc[t] = "bump"
  /\ LastMMAP' = base[t] + region[t].len
  /\ Goto(t, "pause")
  /\ UNCHANGED <<proc, region, base, returned, maps, threadVars, startVars,
                 pauseVars, engineVars, iterVars>>

SetPauseThreads(t) ==
  /\ pc[t] = "pause"
  /\ PauseThreads' = TRUE
  /\ Goto(t, "load")
  /\ UNCHANGED <<proc, NumThreadsPaused, seen, threadVars, startVars, mmapVars,
                 engineVars, iterVars>>

\* The loop condition loads the counter first and Threads.size() second.
LoadNumPaused(t) ==
  /\ pc[t] = "load"
  /\ seen' = [seen EXCEPT ![t] = NumThreadsPaused]
  /\ Goto(t, "compare")
  /\ UNCHANGED <<proc, PauseThreads, NumThreadsPaused, threadVars, startVars,
                 mmapVars, engineVars, iterVars>>

CompareSize(t) ==
  /\ pc[t] = "compare"
  /\ Goto(t, IF seen[t] = size - 1 THEN "begin" ELSE "load")
  /\ UNCHANGED <<proc, threadVars, startVars, pauseVars, mmapVars, engineVars,
                 iterVars>>

MapLoopBegin(t) ==
  /\ pc[t] = "begin"
  /\ idx' = [idx EXCEPT ![t] = 1]
  /\ end' = [end EXCEPT ![t] = size]
  /\ Goto(t, "map")
  /\ UNCHANGED <<proc, threadVars, startVars, pauseVars, mmapVars, engineVars>>

\* MapRegion(Threads[idx], ...): Memmap::MapRegion, then the engine.  A moved
\* vector or a ThreadState whose engine is not open yet ends the process.
MapRegion(t) ==
  /\ pc[t] = "map"
  /\ idx[t] <= end[t]
  /\ IF Moved(end[t]) \/ pc[idx[t]] = "unborn"
       THEN proc' = "crashed" /\ UNCHANGED <<engineVars, idx>>
       ELSE /\ MappedRegions' = Append(MappedRegions, region[t])
            /\ ucMap' = [ucMap EXCEPT ![idx[t]] = UcMemMap(@, region[t])]
            /\ idx' = [idx EXCEPT ![t] = @ + 1]
            /\ UNCHANGED proc
  /\ UNCHANGED <<pc, end, threadVars, startVars, pauseVars, mmapVars>>

ClearPauseThreads(t) ==
  /\ pc[t] = "map"
  /\ idx[t] > end[t]
  /\ PauseThreads' = FALSE
  /\ returned' = returned \cup {region[t]}
  /\ Goto(t, "pausecheck")
  /\ UNCHANGED <<proc, NumThreadsPaused, seen, LastMMAP, region, base, maps,
                 threadVars, startVars, engineVars, iterVars>>

----------------------------------------------------------------------------
(* The pause check at the tail of the loop of ExecutionThread.             *)

PauseCheck(t) ==
  /\ pc[t] = "pausecheck"
  /\ Goto(t, IF PauseThreads THEN "enter" ELSE "loop")
  /\ UNCHANGED <<proc, threadVars, startVars, pauseVars, mmapVars, engineVars,
                 iterVars>>

EnterPause(t) ==
  /\ pc[t] = "enter"
  /\ NumThreadsPaused' = Increment(NumThreadsPaused)
  /\ Goto(t, "spin")
  /\ UNCHANGED <<proc, PauseThreads, seen, threadVars, startVars, mmapVars,
                 engineVars, iterVars>>

SpinUntilResumed(t) ==
  /\ pc[t] = "spin"
  /\ ~PauseThreads
  /\ Goto(t, "leave")
  /\ UNCHANGED <<proc, threadVars, startVars, pauseVars, mmapVars, engineVars,
                 iterVars>>

LeavePause(t) ==
  /\ pc[t] = "leave"
  /\ NumThreadsPaused' = Decrement(NumThreadsPaused)
  /\ Goto(t, "loop")
  /\ UNCHANGED <<proc, PauseThreads, seen, threadVars, startVars, mmapVars,
                 engineVars, iterVars>>

----------------------------------------------------------------------------
CreateStep(p) ==
  \/ LockThreads(p) \/ EmplaceThread(p) \/ AssignTID(p) \/ StartThread(p)
  \/ FinishClone(p) \/ KickThread(p)

RunLoopStep == RunLoopBegin \/ RunLoopDeref \/ RunLoopJoin \/ RunLoopReturn

MainStep == CreateStep(Main) \/ RunLoopStep

BlockStep(t) ==
  \/ LeaveLoop(t) \/ RunBlock(t) \/ HitZero(t) \/ StopOnFault(t)
  \/ SyscallExit(t) \/ SyscallClone(t)

MmapStep(t) ==
  \/ SyscallMmap(t) \/ ReloadLastMMAP(t) \/ BumpLastMMAP(t)
  \/ SetPauseThreads(t) \/ LoadNumPaused(t) \/ CompareSize(t)
  \/ MapLoopBegin(t) \/ MapRegion(t) \/ ClearPauseThreads(t)

PauseStep(t) ==
  PauseCheck(t) \/ EnterPause(t) \/ SpinUntilResumed(t) \/ LeavePause(t)

ThreadStep(t) ==
  \/ CreateStep(t) \/ TestShouldStart(t) \/ BlockStep(t) \/ MmapStep(t)
  \/ PauseStep(t)

Running == proc = "live" /\ (MainStep \/ \E t \in Thread : ThreadStep(t))

\* The standard lets a wait return without a notification.
Spurious == proc = "live" /\ \E t \in Thread : SpuriousWakeup(t)

\* The process is over.
Over == proc # "live" /\ UNCHANGED vars

Next == Running \/ Spurious \/ Over

Spec == Init /\ [][Next]_vars

\* The host scheduler runs every thread that can run; a spurious wakeup is
\* never owed.
Fairness ==
  /\ WF_vars(proc = "live" /\ MainStep)
  /\ \A t \in Thread : WF_vars(proc = "live" /\ ThreadStep(t))

FairSpec == Spec /\ Fairness

----------------------------------------------------------------------------
(* Properties.                                                             *)

ThreadTypes ==
  /\ proc \in {"live", "exited", "crashed"}
  /\ pc \in [Process -> PC]
  /\ size \in 0..MaxThreads
  /\ TID \in [Thread -> Nat]
  /\ lastThreadID \in Nat
  /\ CPUThreadLock \in Process \cup {NoOne}
  /\ child \in [Process -> 0..MaxThreads]
  /\ idx \in [Process -> Nat]
  /\ end \in [Process -> Nat]

FlagTypes ==
  /\ ShouldStart \in [Thread -> BOOLEAN]
  /\ ThreadStop \in [Thread -> BOOLEAN]
  /\ StopRunning \in BOOLEAN
  /\ PauseThreads \in BOOLEAN

PauseTypes ==
  /\ NumThreadsPaused \in 0..CounterMax
  /\ seen \in [Thread -> 0..CounterMax]

MemoryTypes ==
  /\ LastMMAP \in Nat
  /\ region \in [Thread -> Region]
  /\ base \in [Thread -> Nat]
  /\ MappedRegions \in Seq(Region)
  /\ ucMap \in [Thread -> SUBSET Region]
  /\ returned \in SUBSET Region
  /\ maps \in 0..MaxMaps

\* Every variable stays in its type; in particular the number of ThreadStates,
\* the counter of paused threads and the lengths of mmap regions stay in range.
TypeOK == ThreadTypes /\ FlagTypes /\ PauseTypes /\ MemoryTypes

\* NumThreadsPaused is, modulo its width, what the uninitialised counter held
\* plus the number of threads between its increment and its decrement
\* (ExecutionThread), whatever the threads do.
PausedCount ==
  LET n == InitialPaused + Cardinality(Window) IN
  NumThreadsPaused = IF n > CounterMax THEN n - CounterMax - 1 ELSE n

\* When the counter starts at zero, no two threads are past the spin loop of
\* MapRegionOnAll at once, although PauseThreads is a plain flag that any
\* number of mmap calls may set and clear.
MapperAlone ==
  InitialPaused = 0 =>
    \A t, u \in Thread : Mapping(t) /\ Mapping(u) => t = u

\* During the first mapping every other thread of Threads spins in the pause
\* check, so that no engine is changed under a running thread, and Threads
\* itself does not change.
FirstMappingQuiescent ==
  \A t \in Thread :
    InitialPaused = 0 /\ maps = 1 /\ Mapping(t) =>
      /\ \A u \in 1..size : u # t => pc[u] = "spin"
      /\ pc[t] = "map" => end[t] = size

\* A region mmap has returned is mapped in the engine of every thread that
\* can run, the threads created before, during and after the call, as long as
\* the region lies in the file of AllocateSHMRegion.  (LastMMAP has no limit:
\* an engine that has the whole file refuses a region across its end.)
EngineSeesRegions ==
  InitialPaused = 0 =>
    \A r \in returned, t \in Thread :
      r.off + r.len <= SHMRegion.len /\ pc[t] # "unborn" =>
        \E s \in ucMap[t] : s.off <= r.off /\ r.off + r.len <= s.off + s.len

\* A thread runs guest code only when the InitThread or clone that created it
\* has finished with its ThreadState: RBX, RBP and *parent_tidptr are written
\* and ShouldStart is set.
StartGate ==
  \A t \in Thread :
    HoldsStartMutex(t) =>
      /\ ShouldStart[t]
      /\ \A p \in Process : pc[p] \in {"tid", "setup", "regs", "kick"} =>
                              child[p] # t

\* A ThreadState past NewThread's critical section has its slot number as
\* TID; so TIDs are unique, and TID 1, which stops the machine when its rip
\* reaches zero, is the initial thread.
TIDIsSlot == \A t \in Thread : pc[t] # "unborn" => TID[t] = t

\* RunLoop never joins a ThreadState whose std::thread is still unassigned:
\* every thread is started by one in an earlier slot, which was joined first.
JoinStarted ==
  pc[Main] = "deref" /\ idx[Main] <= end[Main] => pc[idx[Main]] # "unborn"

\* Every clone gets its child through the start gate, unless the process
\* ends first: the notification cannot be lost.
CloneStarts ==
  \A t \in Thread :
    (pc[t] = "boot") ~> (HoldsStartMutex(t) \/ pc[t] = "exited" \/ proc # "live")

\* An mmap call returns, unless the process ends first.
MmapReturns ==
  \A t \in Thread :
    (pc[t] = "reload") ~> (pc[t] = "pausecheck" \/ proc # "live")

\* Once StopRunning is set, by thread 1 reaching rip 0 or by a fault, RunLoop
\* returns, with two exceptions.  Threads may have moved under its iterators:
\* then the process ends when it reads through them.  And a thread may be in
\* the spin loop of MapRegionOnAll: it waits for a thread that has left, and
\* RunLoop waits for it, for ever.  (So does a thread in FUTEX_WAIT, which is
\* not in this module.)
Dangling == proc = "crashed" /\ Moved(end[Main])
Spinning == \E t \in Thread : pc[t] \in {"load", "compare"}
StopEndsProcess == StopRunning ~> (proc = "exited" \/ Dangling \/ []Spinning)

\* mmap implements the allocator that serves one call at a time and returns
\* disjoint regions, although LastMMAP is read and written without a lock.
Mappers == {t \in Thread : Mapping(t)}
Server == IF Mappers = {} THEN Main ELSE CHOOSE t \in Mappers : TRUE
Allocator == INSTANCE RegionAllocator
               WITH Client <- Thread, Nobody <- Main,
                    server <- Server, issued <- returned
MmapImplementsAllocator == Allocator!Spec

============================================================================
