# A TLA+ model of X86Emu

X86Emu runs x86-64 Linux programs.  It decodes guest code into blocks of an
intermediate representation (IR), compiles the blocks with LLVM, executes what
it cannot translate one instruction at a time in the unicorn emulator, and
serves the guest's system calls itself.  Every guest thread is a host thread.

This directory holds TLA+ modules translated from the sources under `src/`,
TLC configurations that check them on small instances, and proofs for TLAPS.
`PROJECT.json` maps every definition to the lines it models.

## Inventory

| Component | State | Operations | Interacts with |
|---|---|---|---|
| Thread life cycle (`CPU/CPUCore.*`) | `Threads`, `lastThreadID`, `CPUThreadLock`; per thread `ShouldStart`, `StopRunning`, `StartRunningMutex`, TID; global `StopRunning` | `InitThread`, `NewThread`, `ExecutionThread`, `RunLoop` | clone and exit call it; it runs blocks and unicorn |
| Pausing and mapping (`CPUCore::MapRegionOnAll`, `Memmap.*`, mmap, brk) | `PauseThreads`, `NumThreadsPaused`, `LastMMAP`, `MappedRegions`, the mappings of each unicorn engine, `dataspace`, `dataspacesize` | `MapRegion`, `MapRegionOnAll`, the pause check of `ExecutionThread`, mmap, brk | every thread spins for the mapper; NewThread copies `MappedRegions` |
| Futex and exit (`HLE/Syscalls/Syscalls.*`) | the map `Futexes` under `FutexMutex`, leaked `Futex` objects, `child_tid`, the guest's words | FUTEX_WAIT, FUTEX_WAKE, exit, set_tid_address | threads wait for and wake each other |
| Block compiler and caches (`CPUCore::CompileBlock`, `BlockCache.h`) | per thread `irlists`, `blockcache`, the working IR list, `DecodeFailure`, `JITRIP` | `CompileBlock`, `FindBlock`, `AddBlockMapping`, `FallbackToUnicorn` | decoder, dispatcher, backend |
| x86 decoder (`CPU/X86Tables.*`) | three tables filled once | `InitializeInfoTables`, `GetInstInfo` | called by CompileBlock |
| Opcode dispatcher (`CPU/OpcodeDispatch.*`) | the working IR list | one handler for each opcode, the flag helpers | called by CompileBlock, emits IR |
| IR list (`CPU/IR.*`, `IntrusiveIRList.h`) | a byte vector and `CurrentOffset` | `AllocateOp`, copy, `Reset`, `Dump` | written by the dispatcher, read by the backends |
| Backends (`InterpreterBackend`, `LLVMBackend`, `AArch64Backend`) | LLVM: builder, `JumpTargets`, `BlockJumpTargets`, `BlockStack`, all shared by the threads | `CompileCode` | act on the guest's registers, call system calls |
| System call dispatch (`Syscalls.cpp`) | none of its own | `HandleSyscall` | called from compiled blocks |
| File management (`FileManagement.*`) | `FDs`, `FDMap`, `CurrentFDOffset` | read, write, openat, fstat, ... | host files |
| Core, host interface, test harness, boot loader, pass manager | little | start-up | |

What is hard in this code, with the line where it bites, is the list `hazards`
of `PROJECT.json`.  In short: threads create threads while others iterate over
the vector of threads; a mapper stops the world with one flag and one counter
that nobody initialises; mmap's bump pointer has no lock; a new thread runs
before its creator is done with it; futex notifications are sent without the
mutex; map entries of futexes are overwritten; one LLVM backend serves all
threads; a failing handler leaves IR behind; the length of an instruction is
added up from parts that depend on each other; flags are merged by hand; brk
maps in one engine only; the descriptor table points into a vector that moves.

What makes the components correct:

* life cycle: a thread runs no guest code before its ThreadState is complete,
  every clone starts, TIDs are the slots, the process ends when it is stopped;
* mapping: one mapper at a time, the others are paused, every engine sees every
  region, regions are disjoint, the call returns;
* futex: a waiter can be found, and is woken when its word has changed;
* compiler: a program runs as if instruction by instruction, whatever is
  compiled, cached or left to unicorn;
* decoder, dispatcher, backends: sizes, registers, flags and control agree with
  the architecture and with each other;
* memory: an address is one page for everyone, and what one thread is given all
  threads see;
* files: a descriptor leads to the file it was opened for.

## Modules

| Module | What it is |
|---|---|
| `CPUCore` | the host threads: `InitThread`, `NewThread`, `ExecutionThread`, `RunLoop`, `MapRegionOnAll`, and the clone, mmap and exit cases of `HandleSyscall` |
| `RegionAllocator` | abstract: serves one mmap call at a time, with disjoint regions |
| `CPUCoreProofs` | theorems about `CPUCore`, and that it implements `RegionAllocator` |
| `CPUCoreOrderProofs` | theorems on the order of creation and joins, the first mapping and the engines; extends `CPUCoreProofs` |
| `Futex` | FUTEX_WAIT, FUTEX_WAKE, set_tid_address and exit |
| `FutexProofs` | theorems about `Futex` |
| `BlockCompiler` | one guest thread: the loop of `ExecutionThread`, `CompileBlock`, the two caches, the run of a block, `FallbackToUnicorn` |
| `GuestMachine` | abstract: executes one instruction at a time |
| `BlockCompilerProofs` | theorems about `BlockCompiler`, and that it implements `GuestMachine` |
| `X86Tables` | encodings, the decoder's tables, the opcodes with a handler, and for those the entry, flags and size that `GetInstInfo` returns and the lengths of the architecture |
| `Decoder` | `GetInstInfo`, extends `X86Tables` |
| `DecoderProofs` | theorems about `Decoder` |
| `Translation` | one block from guest code to its effect: every handler, the operations of the IR, what the LLVM backend makes of them; extends `X86Tables` |
| `TranslationProofs` | theorems about `Translation` |
| `GuestMemory` | the shared memory file, its mappings in the host and in the engines, brk, mmap and clone |
| `GuestMemoryProofs` | theorems about `GuestMemory` |
| `FileManager` | the table of guest descriptors and the file calls |
| `FileManagerProofs` | theorems about `FileManager` |
| `MC...` | constants for TLC |

### CPUCore

Process 0 is the host's main thread; process t is the `std::thread` of the
`ThreadState` in slot t of `Threads`.  A step is one access to what other
threads can see: an atomic operation or a critical section.  `NumThreadsPaused++`
is one step; the comparison in the spin loop of `MapRegionOnAll` is two
(`LoadNumPaused`, `CompareSize`: the counter first, as the compilers in use do;
C++ leaves the order open); `LastMMAP += BaseSize` is a read and a write
(`ReloadLastMMAP`, `BumpLastMMAP`).  The start gate is `TestShouldStart`, with
`SpuriousWakeup`.  `RunLoop` walks the vector with an end that is fixed at the
start; when the vector has moved since, reading the next element crashes.  A guest
block is whatever it can do to the emulator's own state, chosen from
`Program[t]`: nothing, mmap, clone, exit, reaching rip 0, or a fault in unicorn.
Pages stand for addresses.  `InitialPaused` is what the uninitialised counter
holds; `CounterMax` scales its 32 bits.

### Futex

One step is one operation on `FutexMutex`, on the map, or on a condition
variable.  `WaitTest` (the predicate) and `WaitEnqueue` (the thread is in the
queue of the condition variable) are separate, because whoever notifies does
not hold the waiter's mutex.  Looking up a word that is not in the map gives
null: a WAKE then dereferences it (`WakeNull`), while exit tests for it.

### BlockCompiler

`code` is the program, `rip` and `data` the `CPUState`; `irlists`, `blockcache`,
`IRList`, `DecodeFailure`, `Length` and `Count` are the code's own.  What a
handler emits is one operation that carries its address, after a "pure" one
that stands for the marker; a failing handler leaves "pure" ones, as the code
does (every handler tests `DecodeFailure` before it stores anything).  `arch` is
the rip of the architecture: `CPUState.rip` keeps the address of the block while
the block runs, and is brought up to date by its end.  `clones` records where
clone calls were made and which rip the child got.

The module takes for granted: what the translation of one instruction computes,
the decoder's sizes, code that is not modified, the initial thread (the blocks
of other threads act on its `CPUState`), and that the backend does not refuse a
block that begins with a system call.  The block at 0x402350, the only one in
which the code translates conditional jumps, is left out.

### X86Tables and Decoder

An encoding is its prefixes, REX, the map and the opcode, and the two bytes after
the opcode; `GetInstInfo` looks at no other byte.  A table is a function from
opcodes to entries.  BaseOps has 255 entries and is read and filled at 255:
`slot255` is where that entry lies (memory of its own, the first entry of
SecondBaseOps, or memory that others write).  SecondBaseOps is read past its end
too, for `0F FF`, which has no handler; what lies there has type TYPE_UNKNOWN.  A
step is one pass of the loop at `OnceMore`, and `NormalOp` the lambda of that name.

`InstInfo`, `MODRM`, `SIB`, `OPSIZE`, `LOCK`, `SizeOf`, `Found` and `Escaped` of
`X86Tables` say of an encoding as a whole what the loop finds byte by byte.
`Translation` is written with them, and `DecodesAs` says that they are what the
loop ends with, for every encoding of an opcode that has a handler.

`LengthWhenTranslated` is about instructions with a handler, without LOCK, and
`Plain`: REX bits B, R and X only where the instruction has a field for them, and
66 not with REX.W.  The code takes REX.B or REX.R to mean a ModRM byte and REX.X a
SIB byte, so that the length of, say, `49 90` (XCHG with R8) is wrong.  It is also
about instructions of up to 15 bytes, which is what a processor accepts and what
`Size`, a field of four bits, can hold.  `FitsBuffer` is for up to two prefixes
before REX: with three, a `0F 8x` jump with REX.B and REX.X is taken to have 16
bytes, one more than the array `Instruction` has.

### Translation

`Dispatch` is a round of the loop of `CompileBlock`: the marker, what the handler
appends, as a function of the instruction and of the number of operations before
it (an argument of an operation is the number of another), and the size that
`GetInstInfo` gives, which need not be the length of the instruction.  LOCK, and
an opcode behind 0F that a prefix keeps from being looked up, are refused
(`NoHandler`): the block ends before them.  An encoding without an entry stops the
machine (`UnknownEncoding`, phase `stopped`).  Each handler
is an operator that says whether it fails and what it has appended by then.
`CompileCode` ends the list and stops the emulator (`aborted`) on an operation
that the backend does not know.  Then the list is run, one operation at a time,
with the meaning `HandleIR` gives to it; `arch` executes the same instructions
with `ArchStep`, the architecture.  `Memory` and `Kernel` stand for loads and
system calls; no handler stores to memory.  `SyscallOp` puts seven arguments in an
array of six; the model takes the memory behind it to be unused, so that the
seventh is read back as it was written.

And, or and exclusive or of two words are put together from `AndByte`, `OrByte`
and `XorByte`, which are constants: `MCTranslation` takes them from `Bitwise`, and
the proofs need no more of them than `MaskAssumption` says, that the masks of the
handlers select bits (so `ByteBits` is a power of two; 8 in the code, 2 in the
run).  The other assumptions say what a program is.  `PowersAssumption`: the laws
of exponents, up to a word.  `ByteOpsAssumption`, `MemoryAssumption` and
`ContextsAssumption`: bytes give bytes, loads and `CPUState` are words.
`BlocksAssumption`: every instruction has a handler, and a length and size of at most
15, rip does not wrap around within the block, and the count of a shift is
less than the width of the word (the result of a longer one is undefined in
LLVM).  TLC evaluates all of them for the constants of the run.

`InStep` is about blocks whose instructions are `Covered`: those the handlers are
written for, in `Plain` encodings, for which the decoder's size is the length
(`4A 8D 80 disp32`, `44 90` and `0F 1F 38` are not: size 8 for 7, size 3 for 2, no
entry).  Blocks with other instructions are compiled and run too, as the code
does it; `FlagsRight`, `AbortsOnlyOn16Bits` and the layout of the list hold for
all of them.  Not covered, from the code: opcode 03 with two registers
adds into the wrong one; the memory form of 01 loads instead of storing;
rip-relative operands use a register; immediates and LEA without REX.W keep 64
bits; a CMP of 32 bits compares 64; handlers read REX and ModRM at fixed offsets
and do not step over a prefix; a conditional jump other than JNZ after CMP sees
ZF inverted, and one on a flag that is set contains an operation that refers to
itself.  These are facts of the model that can be seen by widening `Covered`; no
document of the repository says otherwise, so they are not listed as findings.

### GuestMemory

`host` gives the page of the file at every host address, `engines` the regions of
every engine, `MappedRegions` those of `Memmap`, in order.  unicorn refuses a
region that overlaps one it has, and the emulator goes on; since the first region
is the whole file, a new thread's engine gets that and nothing else, and later maps
in it fail harmlessly.  The engine of the first thread has only what was mapped
in it.  `curbrk` is the break as the guest knows it, moved as `sbrk` moves it.  The guest
is assumed never to ask for a break below the one that brk(0) returned: the code
does not refuse it, and `dataspacesize` would wrap around.
A call is one step; the interleavings of mmap and clone are those of `CPUCore`.

### FileManager

A pointer into the vector `FDs` is the index of its object.  In the code the
pointers that `FDMap` has kept dangle after the vector has grown.  That is harmless
only because `FD::writev`, the one function that is called through them, returns
before it reads its object, so the model has nothing to say about it.  One call at a time: two threads in openat are a race inside the
containers, which is noted among the hazards.

## Runs

| Run | Checks | Instance |
|---|---|---|
| `pause` | `PausedCount`, `MapperAlone`, `FirstMappingQuiescent`, `EngineSeesRegions`, `MmapImplementsAllocator` | 3 threads that map, clone and exit; 3 mmap calls |
| `clone` | `StartGate`, `TIDIsSlot`, `JoinStarted`, `CloneStarts`, `StopEndsProcess` | 4 threads, two of which clone, one of them may map once |
| `mmaplive` | `TypeOK`, `MmapReturns` | 3 threads, one maps, none leaves; 2 mmap calls |
| `futexwake` | `WaitersFindable`, `SoleWaiterFound`, `ExitWakesBlocked`, `WakeWakesBlocked` | 3 threads, a shared word and one with one waiter, 4 waits |
| `futexlost` | `ExitWakesWaiter`, violated | one thread joins another |
| `blocks` | `TypeOK`, `CleanStart`, `ImplementsMachine`, `GuestProgress` | every program of 3 instructions of 19 kinds and a return |
| `clonerip` | `CloneResumesAfterSyscall`, violated | every program of 2 instructions |
| `length` | `LengthWhenTranslated`, `DecodesAs`, `TransfersEndBlock`, `FitsBuffer` | all opcodes of both maps, 6 prefix strings, 7 REX bytes, 14 ModRM and 2 SIB bytes |
| `translation` | `InStep`, `FlagsRight`, `AbortsOnlyOn16Bits` | all handlers alone, 12 instructions in blocks of two and three, and encodings that are refused, unknown or given another size, from 3 contexts; loops of ADD, CMP and Jcc at 0x402350, all conditions, from 18 contexts |
| `memory` | `TypeOK`, `OneMemory`, `VisibleToAll`, `BreakCovers` | 3 threads, 4 brk calls, the layout in blocks of 64 MiB |
| `brk` | `BreakInArea`, violated | the break grows by one block at a time |
| `files` | `DescriptorsMatch`, `DescriptorsFresh` | 5 openat calls |

Why the bounds are enough.  Three threads are the fewest with two mappers and a
thread that is still in the pause window of an earlier mapping; the third mmap
call is the first that can meet a thread left over from the first.  Four
threads let the vector grow, and so move, while `RunLoop` walks it.  A third
instruction lets a block be entered in its middle, so that two cached blocks
overlap.  The lengths of mmap are one byte and one byte more than a page, so that rounding
up matters.  The ModRM and SIB bytes of the decoder are one for each way it
branches on them.  In `Translation` a byte has two bits (`ByteBits`), so that
registers have 16 bits and upper halves, shifts and carries between the sizes all
occur, and the flags still have their places; the block at 0x402350 starts at
`JccBlock` and is tried out twice instead of five times.  Its loop ends in the first,
second or third round: inside the trial runs, and after a jump back.  In
`GuestMemory` the area of the break is four blocks, so that it can be used up, and
the page of FS follows it as in the code.  Five openat calls are
more than enough for a number or an entry to be used twice.

Fairness.  `FairSpec` of every module is weak fairness of each thread's own
steps: the host scheduler runs every thread.  Nothing is assumed of other
actors: `StopByOther`, `SpuriousWakeup` and the guest's choices are not fair.
In `Futex` a thread need not make its next call, only finish the one it is in.

What the runs do not say.  `MmapReturns` needs a program in which one thread
maps and none exits: a `ThreadState` is never removed from `Threads`, so after
an exit, or with two mappers, the spin loop does not end.  For the same reason
`StopEndsProcess` has an exception: a thread that is in the spin loop when another
has stopped waits for ever, and `RunLoop` for it.  Its other exception is the
iterator of `RunLoop` that dangles, when the process ends by reading through it.
A thread blocked in FUTEX_WAIT would also keep `RunLoop` waiting; `CPUCore` has no
futex.  From the second
mapping on, other threads may run during a mapping, hence `maps = 1` in
`FirstMappingQuiescent`; `MapperAlone` and the disjointness of the regions do
not depend on it.  `EngineSeesRegions` is about regions inside the file: `LastMMAP`
has no limit, and an engine that has the whole file refuses a region across its
end, so that for those the property would be false.  `SoleWaiterFound` is about words that one thread waits for: a
second waiter overwrites the first's entry.  The two liveness properties of
`Futex` are for that case too.

## Findings

* `futexlost`: exit clears the tid word and notifies without the mutex of the
  waiter, so that a joiner between its test and its wait is not woken.
* `clonerip`: the child's rip is the address of the block plus two, which is the
  instruction after SYSCALL only when SYSCALL begins the block.

* `brk`: the break runs away from the requests and leaves its area, which is a
  quarter of the gigabyte that the comment promises.

Seen while modelling, without a run of their own:

* the byte behind a two-byte opcode decides whether `GetInstInfo` looks it up
  (`X86Tables.cpp:455`): an instruction whose ModRM byte is 0F, 38 or 3A is unknown;
* `LLVM.cpp:235` says that a conditional jump goes to its target when its value is
  true; the branch is built the other way round.  CMPOp stores ZF inverted, so
  that JNZ after CMP comes out right;
* ADD with an immediate (`OpcodeDispatch.cpp:559`, "Set ZF") clears ZF when the sum
  is one and sets it otherwise, and takes SF from a bit of the operand;
* the comment in `Core.cpp` speaks of a region of 64 GB; the code allocates 8.

## Proofs

The theorems hold for every value of the constants that meets the named
assumptions of the modules.

`CPUCoreProofs`.  `Inv` is `TypeOK` with four facts that make it inductive:
slots beyond `size` are unborn (`SlotsUnused`); a creator's `child` is a slot
that nobody else is creating and that is still before the gate (`Births`); every
creator that has yet to append has room (`SlotsLeft`: without it `size` could
pass `MaxThreads`); a thread past the gate has `ShouldStart` (`GatePassed`).  It
gives `TypeCorrect` and `StartGateHolds`.  `PausedCountHolds` counts the threads
between increment and decrement, one lemma for each way the window can change.
`MapInv` is for a counter that starts at zero: a thread about to compare has
loaded a count below `size` (`SeenBound`: it is itself not in the window), so a
thread that passes has counted all others in the window, none of which is past
the spin loop (`OnePassed`).  The bump pointer is above every region that has
been returned or belongs to a call that has passed (`ReturnedBelow`,
`PassedBelow`); it may be behind a call that raced with another, and then neither
of them can pass (`BumpedBelow`).  It gives `MapperAloneHolds` and the
refinement `MmapRefinement`.

`BlockCompilerProofs`.  A list is right (`Ended`) when each operation is at the
address where the one before it leaves control, a jump is last, and the end adds
to the block's address what leads to the next instruction.  `Inv` says so of
every cached list; of the list in the making up to `JITRIP` (`Making`); of the
running block, where `rip` is still its address and `arch` is at the next
operation (`RunsAt`); that outside a block `rip` is `arch` (`InStep`); and that
unicorn is not given a system call (`NoSyscallToUnicorn`).  The lemmas on
`Append` carry it through the compiler, `RunStep` through a block.  `Refinement`
then maps `ExecOp`, `JumpOp`, `SyscallOp` and `UcStep` to one instruction,
leaving the loop to the halt, and everything else to no step.

`CPUCoreOrderProofs`.  `Order` says that the process in the critical section of
`InitThread` and `NewThread` holds the lock (`LockHeld`), that `lastThreadID` is
`size` except between the append and the TID, when the slot in question is the
last one (`LastIDCounts`, `ChildTID`), and that a thread is created by one in an
earlier slot (`CreatorEarlier`), which is still at it as long as the new thread
is unborn (`UnbornHasCreator`).  It gives `TIDIsSlotHolds` at once.  For
`JoinStartedHolds` one more invariant, `Joined`, says that every slot `RunLoop`
has passed is a thread that has ended: the creator of an unborn thread at the
next slot would be one of those, and it has not ended.

The same module has the theorems on mapping.  `First` follows the first mmap call: nobody is in the
pause window before it sets `PauseThreads`, and nobody leaves the window before
it clears the flag, so the count it has loaded can only be too small; when it
equals the number of threads but one, all the others spin, and none can create a
thread.  The second call has no such invariant, as others may be about to leave
the window of the first.  `Engines` is for a counter that starts at zero: every
engine but the first has the whole file, and refuses the rest; the first engine
holds what `InitThread` mapped, what has been returned, and the region of a
mapper that is past it (`FirstEngine`), all of it disjoint by `MapInv`, so that
unicorn accepts the next one.

`FutexProofs`.  A WAIT from the allocation of its `Futex` on has an object of its
own word (`WaitsRight`), every map entry is an object of its word
(`EntriesRight`), and the entry of a word stays as long as somebody waits for it
(`WaitersHaveEntry`: entries are overwritten, never removed).  `SoleWaiterFound`
is inductive with these, because only a WAIT of the same word writes the entry.

`GuestMemoryProofs`.  Every host page shows the page of the file at its own
offset, however often it is mapped again (`HostInPlace`); the first of
`MappedRegions` is the whole file (`RegionsInFile`), so that a cloned thread's
engine has exactly that (`ChildrenSeeFile`).  The first engine has nothing above
`LastMMAP` and nothing in the area of the break but the area itself
(`FirstEngine`), which is why it accepts each region that is handed out
(`HandedOut`).  The layout is any that meets `LayoutAssumption`.

`FileManagerProofs`.  The counter, the map and the vector agree: descriptor fd is
object fd - 2, of the file it was opened for (`Numbered`).
`DescriptorsFreshHolds` is an action property and follows from the same.

`DecoderProofs`.  The bytes of an encoding are a concatenation; `CodeAt` says which
byte is where, and `Where` that the byte a pass of the loop looks at tells how far
it has come.  `Scanning` says what the passes so far have left: `Narrowing` if
there was a 66 among the prefixes behind it, `REXOptions` and `Widening` once the
REX byte is behind it.  `Finished` says that the loop has then looked up the entry
of the encoding (`LookedUp`) and added the bytes that follow; and the flags that
the passes have set are those of the whole encoding (`Marks`), which with
`Finished` is `DecodesAsHolds`.  Three facts about
the tables do the rest: no entry asks for more than four bytes, and only one with
its register in the opcode doubles them (`TablesModerate`, for `FitsBufferHolds`);
the transfers are marked (`TransferEntries`); and the entries of handled opcodes
agree with the architecture (`HandledEntries`, for `LengthWhenTranslatedHolds`).
The theorems hold for prefix strings of any length, where the run has six.

`TranslationProofs` follows a block from the handlers to the processor.
`Formed` says of each handler which operations it appends and that their
arguments are places before them.  From that, `Layout`: behind `BeginBlock` the
list has, for each instruction, a marker with its number and address and then
exactly what the handler appends from there, the addresses being sums of the sizes
of `GetInstInfo`, and no instruction in it is refused; and `Checked`: a block runs only
when `CompileCode` knows every operation.  The list says which instructions can
hold an operation that the backend does not know, which is
`AbortsOnlyOn16BitsHolds`.

`Step` and `Steps` are the effect of one operation and of the code of one
instruction on `CPUState` and the values.  `Right` compares that with `ArchStep`,
for one instruction on its own: each handler has a lemma (`HandlerRight`
collects them), and another on the flags it leaves alone.  The architecture
advances rip by the length, the list by the size; `EntryIs` says what entry each
handler's opcode has, and `PlainSize` that size and length are the same where the
encoding is `Plain`, which `Covered` demands.

`InStep` is not inductive: between two markers the registers, the flags and the
values are in the middle of an instruction that the architecture has executed at
its marker, and a jump reads a flag that an earlier instruction has left.
`RunInv` adds what is missing.  At a marker (`Ready`) the registers are those of
the architecture and, right after a CMP, ZF is its opposite, which is what JNZ, and
only JNZ, expects (`Matches`); about ZF elsewhere nothing is needed, as a covered
jump follows a CMP.  Inside an instruction (`InCode`) the operations so far have
run on the state at the marker (`Ran`), and the architecture is one instruction
further than that state (`Inside`).  The code of a failed handler changes nothing
(`InFailed`), and behind a jump that is not taken the state is still that of its
marker (`BehindJump`).  A jump that is taken goes to a marker that the block has
passed, where `Ready` holds, or to the code that sets rip and ends the block
(`CoveredJump`, `Ended`).  The lemmas on a step are `MarkerStep`, `ComputeStep`,
`EmptyStep` and `CondJumpStep`; the last operation of an instruction leads to
`Ready` of the next by `Right` (`Finished`).  `RunHolds` is the invariant, from which
`InStepHolds` and `FlagsRightHolds` follow.  A trial run that ends puts `CPUState`
back, so that the next run starts as the first.  The run of TLC has short blocks
and bytes of two bits; the theorems hold for blocks of any length and for the
bytes of the code.

What the proofs changed.  Two properties were false as first stated, on instances
larger than those of the runs: `EngineSeesRegions` for regions beyond the end of
the file, and `FitsBuffer` for three prefixes.  Both now state their limit.

Only model-checked: what needs fairness (`MmapReturns`, `CloneStarts`,
`StopEndsProcess`, `ExitWakesBlocked`, `WakeWakesBlocked`, `GuestProgress`), which
is out of this prover's reach.

## Not modelled

* The interpreter: it is not selected, and it stops at the RIP marker that every
  block starts with.  The AArch64 backend is a stub.
* LLVM itself, and what several threads, or one compilation after another, do to
  the one backend: its maps are kept from block to block, but what a race or a
  branch into an earlier function does is LLVM's.
* The byte layout of the IR list and its growth: an operation is named by its
  number in the list.
* The system calls that return constants or only ask the host (uname, the clock,
  nanosleep, arch_prctl): nothing else reads what they change.
* mmap beyond the end of the shared file, and two file calls at once.
* The host's files, the ELF loader (a library outside the repository), the empty
  boot loader and pass manager, and the test harness, which is a benchmark with
  an IR of its own.

## Plan

Done: threads, pausing and mmap (`CPUCore`, `RegionAllocator`), futexes, the block
compiler and its abstract machine, the decoder, the translation of instructions,
guest memory with brk, and the descriptor table.

Proved: every invariant and action property of the passing runs, and both
refinements.

Left: the liveness properties, which stay with TLC, and the hazards that
`PROJECT.json` lists without a property, above all several threads that compile
with the one LLVM backend.
