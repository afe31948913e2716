---------------------------- MODULE GuestMemory ----------------------------
(***************************************************************************)
(* The memory of the guest: the shared memory file of Memmap, its mappings *)
(* in the host process, and those of the unicorn engine of every thread,   *)
(* under SYSCALL_BRK, SYSCALL_MMAP and SYSCALL_CLONE.                      *)
(*                                                                         *)
(* A guest address is an offset in the file.  The emulator reaches it in   *)
(* three ways: Memmap::GetPointer looks for a region of MappedRegions (the *)
(* system calls, the block compiler), GetBaseOffset adds it to Base (the   *)
(* code of a block), and an engine follows the pointer it was given.       *)
(*                                                                         *)
(* Addresses and lengths are counted in blocks of the size the layout is   *)
(* scaled to.  A call is one step here: what happens while one is being    *)
(* served is the subject of CPUCore.                                       *)
(***************************************************************************)
EXTENDS Integers, Sequences

CONSTANTS
  Base,          \* where the host put the file
  SHMSize,       \* length of the file
  Image, FS, Stack,  \* regions of the first thread, [off, len]
  DataOffset, DataSize,  \* the area brk maps
  MmapBase,      \* initial value of LastMMAP
  Increments,    \* by how much a guest moves its break, possibly down
  Lengths,       \* lengths of mmap calls
  MaxThreads, MaxMmaps, MaxMoves \* bounds: threads, mmap calls, moves of the break

End(r) == r.off + r.len

\* The order of the areas in CPUCore.cpp and Syscalls.cpp; FS directly follows
\* the area of the break.
ASSUME LayoutAssumption ==
  /\ Base \in Nat /\ SHMSize \in Nat
  /\ {Image, FS, Stack} \subseteq [off : Nat, len : Nat \ {0}]
  /\ DataOffset \in Nat \ {0} /\ DataSize \in Nat \ {0} /\ MmapBase \in Nat
  /\ End(Image) <= DataOffset /\ DataOffset + DataSize = FS.off
  /\ End(FS) <= Stack.off /\ End(Stack) <= MmapBase /\ MmapBase <= SHMSize

ASSUME BoundsAssumption ==
  /\ Increments \subseteq Int /\ Lengths \subseteq Nat \ {0}
  /\ MaxThreads \in Nat \ {0} /\ MaxMmaps \in Nat /\ MaxMoves \in Nat

VARIABLES
  host,           \* the page of the file at every host address
  MappedRegions,  \* Memmap::MappedRegions
  engines,        \* what every thread's engine has mapped
  LastMMAP,
  dataspace, dataspacesize,
  curbrk,         \* guest: its break, as the last brk call returned it; 0 before
  requested,      \* guest: the break it asked for last
  grown,          \* guest: the sum of its requests to grow
  moves,          \* how often it moved its break
  given,          \* guest: the regions mmap returned
  asked           \* the threads that have called brk(0)

breakVars == <<dataspace, dataspacesize, curbrk, requested, grown, moves, asked>>
memVars == <<host, MappedRegions, engines>>
vars == <<memVars, breakVars, LastMMAP, given>>

Threads == DOMAIN engines

-----------------------------------------------------------------------------
(* Memmap.                                                                 *)

HostPages == Base..(Base + SHMSize - 1)

Region(ptr, off, len) == [ptr |-> ptr, off |-> off, len |-> len]

Pages(r) == r.off..(End(r) - 1)

\* A plausible slip: every mapping starts at the beginning of the file.
HostMmapFromStart(h, off, len) ==
  [p \in HostPages |-> IF p - Base \in off..(off + len - 1)
                       THEN p - Base - off ELSE h[p]]

\* mmap(Base + Offset, Size, ..., MAP_FIXED, SHMfd, Offset): the host pages
\* now show the pages of the file from Offset on.
HostMmap(h, off, len) ==
  [p \in HostPages |-> IF p - Base \in off..(off + len - 1)
                       THEN off + (p - Base - off) ELSE h[p]]

\* The file as a whole is the first region, mapped by AllocateSHMRegion.
SHMRegion == Region(Base, 0, SHMSize)

\* GetPointer: through the first region that holds the address.
GetPointer(a) ==
  LET first == CHOOSE i \in DOMAIN MappedRegions :
                 /\ a \in Pages(MappedRegions[i])
                 /\ \A j \in 1..(i - 1) : a \notin Pages(MappedRegions[j])
  IN  MappedRegions[first].ptr + (a - MappedRegions[first].off)

GetBaseOffset(a) == Base + a

-----------------------------------------------------------------------------
(* The engines.                                                            *)

\* uc_mem_map_ptr refuses a region that overlaps a mapped one; the caller
\* prints the error and goes on.
UcMemMap(engine, r) ==
  IF \E s \in engine : Pages(r) \cap Pages(s) # {} THEN engine ELSE engine \cup {r}

\* A plausible slip: the new engine gets the regions of the image, the FS page
\* and the stack only.
UcMapAllInitial(regions) == {regions[i] : i \in 2..4}

\* NewThread gives the new engine all regions in their order.  Every later
\* region lies in the first one, so what an engine takes is decided by the
\* regions before it.
UcMapAll(regions) ==
  {regions[i] : i \in {k \in DOMAIN regions :
     \A j \in 1..(k - 1) : Pages(regions[k]) \cap Pages(regions[j]) = {}}}

\* A plausible slip: Memmap does not record the region.
MapRegionUnrecorded(ts, n, off, len) ==
  LET r == Region(Base + off, off, len)
  IN  /\ host' = HostMmap(host, off, len)
      /\ engines' = [t \in Threads |-> IF t \in ts THEN UcMemMap(engines[t], r)
                                       ELSE engines[t]]
      /\ UNCHANGED MappedRegions

\* CPUCore::MapRegion for the threads of ts, one after another: Memmap gets a
\* region each time, every engine is given it once.
MapRegion(ts, n, off, len) ==
  LET r == Region(Base + off, off, len)
  IN  /\ host' = HostMmap(host, off, len)
      /\ MappedRegions' = MappedRegions \o [i \in 1..n |-> r]
      /\ engines' = [t \in Threads |-> IF t \in ts THEN UcMemMap(engines[t], r)
                                       ELSE engines[t]]

-----------------------------------------------------------------------------
(* The process: AllocateSHMRegion, then InitThread maps the image, the     *)
(* stack and the FS page.                                                  *)

Init ==
  LET initial == [i \in 1..3 |-> LET r == <<Image, Stack, FS>>[i]
                                 IN  Region(Base + r.off, r.off, r.len)]
  IN  /\ host = [p \in HostPages |-> p - Base]
      /\ MappedRegions = <<SHMRegion>> \o initial
      /\ engines = <<{initial[i] : i \in 1..3}>>
      /\ LastMMAP = MmapBase
      /\ dataspace = 0 /\ dataspacesize = 0
      /\ curbrk = 0 /\ requested = 0 /\ grown = 0 /\ moves = 0
      /\ given = {} /\ asked = {}

\* brk(0): maps the area in the engine of the caller, and forgets nothing of
\* dataspacesize.
BrkZero(t) ==
  /\ moves < MaxMoves
  /\ MapRegion({t}, 1, DataOffset, DataSize)
  /\ dataspace' = DataOffset
  /\ curbrk' = DataOffset /\ requested' = DataOffset
  /\ asked' = asked \cup {t} /\ moves' = moves + 1
  /\ UNCHANGED <<dataspacesize, grown, LastMMAP, given>>

\* A plausible slip: the result is taken before the addition.
BrkResultBefore(arg) == dataspace + dataspacesize

\* The result of brk(arg): what is added is counted from the start of the area.
BrkResult(arg) == dataspace + dataspacesize + (arg - dataspace)

\* brk(curbrk + inc), as sbrk of a C library calls it: after brk(0), and never
\* for a break below the one brk(0) returned.  That is an assumption on the guest:
\* the code does not refuse a lower one, and dataspacesize, unsigned, would wrap.
BrkMove(t, inc) ==
  LET arg == curbrk + inc
  IN  /\ moves < MaxMoves /\ curbrk # 0 /\ arg >= dataspace
      /\ dataspacesize' = dataspacesize + (arg - dataspace)
      /\ curbrk' = BrkResult(arg) /\ requested' = arg
      /\ grown' = grown + (IF inc > 0 THEN inc ELSE 0)
      /\ moves' = moves + 1
      /\ UNCHANGED <<memVars, dataspace, asked, LastMMAP, given>>

\* mmap: the next piece of the file, on all engines.  The call has no limit;
\* the bound keeps the regions inside the file.
Mmap(t, len) ==
  /\ Len(MappedRegions) < 4 + MaxMoves + MaxMmaps * MaxThreads
  /\ LastMMAP + len <= SHMSize
  /\ MapRegion(Threads, Len(engines), LastMMAP, len)
  /\ given' = given \cup {Region(Base + LastMMAP, LastMMAP, len)}
  /\ LastMMAP' = LastMMAP + len
  /\ UNCHANGED breakVars

\* clone: NewThread opens an engine and maps the regions known so far.
Clone(t) ==
  /\ Len(engines) < MaxThreads
  /\ engines' = Append(engines, UcMapAll(MappedRegions))
  /\ UNCHANGED <<host, MappedRegions, breakVars, LastMMAP, given>>

Next == \E t \in Threads :
  \/ BrkZero(t) \/ Clone(t)
  \/ \E inc \in Increments : BrkMove(t, inc)
  \/ \E len \in Lengths : Mmap(t, len)

Spec == Init /\ [][Next]_vars

-----------------------------------------------------------------------------
(* Properties.                                                             *)

\* The type invariant; an engine has only regions that Memmap knows of, which
\* is what a later thread is given.
TypeOK ==
  /\ host \in [HostPages -> 0..(SHMSize - 1)]
  /\ \A i \in DOMAIN MappedRegions :
       MappedRegions[i] \in [ptr : Nat, off : Nat, len : Nat \ {0}]
  /\ \A t \in Threads : \A r \in engines[t] :
       \E i \in DOMAIN MappedRegions : r = MappedRegions[i]
  /\ LastMMAP \in MmapBase..SHMSize
  /\ dataspace \in {0, DataOffset} /\ dataspacesize \in Nat

\* One memory: system calls (GetPointer), blocks (Base plus address) and the
\* engine of every thread reach the same page of the file for an address, and
\* it is the page of that address, however regions were mapped over others.
OneMemory ==
  /\ \A a \in 0..(SHMSize - 1) :
       host[GetPointer(a)] = a /\ host[GetBaseOffset(a)] = a
  /\ \A t \in Threads : \A r \in engines[t] : \A a \in Pages(r) :
       host[r.ptr + (a - r.off)] = a

Sees(t, a) == \E r \in engines[t] : a \in Pages(r)

\* Memory handed to one thread is memory of all: every page of a region that
\* mmap returned, and of the area of the break once the first thread has asked
\* for it, is mapped in the engine of every thread, although brk maps it in the
\* engine of the caller alone and later maps in a child's engine are refused.
VisibleToAll ==
  \A t \in Threads :
    /\ \A r \in given : \A a \in Pages(r) : Sees(t, a)
    /\ 1 \in asked => \A a \in DataOffset..(DataOffset + DataSize - 1) : Sees(t, a)

\* The guest is never told of a break below the one it asked for: the C library
\* would take that for a lack of memory.
BreakCovers == curbrk >= requested

\* SYSCALL_BRK maps "a GB of space": a guest that has asked for no more than
\* the area holds, all its requests to grow taken together, and asked for it in
\* its first thread, has its break in memory that its engine has mapped.
BreakInArea ==
  (1 \in asked /\ grown <= DataSize) => curbrk <= DataOffset + DataSize

============================================================================
