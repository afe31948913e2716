------------------------- MODULE GuestMemoryProofs -------------------------
(***************************************************************************)
(* Proofs about GuestMemory, for any layout that meets LayoutAssumption    *)
(* and any number of threads and calls.                                    *)
(***************************************************************************)
EXTENDS GuestMemory, SequenceTheorems, TLAPS

AnyRegion == [ptr : Nat, off : Nat, len : Nat \ {0}]

\* Regions of the file, at the host address of their offset.
FileRegion == {r \in AnyRegion : r.ptr = Base + r.off /\ End(r) <= SHMSize}

\* The area that brk maps.
DataRegion == Region(Base + DataOffset, DataOffset, DataSize)

\* Every host page shows the page of the file at its own offset.
HostInPlace == host = [p \in HostPages |-> p - Base]

\* Memmap's first region is the whole file.
RegionsInFile ==
  /\ MappedRegions \in Seq(FileRegion)
  /\ Len(MappedRegions) >= 1 /\ MappedRegions[1] = SHMRegion

EnginesKnown ==
  /\ engines \in Seq(SUBSET FileRegion) /\ Len(engines) >= 1
  /\ \A t \in Threads : \A r \in engines[t] :
       \E i \in DOMAIN MappedRegions : r = MappedRegions[i]

\* A cloned thread's engine has the file as a whole, and so refuses all else.
ChildrenSeeFile == \A t \in Threads : t # 1 => engines[t] = {SHMRegion}

\* The first engine has the regions one by one: nothing above LastMMAP, and
\* nothing but the area itself in the area of the break.
FirstEngine ==
  \A r \in engines[1] :
    /\ End(r) <= LastMMAP
    /\ \/ r = DataRegion
       \/ End(r) <= DataOffset
       \/ DataOffset + DataSize <= r.off

\* What was handed out is mapped in the first engine.
HandedOut ==
  /\ given \subseteq engines[1]
  /\ 1 \in asked => DataRegion \in engines[1]

Break ==
  /\ LastMMAP \in MmapBase..SHMSize
  /\ dataspace \in {0, DataOffset} /\ dataspacesize \in Nat
  /\ curbrk \in Int /\ requested \in Int /\ curbrk >= requested

Inv ==
  /\ HostInPlace /\ RegionsInFile /\ EnginesKnown /\ ChildrenSeeFile
  /\ FirstEngine /\ HandedOut /\ Break

----------------------------------------------------------------------------
(* The operators.                                                          *)

\* The constants are numbers, in the order of the layout.
LEMMA Layout ==
  /\ Base \in Nat /\ SHMSize \in Nat \ {0} /\ MmapBase \in Nat
  /\ DataOffset \in Nat \ {0} /\ DataSize \in Nat \ {0}
  /\ DataOffset + DataSize <= MmapBase /\ MmapBase <= SHMSize
  /\ \A r \in {Image, FS, Stack} :
       /\ r.off \in Nat /\ r.len \in Nat \ {0} /\ End(r) <= MmapBase
       /\ End(r) <= DataOffset \/ DataOffset + DataSize <= r.off
<1>1. \A r \in {Image, FS, Stack} : r.off \in Nat /\ r.len \in Nat \ {0}
  BY LayoutAssumption
<1> QED
  BY <1>1, LayoutAssumption DEF End

\* A region of a non-empty piece of the file is one of FileRegion.
LEMMA MakeRegion ==
  ASSUME NEW off \in Nat, NEW len \in Nat \ {0}, off + len <= SHMSize
  PROVE  /\ Region(Base + off, off, len) \in FileRegion
         /\ Region(Base + off, off, len).off = off
         /\ End(Region(Base + off, off, len)) = off + len
         /\ Pages(Region(Base + off, off, len)) = off..(off + len - 1)
BY Layout DEF FileRegion, AnyRegion, Region, End, Pages

\* The fields of a region of the file.
LEMMA RegionFields ==
  ASSUME NEW r \in FileRegion
  PROVE  /\ r.off \in Nat /\ r.len \in Nat \ {0} /\ r.ptr = Base + r.off
         /\ End(r) = r.off + r.len /\ End(r) <= SHMSize
         /\ r.off \in Pages(r)
         /\ \A a \in Pages(r) : a \in Nat /\ r.off <= a /\ a < End(r)
BY Layout DEF FileRegion, AnyRegion, End, Pages

\* The whole file is such a region, and every other overlaps it.
LEMMA WholeFile ==
  /\ SHMRegion \in FileRegion /\ Pages(SHMRegion) = 0..(SHMSize - 1)
  /\ \A r \in FileRegion : Pages(r) \cap Pages(SHMRegion) # {}
<1>1. SHMRegion \in FileRegion /\ Pages(SHMRegion) = 0..(SHMSize - 1)
  BY Layout DEF SHMRegion, FileRegion, AnyRegion, Region, End, Pages
<1>2. ASSUME NEW r \in FileRegion
      PROVE  Pages(r) \cap Pages(SHMRegion) # {}
  <2>1. r.off \in Pages(r) /\ r.off \in 0..(SHMSize - 1)
    BY Layout, RegionFields
  <2> QED
    BY <1>1, <2>1
<1> QED
  BY <1>1, <1>2

\* Regions of which one ends before the other begins share no page.
LEMMA Apart ==
  ASSUME NEW r \in FileRegion, NEW s \in FileRegion,
         End(r) <= s.off \/ End(s) <= r.off
  PROVE  Pages(r) \cap Pages(s) = {}
BY RegionFields

\* Mapping a piece of the file over the host's mapping of it changes nothing.
LEMMA HostMmapInPlace ==
  ASSUME HostInPlace, NEW off \in Nat, NEW len \in Nat
  PROVE  HostMmap(host, off, len) = host
<1>1. \A p \in HostPages : p \in Int
  BY Layout DEF HostPages
<1> QED
  BY <1>1, Layout DEF HostInPlace, HostMmap

\* A new engine takes the first region of MappedRegions and refuses the others.
LEMMA UcMapAllWhole ==
  ASSUME RegionsInFile
  PROVE  UcMapAll(MappedRegions) = {SHMRegion}
<1>1. DOMAIN MappedRegions = 1..Len(MappedRegions) /\ Len(MappedRegions) \in Nat
  BY DEF RegionsInFile
<1>2. 1 \in DOMAIN MappedRegions /\ MappedRegions[1] = SHMRegion
  BY <1>1 DEF RegionsInFile
<1>3. ASSUME NEW k \in DOMAIN MappedRegions, k # 1
      PROVE  \E j \in 1..(k - 1) :
               Pages(MappedRegions[k]) \cap Pages(MappedRegions[j]) # {}
  <2>1. 1 \in 1..(k - 1)
    BY <1>1, <1>3
  <2>2. MappedRegions[k] \in FileRegion
    BY <1>1, <1>3 DEF RegionsInFile
  <2> QED
    BY <1>2, <2>1, <2>2, WholeFile
<1>4. {k \in DOMAIN MappedRegions : \A j \in 1..(k - 1) :
         Pages(MappedRegions[k]) \cap Pages(MappedRegions[j]) = {}} = {1}
  <2>1. 1..(1 - 1) = {}
    OBVIOUS
  <2> QED
    BY <1>2, <1>3, <2>1
<1> QED
  BY <1>2, <1>4 DEF UcMapAll

\* GetPointer finds every address of the file through the first region.
LEMMA GetPointerInPlace ==
  ASSUME RegionsInFile, NEW a \in 0..(SHMSize - 1)
  PROVE  GetPointer(a) = Base + a
<1> DEFINE First(i) == /\ a \in Pages(MappedRegions[i])
                       /\ \A j \in 1..(i - 1) : a \notin Pages(MappedRegions[j])
<1>1. 1 \in DOMAIN MappedRegions /\ DOMAIN MappedRegions = 1..Len(MappedRegions)
  BY DEF RegionsInFile
<1>2. a \in Pages(MappedRegions[1])
  BY WholeFile DEF RegionsInFile
<1>3. First(1)
  BY <1>2
<1>4. ASSUME NEW i \in DOMAIN MappedRegions, First(i)
      PROVE  i = 1
  <2>1. i # 1 => 1 \in 1..(i - 1)
    BY <1>1
  <2> QED
    BY <1>2, <1>4, <2>1
<1>5. (CHOOSE i \in DOMAIN MappedRegions : First(i)) = 1
  BY <1>1, <1>3, <1>4
<1>6. GetPointer(a) = SHMRegion.ptr + (a - SHMRegion.off)
  BY <1>5 DEF GetPointer, RegionsInFile
<1> QED
  BY <1>6, Layout DEF SHMRegion, Region

----------------------------------------------------------------------------
(* The steps.                                                              *)

\* The initial mappings.
LEMMA InvInit == Init => Inv
<1> SUFFICES ASSUME Init PROVE Inv
  OBVIOUS
<1> DEFINE R(r) == Region(Base + r.off, r.off, r.len)
           three == {R(Image), R(Stack), R(FS)}
<1>1. \A r \in {Image, FS, Stack} : r.off + r.len <= SHMSize /\ End(r) = r.off + r.len
  BY Layout DEF End
<1>2. \A r \in {Image, FS, Stack} :
        R(r) \in FileRegion /\ R(r).off = r.off /\ End(R(r)) = r.off + r.len
  BY <1>1, Layout, MakeRegion
<1>3. /\ MappedRegions = <<SHMRegion>> \o <<R(Image), R(Stack), R(FS)>>
      /\ engines = <<three>>
  <2> DEFINE initial == [i \in 1..3 |-> LET r == <<Image, Stack, FS>>[i] IN R(r)]
  <2>1. MappedRegions = <<SHMRegion>> \o initial /\ engines = <<{initial[i] : i \in 1..3}>>
    BY DEF Init
  <2>2. 1..3 = {1, 2, 3}
    OBVIOUS
  <2>3. initial[1] = R(Image) /\ initial[2] = R(Stack) /\ initial[3] = R(FS)
    OBVIOUS
  <2>4. {initial[i] : i \in 1..3} = three
    BY <2>2, <2>3
  <2>5. initial = <<R(Image), R(Stack), R(FS)>>
    BY <2>2, <2>3
  <2> HIDE DEF initial
  <2> QED
    BY <2>1, <2>4, <2>5
<1> HIDE DEF R
<1>4. /\ MappedRegions \in Seq(FileRegion) /\ Len(MappedRegions) = 4
      /\ MappedRegions[1] = SHMRegion /\ MappedRegions[2] = R(Image)
      /\ MappedRegions[3] = R(Stack) /\ MappedRegions[4] = R(FS)
  <2> DEFINE rest == <<R(Image), R(Stack), R(FS)>>
  <2>1. /\ <<SHMRegion>> \in Seq(FileRegion) /\ Len(<<SHMRegion>>) = 1
        /\ rest \in Seq(FileRegion) /\ Len(rest) = 3
        /\ rest[1] = R(Image) /\ rest[2] = R(Stack) /\ rest[3] = R(FS)
    BY <1>2, WholeFile
  <2> HIDE DEF rest
  <2>2. /\ <<SHMRegion>> \o rest \in Seq(FileRegion) /\ Len(<<SHMRegion>> \o rest) = 4
        /\ \A i \in 1..4 : (<<SHMRegion>> \o rest)[i] =
                             IF i <= 1 THEN <<SHMRegion>>[i] ELSE rest[i - 1]
    <3>1. /\ <<SHMRegion>> \o rest \in Seq(FileRegion)
          /\ Len(<<SHMRegion>> \o rest) = Len(<<SHMRegion>>) + Len(rest)
          /\ \A i \in 1..(Len(<<SHMRegion>>) + Len(rest)) : (<<SHMRegion>> \o rest)[i] =
               IF i <= Len(<<SHMRegion>>) THEN <<SHMRegion>>[i]
                                          ELSE rest[i - Len(<<SHMRegion>>)]
      BY <2>1, ConcatProperties, Zenon
    <3>2. Len(<<SHMRegion>>) = 1 /\ Len(rest) = 3 /\ 1 + 3 = 4
      BY <2>1
    <3> QED
      BY <3>1, <3>2, Zenon
  <2>3. MappedRegions = <<SHMRegion>> \o rest
    BY <1>3 DEF rest
  <2> QED
    BY <2>1, <2>2, <2>3
<1>5. RegionsInFile
  BY <1>4 DEF RegionsInFile
<1>6. /\ Threads = {1} /\ engines[1] = three /\ Len(engines) = 1
      /\ engines \in Seq(SUBSET FileRegion)
  BY <1>2, <1>3 DEF Threads
<1>7. EnginesKnown
  <2>1. {2, 3, 4} \subseteq DOMAIN MappedRegions
    BY <1>4
  <2> QED
    BY <1>4, <1>6, <2>1 DEF EnginesKnown
<1>8. ChildrenSeeFile
  BY <1>6 DEF ChildrenSeeFile
<1>9. FirstEngine
  <2>1. LastMMAP = MmapBase
    BY DEF Init
  <2> QED
    BY <1>1, <1>2, <1>6, <2>1, Layout DEF FirstEngine
<1>10. HostInPlace /\ HandedOut
  BY DEF Init, HostInPlace, HandedOut
<1>11. Break
  <2>1. /\ LastMMAP = MmapBase /\ dataspace = 0 /\ dataspacesize = 0
        /\ curbrk = 0 /\ requested = 0
    BY DEF Init
  <2> QED
    BY <2>1, Layout DEF Break
<1> QED
  BY <1>5, <1>7, <1>8, <1>9, <1>10, <1>11 DEF Inv

\* What MapRegion does: nothing to the host's mappings, and nothing to the
\* engines of cloned threads.
LEMMA MapRegionStep ==
  ASSUME Inv, NEW ts \in SUBSET Threads, NEW n \in Nat \ {0},
         NEW off \in Nat, NEW len \in Nat \ {0}, off + len <= SHMSize,
         MapRegion(ts, n, off, len)
  PROVE  /\ HostInPlace' /\ RegionsInFile' /\ EnginesKnown' /\ ChildrenSeeFile'
         /\ engines'[1] = IF 1 \in ts
                          THEN UcMemMap(engines[1], Region(Base + off, off, len))
                          ELSE engines[1]
<1> DEFINE r == Region(Base + off, off, len)
           more == [i \in 1..n |-> r]
<1>1. r \in FileRegion
  BY MakeRegion
<1> HIDE DEF r
<1>2. /\ host' = HostMmap(host, off, len)
      /\ MappedRegions' = MappedRegions \o more
      /\ engines' = [t \in Threads |-> IF t \in ts THEN UcMemMap(engines[t], r)
                                       ELSE engines[t]]
  BY DEF MapRegion, r
<1>3. HostInPlace'
  <2>1. host' = host
    BY <1>2, HostMmapInPlace DEF Inv
  <2> QED
    BY <2>1 DEF Inv, HostInPlace
<1>4. more \in Seq(FileRegion) /\ Len(more) = n
  BY <1>1
<1>5. /\ MappedRegions' \in Seq(FileRegion)
      /\ Len(MappedRegions') = Len(MappedRegions) + n
      /\ \A i \in 1..Len(MappedRegions) : MappedRegions'[i] = MappedRegions[i]
      /\ MappedRegions'[Len(MappedRegions) + 1] = r
      /\ Len(MappedRegions) \in Nat
  <2>1. MappedRegions \in Seq(FileRegion) /\ Len(MappedRegions) \in Nat
    BY DEF Inv, RegionsInFile
  <2>2. more[1] = r
    OBVIOUS
  <2> HIDE DEF more
  <2>3. /\ MappedRegions' \in Seq(FileRegion)
        /\ Len(MappedRegions') = Len(MappedRegions) + n
        /\ \A i \in 1..(Len(MappedRegions) + n) : MappedRegions'[i] =
             IF i <= Len(MappedRegions) THEN MappedRegions[i]
                                        ELSE more[i - Len(MappedRegions)]
    BY <1>2, <1>4, <2>1, ConcatProperties
  <2>4. /\ (Len(MappedRegions) + 1) - Len(MappedRegions) = 1
        /\ Len(MappedRegions) + 1 \in 1..(Len(MappedRegions) + n)
        /\ ~(Len(MappedRegions) + 1 <= Len(MappedRegions))
    BY <2>1
  <2>5. MappedRegions'[Len(MappedRegions) + 1] = r
    BY <2>2, <2>3, <2>4
  <2>6. \A i \in 1..Len(MappedRegions) : i \in 1..(Len(MappedRegions) + n) /\ i <= Len(MappedRegions)
    BY <2>1
  <2>7. \A i \in 1..Len(MappedRegions) : MappedRegions'[i] = MappedRegions[i]
    BY <2>3, <2>6
  <2> QED
    BY <2>1, <2>3, <2>5, <2>7
<1>6. RegionsInFile'
  BY <1>5 DEF Inv, RegionsInFile
<1>7. /\ engines \in Seq(SUBSET FileRegion) /\ Len(engines) \in Nat /\ Len(engines) >= 1
      /\ Threads = 1..Len(engines)
  BY DEF Inv, EnginesKnown, Threads
<1>8. \A t \in Threads : UcMemMap(engines[t], r) \in {engines[t], engines[t] \cup {r}}
  BY DEF UcMemMap
<1>9. /\ engines' \in Seq(SUBSET FileRegion) /\ Len(engines') = Len(engines)
      /\ Threads' = Threads
  <2>1. engines' \in [1..Len(engines) -> SUBSET FileRegion]
    BY <1>1, <1>2, <1>7, <1>8
  <2>2. engines' \in Seq(SUBSET FileRegion)
    BY <1>7, <2>1, SeqDef
  <2>3. Len(engines') = Len(engines)
    BY <1>7, <2>1, <2>2
  <2> QED
    BY <1>7, <2>1, <2>2, <2>3 DEF Threads
<1>10. EnginesKnown'
  <2>1. ASSUME NEW t \in Threads, NEW s \in engines'[t]
        PROVE  \E i \in DOMAIN MappedRegions' : s = MappedRegions'[i]
    <3>1. s = r \/ s \in engines[t]
      BY <1>2, <1>8, <2>1
    <3>2. DOMAIN MappedRegions' = 1..(Len(MappedRegions) + n)
          /\ DOMAIN MappedRegions = 1..Len(MappedRegions)
      BY <1>5 DEF Inv, RegionsInFile
    <3>3. CASE s = r
      <4>1. Len(MappedRegions) + 1 \in DOMAIN MappedRegions'
        BY <1>5, <3>2
      <4> QED
        BY <1>5, <3>3, <4>1
    <3>4. CASE s \in engines[t]
      <4>1. PICK i \in DOMAIN MappedRegions : s = MappedRegions[i]
        BY <3>4 DEF Inv, EnginesKnown
      <4>2. i \in DOMAIN MappedRegions' /\ MappedRegions'[i] = s
        BY <1>5, <3>2, <4>1
      <4> QED
        BY <4>2
    <3> QED
      BY <3>1, <3>3, <3>4
  <2> QED
    BY <1>7, <1>9, <2>1 DEF EnginesKnown
<1>11. ChildrenSeeFile'
  <2>1. UcMemMap({SHMRegion}, r) = {SHMRegion}
    BY <1>1, WholeFile DEF UcMemMap
  <2> QED
    BY <1>2, <1>9, <2>1 DEF Inv, ChildrenSeeFile
<1>12. engines'[1] = IF 1 \in ts THEN UcMemMap(engines[1], r) ELSE engines[1]
  BY <1>2, <1>7
<1> QED
  BY <1>3, <1>6, <1>10, <1>11, <1>12 DEF r

\* brk(0) maps the area in the first engine when the first thread calls it.
LEMMA BrkZeroStep ==
  ASSUME Inv, NEW t \in Threads, BrkZero(t)
  PROVE  Inv'
<1>1. /\ MapRegion({t}, 1, DataOffset, DataSize)
      /\ dataspace' = DataOffset /\ curbrk' = DataOffset /\ requested' = DataOffset
      /\ asked' = asked \cup {t}
      /\ UNCHANGED <<dataspacesize, LastMMAP, given>>
  BY DEF BrkZero
<1>2. /\ HostInPlace' /\ RegionsInFile' /\ EnginesKnown' /\ ChildrenSeeFile'
      /\ engines'[1] = IF t = 1 THEN UcMemMap(engines[1], DataRegion) ELSE engines[1]
  <2>1. DataOffset + DataSize <= SHMSize /\ {t} \in SUBSET Threads /\ 1 \in Nat \ {0}
    BY Layout
  <2>2. /\ HostInPlace' /\ RegionsInFile' /\ EnginesKnown' /\ ChildrenSeeFile'
        /\ engines'[1] = IF 1 \in {t} THEN UcMemMap(engines[1], DataRegion)
                                      ELSE engines[1]
    BY <1>1, <2>1, Layout, MapRegionStep, ZenonT(60) DEF DataRegion
  <2> QED
    BY <2>2
<1>3. DataRegion \in FileRegion /\ DataRegion.off = DataOffset /\ End(DataRegion) = DataOffset + DataSize
  BY Layout, MakeRegion DEF DataRegion
<1>4. engines[1] \in SUBSET FileRegion
  BY DEF Inv, EnginesKnown
<1>5. engines'[1] \in {engines[1], engines[1] \cup {DataRegion}}
  BY <1>2 DEF UcMemMap
<1>6. t = 1 => DataRegion \in engines'[1]
  <2> SUFFICES ASSUME t = 1, DataRegion \notin engines[1]
               PROVE  DataRegion \in engines'[1]
    BY <1>5
  <2>1. \A s \in engines[1] : Pages(DataRegion) \cap Pages(s) = {}
    BY <1>3, <1>4, Apart DEF Inv, FirstEngine
  <2> QED
    BY <1>2, <2>1 DEF UcMemMap
<1>7. FirstEngine'
  <2>1. End(DataRegion) <= LastMMAP
    BY <1>3, Layout DEF Inv, Break
  <2> QED
    BY <1>1, <1>5, <2>1 DEF Inv, FirstEngine
<1>8. HandedOut'
  BY <1>1, <1>5, <1>6 DEF Inv, HandedOut
<1>9. Break'
  BY <1>1, Layout DEF Inv, Break
<1> QED
  BY <1>2, <1>7, <1>8, <1>9 DEF Inv

\* A move of the break adds to dataspacesize, which is what the result is
\* ahead of the request by.
LEMMA BrkMoveStep ==
  ASSUME Inv, NEW t \in Threads, NEW inc \in Increments, BrkMove(t, inc)
  PROVE  Inv'
<1> DEFINE arg == curbrk + inc
<1>1. /\ arg >= dataspace
      /\ dataspacesize' = dataspacesize + (arg - dataspace)
      /\ curbrk' = dataspace + dataspacesize + (arg - dataspace) /\ requested' = arg
      /\ UNCHANGED <<host, MappedRegions, engines, dataspace, asked, LastMMAP, given>>
  BY DEF BrkMove, BrkResult, memVars
<1>2. arg \in Int /\ dataspace \in Int /\ dataspacesize \in Nat
  BY BoundsAssumption, Layout DEF Inv, Break
<1> HIDE DEF arg
<1>3. dataspacesize' \in Nat /\ curbrk' \in Int /\ requested' \in Int /\ curbrk' >= requested'
  BY <1>1, <1>2
<1>4. Break'
  BY <1>1, <1>3 DEF Inv, Break
<1>5. /\ HostInPlace' /\ RegionsInFile' /\ EnginesKnown' /\ ChildrenSeeFile'
      /\ FirstEngine' /\ HandedOut'
  BY <1>1 DEF Inv, HostInPlace, RegionsInFile, EnginesKnown, ChildrenSeeFile,
              FirstEngine, HandedOut, Threads
<1> QED
  BY <1>4, <1>5 DEF Inv

\* mmap maps above everything that the first engine has.
LEMMA MmapStep ==
  ASSUME Inv, NEW t \in Threads, NEW len \in Lengths, Mmap(t, len)
  PROVE  Inv'
<1> DEFINE r == Region(Base + LastMMAP, LastMMAP, len)
<1>1. /\ MapRegion(Threads, Len(engines), LastMMAP, len)
      /\ LastMMAP + len <= SHMSize
      /\ given' = given \cup {r} /\ LastMMAP' = LastMMAP + len
      /\ UNCHANGED <<dataspace, dataspacesize, curbrk, requested, asked>>
  BY DEF Mmap, breakVars
<1>2. /\ LastMMAP \in Nat /\ MmapBase <= LastMMAP /\ len \in Nat \ {0}
      /\ Len(engines) \in Nat \ {0} /\ 1 \in Threads
  BY Layout, BoundsAssumption DEF Inv, Break, EnginesKnown, Threads
<1>3. r \in FileRegion /\ r.off = LastMMAP /\ End(r) = LastMMAP + len
  BY <1>1, <1>2, MakeRegion
<1>4. /\ HostInPlace' /\ RegionsInFile' /\ EnginesKnown' /\ ChildrenSeeFile'
      /\ engines'[1] = UcMemMap(engines[1], r)
  BY <1>1, <1>2, MapRegionStep
<1> HIDE DEF r
<1>5. engines[1] \in SUBSET FileRegion
  BY DEF Inv, EnginesKnown
<1>6. engines'[1] = engines[1] \cup {r}
  <2>1. \A s \in engines[1] : Pages(r) \cap Pages(s) = {}
    BY <1>3, <1>5, Apart DEF Inv, FirstEngine
  <2> QED
    BY <1>4, <2>1 DEF UcMemMap
<1>7. FirstEngine'
  <2>1. \A s \in engines[1] : End(s) \in Int
    BY <1>5, RegionFields
  <2>2. \A s \in engines[1] : End(s) <= LastMMAP'
    BY <1>1, <1>2, <2>1 DEF Inv, FirstEngine
  <2>3. End(r) <= LastMMAP' /\ DataOffset + DataSize <= r.off
    BY <1>1, <1>2, <1>3, Layout
  <2> QED
    BY <1>6, <2>2, <2>3 DEF Inv, FirstEngine
<1>8. HandedOut'
  BY <1>1, <1>6 DEF Inv, HandedOut
<1>9. Break'
  BY <1>1, <1>2, Layout DEF Inv, Break
<1> QED
  BY <1>4, <1>7, <1>8, <1>9 DEF Inv

\* A cloned thread's engine takes the whole file.
LEMMA CloneStep ==
  ASSUME Inv, NEW t \in Threads, Clone(t)
  PROVE  Inv'
<1>1. /\ engines' = Append(engines, {SHMRegion})
      /\ UNCHANGED <<host, MappedRegions, breakVars, LastMMAP, given>>
  BY UcMapAllWhole DEF Clone, Inv
<1>2. engines \in Seq(SUBSET FileRegion) /\ Len(engines) \in Nat /\ Len(engines) >= 1
  BY DEF Inv, EnginesKnown
<1>3. /\ engines' \in Seq(SUBSET FileRegion) /\ Len(engines') = Len(engines) + 1
      /\ Threads' = Threads \cup {Len(engines) + 1} /\ Threads = 1..Len(engines)
      /\ \A u \in Threads : engines'[u] = engines[u]
      /\ engines'[Len(engines) + 1] = {SHMRegion}
  BY <1>1, <1>2, WholeFile DEF Threads
<1>4. EnginesKnown'
  <2>1. 1 \in DOMAIN MappedRegions /\ MappedRegions[1] = SHMRegion
    BY DEF Inv, RegionsInFile
  <2> QED
    BY <1>1, <1>2, <1>3, <2>1 DEF Inv, EnginesKnown
<1>5. ChildrenSeeFile'
  BY <1>3 DEF Inv, ChildrenSeeFile
<1>6. engines'[1] = engines[1]
  BY <1>2, <1>3
<1>7. /\ HostInPlace' /\ RegionsInFile' /\ FirstEngine' /\ HandedOut' /\ Break'
  BY <1>1, <1>6 DEF Inv, HostInPlace, RegionsInFile, FirstEngine, HandedOut,
                    Break, breakVars
<1> QED
  BY <1>4, <1>5, <1>7 DEF Inv

----------------------------------------------------------------------------
\* Inv is an invariant of guest memory.
THEOREM Invariance == Spec => []Inv
<1>1. ASSUME Inv, [Next]_vars
      PROVE  Inv'
  <2>1. CASE UNCHANGED vars
    BY <1>1, <2>1 DEF vars, memVars, breakVars, Inv, HostInPlace, RegionsInFile,
                      EnginesKnown, ChildrenSeeFile, FirstEngine, HandedOut,
                      Break, Threads
  <2>2. CASE Next
    BY <1>1, <2>2, BrkZeroStep, BrkMoveStep, MmapStep, CloneStep DEF Next
  <2> QED
    BY <1>1, <2>1, <2>2
<1> QED
  BY <1>1, InvInit, PTL DEF Spec

\* Type correctness of GuestMemory: regions and the break stay in the file,
\* and an engine has no region that Memmap does not know of.
THEOREM TypeCorrect == Spec => []TypeOK
<1>1. ASSUME Inv
      PROVE  TypeOK
  <2>1. host \in [HostPages -> 0..(SHMSize - 1)]
    BY <1>1, Layout DEF Inv, HostInPlace, HostPages
  <2>2. \A i \in DOMAIN MappedRegions :
          MappedRegions[i] \in [ptr : Nat, off : Nat, len : Nat \ {0}]
    BY <1>1 DEF Inv, RegionsInFile, FileRegion, AnyRegion
  <2> QED
    BY <1>1, <2>1, <2>2 DEF Inv, EnginesKnown, Break, TypeOK
<1> QED
  BY <1>1, Invariance, PTL

\* System calls, translated blocks and all engines reach the same page of the
\* file for an address, however regions were mapped over others.
THEOREM OneMemoryHolds == Spec => []OneMemory
<1>1. ASSUME Inv
      PROVE  OneMemory
  <2>1. \A a \in 0..(SHMSize - 1) : Base + a \in HostPages /\ host[Base + a] = a
    BY <1>1, Layout DEF Inv, HostInPlace, HostPages
  <2>2. \A a \in 0..(SHMSize - 1) : GetPointer(a) = Base + a
    BY <1>1, GetPointerInPlace DEF Inv
  <2>3. ASSUME NEW t \in Threads, NEW r \in engines[t], NEW a \in Pages(r)
        PROVE  host[r.ptr + (a - r.off)] = a
    <3>1. r \in FileRegion
      BY <1>1 DEF Inv, EnginesKnown, Threads
    <3>2. a \in 0..(SHMSize - 1) /\ r.ptr + (a - r.off) = Base + a
      BY <3>1, RegionFields, Layout
    <3> QED
      BY <2>1, <3>2
  <2> QED
    BY <2>1, <2>2, <2>3 DEF OneMemory, GetBaseOffset
<1> QED
  BY <1>1, Invariance, PTL

\* Every region that mmap returned, and the area of the break once the first
\* thread has asked for it, is mapped in the engine of every thread.
THEOREM VisibleToAllHolds == Spec => []VisibleToAll
<1>1. ASSUME Inv
      PROVE  VisibleToAll
  <2>1. engines[1] \in SUBSET FileRegion /\ 1 \in Threads
    BY <1>1 DEF Inv, EnginesKnown, Threads
  <2>2. ASSUME NEW t \in Threads, NEW r \in engines[1], NEW a \in Pages(r)
        PROVE  Sees(t, a)
    <3>1. CASE t = 1
      BY <3>1 DEF Sees
    <3>2. CASE t # 1
      <4>1. a \in Pages(SHMRegion)
        <5>1. a \in Nat /\ a < End(r) /\ End(r) <= SHMSize /\ End(r) \in Nat
          BY <2>1, RegionFields
        <5> QED
          BY <5>1, Layout, WholeFile
      <4> QED
        BY <1>1, <3>2, <4>1 DEF Inv, ChildrenSeeFile, Sees
    <3> QED
      BY <3>1, <3>2
  <2>3. Pages(DataRegion) = DataOffset..(DataOffset + DataSize - 1)
    BY Layout, MakeRegion DEF DataRegion
  <2> QED
    BY <1>1, <2>2, <2>3 DEF Inv, HandedOut, VisibleToAll
<1> QED
  BY <1>1, Invariance, PTL

\* The guest is never told of a break below the one it asked for.
THEOREM BreakCoversHolds == Spec => []BreakCovers
<1>1. Inv => BreakCovers
  BY DEF Inv, Break, BreakCovers
<1> QED
  BY <1>1, Invariance, PTL

============================================================================
