------------------------- MODULE FileManagerProofs -------------------------
(***************************************************************************)
(* Proofs about FileManager, for any set of names and any number of calls. *)
(***************************************************************************)
EXTENDS FileManager, TLAPS

\* openat numbers its objects: the object at index i is the descriptor i + 2.
Opened == 3..(2 + Len(FDs))

Object == [FDesc : Nat, Name : Names]

TypeOK ==
  /\ FDs \in Seq(Object) /\ Len(FDs) <= MaxOpen
  /\ files \in [Opened -> Names]
  /\ FDMap \in [Opened -> Nat]

\* The counter, the map and the vector agree.
Numbered ==
  /\ CurrentFDOffset = 3 + Len(FDs)
  /\ \A fd \in Opened :
       /\ FDMap[fd] = fd - 2
       /\ FDs[fd - 2] = [FDesc |-> fd, Name |-> files[fd]]

Inv == TypeOK /\ Numbered

----------------------------------------------------------------------------
USE FileAssumption DEF Opened

\* The tables are empty at first.
LEMMA InvInit == Init => Inv
<1> SUFFICES ASSUME Init PROVE Inv
  OBVIOUS
<1>1. Len(FDs) = 0 /\ Opened = {} /\ FDs \in Seq(Object)
  BY DEF Init
<1>2. TypeOK
  BY <1>1 DEF Init, TypeOK
<1>3. Numbered
  BY <1>1 DEF Init, Numbered
<1> QED
  BY <1>2, <1>3 DEF Inv

\* The types of the numbers.
LEMMA Numbers ==
  ASSUME Inv
  PROVE  /\ Len(FDs) \in Nat
         /\ DOMAIN FDMap = Opened /\ DOMAIN files = Opened
BY DEF Inv, TypeOK

\* An openat adds the next number to the vector, to the map and to what the
\* guest knows, and leaves the earlier ones where they were.
LEMMA OpenatStep ==
  ASSUME Inv, NEW name \in Names, Openat(name)
  PROVE  /\ Inv'
         /\ result' = 3 + Len(FDs)
         /\ DOMAIN files' = DOMAIN files \cup {3 + Len(FDs)}
<1> DEFINE n == Len(FDs)
<1>1. /\ n \in Nat /\ n < MaxOpen /\ CurrentFDOffset = 3 + n
      /\ DOMAIN FDMap = Opened /\ DOMAIN files = Opened
  BY Numbers DEF Openat, Inv, Numbered
<1>2. /\ FDs' = Append(FDs, [FDesc |-> 3 + n, Name |-> name])
      /\ FDMap' = [fd \in Opened \cup {3 + n} |->
                     IF fd = 3 + n THEN n + 1 ELSE FDMap[fd]]
      /\ CurrentFDOffset' = 3 + n + 1
      /\ files' = [fd \in Opened \cup {3 + n} |->
                     IF fd = 3 + n THEN name ELSE files[fd]]
      /\ result' = 3 + n
  BY <1>1 DEF Openat, MapEntry, NextOffset
<1>3. /\ FDs' \in Seq(Object) /\ Len(FDs') = n + 1
      /\ \A i \in 1..n : FDs'[i] = FDs[i]
      /\ FDs'[n + 1] = [FDesc |-> 3 + n, Name |-> name]
  <2>1. [FDesc |-> 3 + n, Name |-> name] \in Object /\ FDs \in Seq(Object)
    BY <1>1 DEF Object, Inv, TypeOK
  <2> QED
    BY <1>2, <2>1
<1>4. Opened' = Opened \cup {3 + n} /\ 3 + n \notin Opened
  BY <1>1, <1>3
<1>5. TypeOK'
  <2>1. files' \in [Opened' -> Names]
    BY <1>2, <1>4 DEF Inv, TypeOK
  <2>2. FDMap' \in [Opened' -> Nat]
    BY <1>1, <1>2, <1>4 DEF Inv, TypeOK
  <2> QED
    BY <1>1, <1>3, <2>1, <2>2 DEF TypeOK
<1>6. Numbered'
  <2>1. CurrentFDOffset' = 3 + Len(FDs')
    BY <1>1, <1>2, <1>3
  <2>2. ASSUME NEW fd \in Opened'
        PROVE  /\ FDMap'[fd] = fd - 2
               /\ FDs'[fd - 2] = [FDesc |-> fd, Name |-> files'[fd]]
    <3>1. CASE fd = 3 + n
      BY <1>1, <1>2, <1>3, <1>4, <3>1
    <3>2. CASE fd \in Opened
      <4>1. FDMap'[fd] = FDMap[fd] /\ files'[fd] = files[fd]
        BY <1>2, <1>4, <3>2
      <4>2. fd - 2 \in 1..n
        BY <1>1, <3>2
      <4> QED
        BY <1>3, <3>2, <4>1, <4>2 DEF Inv, Numbered
    <3> QED
      BY <1>4, <3>1, <3>2
  <2> QED
    BY <2>1, <2>2 DEF Numbered
<1> QED
  BY <1>1, <1>2, <1>5, <1>6 DEF Inv

\* The other calls leave the tables alone.
LEMMA OtherCalls ==
  ASSUME Next, \A name \in Names : ~Openat(name)
  PROVE  UNCHANGED table
<1>1. ASSUME NEW fd \in Descriptors, Writev(fd) \/ Fstat(fd) \/ \E count \in Counts : Write(fd, count)
      PROVE  UNCHANGED table
  BY <1>1 DEF Writev, Fstat, Write
<1>2. CASE Read \/ Open \/ Close \/ Lseek \/ Access \/ Readlink
  BY <1>2 DEF Read, Open, Close, Lseek, Access, Readlink, Returns
<1> QED
  BY <1>1, <1>2 DEF Next

\* What a step leaves.
LEMMA InvStep ==
  ASSUME Inv, [Next]_vars
  PROVE  Inv'
<1>1. ASSUME NEW name \in Names, Openat(name)
      PROVE  Inv'
  BY <1>1, OpenatStep
<1>2. CASE UNCHANGED table
  BY <1>2 DEF Inv, TypeOK, Numbered, table
<1>3. CASE UNCHANGED vars
  BY <1>2, <1>3 DEF vars
<1> QED
  BY <1>1, <1>2, <1>3, OtherCalls

----------------------------------------------------------------------------
\* Inv is an invariant of the descriptor table.
THEOREM Invariance == Spec => []Inv
<1>1. Inv /\ [Next]_vars => Inv'
  BY InvStep
<1> QED
  BY <1>1, InvInit, PTL DEF Spec

\* Whatever calls were made, the object behind a descriptor is the file that
\* the guest opened it for.
THEOREM DescriptorsMatchHolds == Spec => []DescriptorsMatch
<1>1. ASSUME Inv
      PROVE  DescriptorsMatch
  BY <1>1, Numbers DEF Inv, Numbered, DescriptorsMatch
<1> QED
  BY <1>1, Invariance, PTL

\* openat never returns a descriptor in use or a standard stream, and no call
\* takes a descriptor away.
THEOREM DescriptorsFreshHolds == Spec => DescriptorsFresh
<1> DEFINE Fresh == /\ DOMAIN files \subseteq DOMAIN files'
                    /\ Len(FDs') > Len(FDs) => result' \notin DOMAIN files \cup Standard
<1>1. ASSUME Inv, [Next]_vars
      PROVE  [Fresh]_vars
  <2>1. ASSUME NEW name \in Names, Openat(name)
        PROVE  Fresh
    <3>1. /\ result' = 3 + Len(FDs)
          /\ DOMAIN files' = DOMAIN files \cup {3 + Len(FDs)}
      BY <1>1, <2>1, OpenatStep
    <3> QED
      BY <1>1, <3>1, Numbers DEF Standard
  <2>2. CASE UNCHANGED table
    <3>1. UNCHANGED <<FDs, files>> /\ Len(FDs) \in Nat
      BY <1>1, <2>2, Numbers DEF table
    <3> QED
      BY <3>1
  <2> QED
    BY <1>1, <2>1, <2>2, OtherCalls
<1> QED
  BY <1>1, Invariance, PTL DEF Spec, DescriptorsFresh

============================================================================
