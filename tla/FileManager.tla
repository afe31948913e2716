---------------------------- MODULE FileManager ----------------------------
(***************************************************************************)
(* The table of guest descriptors: FileManager and FD, as the file calls   *)
(* of SyscallHandler use them.                                             *)
(*                                                                         *)
(* FDs is a vector of objects and FDMap maps a descriptor to a pointer     *)
(* into it, here the index of the object.  The pointers of earlier calls   *)
(* dangle once the vector has grown; that is left out, since no call looks *)
(* through one: FD::writev returns before it reads a member.               *)
(*                                                                         *)
(* A call is one step: the tables have no lock, and two threads that call  *)
(* at once are outside the model.                                          *)
(***************************************************************************)
EXTENDS Integers, Sequences

CONSTANTS Names,   \* paths of files
          Counts,  \* lengths of writes
          MaxOpen  \* bound on the number of openat calls

ASSUME FileAssumption == Counts \subseteq Nat /\ MaxOpen \in Nat

VARIABLES
  CurrentFDOffset, FDs, FDMap,
  files,     \* guest: the file it means by a descriptor that openat returned
  result     \* what the last call returned

table == <<CurrentFDOffset, FDs, FDMap, files>>
vars == <<table, result>>

Standard == 0..2
Descriptors == 0..(3 + MaxOpen)

Init ==
  /\ CurrentFDOffset = 3 /\ FDs = <<>> /\ FDMap = [fd \in {} |-> 0]
  /\ files = [fd \in {} |-> "none"]
  /\ result = 0

\* A plausible slip: the counter is stepped before the entry is made.
MapEntryAfterStep(ptr) ==
  [fd \in DOMAIN FDMap \cup {CurrentFDOffset + 1} |->
     IF fd = CurrentFDOffset + 1 THEN ptr ELSE FDMap[fd]]

\* FDMap[CurrentFDOffset] = fd
MapEntry(ptr) ==
  [fd \in DOMAIN FDMap \cup {CurrentFDOffset} |->
     IF fd = CurrentFDOffset THEN ptr ELSE FDMap[fd]]

\* A plausible slip: the counter is not stepped.
NextOffsetSame == CurrentFDOffset

\* CurrentFDOffset++
NextOffset == CurrentFDOffset + 1

\* The object is copied to the end of the vector, and the map gets its place.
\* No host file is opened.
Openat(name) ==
  LET fdNum == CurrentFDOffset
  IN  /\ Len(FDs) < MaxOpen
      /\ FDs' = Append(FDs, [FDesc |-> fdNum, Name |-> name])
      /\ FDMap' = MapEntry(Len(FDs) + 1)
      /\ CurrentFDOffset' = NextOffset
      /\ files' = [fd \in DOMAIN files \cup {fdNum} |->
                     IF fd = fdNum THEN name ELSE files[fd]]
      /\ result' = fdNum

\* Refused with and without an object: the loop of FD::writev lies behind its
\* return.
Writev(fd) ==
  /\ result' = -1
  /\ UNCHANGED table

\* Write goes to the host's descriptor of that number, whatever it is.
Write(fd, count) ==
  /\ result' \in (0..count) \cup {-1}
  /\ UNCHANGED table

\* Only standard output and the error stream have a status.
Fstat(fd) ==
  /\ result' \in IF fd \in {1, 2} THEN {0, -1} ELSE {-1}
  /\ UNCHANGED table

Returns(n) == result' = n /\ UNCHANGED table

\* Not implemented: 0 is returned, which for Open is the standard input, and an
\* object stays in the table when the guest closes its descriptor.
Read  == Returns(0)
Open  == Returns(0)
Close == Returns(0)
Lseek == Returns(0)

\* Nothing is found.
Access   == Returns(-1)
Readlink == Returns(-1)

Next ==
  \/ \E name \in Names : Openat(name)
  \/ \E fd \in Descriptors :
       \/ Writev(fd) \/ Fstat(fd)
       \/ \E count \in Counts : Write(fd, count)
  \/ Read \/ Open \/ Close \/ Lseek \/ Access \/ Readlink

Spec == Init /\ [][Next]_vars

-----------------------------------------------------------------------------
(* Properties.                                                             *)

\* The object behind a descriptor is the file that the guest opened it for,
\* through the entry of the map and the place it gives.
DescriptorsMatch ==
  \A fd \in DOMAIN files :
    /\ fd \in DOMAIN FDMap
    /\ FDs[FDMap[fd]] = [FDesc |-> fd, Name |-> files[fd]]

\* An openat never returns a descriptor that means another file already, nor
\* one of the standard streams; no call takes a descriptor away.
DescriptorsFresh ==
  [][/\ DOMAIN files \subseteq DOMAIN files'
     /\ Len(FDs') > Len(FDs) => result' \notin DOMAIN files \cup Standard]_vars

============================================================================
