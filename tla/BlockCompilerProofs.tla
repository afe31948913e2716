------------------------ MODULE BlockCompilerProofs ------------------------
(***************************************************************************)
(* Proofs about BlockCompiler.  Every operation of a list carries its      *)
(* address, so that a list is right when each operation is at the address  *)
(* where the one before it leaves control, and when its end adds to rip    *)
(* what leads there.                                                       *)
(***************************************************************************)
EXTENDS BlockCompiler, TLAPS

\* Where control is after an operation of program c, other than a jump or the
\* end.
After(c, o) == IF o.op = "pure" THEN o.at ELSE o.at + c[o.at].size

OpOK(c, o) ==
  /\ o.at \in Addr
  /\ o.op \in {"exec", "syscall"} => c[o.at].flow \in {"next", "syscall"}
  /\ o.op = "jump" => c[o.at].flow = "jump"
  /\ o.op # "end"

\* The first n operations of L translate the code at k.
Chained(c, L, k, n) ==
  /\ n \in 1..Len(L)
  /\ L[1] = Op("pure", k)
  /\ \A i \in 1..n : OpOK(c, L[i])
  /\ \A i \in 1..(n - 1) : L[i].op # "jump" /\ L[i + 1].at = After(c, L[i])

\* A list that has been ended: rip, which is k unless a jump has set it, plus
\* the increment is where control is.
Ended(c, L, k) ==
  /\ Chained(c, L, k, Len(L) - 1)
  /\ L[Len(L)].op = "end"
  /\ IF L[Len(L) - 1].op = "jump"
       THEN L[Len(L)].at = 0
       ELSE k + L[Len(L)].at = After(c, L[Len(L) - 1])

Cached(c, f) == \A a \in Addr : f[a] # NoList => Ended(c, f[a], a)

\* A list in the making leads to a.
MadeUpTo(c, L, k, a) ==
  /\ Chained(c, L, k, Len(L))
  /\ L[Len(L)].op # "jump"
  /\ After(c, L[Len(L)]) = a

\* The handler has translated the instruction at a.
Translated(c, L, k, a) ==
  /\ Chained(c, L, k, Len(L))
  /\ L[Len(L)].at = a
  /\ L[Len(L)].op = IF c[a].flow = "jump" THEN "jump"
                    ELSE IF c[a].flow = "syscall" THEN "syscall" ELSE "exec"
  /\ c[a].handler = "yes"

Making ==
  /\ pc \in {"decode", "check"} => JITRIP \in Addr
  /\ pc = "decode" => ~DecodeFailure /\ MadeUpTo(code, IRList, rip, JITRIP)
  /\ pc = "check" => IF DecodeFailure
                       THEN MadeUpTo(code, IRList, rip, JITRIP)
                       ELSE Translated(code, IRList, rip, JITRIP)

\* The block b at i that runs: before its end rip is its key, and control is
\* where the next operation is; at its end control is where rip will be.
RunsAt(c, b, i, r, a) ==
  /\ i \in 1..Len(b)
  /\ \E k \in Addr :
       /\ Ended(c, b, k)
       /\ i < Len(b) => r = k /\ a = b[i].at
       /\ i = Len(b) => a = r + b[i].at

\* Outside a block, CPUState.rip is the rip of the architecture.
InStep ==
  /\ pc # "block" => arch = rip
  /\ pc \in {"loop", "decode", "check", "backend", "fallback"} => rip \in Addr
  /\ pc = "backend" => irlists[rip] # NoList

\* Unicorn is not given a system call: a list that is started with one ends
\* after it.
NoSyscallToUnicorn ==
  code[rip].flow = "syscall" =>
    /\ pc # "fallback"
    /\ pc \in {"decode", "check"} => Length = 0
    /\ pc = "check" => ~DecodeFailure

Clean == pc \notin {"decode", "check"} => IRList = <<>> /\ ~DecodeFailure

Inv ==
  /\ TypeOK
  /\ code \in Programs
  /\ Clean
  /\ InStep
  /\ NoSyscallToUnicorn
  /\ Cached(code, irlists)
  /\ Cached(code, blockcache)
  /\ Making
  /\ pc = "block" => RunsAt(code, block, ip, rip, arch)

----------------------------------------------------------------------------
\* Addresses are positive.
LEMMA AddrNat ==
  ASSUME NEW a \in Addr \cup {0}
  PROVE  a \in Nat /\ (a \in Addr <=> a # 0)
BY AddrAssumption

\* Facts about the instructions of a program.
LEMMA CodeFacts ==
  ASSUME NEW c \in Programs, NEW a \in Addr
  PROVE  /\ a \in Nat \ {0}
         /\ c[a] \in Inst
         /\ c[a].size \in Nat \ {0}
         /\ c[a].to \in [Data -> Addr \cup {0}]
         /\ c[a].flow = "syscall" =>
              c[a].known /\ c[a].handler = "yes" /\ ~c[a].refused
         /\ c[a].flow = "branch" => c[a].handler # "yes"
         /\ c[a].flow # "jump" => a + c[a].size \in Addr
<1>1. c \in [Addr -> Inst]
  BY ProgramsAssumption
<1>2. c[a] \in Inst
  BY <1>1
<1> QED
  BY <1>2, AddrAssumption, ProgramsAssumption DEF Inst

\* An operation other than a jump leaves control in the program.
LEMMA AfterType ==
  ASSUME NEW c \in Programs, NEW o \in OpRec, OpOK(c, o), o.op # "jump"
  PROVE  After(c, o) \in Addr
<1>1. o.at \in Addr
  BY DEF OpOK
<1>2. c[o.at].flow # "jump" => o.at + c[o.at].size \in Addr
  BY <1>1, CodeFacts
<1>3. o.op \in {"pure", "exec", "syscall"}
  BY DEF OpOK, OpRec, OpNames
<1>4. CASE o.op = "pure"
  BY <1>1, <1>4 DEF After
<1>5. CASE o.op \in {"exec", "syscall"}
  <2>1. c[o.at].flow # "jump"
    BY <1>5 DEF OpOK
  <2> QED
    BY <1>2, <1>5, <2>1 DEF After
<1> QED
  BY <1>3, <1>4, <1>5

\* An operation at the place where a list leads may be appended to it.
LEMMA ChainAppend ==
  ASSUME NEW c \in Programs, NEW L \in Seq(OpRec), NEW k, NEW a, NEW o \in OpRec,
         MadeUpTo(c, L, k, a), OpOK(c, o), o.at = a
  PROVE  /\ Append(L, o) \in Seq(OpRec)
         /\ Len(Append(L, o)) = Len(L) + 1
         /\ Append(L, o)[Len(L) + 1] = o
         /\ Chained(c, Append(L, o), k, Len(L) + 1)
<1> DEFINE M == Append(L, o)
<1>1. /\ M \in Seq(OpRec)
      /\ Len(M) = Len(L) + 1
      /\ Len(L) \in Nat
      /\ M[Len(L) + 1] = o
      /\ \A i \in 1..Len(L) : M[i] = L[i]
  OBVIOUS
<1>2. Chained(c, L, k, Len(L)) /\ L[Len(L)].op # "jump"
      /\ After(c, L[Len(L)]) = a
  BY DEF MadeUpTo
<1> HIDE DEF M
<1>3. Len(L) \in 1..Len(L) /\ 1 \in 1..Len(L)
  BY <1>1, <1>2 DEF Chained
<1>4. M[1] = Op("pure", k)
  BY <1>1, <1>2, <1>3 DEF Chained
<1>5. \A i \in 1..(Len(L) + 1) : OpOK(c, M[i])
  BY <1>1, <1>2 DEF Chained
<1>6. ASSUME NEW i \in 1..Len(L)
      PROVE  M[i].op # "jump" /\ M[i + 1].at = After(c, M[i])
  <2>1. CASE i = Len(L)
    BY <1>1, <1>2, <1>3, <2>1
  <2>2. CASE i # Len(L)
    <3>1. i \in 1..(Len(L) - 1) /\ i + 1 \in 1..Len(L)
      BY <1>1, <2>2
    <3> QED
      BY <1>1, <1>2, <3>1 DEF Chained
  <2> QED
    BY <2>1, <2>2
<1>7. Chained(c, M, k, Len(L) + 1)
  BY <1>1, <1>4, <1>5, <1>6 DEF Chained
<1> QED
  BY <1>1, <1>7 DEF M

\* Ending a list.
LEMMA EndAppend ==
  ASSUME NEW c \in Programs, NEW L \in Seq(OpRec), NEW k, NEW n \in Nat,
         Chained(c, L, k, Len(L)),
         IF L[Len(L)].op = "jump" THEN n = 0 ELSE k + n = After(c, L[Len(L)])
  PROVE  /\ Append(L, Op("end", n)) \in Seq(OpRec)
         /\ Append(L, Op("end", n)) # NoList
         /\ Ended(c, Append(L, Op("end", n)), k)
<1> DEFINE M == Append(L, Op("end", n))
<1>0. Op("end", n) \in OpRec
  BY DEF Op, OpRec, OpNames
<1>1. /\ M \in Seq(OpRec)
      /\ Len(M) = Len(L) + 1
      /\ Len(L) \in Nat
      /\ M[Len(L) + 1] = Op("end", n)
      /\ \A i \in 1..Len(L) : M[i] = L[i]
  BY <1>0
<1> HIDE DEF M
<1>2. Len(L) \in 1..Len(L) /\ 1 \in 1..Len(L)
  BY <1>1 DEF Chained
<1>3. M # NoList
  BY <1>1 DEF NoList
<1>4. Chained(c, M, k, Len(M) - 1)
  <2>1. M[1] = Op("pure", k)
    BY <1>1, <1>2 DEF Chained
  <2>2. \A i \in 1..Len(L) : OpOK(c, M[i])
    BY <1>1 DEF Chained
  <2>3. ASSUME NEW i \in 1..(Len(L) - 1)
        PROVE  M[i].op # "jump" /\ M[i + 1].at = After(c, M[i])
    <3>1. i \in 1..Len(L) /\ i + 1 \in 1..Len(L)
      BY <1>1
    <3> QED
      BY <1>1, <3>1 DEF Chained
  <2> QED
    BY <1>1, <1>2, <2>1, <2>2, <2>3 DEF Chained
<1>5. Ended(c, M, k)
  BY <1>1, <1>2, <1>4 DEF Ended, Op
<1> QED
  BY <1>1, <1>3, <1>5 DEF M

\* A list that is run from its start.
LEMMA RunStart ==
  ASSUME NEW c \in Programs, NEW b \in Seq(OpRec), NEW k \in Addr, Ended(c, b, k)
  PROVE  RunsAt(c, b, 1, k, k)
<1>1. Len(b) \in Nat /\ Len(b) - 1 \in 1..Len(b) /\ b[1] = Op("pure", k)
  BY DEF Ended, Chained
<1>2. b[1].at = k
  BY <1>1 DEF Op
<1> DEFINE n == Len(b)
<1>3. 1 \in 1..n /\ 1 < n /\ 1 # n
  <2>1. n \in Nat /\ n - 1 \in 1..n
    BY <1>1
  <2> HIDE DEF n
  <2> QED
    BY <2>1
<1>4. /\ 1 < Len(b) => k = k /\ k = b[1].at
      /\ 1 = Len(b) => k = k + b[1].at
  BY <1>2, <1>3
<1> QED
  BY <1>3, <1>4 DEF RunsAt

\* What holds at an operation of a block that runs: it is the one of the
\* architecture's next instruction, and only the last one ends the block.
LEMMA RunFacts ==
  ASSUME NEW c \in Programs, NEW b \in Seq(OpRec), NEW i, NEW r, NEW a,
         RunsAt(c, b, i, r, a)
  PROVE  /\ b[i] \in OpRec
         /\ b[i].op # "end" => OpOK(c, b[i]) /\ i < Len(b) /\ b[i].at = a /\ r \in Addr
         /\ b[i].op = "end" => a = r + b[i].at
<1>1. i \in 1..Len(b) /\ Len(b) \in Nat
  BY DEF RunsAt
<1>2. b[i] \in OpRec
  BY <1>1
<1>3. PICK k \in Addr : /\ Ended(c, b, k)
                        /\ i < Len(b) => r = k /\ a = b[i].at
                        /\ i = Len(b) => a = r + b[i].at
  BY DEF RunsAt
<1>4. CASE i < Len(b)
  <2>1. i \in 1..(Len(b) - 1)
    BY <1>1, <1>4
  <2>2. OpOK(c, b[i])
    BY <1>3, <2>1 DEF Ended, Chained
  <2> QED
    BY <1>2, <1>3, <1>4, <2>2 DEF OpOK
<1>5. CASE i = Len(b)
  BY <1>2, <1>3, <1>5 DEF Ended
<1> QED
  BY <1>1, <1>4, <1>5

\* One operation of a block: control is at the next one.
LEMMA RunStep ==
  ASSUME NEW c \in Programs, NEW b \in Seq(OpRec), NEW i, NEW r, NEW a,
         RunsAt(c, b, i, r, a), b[i].op # "end"
  PROVE  /\ b[i].op # "jump" => RunsAt(c, b, i + 1, r, After(c, b[i]))
         /\ b[i].op = "jump" => \A t \in Nat : RunsAt(c, b, i + 1, t, t)
<1>1. i \in 1..Len(b) /\ Len(b) \in Nat
  BY DEF RunsAt
<1>2. b[i] \in OpRec /\ OpOK(c, b[i]) /\ i < Len(b)
  BY RunFacts
<1>3. PICK k \in Addr : Ended(c, b, k) /\ r = k
  BY <1>2 DEF RunsAt
<1>5. i + 1 \in 1..Len(b)
  BY <1>1, <1>2
<1>6. Chained(c, b, k, Len(b) - 1)
  BY <1>3 DEF Ended
<1>7. CASE i = Len(b) - 1
  <2>1. i + 1 = Len(b)
    BY <1>1, <1>7
  <2>2. CASE b[i].op = "jump"
    <3>1. b[i + 1].at = 0
      BY <1>3, <1>7, <2>1, <2>2 DEF Ended
    <3>2. \A t \in Nat : t = t + b[i + 1].at
      BY <3>1
    <3> QED
      BY <1>3, <1>5, <2>1, <2>2, <3>2 DEF RunsAt
  <2>3. CASE b[i].op # "jump"
    <3>1. After(c, b[i]) = r + b[i + 1].at
      BY <1>3, <1>7, <2>1, <2>3 DEF Ended
    <3> QED
      BY <1>3, <1>5, <2>1, <2>3, <3>1 DEF RunsAt
  <2> QED
    BY <2>2, <2>3
<1>8. CASE i # Len(b) - 1
  <2>1. i \in 1..((Len(b) - 1) - 1) /\ i + 1 < Len(b)
    BY <1>1, <1>2, <1>8
  <2>2. b[i].op # "jump" /\ b[i + 1].at = After(c, b[i])
    BY <1>6, <2>1 DEF Chained
  <2> QED
    BY <1>3, <1>5, <2>1, <2>2 DEF RunsAt
<1> QED
  BY <1>7, <1>8

----------------------------------------------------------------------------
\* The initial state satisfies the invariant.
LEMMA InvInit == Init => Inv
<1> SUFFICES ASSUME Init PROVE Inv
  OBVIOUS
<1>1. code \in Programs /\ code \in [Addr -> Inst]
  BY ProgramsAssumption DEF Init
<1>2. NoList \in Seq(OpRec)
  BY DEF NoList
<1>3. irlists \in [Addr -> Seq(OpRec)] /\ blockcache \in [Addr -> Seq(OpRec)]
  BY <1>2 DEF Init
<1>4. TypeOK
  BY <1>1, <1>2, <1>3, AddrAssumption DEF Init, TypeOK, PC, NoList
<1>5. Cached(code, irlists) /\ Cached(code, blockcache)
  BY DEF Init, Cached
<1> QED
  BY <1>1, <1>4, <1>5, AddrAssumption DEF Init, Inv, Clean, InStep,
                                          NoSyscallToUnicorn, Making

\* The loop of the thread, and the actions of others.
LEMMA LoopPreserves ==
  ASSUME Inv, LoopStep \/ StopByOther \/ UNCHANGED vars
  PROVE  Inv'
<1> USE DEF guestVars, compVars, cacheVars, execVars, vars, Inv
<1>1. CASE LeaveLoop
  BY <1>1 DEF LeaveLoop, TypeOK, PC, Clean, InStep, NoSyscallToUnicorn, Making
<1>2. CASE FindBlock
  <2>1. rip \in Addr /\ arch = rip
    BY <1>2 DEF FindBlock, InStep
  <2>2. block' \in Seq(OpRec) /\ Ended(code, block', rip)
    BY <1>2, <2>1 DEF FindBlock, TypeOK, Cached
  <2>3. RunsAt(code, block', 1, rip, rip)
    BY <2>1, <2>2, RunStart
  <2> QED
    BY <1>2, <2>1, <2>2, <2>3 DEF FindBlock, TypeOK, PC, Clean, InStep,
                                  NoSyscallToUnicorn, Making
<1>3. CASE TestZero
  <2>1. pc' = "loop" => rip \in Addr
    BY <1>3, AddrNat DEF TestZero, TypeOK
  <2> QED
    BY <1>3, <2>1 DEF TestZero, TypeOK, PC, Clean, InStep, NoSyscallToUnicorn,
                      Making
<1>4. CASE StopByOther
  BY <1>4 DEF StopByOther, TypeOK, Clean, InStep, NoSyscallToUnicorn, Making,
              JITRIP
<1>5. CASE UNCHANGED vars
  BY <1>5 DEF TypeOK, Clean, InStep, NoSyscallToUnicorn, Making, JITRIP
<1> QED
  BY <1>1, <1>2, <1>3, <1>4, <1>5 DEF LoopStep

\* Unicorn runs the instruction at rip.
LEMMA UcPreserves ==
  ASSUME Inv, UcRun
  PROVE  Inv'
<1> USE DEF guestVars, compVars, cacheVars, execVars, vars, Inv
<1>1. CASE UcStep
  <2>1. rip \in Addr /\ data \in Data
    BY <1>1 DEF UcStep, InStep, TypeOK
  <2>2. Effect[data, rip] \in Data
    BY <2>1, EffectAssumption
  <2>3. Successor(code[rip], rip, data) \in Addr \cup {0}
    <3>1. /\ code[rip].to \in [Data -> Addr \cup {0}]
          /\ code[rip].flow # "jump" => rip + code[rip].size \in Addr
      BY <2>1, CodeFacts
    <3> QED
      BY <2>1, <3>1 DEF Successor
  <2> QED
    BY <1>1, <2>2, <2>3 DEF UcStep, TypeOK, PC, Clean, InStep,
                            NoSyscallToUnicorn, Making
<1>2. CASE UcError
  BY <1>2 DEF UcError, TypeOK, PC, Clean, InStep, NoSyscallToUnicorn, Making
<1> QED
  BY <1>1, <1>2 DEF UcRun

\* The operations of a block.
LEMMA BlockPreserves ==
  ASSUME Inv, BlockStep
  PROVE  Inv'
<1> USE DEF guestVars, compVars, cacheVars, execVars, vars, Inv
<1> DEFINE o == block[ip]
<1>1. pc = "block" /\ RunsAt(code, block, ip, rip, arch)
  BY DEF BlockStep, PureOp, ExecOp, JumpOp, SyscallOp, EndOp, AtOp
<1>2. /\ o \in OpRec
      /\ o.op # "end" => OpOK(code, o) /\ o.at = arch /\ arch \in Addr /\ rip \in Addr
      /\ o.op = "end" => arch = rip + o.at
  BY <1>1, RunFacts DEF TypeOK, OpOK
<1>3. /\ o.op \notin {"end", "jump"} => RunsAt(code, block, ip + 1, rip, After(code, o))
      /\ o.op = "jump" => \A t \in Nat : RunsAt(code, block, ip + 1, t, t)
  BY <1>1, RunStep DEF TypeOK
<1>4. /\ o.op \notin {"end", "jump"} => After(code, o) \in Addr
      /\ o.op # "end" => Effect[data, arch] \in Data
  BY <1>2, AfterType, EffectAssumption DEF TypeOK
<1>5. ip \in Nat /\ ip + 1 \in Nat
  BY DEF TypeOK
<1> HIDE DEF o
<1>6. CASE PureOp
  <2>1. After(code, o) = arch
    BY <1>2, <1>6 DEF PureOp, AtOp, After, o
  <2> QED
    BY <1>1, <1>3, <1>5, <1>6, <2>1
       DEF PureOp, AtOp, Advance, TypeOK, Clean, InStep, NoSyscallToUnicorn,
           Making, o
<1>7. CASE ExecOp
  <2>1. After(code, o) = arch' /\ data' = Effect[data, arch] /\ o.op = "exec"
    BY <1>2, <1>7 DEF ExecOp, AtOp, After, o
  <2> QED
    BY <1>1, <1>3, <1>4, <1>5, <1>7, <2>1
       DEF ExecOp, AtOp, Advance, TypeOK, Clean, InStep, NoSyscallToUnicorn,
           Making
<1>8. CASE JumpOp
  <2>1. /\ rip' = code[arch].to[data] /\ rip' = arch'
        /\ data' = Effect[data, arch] /\ o.op = "jump"
    BY <1>2, <1>8 DEF JumpOp, AtOp, o
  <2>2. rip' \in Addr \cup {0}
    <3>1. code[arch].to \in [Data -> Addr \cup {0}]
      BY <1>2, <2>1, CodeFacts
    <3> QED
      BY <2>1, <3>1 DEF TypeOK
  <2>3. rip' \in Nat
    BY <2>2, AddrNat
  <2> QED
    BY <1>1, <1>3, <1>4, <1>5, <1>8, <2>1, <2>2, <2>3
       DEF JumpOp, AtOp, Advance, TypeOK, Clean, InStep, NoSyscallToUnicorn,
           Making
<1>9. CASE SyscallOp
  <2>1. After(code, o) = arch' /\ data' = Effect[data, arch] /\ o.op = "syscall"
    BY <1>2, <1>9 DEF SyscallOp, AtOp, After, o
  <2>2. clones' \subseteq [at : Addr, rip : Nat] /\ stop' \in BOOLEAN
    <3>1. o.at \in Addr /\ rip \in Nat
      BY <1>2, <2>1, AddrNat
    <3>2. rip + 2 \in Nat
      BY <3>1
    <3> DEFINE x == [at |-> o.at, rip |-> rip + 2]
    <3>3. x \in [at : Addr, rip : Nat]
      BY <3>1, <3>2
    <3>4. /\ clones' = clones \/ clones' = clones \cup {x}
          /\ stop' = stop \/ stop' = TRUE
      BY <1>9 DEF SyscallOp, o
    <3> HIDE DEF x
    <3> QED
      BY <3>3, <3>4 DEF TypeOK
  <2> QED
    BY <1>1, <1>3, <1>4, <1>5, <1>9, <2>1, <2>2
       DEF SyscallOp, AtOp, Advance, TypeOK, Clean, InStep,
           NoSyscallToUnicorn, Making
<1>10. CASE EndOp
  <2>1. rip' = arch
    BY <1>2, <1>10 DEF EndOp, AtOp, o
  <2> QED
    BY <1>1, <1>10, <2>1 DEF EndOp, TypeOK, PC, Clean, InStep,
                             NoSyscallToUnicorn, Making
<1> QED
  BY <1>6, <1>7, <1>8, <1>9, <1>10 DEF BlockStep

\* The list of an ended block goes into the cache of IR.
LEMMA EndBlockCached ==
  ASSUME Inv, pc = "check" \/ pc = "decode", NEW n \in Nat, EndBlock(n),
         Chained(code, IRList, rip, Len(IRList)),
         IF IRList[Len(IRList)].op = "jump"
           THEN n = 0 ELSE rip + n = After(code, IRList[Len(IRList)])
  PROVE  /\ irlists' \in [Addr -> Seq(OpRec)]
         /\ irlists'[rip] # NoList
         /\ Cached(code, irlists')
<1> DEFINE L == Append(IRList, Op("end", n))
<1>1. rip \in Addr /\ IRList \in Seq(OpRec) /\ code \in Programs
      /\ irlists \in [Addr -> Seq(OpRec)] /\ Cached(code, irlists)
  BY DEF Inv, InStep, TypeOK
<1>2. L \in Seq(OpRec) /\ L # NoList /\ Ended(code, L, rip)
  BY <1>1, EndAppend
<1>3. irlists' = [irlists EXCEPT ![rip] = L]
  BY DEF EndBlock
<1> HIDE DEF L
<1> QED
  BY <1>1, <1>2, <1>3 DEF Cached

\* CompileBlock.
LEMMA CompilePreserves ==
  ASSUME Inv, CompileStep
  PROVE  Inv'
<1> USE DEF guestVars, compVars, cacheVars, execVars, vars, Inv
<1>0. rip \in Addr /\ arch = rip /\ pc \notin {"block", "tail", "exited"}
  BY DEF CompileStep, InStep, FindIR, BeginBlock, DecodeUnknown, CallHandler,
         DecodeNext, DispatchError, CompileCode, CompileCodeFails
<1>syscall. code[rip].flow = "syscall" =>
              /\ ~code[rip].refused
              /\ pc \in {"decode", "check"} =>
                   Info.known /\ Info.handler = "yes" /\ Info.flow = "syscall"
  <2>1. rip + 0 = rip
    BY <1>0, AddrNat
  <2>2. code[rip].flow = "syscall" =>
          code[rip].known /\ code[rip].handler = "yes" /\ ~code[rip].refused
    BY <1>0, CodeFacts
  <2> QED
    BY <2>1, <2>2 DEF NoSyscallToUnicorn, Info, JITRIP
<1>reset. ASSUME ResetWorkingList
      PROVE  IRList' = <<>> /\ DecodeFailure' = FALSE /\ IRList' \in Seq(OpRec)
  BY <1>reset DEF ResetWorkingList
<1>1. CASE FindIR
  BY <1>0, <1>1 DEF FindIR, TypeOK, PC, Clean, InStep, NoSyscallToUnicorn,
                    Making
<1>2. CASE BeginBlock
  <2>1. IRList' = <<Op("pure", rip)>> /\ Length' = 0 /\ ~DecodeFailure'
    BY <1>2 DEF BeginBlock, Clean
  <2>2. rip \in Nat /\ rip + 0 = rip
    BY <1>0, AddrNat
  <2>3. Op("pure", rip) \in OpRec /\ OpOK(code, Op("pure", rip))
        /\ After(code, Op("pure", rip)) = rip
    BY <1>0, <2>2 DEF Op, OpRec, OpNames, OpOK, After
  <2>4. Len(IRList') = 1 /\ IRList'[1] = Op("pure", rip) /\ IRList' \in Seq(OpRec)
    BY <2>1, <2>3
  <2>5. MadeUpTo(code, IRList', rip, rip)
    BY <2>3, <2>4 DEF MadeUpTo, Chained, Op
  <2> QED
    BY <1>0, <1>2, <2>1, <2>2, <2>4, <2>5
       DEF BeginBlock, TypeOK, PC, Clean, InStep, NoSyscallToUnicorn, Making,
           JITRIP
<1>3. CASE DecodeUnknown
  BY <1>0, <1>3, <1>reset, <1>syscall
     DEF DecodeUnknown, TypeOK, PC, Clean, InStep, NoSyscallToUnicorn, Making
<1>4. CASE CallHandler
  <2>1. JITRIP \in Addr /\ ~DecodeFailure /\ MadeUpTo(code, IRList, rip, JITRIP)
    BY <1>4 DEF CallHandler, Making
  <2> DEFINE o == Op("pure", JITRIP)
             p == Op(Emitted, JITRIP)
             L == Append(IRList, o)
             M == Append(L, p)
  <2>2. JITRIP \in Nat /\ IRList \in Seq(OpRec)
    BY <2>1, AddrNat DEF TypeOK
  <2>3. o \in OpRec /\ OpOK(code, o) /\ o.at = JITRIP /\ o.op = "pure"
        /\ After(code, o) = JITRIP
    BY <2>1, <2>2 DEF Op, OpRec, OpNames, OpOK, After
  <2>4. Emitted \in {"pure", "jump", "syscall", "exec"}
        /\ (Emitted = "jump" => Info.flow = "jump")
        /\ (Emitted \in {"exec", "syscall"} => Info.flow \in {"next", "syscall"})
    <3>1. Info \in Inst /\ (Info.flow = "branch" => Info.handler # "yes")
      BY <2>1, CodeFacts DEF Info
    <3> QED
      BY <3>1 DEF Emitted, Translates, Inst
  <2>5. p \in OpRec /\ OpOK(code, p) /\ p.at = JITRIP /\ p.op = Emitted
    BY <2>1, <2>2, <2>4 DEF Op, OpRec, OpNames, OpOK, Info
  <2> HIDE DEF o, p, L, M
  <2>6. /\ L \in Seq(OpRec) /\ Len(L) = Len(IRList) + 1 /\ L[Len(L)] = o
        /\ Chained(code, L, rip, Len(L))
    BY <2>1, <2>2, <2>3, ChainAppend DEF L
  <2>7. MadeUpTo(code, L, rip, JITRIP)
    BY <2>3, <2>6 DEF MadeUpTo
  <2>8. /\ M \in Seq(OpRec) /\ Len(M) = Len(L) + 1 /\ M[Len(M)] = p
        /\ Chained(code, M, rip, Len(M))
    BY <2>5, <2>6, <2>7, ChainAppend DEF M
  <2>9. IRList' = M /\ DecodeFailure' = ~Translates
    BY <1>4 DEF CallHandler, M, L, o, p
  <2>10. CASE Translates
    <3>1. code[JITRIP].handler = "yes" /\ code[JITRIP].flow = Info.flow
      BY <2>10 DEF Translates, Info
    <3>2. p.op = IF code[JITRIP].flow = "jump" THEN "jump"
                 ELSE IF code[JITRIP].flow = "syscall" THEN "syscall" ELSE "exec"
      BY <2>5, <2>10, <3>1 DEF Emitted
    <3>3. Translated(code, M, rip, JITRIP)
      BY <2>5, <2>8, <3>1, <3>2 DEF Translated
    <3> QED
      BY <1>0, <1>4, <2>1, <2>8, <2>9, <2>10, <3>3
         DEF CallHandler, TypeOK, PC, Clean, InStep, NoSyscallToUnicorn,
             Making, JITRIP
  <2>11. CASE ~Translates
    <3>1. p.op = "pure"
      BY <2>5, <2>11 DEF Emitted
    <3>2. MadeUpTo(code, M, rip, JITRIP)
      BY <2>5, <2>8, <3>1 DEF MadeUpTo, After
    <3>3. code[rip].flow # "syscall"
      BY <1>4, <1>syscall, <2>1, <2>11 DEF CallHandler, Translates
    <3> QED
      BY <1>0, <1>4, <2>1, <2>8, <2>9, <2>11, <3>2, <3>3
         DEF CallHandler, TypeOK, PC, Clean, InStep, NoSyscallToUnicorn,
             Making, JITRIP
  <2> QED
    BY <2>10, <2>11
<1>5. CASE DecodeNext
  <2>1. /\ JITRIP \in Addr /\ Translated(code, IRList, rip, JITRIP)
        /\ ~DecodeFailure /\ pc = "check"
    BY <1>5 DEF DecodeNext, Making
  <2>2. Info \in Inst /\ Info = code[JITRIP] /\ Info.size \in Nat
        /\ Info.handler = "yes" /\ Info.flow \in {"next", "jump", "syscall"}
        /\ (Info.flow # "jump" => JITRIP + Info.size \in Addr)
    <3>1. Info \in Inst /\ Info.flow # "branch" /\ Info.handler = "yes"
      BY <2>1, CodeFacts DEF Info, Translated
    <3> QED
      BY <2>1, <3>1, CodeFacts DEF Inst, Info
  <2>3. Length \in Nat /\ Count \in Nat /\ rip \in Nat /\ JITRIP = rip + Length
    BY <1>0, AddrNat DEF TypeOK, JITRIP
  <2>4. Length' \in Nat /\ Count' \in Nat /\ Length' = Length + Info.size
        /\ rip + Length' = JITRIP + Info.size
    BY <1>5, <2>2, <2>3 DEF DecodeNext
  <2> DEFINE o == IRList[Len(IRList)]
  <2>5. /\ Chained(code, IRList, rip, Len(IRList))
        /\ o.at = JITRIP
        /\ o.op = IF Info.flow = "jump" THEN "jump"
                  ELSE IF Info.flow = "syscall" THEN "syscall" ELSE "exec"
    BY <2>1, <2>2 DEF Translated
  <2>6. Info.flow # "jump" => After(code, o) = rip + Length'
    BY <2>2, <2>4, <2>5 DEF After
  <2>7. CASE BLOCK_END(Info) \/ SETS_RIP(Info)
    <3> DEFINE n == IF SETS_RIP(Info) THEN 0 ELSE Length'
    <3>1. EndBlock(n)
      BY <1>5, <2>7 DEF DecodeNext
    <3>2. n \in Nat
      BY <2>4
    <3>3. IF o.op = "jump" THEN n = 0 ELSE rip + n = After(code, o)
      BY <2>5, <2>6 DEF SETS_RIP
    <3> HIDE DEF n
    <3>4. /\ irlists' \in [Addr -> Seq(OpRec)]
          /\ irlists'[rip] # NoList
          /\ Cached(code, irlists')
      BY <2>1, <2>5, <3>1, <3>2, <3>3, EndBlockCached
    <3> QED
      BY <1>0, <1>5, <1>reset, <2>4, <3>1, <3>4
         DEF DecodeNext, EndBlock, TypeOK, PC, Clean, InStep,
             NoSyscallToUnicorn, Making
  <2>8. CASE ~(BLOCK_END(Info) \/ SETS_RIP(Info))
    <3>1. Info.flow = "next"
      BY <2>2, <2>8 DEF BLOCK_END
    <3>2. MadeUpTo(code, IRList, rip, rip + Length')
      BY <2>5, <2>6, <3>1 DEF MadeUpTo
    <3>3. rip + Length' \in Addr
      BY <2>2, <2>4, <3>1
    <3> QED
      BY <1>0, <1>5, <1>syscall, <2>1, <2>4, <2>8, <3>1, <3>2, <3>3
         DEF DecodeNext, TypeOK, PC, Clean, InStep, NoSyscallToUnicorn,
             Making, JITRIP
  <2> QED
    BY <2>7, <2>8
<1>6. CASE DispatchError
  <2>1. MadeUpTo(code, IRList, rip, JITRIP) /\ pc \in {"decode", "check"}
    BY <1>6 DEF DispatchError, Making
  <2>2. CASE Count = 0
    BY <1>0, <1>6, <1>reset, <1>syscall, <2>2
       DEF DispatchError, TypeOK, PC, Clean, InStep, NoSyscallToUnicorn, Making
  <2>3. CASE Count # 0
    <3>1. EndBlock(Length) /\ Length \in Nat
      BY <1>6, <2>3 DEF DispatchError, TypeOK
    <3>2. /\ irlists' \in [Addr -> Seq(OpRec)]
          /\ irlists'[rip] # NoList
          /\ Cached(code, irlists')
      BY <2>1, <3>1, EndBlockCached DEF MadeUpTo, JITRIP
    <3> QED
      BY <1>0, <1>6, <1>reset, <3>1, <3>2
         DEF DispatchError, EndBlock, TypeOK, PC, Clean, InStep,
             NoSyscallToUnicorn, Making
  <2> QED
    BY <2>2, <2>3
<1>7. CASE CompileCode
  <2>1. irlists[rip] # NoList /\ irlists[rip] \in Seq(OpRec) /\ irlists' = irlists
        /\ Ended(code, irlists[rip], rip)
    BY <1>0, <1>7 DEF CompileCode, InStep, TypeOK, Cached
  <2>2. RunsAt(code, irlists[rip], 1, rip, rip)
    BY <1>0, <2>1, RunStart
  <2>3. blockcache' \in [Addr -> Seq(OpRec)] /\ Cached(code, blockcache')
    BY <1>0, <1>7, <2>1 DEF CompileCode, TypeOK, Cached
  <2> QED
    BY <1>0, <1>7, <2>1, <2>2, <2>3
       DEF CompileCode, TypeOK, PC, Clean, InStep, NoSyscallToUnicorn, Making
<1>8. CASE CompileCodeFails
  BY <1>0, <1>8, <1>syscall
     DEF CompileCodeFails, TypeOK, PC, Clean, InStep, NoSyscallToUnicorn, Making
<1> QED
  BY <1>1, <1>2, <1>3, <1>4, <1>5, <1>6, <1>7, <1>8 DEF CompileStep

----------------------------------------------------------------------------
\* Every list, in the making, cached or running, translates the instructions
\* from its address on, in every reachable state.
THEOREM Invariance == Spec => []Inv
<1>1. Inv /\ [Next]_vars => Inv'
  <2> SUFFICES ASSUME Inv, [Next]_vars PROVE Inv'
    OBVIOUS
  <2> QED
    BY LoopPreserves, CompilePreserves, BlockPreserves, UcPreserves
       DEF Next, ThreadStep, Over
<1> QED
  BY InvInit, <1>1, PTL DEF Spec

\* Control never leaves the program: rip, arch and every list are of their
\* types, whatever the program is.
THEOREM TypeCorrect == Spec => []TypeOK
<1>1. Inv => TypeOK
  BY DEF Inv
<1> QED
  BY Invariance, <1>1, PTL

\* No compilation finds anything of an earlier one in the working list.
THEOREM CompilationsStartClean == Spec => []CleanStart
<1>1. Inv => CleanStart
  BY DEF Inv, Clean, CleanStart
<1> QED
  BY Invariance, <1>1, PTL

\* A step of the emulator is one instruction of the guest, its halt, or
\* nothing that the guest can tell.
LEMMA StepRefines ==
  ASSUME Inv, [Next]_vars
  PROVE  [Machine!Next]_(Machine!vars)
<1> USE DEF guestVars, compVars, cacheVars, execVars, vars
<1>1. CASE LeaveLoop \/ TestZero
  <2>1. pc # "exited" /\ UNCHANGED <<code, arch, data>>
    BY <1>1 DEF LeaveLoop, TestZero
  <2> QED
    BY <2>1 DEF Machine!Next, Machine!Halt, Machine!vars
<1>2. CASE ExecOp \/ JumpOp \/ SyscallOp
  <2> DEFINE o == block[ip]
  <2>1. pc = "block" /\ pc' = "block" /\ o.op \in {"exec", "jump", "syscall"}
    BY <1>2 DEF ExecOp, JumpOp, SyscallOp, AtOp, Advance
  <2>2. OpOK(code, o) /\ o.at = arch
    BY <2>1, RunFacts DEF Inv, TypeOK
  <2>3. arch \in Addr
    BY <2>2 DEF OpOK
  <2>4. data' = Effect[data, arch] /\ code' = code
    BY <1>2, <2>2 DEF ExecOp, JumpOp, SyscallOp
  <2>5. arch' = Machine!Successor(code[arch], arch, data)
    <3>1. CASE JumpOp
      <4>1. arch' = code[arch].to[data] /\ o.op = "jump"
        BY <2>2, <3>1 DEF JumpOp, AtOp
      <4> QED
        BY <2>2, <4>1 DEF OpOK, Machine!Successor
    <3>2. CASE ExecOp \/ SyscallOp
      <4>1. arch' = arch + code[arch].size /\ o.op \in {"exec", "syscall"}
        BY <2>2, <3>2 DEF ExecOp, SyscallOp, AtOp
      <4>2. code[arch].flow \in {"next", "syscall"}
        BY <2>2, <4>1 DEF OpOK
      <4> QED
        BY <4>1, <4>2 DEF Machine!Successor
    <3> QED
      BY <1>2, <3>1, <3>2
  <2> QED
    BY <2>1, <2>3, <2>4, <2>5 DEF Machine!Next, Machine!Step
<1>3. CASE UcStep
  <2>1. rip \in Addr /\ arch = rip /\ pc # "exited" /\ pc' # "exited"
        /\ code[rip].flow # "syscall"
    BY <1>3 DEF UcStep, Inv, InStep, NoSyscallToUnicorn
  <2>2. data' = Effect[data, arch] /\ code' = code
        /\ arch' = Machine!Successor(code[arch], arch, data)
    BY <1>3, <2>1 DEF UcStep, Successor, Machine!Successor
  <2> QED
    BY <2>1, <2>2 DEF Machine!Next, Machine!Step
<1>4. CASE \/ FindBlock \/ StopByOther \/ Over \/ UNCHANGED vars \/ UcError
           \/ CompileStep \/ PureOp \/ EndOp
  <2>1. UNCHANGED <<code, arch, data>> /\ (pc' = "exited" <=> pc = "exited")
    BY <1>4 DEF FindBlock, StopByOther, Over, UcError, CompileStep, PureOp,
                EndOp,
                FindIR, BeginBlock, DecodeUnknown, CallHandler, DecodeNext,
                DispatchError, EndBlock, CompileCode, CompileCodeFails, AtOp, Advance
  <2> QED
    BY <2>1 DEF Machine!vars
<1> QED
  BY <1>1, <1>2, <1>3, <1>4 DEF Next, ThreadStep, LoopStep, BlockStep, UcRun

\* What is compiled, cached, run as a block or left to unicorn executes the
\* guest's instructions in the program's order, each once: the emulator
\* implements the machine that executes one instruction at a time.
THEOREM Refinement == Spec => ImplementsMachine
<1>1. Init => Machine!Init
  BY DEF Init, Machine!Init
<1>2. Inv /\ [Next]_vars => [Machine!Next]_(Machine!vars)
  BY StepRefines
<1> QED
  BY <1>1, <1>2, Invariance, PTL DEF Spec, ImplementsMachine, Machine!Spec

=============================================================================
