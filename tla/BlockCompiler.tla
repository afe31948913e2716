--------------------------- MODULE BlockCompiler ---------------------------
(***************************************************************************)
(* How one guest thread executes: the loop of ExecutionThread with         *)
(* CompileBlock, the caches of IR and of compiled blocks, the execution of *)
(* a block, and FallbackToUnicorn (Source/Core/CPU/CPUCore.cpp,            *)
(* OpcodeDispatch.*, BlockCache.h).                                        *)
(*                                                                         *)
(* What an instruction computes is the function Effect; this module is     *)
(* about which instructions are executed, in which order and how often.    *)
(* The translation of each by itself is taken to be right, and so is the   *)
(* decoder's length.  The thread is the initial one, whose CPUState the    *)
(* compiled code addresses.  Code is not modified.  The block at 0x402350, *)
(* the only one with translated conditional jumps, is left out.            *)
(***************************************************************************)
EXTENDS Integers, Sequences

CONSTANTS
  Addr, Data, Effect,   \* see GuestMachine
  Programs,       \* the guest programs: functions from Addr to instructions
  Entry           \* the entry point

\* What CompileBlock can tell about an instruction: whether GetInstInfo knows
\* its encoding; whether it has a handler that translates it ("yes"), one that
\* reports a decode failure ("fails"), or none or a LOCK prefix ("no"); its
\* flags FLAGS_SETS_RIP and FLAGS_BLOCK_END, which follow from its flow; its
\* size; and whether the backend may return a null pointer for a block that
\* starts with it.  A jump ("branch" if it is conditional) goes to to[d].
Inst == [known : BOOLEAN, handler : {"yes", "fails", "no"},
         flow : {"next", "branch", "jump", "syscall"},
         size : Nat \ {0}, refused : BOOLEAN, to : [Data -> Addr \cup {0}]]

\* Faulty variant: the table does not mark instructions that set rip.
SETS_RIPUnmarked(i) == FALSE

SETS_RIP(i)  == i.flow = "jump"
BLOCK_END(i) == i.flow \in {"jump", "syscall"}

Successor(i, a, d) ==
  IF i.flow \in {"jump", "branch"} THEN i.to[d] ELSE a + i.size

ASSUME AddrAssumption == Addr \subseteq Nat \ {0} /\ Entry \in Addr
ASSUME EffectAssumption == Effect \in [Data \X Addr -> Data]
\* A conditional jump is never translated, a system call always, and a program
\* does not run off its end.  The backend does not refuse a block that starts
\* with a system call: the engine has no handler for one, and would lose it.
ASSUME ProgramsAssumption ==
  /\ Programs \subseteq [Addr -> Inst]
  /\ \A c \in Programs : \A a \in Addr :
       /\ c[a].flow = "branch" => c[a].handler # "yes"
       /\ c[a].flow = "syscall" => /\ c[a].known
                                  /\ c[a].handler = "yes"
                                  /\ ~c[a].refused
       /\ c[a].flow # "jump" => a + c[a].size \in Addr

VARIABLES
  code,           \* the program, which does not change
  pc,             \* control point of the thread
  rip, data,      \* CPUState: rip, and everything else
  stop,           \* StopRunning, or the thread's StopRunning
  IRList,         \* the working list of OpDispatcher
  DecodeFailure,
  Length, Count,  \* TotalInstructionsLength and TotalInstructions
  irlists,        \* rip to IR list, or NoList
  blockcache,     \* rip to the IR list that was compiled, or NoList
  block, ip,      \* the block that runs, and the operation it is at
  arch,           \* the rip of the architecture, which CPUState.rip is not
                  \* while a block runs
  clones          \* clone calls: where the call was, and the child's rip

guestVars == <<code, rip, data, arch, clones>>
compVars  == <<IRList, DecodeFailure, Length, Count>>
cacheVars == <<irlists, blockcache>>
execVars  == <<block, ip>>
vars == <<pc, stop, guestVars, compVars, cacheVars, execVars>>

PC == {"loop", "decode", "check", "backend", "fallback", "block", "tail", "exited"}
NoList == <<>>

\* Operations of the IR, each handler's as one.  "pure": operations without
\* effect, among them what a failing handler has appended before it failed.
Op(op, at) == [op |-> op, at |-> at]
OpNames == {"pure", "exec", "jump", "syscall", "end"}
OpRec == [op : OpNames, at : Nat]

----------------------------------------------------------------------------
Init ==
  /\ code \in Programs
  /\ pc = "loop"
  /\ rip = Entry
  /\ data \in Data
  /\ stop = FALSE
  /\ IRList = <<>>
  /\ DecodeFailure = FALSE
  /\ Length = 0
  /\ Count = 0
  /\ irlists = [a \in Addr |-> NoList]
  /\ blockcache = [a \in Addr |-> NoList]
  /\ block = NoList
  /\ ip = 0
  /\ arch = Entry
  /\ clones = {}

----------------------------------------------------------------------------
(* ExecutionThread.                                                        *)

LeaveLoop ==
  /\ pc = "loop"
  /\ stop
  /\ pc' = "exited"
  /\ UNCHANGED <<stop, guestVars, compVars, cacheVars, execVars>>

\* The block is in the block cache.
FindBlock ==
  /\ pc = "loop"
  /\ ~stop
  /\ blockcache[rip] # NoList
  /\ block' = blockcache[rip]
  /\ ip' = 1
  /\ pc' = "block"
  /\ UNCHANGED <<stop, guestVars, compVars, cacheVars>>

\* rip is zero after a block or an instruction: the thread ends.
TestZero ==
  /\ pc = "tail"
  /\ pc' = IF rip = 0 THEN "exited" ELSE "loop"
  /\ UNCHANGED <<stop, guestVars, compVars, cacheVars, execVars>>

\* Another thread sets StopRunning.
StopByOther ==
  /\ ~stop
  /\ pc # "exited"
  /\ stop' = TRUE
  /\ UNCHANGED <<pc, guestVars, compVars, cacheVars, execVars>>

----------------------------------------------------------------------------
(* CompileBlock.                                                           *)

\* Faulty variant: the failure of one block sticks.
ResetWorkingListOnly == IRList' = <<>> /\ UNCHANGED DecodeFailure
ResetWorkingList == IRList' = <<>> /\ DecodeFailure' = FALSE

\* There is an IR list, which the backend refused to compile before.
FindIR ==
  /\ pc = "loop"
  /\ ~stop
  /\ blockcache[rip] = NoList
  /\ irlists[rip] # NoList
  /\ pc' = "backend"
  /\ UNCHANGED <<stop, guestVars, compVars, cacheVars, execVars>>

BeginBlock ==
  /\ pc = "loop"
  /\ ~stop
  /\ blockcache[rip] = NoList
  /\ irlists[rip] = NoList
  /\ IRList' = Append(IRList, Op("pure", rip))
  /\ Length' = 0
  /\ Count' = 0
  /\ pc' = "decode"
  /\ UNCHANGED <<stop, DecodeFailure, guestVars, cacheVars, execVars>>

\* The instruction that the loop is at: JITRIP, and what GetInstInfo returns.
JITRIP == rip + Length
Info == code[JITRIP]

\* Unknown instruction encoding: the machine is stopped, and the instruction
\* at rip still goes to unicorn.
DecodeUnknown ==
  /\ pc = "decode"
  /\ ~Info.known
  /\ stop' = TRUE
  /\ ResetWorkingList
  /\ pc' = "fallback"
  /\ UNCHANGED <<guestVars, Length, Count, cacheVars, execVars>>

\* The handler of the instruction: a marker of its rip, then its operations as
\* one.  A failing handler leaves pure operations behind; none works once
\* DecodeFailure is set.
Translates == Info.handler = "yes" /\ ~DecodeFailure
Emitted == CASE ~Translates -> "pure"
             [] Translates /\ Info.flow = "jump" -> "jump"
             [] Translates /\ Info.flow = "syscall" -> "syscall"
             [] OTHER -> "exec"

CallHandler ==
  /\ pc = "decode"
  /\ Info.known
  /\ Info.handler # "no"
  /\ IRList' = Append(Append(IRList, Op("pure", JITRIP)), Op(Emitted, JITRIP))
  /\ DecodeFailure' = ~Translates
  /\ pc' = "check"
  /\ UNCHANGED <<stop, guestVars, Length, Count, cacheVars, execVars>>

\* EndBlock, the copy of the list into irlists, and ResetWorkingList.
EndBlock(RIPIncrement) ==
  /\ irlists' = [irlists EXCEPT ![rip] = Append(IRList, Op("end", RIPIncrement))]
  /\ ResetWorkingList
  /\ pc' = "backend"

\* The handler has translated the instruction.
DecodeNext ==
  /\ pc = "check"
  /\ ~DecodeFailure
  /\ Length' = Length + Info.size
  /\ Count' = Count + 1
  /\ IF BLOCK_END(Info) \/ SETS_RIP(Info)
       THEN EndBlock(IF SETS_RIP(Info) THEN 0 ELSE Length')
       ELSE pc' = "decode" /\ UNCHANGED <<IRList, DecodeFailure, irlists>>
  /\ UNCHANGED <<stop, guestVars, blockcache, execVars>>

\* Faulty variant: a jump that was not translated counts as a RIP setter.
DispatchErrorAsRIPSetter ==
  /\ \/ pc = "decode" /\ Info.known /\ Info.handler = "no"
     \/ pc = "check" /\ DecodeFailure
  /\ IF Count = 0
       THEN ResetWorkingList /\ pc' = "fallback" /\ UNCHANGED irlists
       ELSE EndBlock(IF SETS_RIP(Info) THEN 0 ELSE Length)
  /\ UNCHANGED <<stop, guestVars, Length, Count, blockcache, execVars>>

\* The handler has failed, there is none, or there is a LOCK prefix.  The block
\* ends before the instruction; if it is the first, there is no block.
DispatchError ==
  /\ \/ pc = "decode" /\ Info.known /\ Info.handler = "no"
     \/ pc = "check" /\ DecodeFailure
  /\ IF Count = 0
       THEN ResetWorkingList /\ pc' = "fallback" /\ UNCHANGED irlists
       ELSE EndBlock(Length)
  /\ UNCHANGED <<stop, guestVars, Length, Count, blockcache, execVars>>

\* The backend compiles the list, and the block is run.
CompileCode ==
  /\ pc = "backend"
  /\ blockcache' = [blockcache EXCEPT ![rip] = irlists[rip]]
  /\ block' = irlists[rip]
  /\ ip' = 1
  /\ pc' = "block"
  /\ UNCHANGED <<stop, guestVars, compVars, irlists>>

\* Faulty variant: nothing runs when the backend fails.
CompileCodeFailsIdle ==
  /\ pc = "backend"
  /\ code[rip].refused
  /\ pc' = "tail"
  /\ UNCHANGED <<stop, guestVars, compVars, cacheVars, execVars>>

\* The backend returns a null pointer.
CompileCodeFails ==
  /\ pc = "backend"
  /\ code[rip].refused
  /\ pc' = "fallback"
  /\ UNCHANGED <<stop, guestVars, compVars, cacheVars, execVars>>

----------------------------------------------------------------------------
(* The compiled block.  Registers and memory are written as it goes, rip   *)
(* by a jump or at its end.                                                *)

AtOp(op) == pc = "block" /\ block[ip].op = op
Advance == ip' = ip + 1 /\ UNCHANGED <<pc, block>>

PureOp ==
  /\ AtOp("pure")
  /\ Advance
  /\ UNCHANGED <<stop, guestVars, compVars, cacheVars>>

ExecOp ==
  LET a == block[ip].at IN
  /\ AtOp("exec")
  /\ data' = Effect[data, a]
  /\ arch' = a + code[a].size
  /\ Advance
  /\ UNCHANGED <<stop, code, rip, clones, compVars, cacheVars>>

JumpOp ==
  LET a == block[ip].at IN
  /\ AtOp("jump")
  /\ data' = Effect[data, a]
  /\ rip' = code[a].to[data]
  /\ arch' = rip'
  /\ Advance
  /\ UNCHANGED <<stop, code, clones, compVars, cacheVars>>

\* A system call returns a result; exit sets StopRunning of the thread; clone
\* copies CPUState, and adds two to the copy's rip.
SyscallOp ==
  LET a == block[ip].at IN
  /\ AtOp("syscall")
  /\ data' = Effect[data, a]
  /\ arch' = a + code[a].size
  /\ \/ UNCHANGED <<stop, clones>>
     \/ stop' = TRUE /\ UNCHANGED clones
     \/ clones' = clones \cup {[at |-> a, rip |-> rip + 2]} /\ UNCHANGED stop
  /\ Advance
  /\ UNCHANGED <<code, rip, compVars, cacheVars>>

EndOp ==
  /\ AtOp("end")
  /\ rip' = rip + block[ip].at
  /\ pc' = "tail"
  /\ UNCHANGED <<stop, code, data, arch, clones, compVars, cacheVars, execVars>>

----------------------------------------------------------------------------
(* FallbackToUnicorn: the registers are copied into the engine, it runs    *)
(* one instruction, and they are copied back.  A system call would be      *)
(* passed over.                                                            *)

UcStep ==
  /\ pc = "fallback"
  /\ data' = IF code[rip].flow = "syscall" THEN data ELSE Effect[data, rip]
  /\ rip' = Successor(code[rip], rip, data)
  /\ arch' = rip'
  /\ pc' = "tail"
  /\ UNCHANGED <<stop, code, clones, compVars, cacheVars, execVars>>

UcError ==
  /\ pc = "fallback"
  /\ stop' = TRUE
  /\ pc' = "tail"
  /\ UNCHANGED <<guestVars, compVars, cacheVars, execVars>>

----------------------------------------------------------------------------
LoopStep    == LeaveLoop \/ FindBlock \/ TestZero
CompileStep == FindIR \/ BeginBlock \/ DecodeUnknown \/ CallHandler
                 \/ DecodeNext \/ DispatchError \/ CompileCode \/ CompileCodeFails
BlockStep   == PureOp \/ ExecOp \/ JumpOp \/ SyscallOp \/ EndOp
UcRun       == UcStep \/ UcError

ThreadStep == LoopStep \/ CompileStep \/ BlockStep \/ UcRun

\* The thread has returned.
Over == pc = "exited" /\ UNCHANGED vars

Next == ThreadStep \/ StopByOther \/ Over

Spec == Init /\ [][Next]_vars

\* The host scheduler runs the thread.
FairSpec == Spec /\ WF_vars(ThreadStep)

----------------------------------------------------------------------------
(* Properties.                                                             *)

\* Every variable stays in its type: control never leaves the program's
\* instructions, and lists hold operations at their addresses.
TypeOK ==
  /\ code \in [Addr -> Inst]
  /\ pc \in PC
  /\ rip \in Addr \cup {0}
  /\ arch \in Addr \cup {0}
  /\ data \in Data
  /\ stop \in BOOLEAN
  /\ IRList \in Seq(OpRec)
  /\ DecodeFailure \in BOOLEAN
  /\ Length \in Nat
  /\ Count \in Nat
  /\ irlists \in [Addr -> Seq(OpRec)]
  /\ blockcache \in [Addr -> Seq(OpRec)]
  /\ block \in Seq(OpRec)
  /\ ip \in Nat
  /\ clones \subseteq [at : Addr, rip : Nat]

\* Every compilation starts from an empty list and without the failure of an
\* earlier one, however the earlier one ended.
CleanStart == pc = "loop" => IRList = <<>> /\ ~DecodeFailure

\* The program runs as on a machine that executes one instruction at a time,
\* whatever is compiled, found in a cache or left to unicorn, and goes on until
\* the emulator stops.
Machine == INSTANCE GuestMachine WITH rip <- arch, halted <- (pc = "exited")
ImplementsMachine == Machine!Spec
GuestProgress == Machine!FairSpec

\* "Hack to offset past the syscall instruction": the child of a clone starts
\* at the instruction after the call.
CloneResumesAfterSyscall ==
  \A c \in clones : c.rip = c.at + code[c.at].size

============================================================================
