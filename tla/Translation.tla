---------------------------- MODULE Translation ----------------------------
(***************************************************************************)
(* One block from guest code to its effect: the handlers that translate    *)
(* instructions to IR (Source/Core/CPU/OpcodeDispatch.cpp), the loop of    *)
(* CompileBlock that calls them, and the meaning LLVM::HandleIR gives to   *)
(* the IR (LLVMBackend/LLVM.cpp).  CPUState is the one of the first        *)
(* thread, and the block is compiled for the first time.                   *)
(*                                                                         *)
(* A byte has ByteBits bits, so that the 16, 32 and 64 bits of the code    *)
(* become 2, 4 and 8 bytes of that size.  A place in the IR list is the    *)
(* number of the operation, not its offset.                                *)
(***************************************************************************)
EXTENDS X86Tables

CONSTANTS
  Blocks,       \* guest code: where it starts, and its instructions
  Contexts(_),  \* what CPUState may be at the start of a block, without rip
  ByteBits,     \* 8
  AndByte(_, _), OrByte(_, _), XorByte(_, _),  \* on the bits of two bytes
  JccBlock,     \* 0x402350, the block where JccOp translates
  CMPAddress,   \* 0x402366, where CMPOp does
  Trials,       \* 5: how often CompileCode tries that block
  Memory(_),    \* the eight bytes at an address: no handler writes memory
  Kernel(_)     \* what HandleSyscall returns for its arguments

Bits(size) == size * ByteBits
Wrap(n, size) == n % 2^Bits(size)
Word == 0..(2^Bits(8) - 1)

\* The laws of powers, for those of a word.
ASSUME ByteBitsAssumption == ByteBits \in Nat /\ ByteBits >= 2
ASSUME PowersAssumption == \A k \in 0..Bits(8) :
  /\ 2^k \in Nat /\ k < 2^k
  /\ \A l \in 0..(Bits(8) - k) : 2^(k + l) = 2^k * 2^l

\* Bitwise operations, from those on the eight bytes of a word.
ByteOf(x, j) == (x \div 2^Bits(j)) % 2^Bits(1)
Bytewise(op(_, _), x, y) ==
  LET byte(j) == op(ByteOf(x, j), ByteOf(y, j)) * 2^Bits(j)
  IN  byte(0) + byte(1) + byte(2) + byte(3) + byte(4) + byte(5) + byte(6) + byte(7)
BitAnd(x, y) == Bytewise(AndByte, x, y)
BitOr(x, y)  == Bytewise(OrByte, x, y)
BitXor(x, y) == Bytewise(XorByte, x, y)

\* One bit of a word: read by a mask, and replaced by another mask.
FlagOf(flags, bit) == (flags \div 2^bit) % 2
WithFlag(flags, bit, v) == flags + (v - FlagOf(flags, bit)) * 2^bit
ASSUME ByteOpsAssumption == \A x, y \in 0..(2^Bits(1) - 1) :
  {AndByte(x, y), OrByte(x, y), XorByte(x, y)} \subseteq 0..(2^Bits(1) - 1)
ASSUME MaskAssumption == \A x \in Word :
  /\ BitAnd(x, 1) = x % 2
  /\ BitAnd(x, Bits(4) - 1) = x % Bits(4)
  /\ \A bit \in {0, 6, 7} :
       /\ BitAnd(x, 2^bit) = FlagOf(x, bit) * 2^bit
       /\ \A v \in 0..1 : BitOr(v * 2^bit, BitAnd(x, 2^Bits(8) - 1 - 2^bit)) = WithFlag(x, bit, v)

\* gregs by the number x86 gives them, rip and rflags.
RSP == 4
RIP == 16
RFLAGS == 17
Context == [0..17 -> Word]

\* The instructions as CompileBlock finds them one after the other.  imm is what
\* a handler reads at the end of one, with its sign: the immediate or the
\* displacement, where the size of the decoder is right.  The count of a shift
\* is less than 64: beyond, a shift of LLVM has no defined value.  Every opcode
\* has a handler, an instruction has at most 15 bytes, for the processor and
\* for the decoder, and rip does not wrap around within a block.
Instruction == [enc : Encoding, imm : Int]
ASSUME BlocksAssumption == \A b \in Blocks :
  /\ b.start \in Word
  /\ b.insts \in Seq(Instruction)
  /\ Len(b.insts) > 0
  /\ b.start + 15 * Len(b.insts) \in Word
  /\ \A k \in DOMAIN b.insts :
       LET e == b.insts[k].enc
       IN  /\ HasHandler(e.map, e.op, Reg(e.next))
           /\ Length(e) <= 15 /\ SizeOf(e) <= 15
           /\ e.map = "base" /\ e.op = \hC1 => b.insts[k].imm \in 0..(Bits(8) - 1)
ASSUME ContextsAssumption == \A b \in Blocks : Contexts(b) \subseteq Context
ASSUME MemoryAssumption == \A a \in Word : Memory(a) \in Word
ASSUME TrialsAssumption == Trials \in Nat

----------------------------------------------------------------------------
(* What a handler reads: the flags of the decoder (X86Tables), and Code,   *)
(* from the start of the instruction.                                      *)

Prefixed(e) == e.prefixes # <<>>
HasREX(e) == e.rex # 0

REXOf(e) == IF HasREX(e) THEN Code(e)[1] ELSE 0
ModRMOf(e) == Code(e)[(IF HasREX(e) THEN 3 ELSE 2) + (IF e.map = "two" THEN 1 ELSE 0)]
W(e) == (REXOf(e) \div 8) % 2
R(e) == (REXOf(e) \div 4) % 2
B(e) == REXOf(e) % 2

MapModRMToReg(rex, bits) == 8 * rex + bits
RegOf(e) == MapModRMToReg(R(e), Reg(ModRMOf(e)))
RMOf(e)  == MapModRMToReg(B(e), RM(ModRMOf(e)))

\* Faulty variant: 16 bits is the default.
OpSizeOr16(e) == IF W(e) = 1 THEN 8 ELSE 2
OpSize(e) == IF W(e) = 1 THEN 8 ELSE IF OPSIZE(e) THEN 2 ELSE 4

----------------------------------------------------------------------------
(* The operations of the IR.                                               *)

Op(op, args, k) == [op |-> op, args |-> args, k |-> k]
LoadContext(reg) == Op("LoadContext", <<>>, reg)
StoreContext(v, reg) == Op("StoreContext", <<v>>, reg)
Constant(n) == Op("Constant", <<>>, Wrap(n, 8))
LoadMem(v, size) == Op("LoadMem", <<v>>, size)
EndBlock(n) == Op("EndBlock", <<>>, n)
\* Truncate(v, 8) is v itself in the code, here an operation that returns it.
Truncate(v, size) == Op("Trunc", <<v>>, size)
BiOp(op, v, w) == Op(op, <<v, w>>, 0)

\* SetZF, SetSF: bit is their BIT_LOCATION.  Here and in the handlers b is the
\* number of operations that precede.
SetFlag(b, v, bit) ==
  <<LoadContext(RFLAGS), Constant(1), Constant(2^bit), Constant(bit),
    BiOp("And", v, b+2), BiOp("Shl", b+5, b+4), BiOp("Nand", b+1, b+3),
    BiOp("Or", b+6, b+7), StoreContext(b+8, RFLAGS)>>

\* Faulty variant: the other flags are lost.
SetCFOnly(b, v) ==
  <<LoadContext(RFLAGS), Constant(1), BiOp("And", v, b+2), StoreContext(b+3, RFLAGS)>>

SetCF(b, v) ==
  <<LoadContext(RFLAGS), Constant(1), BiOp("And", v, b+2), BiOp("Nand", b+1, b+2),
    BiOp("Or", b+3, b+4), StoreContext(b+5, RFLAGS)>>

\* The exclusive or refers to itself, not to the bit.
GetFlagBit(b, bit, negate) ==
  <<LoadContext(RFLAGS), Constant(1), Constant(2^bit), Constant(bit),
    BiOp("And", b+1, b+3), BiOp("Shr", b+5, b+4)>>
    \o (IF negate THEN <<BiOp("Xor", b+7, b+2)>> ELSE <<>>)

----------------------------------------------------------------------------
(* The handlers: whether one sets DecodeFailure, and what it appends.      *)

Result(fail, ops) == [fail |-> fail, ops |-> ops]

AddOp(i, b) ==
  LET e == i.enc
      mod == Mod(ModRMOf(e))
      ToReg == mod # 3 /\ Reg(ModRMOf(e)) # 4
      dest == IF mod = 3 THEN RMOf(e) ELSE RegOf(e)
      src == CASE ToReg /\ mod = 0 -> <<LoadContext(RMOf(e)), LoadMem(b+1, OpSize(e))>>
               [] ToReg /\ mod = 2 -> <<LoadContext(RMOf(e)), Constant(i.imm), BiOp("Add", b+1, b+2)>>
               [] mod = 3 -> <<LoadContext(RegOf(e))>>
               [] OTHER -> <<>>
      c == b + Len(src)
  IN  IF ~MODRM(e) \/ SIB(e) \/ mod \in {1, 2} \/ (mod = 0 /\ ~ToReg) THEN Result(TRUE, src)
      ELSE Result(FALSE, src \o
             <<LoadContext(dest), Truncate(c+1, OpSize(e)), Truncate(c, OpSize(e)),
               BiOp("Add", c+2, c+3), Truncate(c+4, OpSize(e)), StoreContext(c+5, dest)>>)

\* What several handlers require: a register operand, and no SIB byte.
NotRegister(e) == ~MODRM(e) \/ SIB(e) \/ Mod(ModRMOf(e)) # 3

\* Faulty variant: zero and one are not swapped.
CMPOpAsNamed(i, b, JITRIP) ==
  Result(NotRegister(i.enc) \/ JITRIP # CMPAddress,
    IF NotRegister(i.enc) \/ JITRIP # CMPAddress THEN <<>> ELSE
      <<LoadContext(RegOf(i.enc)), LoadContext(RMOf(i.enc)), BiOp("Sub", b+2, b+1),
        Constant(0), Constant(1), Op("Select", <<b+1, b+2, b+5, b+4>>, 0)>> \o SetFlag(b+6, b+6, 6))

\* Equal operands clear ZF.
CMPOp(i, b, JITRIP) ==
  Result(NotRegister(i.enc) \/ JITRIP # CMPAddress,
    IF NotRegister(i.enc) \/ JITRIP # CMPAddress THEN <<>> ELSE
      <<LoadContext(RegOf(i.enc)), LoadContext(RMOf(i.enc)), BiOp("Sub", b+2, b+1),
        Constant(1), Constant(0), Op("Select", <<b+1, b+2, b+5, b+4>>, 0)>> \o SetFlag(b+6, b+6, 6))

\* The flag of a condition: OF, CF, ZF, SF and PF; the other conditions need two.
JumpType(e) == e.op - \h70
Handled(type) == type \notin {6, 7} \cup 12..15
FlagBit(type) == CASE type \in {0, 1} -> 11
                   [] type \in {2, 3} -> 0
                   [] type \in {4, 5} -> 6
                   [] type \in {8, 9} -> 7
                   [] type \in {10, 11} -> 2
Negate(type) == type % 2 = 1

JccOp(i, b, JITRIP, start) ==
  LET type == JumpType(i.enc)
      RIPTarget == Wrap(JITRIP + i.imm + SizeOf(i.enc), 8)
      flag == GetFlagBit(b, FlagBit(type), ~Negate(type))
      c == b + Len(flag)
  IN  IF SIB(i.enc) \/ ~Handled(type) \/ start # JccBlock THEN Result(TRUE, <<>>)
      ELSE Result(FALSE, flag \o
             <<Op("CondJump", <<c, c+6>>, RIPTarget), Constant(RIPTarget),
               StoreContext(c+2, RIP), StoreContext(c+2, RIP), EndBlock(0),
               Op("JumpTarget", <<>>, 0)>>)

RETOp(b) ==
  Result(FALSE, <<LoadContext(RSP), Constant(8), LoadMem(b+1, 8), BiOp("Add", b+1, b+2),
                  StoreContext(b+4, RSP), StoreContext(b+3, RIP)>>)

AddImmOp(i, b) ==
  Result(FALSE, <<LoadContext(0), Constant(i.imm), BiOp("Add", b+1, b+2), StoreContext(b+3, 0)>>)

\* SF gets a bit of the operand, ZF is cleared when the sum is one.
AddImmModRMOp(i, b) ==
  LET size == IF HasREX(i.enc) THEN 8 ELSE OpSize(i.enc)
  IN  IF NotRegister(i.enc) THEN Result(TRUE, <<>>)
      ELSE Result(FALSE,
             <<LoadContext(RMOf(i.enc)), Constant(i.imm), BiOp("Add", b+1, b+2),
               StoreContext(b+3, RMOf(i.enc)), Constant((Bits(size) \div 2) - 1),
               BiOp("Shr", b+1, b+5)>> \o SetFlag(b+6, b+6, 7) \o
             <<Constant(1), Constant(0), Op("Select", <<b+3, b+16, b+17, b+16>>, 0)>>
               \o SetFlag(b+18, b+18, 6))

ShlImmOp(i, b) ==
  IF NotRegister(i.enc) THEN Result(TRUE, <<>>)
  ELSE Result(FALSE,
         <<LoadContext(RMOf(i.enc)), Constant(i.imm), Truncate(b+1, OpSize(i.enc)),
           BiOp("Shl", b+3, b+2), Truncate(b+4, OpSize(i.enc)), StoreContext(b+5, RMOf(i.enc))>>)

XorOp(i, b) ==
  IF NotRegister(i.enc) THEN Result(TRUE, <<>>)
  ELSE Result(FALSE,
         <<LoadContext(RMOf(i.enc)), LoadContext(RegOf(i.enc)), Truncate(b+1, OpSize(i.enc)),
           Truncate(b+2, OpSize(i.enc)), BiOp("Xor", b+3, b+4), Truncate(b+5, OpSize(i.enc)),
           StoreContext(b+6, RMOf(i.enc))>>)

MovOp(i, b) ==
  IF NotRegister(i.enc) \/ OPSIZE(i.enc) THEN Result(TRUE, <<>>)
  ELSE Result(FALSE, <<LoadContext(RegOf(i.enc)), Truncate(b+1, IF HasREX(i.enc) THEN 8 ELSE 4),
                       StoreContext(b+2, RMOf(i.enc))>>)

BTOp(i, b) ==
  IF NotRegister(i.enc) \/ OPSIZE(i.enc) THEN Result(TRUE, <<>>)
  ELSE Result(FALSE,
         <<LoadContext(RMOf(i.enc)), LoadContext(RegOf(i.enc)), Constant(Bits(4) - 1),
           BiOp("And", b+2, b+3), BiOp("BitExtract", b+1, b+4)>> \o SetCF(b+5, b+5))

JMPOp(i, b) ==
  IF NotRegister(i.enc) THEN Result(TRUE, <<>>)
  ELSE Result(FALSE, <<LoadContext(RMOf(i.enc)), StoreContext(b+1, RIP)>>)

LEAOp(i, b) ==
  LET e == i.enc
  IN  IF ~HasREX(e) \/ ~MODRM(e) \/ Mod(ModRMOf(e)) # 2 \/ Reg(ModRMOf(e)) = 4
      THEN Result(TRUE, <<>>)
      ELSE Result(FALSE, <<LoadContext(RMOf(e)), Constant(i.imm), BiOp("Add", b+1, b+2),
                           StoreContext(b+3, RegOf(e))>>)

\* The seven arguments go through ArgOffsets, an array of six: the last one is
\* written past its end and read back from there.  The memory behind it is
\* taken to hold nothing that is used in between.
GPRIndexes == <<0, 7, 6, 2, 10, 8, 9>>
SyscallOp(b) ==
  Result(FALSE, [n \in 1..7 |-> LoadContext(GPRIndexes[n])]
                  \o <<Op("Syscall", [n \in 1..7 |-> b + n], 0), StoreContext(b+8, 0)>>)

NoOp == Result(FALSE, <<>>)

Handler(i, b, JITRIP, start) ==
  LET op == i.enc.op
      two == i.enc.map = "two"
  IN  CASE two /\ op = \h05 -> SyscallOp(b)
        [] two /\ op = \hA3 -> BTOp(i, b)
        [] ~two /\ op \in {\h01, \h03} -> AddOp(i, b)
        [] ~two /\ op = \h05 -> AddImmOp(i, b)
        [] ~two /\ op = \h31 -> XorOp(i, b)
        [] ~two /\ op = \h39 -> CMPOp(i, b, JITRIP)
        [] ~two /\ op \in \h70..\h7F -> JccOp(i, b, JITRIP, start)
        [] ~two /\ op = \h89 -> MovOp(i, b)
        [] ~two /\ op = \h8D -> LEAOp(i, b)
        [] ~two /\ op = \hC3 -> RETOp(b)
        [] ~two /\ op = \h83 -> AddImmModRMOp(i, b)
        [] ~two /\ op = \hC1 -> ShlImmOp(i, b)
        [] ~two /\ op = \hFF -> JMPOp(i, b)
        [] OTHER -> NoOp

----------------------------------------------------------------------------
VARIABLES
  block,          \* the guest code
  phase,          \* compiling, generating code, running, and how it ends
  n,              \* the instruction CompileBlock is at
  IRList,
  Total,          \* TotalInstructionsLength
  HitRIPSetter,
  cpu,            \* CPUState
  saved,          \* its copy in CompileCode
  trial,          \* the trial runs that are left
  Values,         \* results of operations
  ip,             \* the operation the block is at
  arch,           \* CPUState as the architecture has it, one instruction at a time
  before          \* CPUState before the instruction that runs, and its number

compVars == <<block, n, IRList, Total, HitRIPSetter>>
runVars  == <<cpu, saved, trial, Values, ip, arch, before>>
vars == <<compVars, phase, runVars>>

Init ==
  /\ block \in Blocks
  /\ phase = "compile"
  /\ n = 1
  /\ IRList = <<Op("BeginBlock", <<>>, 0)>>
  /\ Total = 0
  /\ HitRIPSetter = FALSE
  /\ \E c \in Contexts(block) : cpu = [c EXCEPT ![RIP] = block.start]
  /\ saved = cpu
  /\ trial = 0
  /\ Values = <<>>
  /\ ip = 1
  /\ arch = cpu
  /\ before = [cpu |-> cpu, inst |-> 0]

----------------------------------------------------------------------------
(* CompileBlock.                                                           *)

Refused(e) == LOCK(e) \/ Escaped(e)

\* A handler is called, after the marker of its instruction.
Dispatch ==
  LET i == block.insts[n]
      JITRIP == block.start + Total
      r == Handler(i, Len(IRList) + 1, JITRIP, block.start)
      flags == InstInfo(i.enc).flags
  IN
  /\ phase = "compile"
  /\ n <= Len(block.insts)
  /\ ~Refused(i.enc)
  /\ IRList' = Append(IRList, Op("RIPMarker", <<n>>, JITRIP)) \o r.ops
  /\ Total' = IF r.fail THEN Total ELSE Total + SizeOf(i.enc)
  /\ HitRIPSetter' = (~r.fail /\ "SETS_RIP" \in flags)
  /\ phase' = CASE r.fail /\ n = 1 -> "fallback"
                [] (r.fail /\ n # 1) \/ "BLOCK_END" \in flags -> "end"
                [] OTHER -> "compile"
  /\ n' = n + 1
  /\ UNCHANGED <<block, runVars>>

\* LOCK, and an entry that a prefix has left, have no handler; neither has the
\* instruction that comes after those of the model.
NoHandler ==
  /\ phase = "compile"
  /\ n <= Len(block.insts) => Found(block.insts[n].enc) /\ Refused(block.insts[n].enc)
  /\ phase' = IF n = 1 THEN "fallback" ELSE "end"
  /\ UNCHANGED <<compVars, runVars>>

\* No entry: StopRunning is set and the list dropped.  The entry of FF lies
\* behind BaseOps, where it may be lost.
UnknownEncoding ==
  /\ phase = "compile"
  /\ n <= Len(block.insts)
  /\ LET e == block.insts[n].enc
     IN  ~Found(e) \/ (e.map = "base" /\ e.op = \hFF)
  /\ phase' = "stopped"
  /\ UNCHANGED <<compVars, runVars>>

\* The end of the loop, and CompileCode.  An operation it does not know, a load
\* or a truncation to 16 bits, stops the emulator; one that uses itself has no
\* value, and the code that is generated for it no meaning.
Unknown(k) == \/ IRList[k].op \in {"Trunc", "LoadMem"} /\ IRList[k].k = 2
              \/ \E a \in DOMAIN IRList[k].args : IRList[k].op = "Xor" /\ IRList[k].args[a] = k

CompileCode ==
  /\ phase = "end"
  /\ IRList' = Append(IRList, EndBlock(IF HitRIPSetter THEN 0 ELSE Total))
  /\ Values' = [k \in DOMAIN IRList |-> 0]
  /\ phase' = IF \E k \in DOMAIN IRList : Unknown(k) THEN "aborted" ELSE "run"
  /\ saved' = cpu
  /\ trial' = IF block.start = JccBlock THEN Trials ELSE 0
  /\ UNCHANGED <<block, n, Total, HitRIPSetter, cpu, ip, arch, before>>

----------------------------------------------------------------------------
(* The architecture, for instructions with a handler.  ZF and CF are the   *)
(* flags that are compared.                                                *)

ArchStep(i, c) ==
  LET e == i.enc
      reg == MapModRMToReg(IF REXBit(e, 4) THEN 1 ELSE 0, Reg(e.next))
      rm == MapModRMToReg(IF REXBit(e, 1) THEN 1 ELSE 0, RM(e.next))
      size == IF REXBit(e, 8) THEN 8 ELSE 4
      next == Wrap(c[RIP] + Length(e), 8)
      Write(d, v) == [c EXCEPT ![d] = Wrap(v, size), ![RIP] = next]
      ZeroFlag(v) == WithFlag(c[RFLAGS], 6, IF Wrap(v, size) = 0 THEN 1 ELSE 0)
      Compute(d, v) == [Write(d, v) EXCEPT ![RFLAGS] = ZeroFlag(v)]
      base == e.map = "base"
      op == e.op
  IN  CASE base /\ op = \h01 -> Compute(rm, c[rm] + c[reg])
        [] base /\ op = \h03 -> Compute(reg, c[reg] + Memory(c[rm]))
        [] base /\ op = \h05 -> Compute(0, c[0] + i.imm)
        [] base /\ op = \h83 -> Compute(rm, c[rm] + i.imm)
        [] base /\ op = \hC1 /\ i.imm > 0 -> Compute(rm, c[rm] * 2^i.imm)
        [] base /\ op = \hC1 /\ i.imm = 0 -> Write(rm, c[rm])
        [] base /\ op = \h31 -> Compute(rm, BitXor(Wrap(c[rm], size), Wrap(c[reg], size)))
        [] base /\ op = \h89 -> Write(rm, c[reg])
        [] base /\ op = \h8D -> Write(reg, c[rm] + i.imm)
        [] base /\ op = \h39 -> [c EXCEPT ![RIP] = next, ![RFLAGS] = ZeroFlag(c[rm] - c[reg])]
        [] base /\ op \in \h70..\h7F ->
             [c EXCEPT ![RIP] = IF Handled(JumpType(e)) /\
                                   (FlagOf(c[RFLAGS], FlagBit(JumpType(e))) = 1) # Negate(JumpType(e))
                                THEN Wrap(next + i.imm, 8) ELSE next]
        [] base /\ op = \hFF -> [c EXCEPT ![RIP] = c[rm]]
        [] base /\ op = \hC3 -> [c EXCEPT ![RSP] = Wrap(c[RSP] + 8, 8), ![RIP] = Memory(c[RSP])]
        [] ~base /\ op = \h05 ->
             [c EXCEPT ![0] = Kernel(<<c[0], c[7], c[6], c[2], c[10], c[8], c[9]>>), ![RIP] = next]
        [] ~base /\ op = \hA3 ->
             [c EXCEPT ![RIP] = next,
                       ![RFLAGS] = WithFlag(@, 0, FlagOf(c[rm], c[reg] % Bits(size)))]
        [] OTHER -> [c EXCEPT ![RIP] = next]

----------------------------------------------------------------------------
(* A block runs: the code HandleIR generates for each operation.           *)

At(op) == phase = "run" /\ IRList[ip].op = op

Eval(o, v) ==
  LET a == v[o.args[1]]
      b == v[o.args[2]]
  IN  CASE o.op = "Constant" -> o.k
        [] o.op = "LoadContext" -> cpu[o.k]
        [] o.op = "LoadMem" -> Wrap(Memory(a), o.k)
        [] o.op = "Trunc" -> Wrap(a, o.k)
        [] o.op = "Add" -> Wrap(a + b, 8)
        [] o.op = "Sub" -> Wrap(a - b, 8)
        [] o.op = "And" -> BitAnd(a, b)
        [] o.op = "Nand" -> BitAnd(a, 2^Bits(8) - 1 - b)
        [] o.op = "Or" -> BitOr(a, b)
        [] o.op = "Xor" -> BitXor(a, b)
        [] o.op = "Shl" -> Wrap(a * 2^b, 8)
        [] o.op = "Shr" -> a \div 2^b
        [] o.op = "BitExtract" -> (a \div 2^b) % 2
        [] o.op = "Select" -> IF a = b THEN v[o.args[3]] ELSE v[o.args[4]]
        [] o.op = "Syscall" -> Kernel([k \in 1..7 |-> v[o.args[k]]])

ValueOp ==
  /\ phase = "run"
  /\ IRList[ip].op \notin {"BeginBlock", "RIPMarker", "JumpTarget", "StoreContext", "CondJump", "EndBlock"}
  /\ Values' = [Values EXCEPT ![ip] = Eval(IRList[ip], Values)]
  /\ ip' = ip + 1
  /\ UNCHANGED <<compVars, phase, cpu, saved, trial, arch, before>>

StoreContextOp ==
  /\ At("StoreContext")
  /\ cpu' = [cpu EXCEPT ![IRList[ip].k] = Values[IRList[ip].args[1]]]
  /\ ip' = ip + 1
  /\ UNCHANGED <<compVars, phase, saved, trial, Values, arch, before>>

\* No code; the architecture executes the instruction, if it is in the block.
Translated(marker) == marker.k < block.start + Total
RIPMarkerOp ==
  /\ At("RIPMarker")
  /\ ip' = ip + 1
  /\ IF Translated(IRList[ip])
     THEN /\ arch' = ArchStep(block.insts[IRList[ip].args[1]], arch)
          /\ before' = [cpu |-> cpu, inst |-> IRList[ip].args[1]]
     ELSE UNCHANGED <<arch, before>>
  /\ UNCHANGED <<compVars, phase, cpu, saved, trial, Values>>

EmptyOp ==
  /\ At("BeginBlock") \/ At("JumpTarget")
  /\ ip' = ip + 1
  /\ UNCHANGED <<compVars, phase, cpu, saved, trial, Values, arch, before>>

\* True: on to the code that sets rip, or to the marker of the target when the
\* block has already passed it.  False: on behind the next EndBlock.
Passed(target) == {k \in 1..ip : IRList[k].op = "RIPMarker" /\ IRList[k].k = target}
CondJumpOp ==
  LET o == IRList[ip]
      ends == {k \in ip..Len(IRList) : IRList[k].op = "EndBlock"}
      end == CHOOSE k \in ends : \A l \in ends : k <= l
  IN
  /\ At("CondJump")
  /\ ip' = CASE Values[o.args[1]] # 0 /\ Passed(o.k) # {} -> CHOOSE k \in Passed(o.k) : TRUE
             [] Values[o.args[1]] # 0 /\ Passed(o.k) = {} -> ip + 1
             [] OTHER -> end + 1
  /\ UNCHANGED <<compVars, phase, cpu, saved, trial, Values, arch, before>>

Increment(o) == [cpu EXCEPT ![RIP] = Wrap(@ + o.k, 8)]
EndBlockOp ==
  /\ At("EndBlock")
  /\ trial = 0
  /\ cpu' = Increment(IRList[ip])
  /\ phase' = "done"
  /\ UNCHANGED <<compVars, saved, trial, Values, ip, arch, before>>

\* A trial run in CompileCode ends, and CPUState is what it was.
TrialEnd ==
  /\ At("EndBlock")
  /\ trial > 0
  /\ trial' = trial - 1
  /\ ip' = 1
  /\ cpu' = saved
  /\ arch' = saved
  /\ before' = [cpu |-> saved, inst |-> 0]
  /\ UNCHANGED <<compVars, phase, saved, Values>>

Over == phase \in {"fallback", "stopped", "aborted", "done"} /\ UNCHANGED vars

Next == Dispatch \/ NoHandler \/ UnknownEncoding \/ CompileCode \/ ValueOp \/ StoreContextOp
          \/ RIPMarkerOp \/ EmptyOp \/ CondJumpOp \/ EndBlockOp \/ TrialEnd \/ Over

Spec == Init /\ [][Next]_vars

----------------------------------------------------------------------------
(* Properties.                                                             *)

\* Between two instructions, and at the end.
Boundary == At("RIPMarker") \/ phase = "done"

\* The instructions the handlers are written for, in the encodings to which the
\* decoder gives the length they have.  Not among them: an addition with two
\* registers by opcode 03, to memory, or relative to rip; an immediate or an
\* address without REX.W; a comparison of 32 bits; a conditional jump other than
\* JNZ after a comparison; every prefix before an operand, and 66 before RET.
Covered(k) ==
  LET i == block.insts[k]
      e == i.enc
      wide == REXBit(e, 8)
      mod == Mod(e.next)
  IN  /\ Plain(e)
      /\ IF e.map = "two" THEN e.op = \hA3 => ~Prefixed(e) /\ ~wide
         ELSE IF e.op \in {\h90, \hC3} THEN e.op = \hC3 => ~OPSIZE(e)
         ELSE
           /\ ~Prefixed(e)
           /\ CASE e.op = \h01 -> mod = 3
                [] e.op = \h03 -> mod = 0 /\ RM(e.next) # 5
                [] e.op \in {\h05, \h39, \h83} -> wide
                [] e.op = \h8D -> wide /\ RM(e.next) # 4
                [] e.op = \h89 -> wide \/ ~HasREX(e)
                [] e.op = \hC1 -> i.imm < Bits(OpSize(e))
                [] e.op = \h75 -> k > 1 /\ block.insts[k - 1].enc.op = \h39
                [] e.op \in \h70..\h7F -> FALSE
                [] OTHER -> TRUE
CoveredBlock == \A k \in DOMAIN IRList :
  IRList[k].op = "RIPMarker" /\ Translated(IRList[k]) => Covered(IRList[k].args[1])

\* Between two instructions of a block, and when it ends, the registers and rip
\* are those of a processor that has executed the same instructions, whatever
\* comes before and after in the block, also when the block ends at an
\* instruction whose handler failed halfway, and whatever the trial runs did.
InStep ==
  Boundary /\ CoveredBlock =>
    /\ \A r \in 0..15 : cpu[r] = arch[r]
    /\ arch[RIP] = IF phase = "done" THEN cpu[RIP] ELSE IRList[ip].k

\* An instruction changes no flag that it does not compute, and BT of 32 bits
\* leaves the bit it tests in CF.
FlagsComputed(e) ==
  CASE e.map = "two" /\ e.op = \hA3 -> {0}
    [] e.map = "base" /\ e.op = \h83 -> {6, 7}
    [] e.map = "base" /\ e.op = \h39 -> {6}
    [] OTHER -> {}
FlagsRight ==
  Boundary /\ before.inst # 0 =>
    LET e == block.insts[before.inst].enc
    IN  /\ \A bit \in 0..11 \ FlagsComputed(e) :
             FlagOf(cpu[RFLAGS], bit) = FlagOf(before.cpu[RFLAGS], bit)
        /\ e.map = "two" /\ e.op = \hA3 /\ Covered(before.inst) =>
             FlagOf(cpu[RFLAGS], 0) = FlagOf(before.cpu[RMOf(e)], before.cpu[RegOf(e)] % Bits(4))

\* Only a prefix of 16 bits, or a conditional jump on a flag that is set, makes
\* CompileCode stop the emulator.
AbortsOnlyOn16Bits ==
  phase = "aborted" => \E k \in 1..(n - 1) :
    \/ OPSIZE(block.insts[k].enc)
    \/ block.insts[k].enc.op \in \h70..\h7F /\ ~Negate(JumpType(block.insts[k].enc))

============================================================================
