------------------------------ MODULE Decoder ------------------------------
(***************************************************************************)
(* GetInstInfo (Source/Core/CPU/X86Tables.cpp), which finds the table      *)
(* entry of an instruction and its length.  A step is one pass of the loop *)
(* at OnceMore.                                                            *)
(***************************************************************************)
EXTENDS X86Tables

CONSTANTS
  Encodings     \* the instructions that are decoded

ASSUME EncodingsAssumption == Encodings \subseteq Encoding

VARIABLES
  enc,            \* the instruction at Inst
  slot255,        \* what follows the 255 entries of BaseOps: memory of its own
                  \* ("kept"), SecondBaseOps ("second"), or memory that others
                  \* write ("lost")
  InstructionSize,
  Info,           \* the entry, NoInfo for a null pointer
  handler,        \* Info has a handler
  Flags,          \* DECODE_FLAG_...
  REXOptions,     \* what REX forces: "MODRM" and "SIB"
  Widening, Narrowing,
  pc

vars == <<enc, slot255, InstructionSize, Info, handler, Flags, REXOptions,
          Widening, Narrowing, pc>>

NoInfo == UnknownOp

At(n) == Code(enc)[n + 1]

\* Entries, with the one past the end of BaseOps.  Number 255 of SecondBaseOps
\* is read past its end too, where zeros lie or the first entry of the next
\* table: of type TYPE_UNKNOWN either way, and 0F FF has no handler.
BaseEntry(op) == IF op = 255 /\ slot255 = "lost" THEN UnknownOp ELSE BaseOps[op]
SecondEntry(op) == IF op = 0 /\ slot255 = "second" THEN BaseOps[255] ELSE SecondBaseOps[op]

Init ==
  /\ enc \in Encodings
  /\ slot255 \in {"kept", "second", "lost"}
  /\ InstructionSize = 0
  /\ Info = NoInfo
  /\ handler = FALSE
  /\ Flags = {}
  /\ REXOptions = {}
  /\ Widening = FALSE
  /\ Narrowing = FALSE
  /\ pc = "OnceMore"

----------------------------------------------------------------------------
(* NormalOp for an entry e, when the next byte is number n.                *)

\* Faulty variant: what REX extends is not there for that.
HasMODRMOfTable(e) == "HAS_MODRM" \in e.flags /\ "REX_IN_BYTE" \notin e.flags
HasMODRM(e) == ("HAS_MODRM" \in e.flags \/ "MODRM" \in REXOptions) /\ "REX_IN_BYTE" \notin e.flags
HasSIB(e, n) == \/ "SIB" \in REXOptions
                \/ HasMODRM(e) /\ Mod(At(n)) # 3 /\ RM(At(n)) = 4

\* Faulty variant: the displacement of SIB comes on top of the one of ModRM.
DispTwice(e, n) ==
  IF ~HasMODRM(e) THEN 0
  ELSE ModRMDisp(At(n)) + (IF HasSIB(e, n) /\ RM(At(n + 1)) = 5 THEN 4 ELSE 0)

\* Faulty variant: no displacement for a SIB byte without base register.
DispOfModRM(e, n) == IF HasMODRM(e) THEN ModRMDisp(At(n)) ELSE 0

Disp(e, n) ==
  CASE ~HasMODRM(e) -> 0
    [] HasMODRM(e) /\ HasSIB(e, n) /\ RM(At(n + 1)) = 5 /\ ModRMDisp(At(n)) = 0 -> 4
    [] OTHER -> ModRMDisp(At(n))

MoreBytes(e) ==
  LET wide == IF "MUL_2" \in e.flags /\ Widening THEN 2 * e.more ELSE e.more
  IN  IF "DIV_2" \in e.flags /\ Narrowing THEN wide \div 2 ELSE wide

AdditionalBytes(e, n) ==
  (IF HasMODRM(e) THEN 1 ELSE 0) + (IF HasSIB(e, n) THEN 1 ELSE 0) + Disp(e, n) + MoreBytes(e)

NormalOp(e, n, hasHandler) ==
  /\ Info' = e
  /\ handler' = hasHandler
  /\ Flags' = Flags \cup (IF HasMODRM(e) THEN {"MODRM"} ELSE {})
                    \cup (IF HasSIB(e, n) THEN {"SIB"} ELSE {})
  /\ InstructionSize' = n + AdditionalBytes(e, n)
  /\ pc' = "done"
  /\ UNCHANGED <<enc, slot255, REXOptions, Widening, Narrowing>>

----------------------------------------------------------------------------
(* The cases of the switch.                                                *)

Op == At(InstructionSize)
Case(ops) == pc = "OnceMore" /\ Op \in ops

Again == InstructionSize' = InstructionSize + 1 /\ UNCHANGED <<enc, slot255, pc>>

OperandSize ==
  /\ Case({\h66})
  /\ Narrowing' = TRUE
  /\ Flags' = Flags \cup {"OPSIZE"}
  /\ Again
  /\ UNCHANGED <<Info, handler, REXOptions, Widening>>

AddressSize ==
  /\ Case({\h67})
  /\ Flags' = Flags \cup {"ADSIZE"}
  /\ Again
  /\ UNCHANGED <<Info, handler, REXOptions, Widening, Narrowing>>

REX ==
  LET bit(n) == (Op \div n) % 2 = 1 IN
  /\ Case(REXPrefix)
  /\ Info' = BaseOps[Op]
  /\ handler' = FALSE
  /\ REXOptions' = REXOptions \cup (IF bit(1) \/ bit(4) THEN {"MODRM"} ELSE {})
                              \cup (IF bit(2) THEN {"SIB"} ELSE {})
  /\ Widening' = (Widening \/ bit(8))
  /\ Flags' = Flags \cup {"REX"}
  /\ Again
  /\ UNCHANGED Narrowing

Lock ==
  /\ Case({\hF0})
  /\ Flags' = Flags \cup {"LOCK"}
  /\ Again
  /\ UNCHANGED <<Info, handler, REXOptions, Widening, Narrowing>>

\* Segment and REP prefixes, through the table.
OtherPrefix ==
  /\ Case(LegacyPrefix \ {\h66, \h67, \hF0})
  /\ Info' = BaseOps[Op]
  /\ handler' = FALSE
  /\ Again
  /\ UNCHANGED <<Flags, REXOptions, Widening, Narrowing>>

\* The escape byte and the opcode; the byte after the opcode decides.
TwoByteOp ==
  LET n == InstructionSize + 2 IN
  /\ Case({\h0F})
  /\ At(n) \notin {\h0F, \h38, \h3A}
  /\ NormalOp(SecondEntry(At(n - 1)), n, HasHandler("two", At(n - 1), 0))

Escape ==
  LET n == InstructionSize + 2 IN
  /\ Case({\h0F})
  /\ At(n) \in {\h0F, \h38, \h3A}
  /\ InstructionSize' = IF At(n) = \h0F THEN n + 1 ELSE n
  /\ pc' = "done"
  /\ UNCHANGED <<enc, slot255, Info, handler, Flags, REXOptions, Widening, Narrowing>>

BaseOp ==
  LET n == InstructionSize + 1 IN
  /\ Case(Opcode)
  /\ BaseEntry(Op).type # "MODRM_TABLE_PREFIX"
  /\ NormalOp(BaseEntry(Op), n, HasHandler("base", Op, 0) /\ Op # 255)

ModRMOp ==
  LET n == InstructionSize + 1 IN
  /\ Case(Opcode)
  /\ BaseEntry(Op).type = "MODRM_TABLE_PREFIX"
  /\ NormalOp(ModRMOps[Op][Reg(At(n))], n, HasHandler("base", Op, Reg(At(n))))

Over == pc = "done" /\ UNCHANGED vars

Next == OperandSize \/ AddressSize \/ REX \/ Lock \/ OtherPrefix
          \/ TwoByteOp \/ Escape \/ BaseOp \/ ModRMOp \/ Over

Spec == Init /\ [][Next]_vars

\* What GetInstInfo returns: the four bits of Size, and a null pointer for an
\* entry of type TYPE_UNKNOWN.
Size == InstructionSize % 16
Known == Info.type # "UNKNOWN"

----------------------------------------------------------------------------
(* Properties.                                                             *)

\* An instruction that CompileBlock hands to a handler has the length that the
\* processor gives it, whatever prefixes, ModRM, SIB and displacement it has:
\* the next one is decoded at the right address.  (The processor accepts up to
\* 15 bytes.)
LengthWhenTranslated ==
  /\ pc = "done" /\ Known /\ handler /\ "LOCK" \notin Flags
  /\ Plain(enc) /\ Length(enc) <= 15
  => Size = Length(enc)

\* For an opcode with a handler the loop, pass by pass over prefixes and REX,
\* ends with what X86Tables says at once of the whole encoding: no entry, so
\* that CompileBlock stops the machine, only where a ModRM byte is taken for an
\* escape or the entry of FF is lost; LOCK, so that it refuses; and otherwise
\* the handler, with the entry, the flags and the size that it works with.
DecodesAs ==
  pc = "done" /\ HasHandler(enc.map, enc.op, Reg(enc.next)) =>
    /\ Known <=> Found(enc) /\ ~(enc.map = "base" /\ enc.op = 255 /\ slot255 = "lost")
    /\ "LOCK" \in Flags <=> LOCK(enc)
    /\ Known => (handler <=> ~Escaped(enc))
    /\ Known /\ handler =>
         /\ Info = InstInfo(enc) /\ InstructionSize = SizeOf(enc)
         /\ "MODRM" \in Flags <=> MODRM(enc)
         /\ "SIB" \in Flags <=> SIB(enc)
         /\ "OPSIZE" \in Flags <=> OPSIZE(enc)
         /\ "REX" \in Flags <=> enc.rex # 0

\* An instruction with a handler that leaves the straight line, other than a
\* short conditional jump, is marked as the end of its block, and as setting
\* rip unless it is a system call.
TransfersEndBlock ==
  pc = "done" /\ Known /\ handler =>
    /\ enc.map = "base" /\ (enc.op = \hC3 \/ (enc.op = \hFF /\ Reg(enc.next) = 4))
         => {"SETS_RIP", "BLOCK_END"} \subseteq Info.flags
    /\ enc.map = "two" /\ enc.op = \h05 => Info.flags \cap {"SETS_RIP", "BLOCK_END"} = {"BLOCK_END"}

\* With up to two prefixes before REX the copy of the instruction stays in the
\* array Instruction of 15 bytes, and Size in its four bits, although REX adds
\* a ModRM and a SIB byte to instructions that have none.  (A third prefix
\* makes room for 16: the bound is as good as it can be.)
FitsBuffer == Len(enc.prefixes) <= 2 => InstructionSize <= 15
============================================================================
