----------------------------- MODULE X86Tables -----------------------------
(***************************************************************************)
(* Instructions as GetInstInfo and the handlers tell them apart, and the   *)
(* tables InitializeInfoTables builds (Source/Core/CPU/X86Tables.cpp) with *)
(* the handlers InstallOpcodeHandlers adds (OpcodeDispatch.cpp).           *)
(*                                                                         *)
(* An encoding gives prefixes, REX, the opcode and the two bytes after it. *)
(* Other bytes are only counted.                                           *)
(***************************************************************************)
EXTENDS Integers, Sequences

Byte == 0..255
LegacyPrefix == {\h26, \h2E, \h36, \h3E, \h64, \h65, \h66, \h67, \hF0, \hF2, \hF3}
REXPrefix == \h40..\h4F

Opcode == Byte \ (LegacyPrefix \cup REXPrefix \cup {\h0F})

\* rex is the REX byte or 0; next is the byte after the opcode, which is the
\* ModRM byte of an instruction that has one; sib is the byte after that.
Encoding ==
  {e \in [prefixes : Seq(LegacyPrefix), rex : REXPrefix \cup {0},
          map : {"base", "two"}, op : Byte, next : Byte, sib : Byte] :
     e.map = "base" => e.op \in Opcode}

\* The bytes at Inst.
Code(e) == e.prefixes \o (IF e.rex = 0 THEN <<>> ELSE <<e.rex>>)
             \o (IF e.map = "two" THEN <<\h0F>> ELSE <<>>) \o <<e.op, e.next, e.sib>>

Mod(b) == b \div 64
Reg(b) == (b \div 8) % 8
RM(b)  == b % 8

----------------------------------------------------------------------------
(* The tables.  "DIV_2" and "MUL_2" stand for FLAGS_DISPLACE_SIZE_...      *)

Entry(type, flags, more) == [type |-> type, flags |-> flags, more |-> more]
UnknownOp == Entry("UNKNOWN", {}, 0)
Inst(flags, more) == Entry("INST", flags, more)

ModRMTablePrefix == {\h80, \h81, \h83, \hC0, \hC1, \hD8, \hF6, \hF7, \hFF} \cup \hD0..\hD3

BaseOps == [op \in Byte |->
  CASE op \in LegacyPrefix -> Entry("LEGACY_PREFIX", {}, 0)
    [] op \in REXPrefix -> Entry("REX_PREFIX", {}, 0)
    [] op \in ModRMTablePrefix -> Entry("MODRM_TABLE_PREFIX", {"HAS_MODRM"}, 3)
    [] op \in {\h01, \h29} -> Inst({"HAS_MODRM", "DIV_2"}, 0)
    [] op \in {\h03, \h2B, \h63, \h84, \h85, \h8D, \h8E} \cup \h08..\h0B \cup \h20..\h23
                \cup \h30..\h33 \cup \h38..\h3B \cup \h88..\h8C -> Inst({"HAS_MODRM"}, 0)
    [] op \in {\h05, \h25, \h2D, \hA9} -> Inst({"DIV_2"}, 4)
    [] op \in {\h2C, \h3C, \hA8} \cup \h70..\h7F -> Inst({}, 1)
    [] op = \h3D -> Inst({"REX_IN_BYTE", "DIV_2"}, 4)
    [] op \in \h50..\h5F -> Inst({"REX_IN_BYTE"}, 0)
    [] op = \h69 -> Inst({"HAS_MODRM", "DIV_2"}, 4)
    [] op \in {\h90, \h98, \h99, \hAA, \hAB} \cup \hA0..\hA3 -> Inst({}, 0)
    [] op \in \hB0..\hB7 -> Inst({"REX_IN_BYTE"}, 1)
    [] op \in \hB8..\hBF -> Inst({"REX_IN_BYTE", "DIV_2", "MUL_2"}, 4)
    [] op \in {\hC2, \hC3} -> Inst({"SETS_RIP", "BLOCK_END"}, 0)
    [] op = \hC6 -> Inst({"HAS_MODRM"}, 1)
    [] op = \hC7 -> Inst({"HAS_MODRM"}, 4)
    [] op \in {\hE8, \hE9} -> Inst({"SETS_RIP", "DIV_2", "BLOCK_END"}, 4)
    [] op = \hEB -> Inst({"SETS_RIP", "BLOCK_END"}, 1)
    [] op \in {\h82, \hC4, \hC5} \cup \hD4..\hD6 -> Entry("INVALID", {}, 0)
    [] OTHER -> UnknownOp]

SecondBaseOps == [op \in Byte |->
  CASE op = \h05 -> Inst({"BLOCK_END"}, 0)
    [] op \in {\h31, \hA2} -> Inst({}, 0)
    [] op \in \h80..\h8F -> Inst({"DIV_2"}, 4)
    [] op \in {\hBA, \h70, \h72, \h73} -> Inst({"HAS_MODRM"}, 1)
    [] op \in {\h10, \h11, \h16, \h17, \h1F, \h29, \h66, \h6A, \h74, \h76, \h7E, \h7F,
               \hA3, \hAF, \hB0, \hB1, \hB6, \hB7, \hD4, \hD6, \hD7, \hEB, \hEF, \hFE}
                \cup \h40..\h4F \cup \h60..\h62 \cup \h6C..\h6F \cup \h90..\h9F
                \cup \hBC..\hBF -> Inst({"HAS_MODRM"}, 0)
    [] OTHER -> UnknownOp]

\* Faulty variant: indirect jumps and calls are not marked as setting rip.
IndirectJumpUnmarked == Inst({"HAS_MODRM"}, 0)
IndirectJump == Inst({"SETS_RIP", "HAS_MODRM", "BLOCK_END"}, 0)

ModRMOps == [prefix \in ModRMTablePrefix |-> [reg \in 0..7 |->
  CASE prefix \in {\h80, \h83, \hC0, \hC1} -> Inst({"HAS_MODRM"}, 1)
    [] prefix = \h81 -> Inst({"HAS_MODRM", "DIV_2"}, 4)
    [] prefix \in \hD0..\hD3 -> Inst({"HAS_MODRM"}, 0)
    [] prefix = \hF6 /\ reg \in {0, 1, 6} -> Inst({"HAS_MODRM"}, 1)
    [] prefix = \hF6 /\ reg = 4 -> Inst({"HAS_MODRM"}, 0)
    [] prefix = \hF7 /\ reg \in {0, 1} -> Inst({"HAS_MODRM", "DIV_2"}, 4)
    [] prefix = \hF7 /\ reg \in 2..7 -> Inst({"HAS_MODRM"}, 0)
    [] prefix = \hFF /\ reg \in {0, 1, 6} -> Inst({"HAS_MODRM"}, 0)
    [] prefix = \hFF /\ reg \in 2..5 -> IndirectJump
    [] OTHER -> UnknownOp]]

\* Opcodes with a handler, without those whose entry is unknown.
HasHandler(map, op, reg) ==
  \/ map = "base" /\ op \in {\h01, \h03, \h05, \h31, \h39, \h89, \h8D, \h90, \hC3} \cup \h70..\h7F
  \/ map = "base" /\ <<op, reg>> \in {<<\h83, 0>>, <<\hC1, 4>>, <<\hFF, 4>>}
  \/ map = "two" /\ op \in {\h05, \h1F, \hA3}

----------------------------------------------------------------------------
(* What GetInstInfo returns for an opcode that has a handler.  Decoder has *)
(* its loop, and the property DecodesAs, that it ends with this.           *)

REXBit(e, n) == e.rex # 0 /\ (e.rex \div n) % 2 = 1
HasPrefix(e, b) == \E k \in DOMAIN e.prefixes : e.prefixes[k] = b

\* Behind 0F the byte after the opcode is looked at first: three values of a
\* ModRM byte pass for escapes.  Then there is no entry, unless REX, a segment
\* or a REP prefix has left its own, which has no handler.
Escaped(e) == e.map = "two" /\ e.next \in {\h0F, \h38, \h3A}
Found(e) == Escaped(e) => \/ e.rex # 0
                          \/ \E k \in DOMAIN e.prefixes : e.prefixes[k] \notin {\h66, \h67, \hF0}

\* The entry, and the flags DECODE_FLAG_...: REX makes a ModRM or a SIB byte
\* where there is none.
InstInfo(e) ==
  CASE e.map = "two" -> SecondBaseOps[e.op]
    [] e.map = "base" /\ e.op \in ModRMTablePrefix -> ModRMOps[e.op][Reg(e.next)]
    [] OTHER -> BaseOps[e.op]
LOCK(e) == HasPrefix(e, \hF0)
OPSIZE(e) == HasPrefix(e, \h66)
MODRM(e) == "HAS_MODRM" \in InstInfo(e).flags \/ REXBit(e, 1) \/ REXBit(e, 4)
SIB(e) == REXBit(e, 2) \/ (MODRM(e) /\ Mod(e.next) # 3 /\ RM(e.next) = 4)

ModRMDisp(b) == CASE Mod(b) = 1 -> 1
                  [] Mod(b) = 2 -> 4
                  [] Mod(b) = 0 /\ RM(b) = 5 -> 4
                  [] OTHER -> 0
DispOf(e) ==
  CASE ~MODRM(e) -> 0
    [] MODRM(e) /\ SIB(e) /\ RM(e.sib) = 5 /\ ModRMDisp(e.next) = 0 -> 4
    [] OTHER -> ModRMDisp(e.next)
MoreOf(e) == IF "DIV_2" \in InstInfo(e).flags /\ OPSIZE(e)
             THEN InstInfo(e).more \div 2 ELSE InstInfo(e).more

\* Size, before it is cut to four bits.
SizeOf(e) ==
  Len(e.prefixes) + (IF e.rex = 0 THEN 0 ELSE 1) + (IF e.map = "two" THEN 2 ELSE 1)
    + (IF MODRM(e) THEN 1 ELSE 0) + (IF SIB(e) THEN 1 ELSE 0) + DispOf(e) + MoreOf(e)

----------------------------------------------------------------------------
(* The architecture, for the opcodes that have a handler.                  *)

ArchModRM(e) == IF e.map = "two" THEN e.op \in {\h1F, \hA3}
                ELSE e.op \in {\h01, \h03, \h31, \h39, \h83, \h89, \h8D, \hC1, \hFF}
ArchSIB(e) == ArchModRM(e) /\ Mod(e.next) # 3 /\ RM(e.next) = 4
ArchDisp(e) ==
  CASE ~ArchModRM(e) \/ Mod(e.next) = 3 -> 0
    [] ArchModRM(e) /\ Mod(e.next) = 1 -> 1
    [] ArchModRM(e) /\ Mod(e.next) = 2 -> 4
    [] OTHER -> IF RM(e.next) = 5 \/ (ArchSIB(e) /\ RM(e.sib) = 5) THEN 4 ELSE 0
ArchImm(e) ==
  CASE e.map = "base" /\ e.op \in {\h83, \hC1} \cup \h70..\h7F -> 1
    [] e.map = "base" /\ e.op = \h05 ->
         IF HasPrefix(e, \h66) /\ ~REXBit(e, 8) THEN 2 ELSE 4
    [] OTHER -> 0
Length(e) ==
  Len(e.prefixes) + (IF e.rex = 0 THEN 0 ELSE 1) + (IF e.map = "two" THEN 2 ELSE 1)
    + (IF ArchModRM(e) THEN 1 ELSE 0) + (IF ArchSIB(e) THEN 1 ELSE 0) + ArchDisp(e) + ArchImm(e)

\* REX extends only fields that are there, and 66 does not come with REX.W: the
\* encodings that assemblers emit for these opcodes.
Plain(e) ==
  /\ REXBit(e, 1) \/ REXBit(e, 4) => ArchModRM(e)
  /\ REXBit(e, 2) => ArchSIB(e)
  /\ ~(REXBit(e, 8) /\ HasPrefix(e, \h66))
============================================================================
