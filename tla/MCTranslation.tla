--------------------------- MODULE MCTranslation ---------------------------
(* Instances of Translation for TLC.                                       *)
EXTENDS Translation, Bitwise

MCAndByte(a, b) == a & b
MCOrByte(a, b) == a | b
MCXorByte(a, b) == a ^^ b

MCMemory(a) == (a * 517 + 4660) % 2^Bits(8)
MCKernel(args) == Wrap(args[1] + 3 * args[2] + 5 * args[3] + 7 * args[4] + 11 * args[5]
                         + 13 * args[6] + 17 * args[7], 8)

Enc(prefixes, rex, map, op, next) ==
  [prefixes |-> prefixes, rex |-> rex, map |-> map, op |-> op, next |-> next, sib |-> \h24]
Ins(prefixes, rex, map, op, next, imm) == [enc |-> Enc(prefixes, rex, map, op, next), imm |-> imm]

\* ModRM bytes: every mod, registers 0, 1, 4 and 5 on both sides, and the
\* register field that selects the handler of a group.
ModRMs == {64 * mod + 8 * reg + rm : mod \in 0..3, reg \in {0, 1, 4}, rm \in {0, 1, 4, 5}}
REXes == {0, \h40, \h41, \h44, \h48, \h4D}
InGroup(op, next) == CASE op \in {\h83} -> Reg(next) = 0
                       [] op \in {\hC1, \hFF} -> Reg(next) = 4
                       [] OTHER -> TRUE

WithModRM == {Ins(p, rex, "base", op, next, imm) :
  p \in {<<>>, <<\h66>>}, rex \in REXes, op \in {\h01, \h03, \h31, \h39, \h83, \h89, \h8D, \hC1, \hFF},
  next \in ModRMs, imm \in {1, 9}}
BitTests == {Ins(p, rex, "two", \hA3, next, 0) : p \in {<<>>, <<\h66>>}, rex \in REXes, next \in ModRMs}
Others ==
  {Ins(p, rex, "base", \h05, 0, imm) : p \in {<<>>, <<\h66>>}, rex \in {0, \h48}, imm \in {-1, 1}}
    \cup {Ins(<<>>, 0, "base", op, 0, 2) : op \in \h70..\h7F}
    \cup {Ins(p, 0, "base", \h90, 0, 0) : p \in {<<>>, <<\h66>>}}
    \cup {Ins(<<>>, 0, "two", \h1F, next, 0) : next \in {\h00, \h44, \h84}}
    \cup {Ins(<<>>, 0, "two", \h05, 0, 0), Ins(<<>>, 0, "base", \hC3, 0, 0)}
\* Encodings that the decoder refuses, does not find, or gives another length
\* than the processor: LOCK, a REX that extends nothing, a ModRM byte taken for
\* an escape, with and without a prefix that leaves its entry.
Odd ==
  {Ins(p, rex, "base", op, next, 1) :
     p \in {<<>>, <<\hF3>>, <<\hF0>>}, rex \in {0, \h42, \h44, \h4A},
     op \in {\h03, \h05, \h75, \h8D, \h90, \hC3}, next \in {\h00, \h04, \h80, \hC0}}
    \cup {Ins(p, rex, "two", op, next, 0) :
            p \in {<<>>, <<\h66>>, <<\hF3>>}, rex \in {0, \h41, \h4A}, op \in {\h05, \h1F, \hA3},
            next \in {\h00, \h0F, \h38, \h3A, \hC0}}
All == {i \in WithModRM : InGroup(i.enc.op, i.enc.next)} \cup BitTests \cup Others \cup Odd

\* Followers: one instruction of each handler that reads what the first wrote.
Short == {Ins(<<>>, \h48, "base", \h01, \hC8, 0), Ins(<<>>, 0, "base", \h03, \h01, 0),
          Ins(<<>>, 0, "base", \h31, \hC8, 0), Ins(<<>>, 0, "base", \h89, \hC8, 0),
          Ins(<<>>, \h48, "base", \h8D, \h88, 9), Ins(<<>>, 0, "base", \h03, \h04, 0),
          Ins(<<\h66>>, 0, "base", \h03, \h04, 0),
          Ins(<<>>, \h48, "base", \h83, \hC0, -1), Ins(<<>>, 0, "two", \hA3, \hC8, 0),
          Ins(<<>>, 0, "two", \h05, 0, 0), Ins(<<>>, 0, "base", \hC3, 0, 0),
          Ins(<<>>, 0, "base", \h75, 0, 2)}

SomeBlocks == {[start |-> 64, insts |-> <<i>>] : i \in All}
                \cup {[start |-> 64, insts |-> <<Ins(<<>>, \h48, "base", \h01, \hC8, 0), i>>] : i \in Odd}
                \cup {[start |-> 64, insts |-> <<i, j>>] : i \in Short, j \in Short}
                \cup {[start |-> 64, insts |-> <<i, j, k>>] : i \in Short, j \in Short, k \in Short}

\* Registers with and without an upper half, and flags all clear and all set.
Ctx(a, c, flags) == [r \in 0..17 |-> CASE r = 0 -> a [] r = 1 -> c [] r = RFLAGS -> flags
                                       [] OTHER -> (r * 4369 + 258) % 2^Bits(8)]
SomeContexts == {Ctx(65535, 259, 0), Ctx(0, 514, 4095), Ctx(33153, 6, 2)}

\* Blocks that start where conditional jumps are translated: a counting loop,
\* with a jump back into the block or out of it, and instructions around it.
Add(imm) == Ins(<<>>, \h48, "base", \h83, \hC0, imm)
Cmp(rex) == Ins(<<>>, rex, "base", \h39, \hC8, 0)
Jcc(op, imm) == Ins(<<>>, 0, "base", op, 0, imm)
Tails == {<<>>, <<Ins(<<>>, 0, "base", \h89, \hC8, 0)>>, <<Ins(<<>>, 0, "base", \hC3, 0, 0)>>,
          <<Ins(<<>>, 0, "base", \h03, \h04, 0)>>}
LoopBlocks ==
  {[start |-> 80, insts |-> <<Add(1), Cmp(\h48), Jcc(\h75, to)>> \o t] : to \in {-9, -5, 2, -40}, t \in Tails}
    \cup {[start |-> 80, insts |-> <<Add(step), Cmp(rex), Jcc(op, 2)>> \o t] :
            step \in {-1, 1}, rex \in {0, \h48}, op \in \h70..\h7F, t \in Tails}
\* The loop ends in its first, second or third round.
LoopContexts == {Ctx(c - d, c, flags) : c \in {256, 511, 3}, d \in {1, 2, 3}, flags \in {0, 4095}}

AllBlocks == SomeBlocks \cup LoopBlocks
ContextsOf(b) == IF b.start = JccBlock THEN LoopContexts ELSE SomeContexts
============================================================================
