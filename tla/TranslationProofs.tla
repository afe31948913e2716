------------------------- MODULE TranslationProofs -------------------------
(***************************************************************************)
(* Proofs about Translation: what the list of the IR looks like, what has  *)
(* been computed while it runs, and that between two instructions CPUState *)
(* is what the architecture says.                                          *)
(***************************************************************************)
EXTENDS Translation, SequenceTheorems, TLAPS

----------------------------------------------------------------------------
(* Arithmetic of words.                                                    *)

\* Quotient and remainder.
LEMMA Division ==
  ASSUME NEW a \in Int, NEW m \in Nat, m > 0
  PROVE  /\ a \div m \in Int
         /\ a % m \in 0..(m - 1)
         /\ a = m * (a \div m) + (a % m)
  OBVIOUS

\* A remainder is known from any multiple.
LEMMA Remainder ==
  ASSUME NEW q \in Int, NEW r \in Int, NEW m \in Nat, 0 <= r, r < m
  PROVE  (q * m + r) % m = r
  OBVIOUS

LEMMA Congruent ==
  ASSUME NEW a \in Int, NEW q \in Int, NEW m \in Nat, m > 0
  PROVE  (a + q * m) % m = a % m
<1>1. /\ a \div m \in Int
      /\ a % m \in 0..(m - 1)
      /\ a = m * (a \div m) + (a % m)
  BY Division
<1>2. a + q * m = ((a \div m) + q) * m + (a % m)
  BY <1>1
<1>3. (((a \div m) + q) * m + (a % m)) % m = a % m
  BY <1>1, Remainder
<1> QED
  BY <1>2, <1>3

\* The remainder modulo a multiple of m does not matter modulo m.
LEMMA Reduce ==
  ASSUME NEW a \in Int, NEW m \in Nat, NEW l \in Nat, m > 0, l > 0
  PROVE  (a % (m * l)) % m = a % m
<1>1. m * l \in Nat /\ m * l > 0
  OBVIOUS
<1>2. /\ a \div (m * l) \in Int
      /\ a % (m * l) \in Int
      /\ a = (m * l) * (a \div (m * l)) + (a % (m * l))
  BY <1>1, Division
<1> DEFINE q == a \div (m * l)
           r == a % (m * l)
<1>3. a = r + (l * q) * m
  BY <1>2
<1>4. l * q \in Int
  BY <1>2
<1> HIDE DEF q, r
<1>5. r \in Int
  BY <1>2 DEF r
<1>6. (r + (l * q) * m) % m = r % m
  BY <1>4, <1>5, Congruent
<1> QED
  BY <1>3, <1>6 DEF r

\* The operands of a sum and the factor of a product may be reduced.
LEMMA ReduceSum ==
  ASSUME NEW a \in Int, NEW b \in Int, NEW m \in Nat, m > 0
  PROVE  ((a % m) + b) % m = (a + b) % m
<1>1. a \div m \in Int /\ a % m \in Int /\ a = m * (a \div m) + (a % m)
  BY Division
<1> DEFINE q == a \div m
           r == a % m
<1>2. q \in Int /\ r \in Int /\ a = m * q + r
  BY <1>1
<1> HIDE DEF q, r
<1>3. a + b = (r + b) + q * m
  BY <1>2
<1>4. r + b \in Int
  BY <1>2
<1>5. ((r + b) + q * m) % m = (r + b) % m
  BY <1>2, <1>4, Congruent
<1> QED
  BY <1>3, <1>5 DEF r

LEMMA ReduceProduct ==
  ASSUME NEW a \in Int, NEW b \in Int, NEW m \in Nat, m > 0
  PROVE  ((a % m) * b) % m = (a * b) % m
<1>1. a \div m \in Int /\ a % m \in Int /\ a = m * (a \div m) + (a % m)
  BY Division
<1> DEFINE q == a \div m
           r == a % m
<1>2. q \in Int /\ r \in Int /\ a = m * q + r
  BY <1>1
<1> HIDE DEF q, r
<1>3. a * b = r * b + (q * b) * m
  BY <1>2
<1>4. r * b \in Int /\ q * b \in Int
  BY <1>2
<1>5. (r * b + (q * b) * m) % m = (r * b) % m
  BY <1>4, Congruent
<1> QED
  BY <1>3, <1>5 DEF r

\* The sizes of operands, and the bits of a word.
LEMMA Powers ==
  /\ Bits(4) \in Nat /\ Bits(4) >= 8 /\ Bits(8) \in Nat /\ Bits(8) >= 16
  /\ 2^Bits(4) \in Nat /\ 2^Bits(4) > 0
  /\ 2^Bits(8) \in Nat /\ 2^Bits(8) >= 65536 /\ Bits(8) < 2^Bits(8)
  /\ 2^Bits(8) = 2^Bits(4) * 2^Bits(4)
  /\ Word \subseteq Nat
<1>1. Bits(4) \in Nat /\ Bits(8) \in Nat /\ Bits(8) = Bits(4) + Bits(4) /\ Bits(8) >= 16 /\ Bits(4) >= 8
  BY ByteBitsAssumption DEF Bits
<1>2. /\ 2^Bits(4) \in Nat /\ Bits(4) < 2^Bits(4)
      /\ 2^(Bits(4) + Bits(4)) = 2^Bits(4) * 2^Bits(4)
  <2>1. Bits(4) \in 0..Bits(8) /\ Bits(4) \in 0..(Bits(8) - Bits(4))
    BY <1>1
  <2> QED
    BY <2>1, PowersAssumption
<1>3. 2^Bits(8) \in Nat /\ Bits(8) < 2^Bits(8)
  BY <1>1, PowersAssumption
<1>4. Bits(8) - 16 \in 0..Bits(8) /\ Bits(8) - 16 \in 0..(Bits(8) - 16) /\ 16 \in 0..Bits(8)
      /\ 16 + (Bits(8) - 16) = Bits(8)
  BY <1>1
<1>5. /\ 2^(16 + (Bits(8) - 16)) = 2^16 * 2^(Bits(8) - 16)
      /\ 2^(Bits(8) - 16) \in Nat /\ Bits(8) - 16 < 2^(Bits(8) - 16)
  BY <1>4, PowersAssumption
<1>6. 2^16 = 65536
  OBVIOUS
<1>7. 2^Bits(8) = 65536 * 2^(Bits(8) - 16) /\ 2^(Bits(8) - 16) >= 1
  BY <1>1, <1>4, <1>5, <1>6
<1>8. 2^Bits(8) >= 65536
  BY <1>5, <1>7
<1> QED
  BY <1>1, <1>2, <1>3, <1>8 DEF Word

\* An instruction ends below the bound when 15 bytes do.
LEMMA WordBelow ==
  ASSUME NEW y \in Nat, NEW l \in 1..15, y + 15 \in Word
  PROVE  y + l \in Word
<1>1. PICK w : w = 2^Bits(8)
  OBVIOUS
<1>2. w \in Nat
  BY <1>1, Powers
<1>3. y + 15 \in 0..(w - 1)
  BY <1>1 DEF Word
<1>4. y + l \in 0..(w - 1)
  BY <1>2, <1>3
<1> QED
  BY <1>1, <1>4 DEF Word

LEMMA WordNat ==
  ASSUME NEW a \in Word
  PROVE  a \in Nat /\ a \in Int /\ a < 2^Bits(8) /\ 2^Bits(8) \in Nat
<1>1. 2^Bits(8) \in Nat
  BY Powers
<1> QED
  BY <1>1 DEF Word

\* What is cut to a size fits it, and what fits is left alone.
LEMMA WrapWord ==
  ASSUME NEW a \in Int, NEW size \in {4, 8}
  PROVE  Wrap(a, size) \in Word
<1>1. 2^Bits(size) \in Nat /\ 2^Bits(size) > 0
  BY Powers
<1>2. a % 2^Bits(size) \in 0..(2^Bits(size) - 1)
  BY <1>1, Division
<1>3. 2^Bits(4) <= 2^Bits(8)
  <2> DEFINE p == 2^Bits(4)
  <2>1. p \in Nat /\ p > 0 /\ 2^Bits(8) = p * p
    BY Powers
  <2> HIDE DEF p
  <2>2. p <= p * p
    BY <2>1
  <2> QED
    BY <2>1, <2>2 DEF p
<1> QED
  BY <1>1, <1>2, <1>3, Powers DEF Wrap, Word

LEMMA WrapFits ==
  ASSUME NEW a \in Word
  PROVE  Wrap(a, 8) = a
  BY Powers DEF Wrap, Word

\* Operands may be cut before a sum or a shift that is cut to the same size.
LEMMA WrapWrap ==
  ASSUME NEW a \in Int, NEW size \in {4, 8}
  PROVE  /\ Wrap(Wrap(a, 8), size) = Wrap(a, size)
         /\ Wrap(Wrap(a, size), size) = Wrap(a, size)
<1>1. Wrap(Wrap(a, 8), 4) = Wrap(a, 4)
  <2> DEFINE p == 2^Bits(4)
  <2>1. p \in Nat /\ p > 0 /\ 2^Bits(8) = p * p
    BY Powers
  <2> HIDE DEF p
  <2>2. (a % (p * p)) % p = a % p
    BY <2>1, Reduce
  <2> QED
    BY <2>1, <2>2 DEF Wrap, p
<1>2. Wrap(Wrap(a, 8), 8) = Wrap(a, 8)
  BY WrapWord, WrapFits
<1>3. Wrap(Wrap(a, 4), 4) = Wrap(a, 4)
  <2>1. a % 2^Bits(4) \in 0..(2^Bits(4) - 1)
    BY Powers, Division
  <2> QED
    BY <2>1, Powers DEF Wrap
<1> QED
  BY <1>1, <1>2, <1>3

LEMMA WrapSum ==
  ASSUME NEW a \in Int, NEW b \in Int, NEW size \in {4, 8}
  PROVE  /\ Wrap(Wrap(a, size) + b, size) = Wrap(a + b, size)
         /\ Wrap(a + Wrap(b, size), size) = Wrap(a + b, size)
         /\ Wrap(Wrap(a, size) + Wrap(b, size), size) = Wrap(a + b, size)
<1>1. 2^Bits(size) \in Nat /\ 2^Bits(size) > 0
  BY Powers
<1>2. Wrap(a, size) \in Int /\ Wrap(b, size) \in Int
  <2>1. Wrap(a, size) \in Word /\ Wrap(b, size) \in Word
    BY WrapWord
  <2> QED
    BY <2>1 DEF Word
<1>3. ASSUME NEW x \in Int, NEW y \in Int
      PROVE  Wrap(Wrap(x, size) + y, size) = Wrap(x + y, size)
  BY <1>1, ReduceSum DEF Wrap
<1>4. Wrap(Wrap(b, size) + a, size) = Wrap(b + a, size)
  BY <1>3
<1>5. Wrap(Wrap(b, size) + Wrap(a, size), size) = Wrap(b + Wrap(a, size), size)
  BY <1>2, <1>3
<1>6. /\ Wrap(b, size) + a = a + Wrap(b, size) /\ b + a = a + b
      /\ Wrap(b, size) + Wrap(a, size) = Wrap(a, size) + Wrap(b, size)
      /\ b + Wrap(a, size) = Wrap(a, size) + b
  BY <1>2
<1> QED
  BY <1>3, <1>4, <1>5, <1>6

LEMMA WrapProduct ==
  ASSUME NEW a \in Int, NEW b \in Int, NEW size \in {4, 8}
  PROVE  Wrap(Wrap(a, size) * b, size) = Wrap(a * b, size)
<1>1. 2^Bits(size) \in Nat /\ 2^Bits(size) > 0
  BY Powers
<1> QED
  BY <1>1, ReduceProduct DEF Wrap

----------------------------------------------------------------------------
(* Encodings as the handlers read them.                                    *)

\* An instruction of a block.
Valid(i) ==
  /\ i \in Instruction
  /\ HasHandler(i.enc.map, i.enc.op, Reg(i.enc.next))
  /\ Length(i.enc) <= 15 /\ SizeOf(i.enc) <= 15
  /\ i.enc.map = "base" /\ i.enc.op = \hC1 => i.imm \in 0..(Bits(8) - 1)

LEMMA EncodingTypes ==
  ASSUME NEW e \in Encoding
  PROVE  /\ e.prefixes \in Seq(LegacyPrefix) /\ e.rex \in 0..255 /\ e.map \in {"base", "two"}
         /\ e.op \in 0..255 /\ e.next \in 0..255 /\ e.sib \in 0..255
         /\ e.rex = 0 \/ e.rex \in \h40..\h4F
  BY DEF Encoding, Byte, REXPrefix

\* The elements of a concatenation.
LEMMA ConcatAt ==
  ASSUME NEW S, NEW a \in Seq(S), NEW b \in Seq(S)
  PROVE  /\ a \o b \in Seq(S) /\ Len(a) \in Nat /\ Len(b) \in Nat
         /\ Len(a \o b) = Len(a) + Len(b)
         /\ \A k \in 1..Len(a) : (a \o b)[k] = a[k]
         /\ \A k \in 1..Len(b) : (a \o b)[Len(a) + k] = b[k]
  BY ConcatProperties, LenProperties

\* The bytes before the opcode.
OpcodeAt(e) == Len(e.prefixes) + (IF HasREX(e) THEN 1 ELSE 0) + (IF e.map = "two" THEN 1 ELSE 0)

\* The bytes at Inst, of which there are always enough for the handlers.
LEMMA CodeBytes ==
  ASSUME NEW e \in Encoding
  PROVE  /\ Len(e.prefixes) \in Nat /\ OpcodeAt(e) \in Nat
         /\ Code(e) \in Seq(0..255) /\ Len(Code(e)) = OpcodeAt(e) + 3
         /\ HasREX(e) => Code(e)[Len(e.prefixes) + 1] = e.rex
         /\ Code(e)[OpcodeAt(e) + 2] = e.next
<1> DEFINE pre == e.prefixes
           rex == IF e.rex = 0 THEN <<>> ELSE <<e.rex>>
           two == IF e.map = "two" THEN <<\h0F>> ELSE <<>>
           rest == <<e.op, e.next, e.sib>>
           S == 0..255
<1>1. pre \in Seq(S)
  <2>1. LegacyPrefix \subseteq S
    BY DEF LegacyPrefix
  <2>2. pre \in Seq(LegacyPrefix)
    BY EncodingTypes
  <2> HIDE DEF pre, S
  <2> QED
    BY <2>1, <2>2, SeqMonotonic, Zenon
<1>2. /\ rex \in Seq(S) /\ Len(rex) = IF HasREX(e) THEN 1 ELSE 0
      /\ HasREX(e) => rex[1] = e.rex
  <2>1. CASE e.rex = 0
    BY <2>1 DEF HasREX
  <2>2. CASE e.rex # 0
    BY <2>2, EncodingTypes DEF HasREX
  <2> QED
    BY <2>1, <2>2
<1>3. two \in Seq(S) /\ Len(two) = IF e.map = "two" THEN 1 ELSE 0
  <2>1. CASE e.map = "two"
    BY <2>1
  <2>2. CASE e.map # "two"
    BY <2>2
  <2> QED
    BY <2>1, <2>2
<1>4. rest \in Seq(S) /\ Len(rest) = 3 /\ rest[2] = e.next
  BY EncodingTypes
<1> DEFINE pr == pre \o rex
           prt == pr \o two
<1>5. Code(e) = prt \o rest
  BY DEF Code
<1> HIDE DEF pre, rex, two, rest, S, pr, prt
<1>6. /\ pr \in Seq(S) /\ Len(pr) = Len(pre) + Len(rex) /\ Len(pre) \in Nat
      /\ \A k \in 1..Len(rex) : pr[Len(pre) + k] = rex[k]
  BY <1>1, <1>2, ConcatAt DEF pr
<1>7. /\ prt \in Seq(S) /\ Len(prt) = Len(pr) + Len(two)
      /\ \A k \in 1..Len(pr) : prt[k] = pr[k]
  <2>1. pr \in Seq(S) /\ two \in Seq(S)
    BY <1>3, <1>6
  <2> QED
    BY <2>1, ConcatAt DEF prt
<1>8. /\ Code(e) \in Seq(S)
      /\ Len(Code(e)) = Len(prt) + 3
      /\ \A k \in 1..Len(prt) : Code(e)[k] = prt[k]
      /\ \A k \in 1..3 : Code(e)[Len(prt) + k] = rest[k]
  <2>1. prt \in Seq(S) /\ rest \in Seq(S)
    BY <1>4, <1>7
  <2>2. /\ prt \o rest \in Seq(S) /\ Len(prt \o rest) = Len(prt) + Len(rest)
        /\ \A k \in 1..Len(prt) : (prt \o rest)[k] = prt[k]
        /\ \A k \in 1..Len(rest) : (prt \o rest)[Len(prt) + k] = rest[k]
    BY <2>1, ConcatAt
  <2> QED
    BY <1>4, <1>5, <2>2
<1>9. HasREX(e) => Code(e)[Len(pre) + 1] = e.rex
  <2> SUFFICES ASSUME HasREX(e) PROVE Code(e)[Len(pre) + 1] = e.rex
    OBVIOUS
  <2>1. 1 \in 1..Len(rex) /\ Len(pre) + 1 \in 1..Len(pr) /\ Len(pre) + 1 \in 1..Len(prt)
    BY <1>2, <1>3, <1>6, <1>7
  <2> QED
    BY <1>2, <1>6, <1>7, <1>8, <2>1
<1>10. Code(e)[Len(prt) + 2] = e.next
  BY <1>4, <1>8
<1>11. Len(prt) = OpcodeAt(e) /\ OpcodeAt(e) \in Nat
  <2>1. Len(prt) = (Len(pre) + Len(rex)) + Len(two)
    BY <1>6, <1>7
  <2>2. OpcodeAt(e) = (Len(pre) + Len(rex)) + Len(two)
    BY <1>2, <1>3 DEF OpcodeAt, pre
  <2>3. Len(rex) \in Nat /\ Len(two) \in Nat
    BY <1>2, <1>3
  <2> QED
    BY <1>6, <2>1, <2>2, <2>3
<1> QED
  BY <1>6, <1>8, <1>9, <1>10, <1>11 DEF S, pre

\* Without legacy prefixes the handlers find REX and ModRM.
LEMMA CodeUnprefixed ==
  ASSUME NEW e \in Encoding, ~Prefixed(e)
  PROVE  REXOf(e) = e.rex /\ ModRMOf(e) = e.next
<1>1. Len(e.prefixes) = 0
  BY DEF Prefixed
<1>2. HasREX(e) => Code(e)[1] = e.rex
  <2>1. Len(e.prefixes) + 1 = 1
    BY <1>1
  <2> QED
    BY <2>1, CodeBytes
<1>3. Code(e)[(IF HasREX(e) THEN 3 ELSE 2) + (IF e.map = "two" THEN 1 ELSE 0)] = e.next
  <2>1. OpcodeAt(e) + 2 = (IF HasREX(e) THEN 3 ELSE 2) + (IF e.map = "two" THEN 1 ELSE 0)
    BY <1>1 DEF OpcodeAt
  <2> QED
    BY <2>1, CodeBytes
<1> QED
  BY <1>2, <1>3 DEF REXOf, ModRMOf, HasREX

\* The operands are general registers, whatever the bytes are, and of a size
\* of 16 bits only with the prefix.
LEMMA Operands ==
  ASSUME NEW e \in Encoding
  PROVE  /\ RMOf(e) \in 0..15 /\ RegOf(e) \in 0..15
         /\ Mod(ModRMOf(e)) \in 0..3 /\ Reg(ModRMOf(e)) \in 0..7
         /\ OpSize(e) \in {2, 4, 8}
         /\ OpSize(e) = 2 => OPSIZE(e)
<1>1. REXOf(e) \in 0..255 /\ ModRMOf(e) \in 0..255
  <2> DEFINE code == Code(e)
             k == (IF HasREX(e) THEN 3 ELSE 2) + (IF e.map = "two" THEN 1 ELSE 0)
  <2>1. code \in Seq(0..255) /\ k \in 1..Len(code) /\ 1 \in 1..Len(code)
    <3>1. k <= OpcodeAt(e) + 3 /\ k \in Nat /\ k > 0
      <4>1. Len(e.prefixes) \in Nat
        BY CodeBytes
      <4>2. CASE HasREX(e) /\ e.map = "two"
        BY <4>1, <4>2 DEF OpcodeAt
      <4>3. CASE HasREX(e) /\ e.map # "two"
        BY <4>1, <4>3 DEF OpcodeAt
      <4>4. CASE ~HasREX(e) /\ e.map = "two"
        BY <4>1, <4>4 DEF OpcodeAt
      <4>5. CASE ~HasREX(e) /\ e.map # "two"
        BY <4>1, <4>5 DEF OpcodeAt
      <4> QED
        BY <4>2, <4>3, <4>4, <4>5
    <3>2. code \in Seq(0..255) /\ Len(code) = OpcodeAt(e) + 3 /\ OpcodeAt(e) \in Nat
      BY CodeBytes
    <3> HIDE DEF k, code
    <3> QED
      BY <3>1, <3>2
  <2> HIDE DEF code, k
  <2>2. code[1] \in 0..255 /\ code[k] \in 0..255
    BY <2>1, ElementOfSeq
  <2> QED
    BY <2>2 DEF REXOf, ModRMOf, code, k
<1>2. R(e) \in 0..1 /\ B(e) \in 0..1
  BY <1>1 DEF R, B
<1>3. Reg(ModRMOf(e)) \in 0..7 /\ RM(ModRMOf(e)) \in 0..7 /\ Mod(ModRMOf(e)) \in 0..3
  BY <1>1 DEF Reg, RM, Mod
<1> QED
  BY <1>2, <1>3 DEF RMOf, RegOf, MapModRMToReg, OpSize

\* Without legacy prefixes they are those of the architecture.
LEMMA OperandsUnprefixed ==
  ASSUME NEW e \in Encoding, ~Prefixed(e)
  PROVE  /\ RegOf(e) = MapModRMToReg(IF REXBit(e, 4) THEN 1 ELSE 0, Reg(e.next))
         /\ RMOf(e) = MapModRMToReg(IF REXBit(e, 1) THEN 1 ELSE 0, RM(e.next))
         /\ OpSize(e) = (IF REXBit(e, 8) THEN 8 ELSE 4)
         /\ ~OPSIZE(e)
<1>1. REXOf(e) = e.rex /\ ModRMOf(e) = e.next /\ e.rex \in 0..255
  BY CodeUnprefixed, EncodingTypes
<1>2. ~OPSIZE(e)
  BY DEF OPSIZE, HasPrefix, Prefixed
<1>3. /\ R(e) = IF REXBit(e, 4) THEN 1 ELSE 0
      /\ B(e) = IF REXBit(e, 1) THEN 1 ELSE 0
      /\ W(e) = IF REXBit(e, 8) THEN 1 ELSE 0
  BY <1>1 DEF R, B, W, REXBit
<1> QED
  BY <1>1, <1>2, <1>3 DEF RegOf, RMOf, OpSize

\* An instruction has at least its opcode.
LEMMA LengthPositive ==
  ASSUME NEW e \in Encoding
  PROVE  Length(e) \in Nat /\ Length(e) > 0
<1>1. Len(e.prefixes) \in Nat
  BY EncodingTypes
<1>2. ArchDisp(e) \in Nat
  BY DEF ArchDisp
<1>3. ArchImm(e) \in Nat
  BY DEF ArchImm
<1> DEFINE r == IF e.rex = 0 THEN 0 ELSE 1
           t == IF e.map = "two" THEN 2 ELSE 1
           m == IF ArchModRM(e) THEN 1 ELSE 0
           b == IF ArchSIB(e) THEN 1 ELSE 0
<1>4. r \in Nat /\ t \in Nat /\ t > 0 /\ m \in Nat /\ b \in Nat
  OBVIOUS
<1>5. Length(e) = Len(e.prefixes) + r + t + m + b + ArchDisp(e) + ArchImm(e)
  BY DEF Length
<1> HIDE DEF r, t, m, b
<1> QED
  BY <1>1, <1>2, <1>3, <1>4, <1>5

\* The entries of the opcodes that have a handler and no table of their own.
LEMMA BaseEntries ==
  /\ BaseOps[\h01] = Inst({"HAS_MODRM", "DIV_2"}, 0)
  /\ \A op \in {\h03, \h31, \h39, \h89, \h8D} : BaseOps[op] = Inst({"HAS_MODRM"}, 0)
  /\ BaseOps[\h05] = Inst({"DIV_2"}, 4)
  /\ BaseOps[\h90] = Inst({}, 0)
  /\ BaseOps[\hC3] = Inst({"SETS_RIP", "BLOCK_END"}, 0)
  /\ \A op \in \h70..\h7F : BaseOps[op] = Inst({}, 1)
<1> USE DEF BaseOps, Byte, LegacyPrefix, REXPrefix, ModRMTablePrefix
<1>1. BaseOps[\h01] = Inst({"HAS_MODRM", "DIV_2"}, 0)
  OBVIOUS
<1>2. \A op \in {\h03, \h31, \h39, \h89, \h8D} : BaseOps[op] = Inst({"HAS_MODRM"}, 0)
  OBVIOUS
<1>3. BaseOps[\h05] = Inst({"DIV_2"}, 4)
  OBVIOUS
<1>4. BaseOps[\h90] = Inst({}, 0)
  OBVIOUS
<1>5. BaseOps[\hC3] = Inst({"SETS_RIP", "BLOCK_END"}, 0)
  OBVIOUS
<1>6. \A op \in \h70..\h7F : BaseOps[op] = Inst({}, 1)
  OBVIOUS
<1> QED
  BY <1>1, <1>2, <1>3, <1>4, <1>5, <1>6

\* The entry GetInstInfo returns for an instruction, against the architecture.
Info(i) == InstInfo(i.enc)
Immediate(e) == IF e.map = "base" /\ e.op \in {\h83, \hC1} \cup \h70..\h7F THEN 1
                ELSE IF e.map = "base" /\ e.op = \h05 THEN 4 ELSE 0

LEMMA EntryIs ==
  ASSUME NEW i, Valid(i)
  PROVE  /\ "HAS_MODRM" \in Info(i).flags <=> ArchModRM(i.enc)
         /\ Info(i).more = Immediate(i.enc)
         /\ Info(i).more # 0 => ("DIV_2" \in Info(i).flags <=> Info(i).more = 4)
<1> DEFINE op == i.enc.op
<1>0. i.enc \in Encoding /\ i.enc.map \in {"base", "two"} /\ op \in 0..255
  BY EncodingTypes DEF Valid, Instruction
<1>1. CASE i.enc.map = "two"
  <2>1. op \in {\h05, \h1F, \hA3} /\ Info(i) = SecondBaseOps[op]
    BY <1>1 DEF Valid, HasHandler, Info, InstInfo
  <2>2. Info(i) = IF op = \h05 THEN Inst({"BLOCK_END"}, 0) ELSE Inst({"HAS_MODRM"}, 0)
    BY <2>1 DEF SecondBaseOps, Byte
  <2>3. ("HAS_MODRM" \in Info(i).flags <=> op # \h05) /\ Info(i).more = 0
    BY <2>2 DEF Inst, Entry
  <2> QED
    BY <1>1, <2>1, <2>3 DEF ArchModRM, Immediate
<1>2. CASE i.enc.map = "base" /\ op \in {\h83, \hC1, \hFF}
  <2>1. /\ op \in ModRMTablePrefix
        /\ Reg(i.enc.next) = IF op = \h83 THEN 0 ELSE 4
    BY <1>2 DEF Valid, HasHandler, ModRMTablePrefix
  <2>2. Info(i) = ModRMOps[op][Reg(i.enc.next)]
    BY <1>2, <2>1 DEF Info, InstInfo
  <2>3. Info(i) = IF op = \hFF THEN IndirectJump ELSE Inst({"HAS_MODRM"}, 1)
    <3>1. /\ ModRMOps[\h83][0] = Inst({"HAS_MODRM"}, 1)
          /\ ModRMOps[\hC1][4] = Inst({"HAS_MODRM"}, 1)
          /\ ModRMOps[\hFF][4] = IndirectJump
      BY DEF ModRMOps, ModRMTablePrefix
    <3> QED
      BY <1>2, <2>1, <2>2, <3>1
  <2> QED
    BY <1>2, <2>3 DEF ArchModRM, Immediate, IndirectJump, Inst, Entry
<1>3. CASE /\ i.enc.map = "base"
           /\ op \in {\h01, \h03, \h05, \h31, \h39, \h89, \h8D, \h90, \hC3} \cup \h70..\h7F
  <2>1. Info(i) = BaseOps[op]
    BY <1>3 DEF Info, InstInfo, ModRMTablePrefix
  <2>2. BaseOps[op] =
          CASE op = \h01 -> Inst({"HAS_MODRM", "DIV_2"}, 0)
            [] op \in {\h03, \h31, \h39, \h89, \h8D} -> Inst({"HAS_MODRM"}, 0)
            [] op = \h05 -> Inst({"DIV_2"}, 4)
            [] op = \h90 -> Inst({}, 0)
            [] op = \hC3 -> Inst({"SETS_RIP", "BLOCK_END"}, 0)
            [] OTHER -> Inst({}, 1)
    BY <1>3, BaseEntries
  <2>3. "HAS_MODRM" \in Info(i).flags <=> op \in {\h01, \h03, \h31, \h39, \h89, \h8D}
    BY <2>1, <2>2 DEF Inst, Entry
  <2>4. /\ Info(i).more = IF op \in \h70..\h7F THEN 1 ELSE IF op = \h05 THEN 4 ELSE 0
        /\ Info(i).more # 0 => ("DIV_2" \in Info(i).flags <=> Info(i).more = 4)
    BY <1>3, <2>1, <2>2 DEF Inst, Entry
  <2> QED
    BY <1>3, <2>3, <2>4 DEF ArchModRM, Immediate
<1> QED
  BY <1>0, <1>1, <1>2, <1>3 DEF Valid, HasHandler

\* So its size is positive.
LEMMA SizePositive ==
  ASSUME NEW i, Valid(i)
  PROVE  SizeOf(i.enc) \in Nat /\ SizeOf(i.enc) > 0
<1> DEFINE e == i.enc
           r == IF e.rex = 0 THEN 0 ELSE 1
           t == IF e.map = "two" THEN 2 ELSE 1
           m == IF MODRM(e) THEN 1 ELSE 0
           b == IF SIB(e) THEN 1 ELSE 0
<1>1. Len(e.prefixes) \in Nat
  BY EncodingTypes DEF Valid, Instruction
<1>2. DispOf(e) \in Nat
  <2>1. ModRMDisp(e.next) \in Nat
    BY DEF ModRMDisp
  <2> QED
    BY <2>1 DEF DispOf
<1>3. MoreOf(e) \in Nat
  <2>1. InstInfo(e).more = Immediate(e)
    BY EntryIs DEF Info
  <2>2. Immediate(e) \in {0, 1, 4}
    BY DEF Immediate
  <2> QED
    BY <2>1, <2>2 DEF MoreOf
<1>4. r \in Nat /\ t \in Nat /\ t > 0 /\ m \in Nat /\ b \in Nat
  OBVIOUS
<1>5. SizeOf(e) = Len(e.prefixes) + r + t + m + b + DispOf(e) + MoreOf(e)
  BY DEF SizeOf
<1> HIDE DEF e, r, t, m, b
<1>6. SizeOf(e) \in Nat /\ SizeOf(e) > 0
  BY <1>1, <1>2, <1>3, <1>4, <1>5
<1> QED
  BY <1>6 DEF e

\* And it is the length, in an encoding where REX extends only what is there.
LEMMA PlainSize ==
  ASSUME NEW i, Valid(i), Plain(i.enc)
  PROVE  SizeOf(i.enc) = Length(i.enc)
<1> DEFINE e == i.enc
<1>1. /\ "HAS_MODRM" \in InstInfo(e).flags <=> ArchModRM(e)
      /\ InstInfo(e).more = Immediate(e)
      /\ InstInfo(e).more # 0 => ("DIV_2" \in InstInfo(e).flags <=> InstInfo(e).more = 4)
  BY EntryIs DEF Info
<1>2. MODRM(e) <=> ArchModRM(e)
  BY <1>1 DEF MODRM, Plain
<1>3. SIB(e) <=> ArchSIB(e)
  BY <1>2 DEF SIB, ArchSIB, Plain
<1>4. DispOf(e) = ArchDisp(e)
  <2>1. Mod(e.next) \in 0..3
    <3>1. e.next \in 0..255
      BY EncodingTypes DEF Valid, Instruction
    <3> QED
      BY <3>1 DEF Mod
  <2>2. CASE ~ArchModRM(e)
    BY <1>2, <2>2 DEF DispOf, ArchDisp
  <2>3. CASE ArchModRM(e)
    <3>1. DispOf(e) = IF ArchSIB(e) /\ RM(e.sib) = 5 /\ ModRMDisp(e.next) = 0
                      THEN 4 ELSE ModRMDisp(e.next)
      BY <1>2, <1>3, <2>3 DEF DispOf
    <3>2. ArchSIB(e) => Mod(e.next) # 3
      BY DEF ArchSIB
    <3>3. CASE Mod(e.next) = 0
      BY <2>3, <3>1, <3>3 DEF ArchDisp, ModRMDisp
    <3>4. CASE Mod(e.next) = 1
      BY <2>3, <3>1, <3>4 DEF ArchDisp, ModRMDisp
    <3>5. CASE Mod(e.next) = 2
      BY <2>3, <3>1, <3>5 DEF ArchDisp, ModRMDisp
    <3>6. CASE Mod(e.next) = 3
      BY <2>3, <3>1, <3>2, <3>6 DEF ArchDisp, ModRMDisp
    <3> QED
      BY <2>1, <3>3, <3>4, <3>5, <3>6
  <2> QED
    BY <2>2, <2>3
<1>5. MoreOf(e) = ArchImm(e)
  <2>1. MoreOf(e) = IF Immediate(e) = 4 /\ OPSIZE(e) THEN 2 ELSE Immediate(e)
    <3>1. Immediate(e) \in {0, 1, 4}
      BY DEF Immediate
    <3>2. MoreOf(e) = IF "DIV_2" \in InstInfo(e).flags /\ OPSIZE(e)
                      THEN Immediate(e) \div 2 ELSE Immediate(e)
      BY <1>1 DEF MoreOf
    <3>3. 0 \div 2 = 0 /\ 4 \div 2 = 2
      OBVIOUS
    <3> QED
      BY <1>1, <3>1, <3>2, <3>3
  <2>2. (OPSIZE(e) <=> HasPrefix(e, \h66)) /\ (OPSIZE(e) => ~REXBit(e, 8))
    BY DEF OPSIZE, Plain
  <2>3. CASE e.map = "base" /\ e.op = \h05
    BY <2>1, <2>2, <2>3 DEF Immediate, ArchImm
  <2>4. CASE ~(e.map = "base" /\ e.op = \h05)
    BY <2>1, <2>4 DEF Immediate, ArchImm
  <2> QED
    BY <2>3, <2>4
<1> QED
  BY <1>2, <1>3, <1>4, <1>5 DEF SizeOf, Length

----------------------------------------------------------------------------
(* The operations that a handler appends.                                  *)

ValueOps == {"Constant", "LoadContext", "LoadMem", "Trunc", "Add", "Sub", "And", "Nand", "Or", "Xor",
             "Shl", "Shr", "BitExtract", "Select", "Syscall"}
JumpOps == {"CondJump", "EndBlock", "JumpTarget"}
OpNames == ValueOps \cup JumpOps \cup {"StoreContext", "BeginBlock", "RIPMarker"}
IROp == [op : OpNames, args : Seq(Nat), k : Int]

BiOps == {"Add", "Sub", "And", "Nand", "Or", "Xor", "Shl", "Shr", "BitExtract"}

\* The number of values an operation uses.
Arity(op) == CASE op \in {"LoadMem", "Trunc", "StoreContext"} -> 1
               [] op \in BiOps -> 2
               [] op = "Select" -> 4
               [] op = "Syscall" -> 7
               [] OTHER -> 0

Jump(i) == i.enc.map = "base" /\ i.enc.op \in \h70..\h7F

\* o is an operation at place p of the code for i, which begins behind place b:
\* it uses values of this code that precede it, and CompileCode knows it, with
\* the two exceptions of AbortsOnlyOn16Bits.
Formed(i, b, p, o) ==
  /\ o \in IROp
  /\ o.op \in ValueOps \cup {"StoreContext"} \/ (Jump(i) /\ o.op \in JumpOps)
  /\ Len(o.args) >= Arity(o.op)
  /\ \A a \in 1..Arity(o.op) :
       /\ o.args[a] \in Nat /\ b < o.args[a]
       /\ o.args[a] < p \/ (o.op = "Xor" /\ o.args[a] = p)
  /\ o.op \in {"StoreContext", "LoadContext"} => o.k \in 0..17
  /\ o.op \in {"Trunc", "LoadMem"} /\ o.k = 2 => OPSIZE(i.enc)
  /\ o.op = "Xor" /\ (\E a \in DOMAIN o.args : o.args[a] = p) =>
       Jump(i) /\ ~Negate(JumpType(i.enc))

FormedSeq(i, b, p, s) ==
  s \in Seq(IROp) /\ \A j \in 1..Len(s) : Formed(i, b, p + j, s[j])

LEMMA FormedConcat ==
  ASSUME NEW i, NEW b, NEW p \in Nat, NEW s, NEW t,
         FormedSeq(i, b, p, s), FormedSeq(i, b, p + Len(s), t)
  PROVE  FormedSeq(i, b, p, s \o t)
<1>1. s \in Seq(IROp) /\ t \in Seq(IROp)
  BY DEF FormedSeq
<1>2. /\ s \o t \in Seq(IROp) /\ Len(s) \in Nat /\ Len(t) \in Nat
      /\ Len(s \o t) = Len(s) + Len(t)
      /\ \A k \in 1..Len(s) : (s \o t)[k] = s[k]
      /\ \A k \in 1..Len(t) : (s \o t)[Len(s) + k] = t[k]
  BY <1>1, ConcatAt
<1> SUFFICES ASSUME NEW j \in 1..Len(s \o t)
             PROVE  Formed(i, b, p + j, (s \o t)[j])
  BY <1>2 DEF FormedSeq
<1>3. CASE j <= Len(s)
  BY <1>2, <1>3 DEF FormedSeq
<1>4. CASE j > Len(s)
  <2> DEFINE k == j - Len(s)
  <2>1. k \in 1..Len(t) /\ Len(s) + k = j
    BY <1>2, <1>4
  <2>2. (s \o t)[j] = t[k] /\ p + j = (p + Len(s)) + k
    BY <1>2, <2>1
  <2> QED
    BY <2>1, <2>2 DEF FormedSeq
<1> QED
  BY <1>2, <1>3, <1>4

LEMMA FormedEmpty ==
  ASSUME NEW i, NEW b, NEW p
  PROVE  FormedSeq(i, b, p, <<>>)
  BY DEF FormedSeq

LEMMA FormedLoad ==
  ASSUME NEW i, NEW b, NEW p, NEW reg \in 0..17
  PROVE  Formed(i, b, p, LoadContext(reg))
  BY DEF Formed, LoadContext, Op, IROp, OpNames, ValueOps, JumpOps, BiOps, Arity

LEMMA FormedConstant ==
  ASSUME NEW i, NEW b, NEW p, NEW x \in Int
  PROVE  Formed(i, b, p, Constant(x))
<1>1. Wrap(x, 8) \in Int
  BY WrapWord DEF Word
<1> QED
  BY <1>1 DEF Formed, Constant, Op, IROp, OpNames, ValueOps, JumpOps, BiOps, Arity

LEMMA FormedStore ==
  ASSUME NEW i, NEW b \in Nat, NEW p \in Nat, NEW v \in Nat, b < v, v < p, NEW reg \in 0..17
  PROVE  Formed(i, b, p, StoreContext(v, reg))
  BY DEF Formed, StoreContext, Op, IROp, OpNames, ValueOps, JumpOps, BiOps, Arity

LEMMA FormedCut ==
  ASSUME NEW i, NEW b \in Nat, NEW p \in Nat, NEW v \in Nat, b < v, v < p,
         NEW size \in {2, 4, 8}, size = 2 => OPSIZE(i.enc)
  PROVE  Formed(i, b, p, Truncate(v, size)) /\ Formed(i, b, p, LoadMem(v, size))
  BY DEF Formed, Truncate, LoadMem, Op, IROp, OpNames, ValueOps, JumpOps, BiOps, Arity

LEMMA FormedBiOp ==
  ASSUME NEW i, NEW b \in Nat, NEW p \in Nat, NEW v \in Nat, b < v, v < p,
         NEW w \in Nat, b < w, w < p, NEW op \in BiOps
  PROVE  Formed(i, b, p, BiOp(op, v, w))
  BY DEF Formed, BiOp, Op, IROp, OpNames, ValueOps, JumpOps, BiOps, Arity

LEMMA FormedSelect ==
  ASSUME NEW i, NEW b \in Nat, NEW p \in Nat, NEW v \in Nat, b < v, v < p, NEW w \in Nat, b < w, w < p,
         NEW x \in Nat, b < x, x < p, NEW y \in Nat, b < y, y < p
  PROVE  Formed(i, b, p, Op("Select", <<v, w, x, y>>, 0))
  BY DEF Formed, Op, IROp, OpNames, ValueOps, JumpOps, BiOps, Arity

\* Setting a flag.
LEMMA SetFlagFormed ==
  ASSUME NEW i, NEW b \in Nat, NEW p \in Nat, NEW v \in Nat, b <= p, b < v, v <= p, NEW bit \in {6, 7}
  PROVE  FormedSeq(i, b, p, SetFlag(p, v, bit)) /\ Len(SetFlag(p, v, bit)) = 9
<1> DEFINE s == SetFlag(p, v, bit)
<1>1. s = <<LoadContext(RFLAGS), Constant(1), Constant(2^bit), Constant(bit),
            BiOp("And", v, p+2), BiOp("Shl", p+5, p+4), BiOp("Nand", p+1, p+3),
            BiOp("Or", p+6, p+7), StoreContext(p+8, RFLAGS)>>
  BY DEF SetFlag
<1>2. /\ p+1 \in Nat /\ p+2 \in Nat /\ p+3 \in Nat /\ p+4 \in Nat /\ p+5 \in Nat /\ p+6 \in Nat
      /\ p+7 \in Nat /\ p+8 \in Nat /\ p+9 \in Nat /\ bit \in Int /\ 2^bit \in Int /\ RFLAGS \in 0..17
  BY 2^6 = 64, 2^7 = 128 DEF RFLAGS
<1>3. /\ Formed(i, b, p+1, LoadContext(RFLAGS)) /\ Formed(i, b, p+2, Constant(1))
      /\ Formed(i, b, p+3, Constant(2^bit)) /\ Formed(i, b, p+4, Constant(bit))
  BY <1>2, FormedLoad, FormedConstant
<1>4. /\ Formed(i, b, p+5, BiOp("And", v, p+2)) /\ Formed(i, b, p+6, BiOp("Shl", p+5, p+4))
      /\ Formed(i, b, p+7, BiOp("Nand", p+1, p+3)) /\ Formed(i, b, p+8, BiOp("Or", p+6, p+7))
  BY <1>2, FormedBiOp DEF BiOps
<1>5. Formed(i, b, p+9, StoreContext(p+8, RFLAGS))
  BY <1>2, FormedStore
<1> HIDE DEF s
<1>6. s \in Seq(IROp)
  BY <1>1, <1>3, <1>4, <1>5 DEF Formed
<1> QED
  BY <1>1, <1>3, <1>4, <1>5, <1>6 DEF FormedSeq, s

\* XorOp.
LEMMA XorFormed ==
  ASSUME NEW i \in Instruction, NEW b \in Nat
  PROVE  FormedSeq(i, b, b, XorOp(i, b).ops)
<1>1. CASE NotRegister(i.enc)
  BY <1>1, FormedEmpty DEF XorOp, Result
<1>2. CASE ~NotRegister(i.enc)
  <2> DEFINE s == XorOp(i, b).ops
  <2>1. s = <<LoadContext(RMOf(i.enc)), LoadContext(RegOf(i.enc)), Truncate(b+1, OpSize(i.enc)),
              Truncate(b+2, OpSize(i.enc)), BiOp("Xor", b+3, b+4), Truncate(b+5, OpSize(i.enc)),
              StoreContext(b+6, RMOf(i.enc))>>
    BY <1>2 DEF XorOp, Result
  <2>2. /\ b+1 \in Nat /\ b+2 \in Nat /\ b+3 \in Nat /\ b+4 \in Nat /\ b+5 \in Nat
        /\ b+6 \in Nat /\ b+7 \in Nat /\ RMOf(i.enc) \in 0..17 /\ RegOf(i.enc) \in 0..17
        /\ OpSize(i.enc) \in {2, 4, 8} /\ (OpSize(i.enc) = 2 => OPSIZE(i.enc))
    BY Operands DEF Instruction
  <2>3. /\ Formed(i, b, b+1, LoadContext(RMOf(i.enc)))
        /\ Formed(i, b, b+2, LoadContext(RegOf(i.enc)))
        /\ Formed(i, b, b+3, Truncate(b+1, OpSize(i.enc)))
        /\ Formed(i, b, b+4, Truncate(b+2, OpSize(i.enc)))
        /\ Formed(i, b, b+5, BiOp("Xor", b+3, b+4))
        /\ Formed(i, b, b+6, Truncate(b+5, OpSize(i.enc)))
        /\ Formed(i, b, b+7, StoreContext(b+6, RMOf(i.enc)))
    BY <2>2, FormedLoad, FormedCut, FormedBiOp, FormedStore DEF BiOps
  <2> HIDE DEF s
  <2>4. s \in Seq(IROp)
    BY <2>1, <2>3 DEF Formed
  <2> QED
    BY <2>1, <2>3, <2>4 DEF FormedSeq, s
<1> QED
  BY <1>1, <1>2

\* ShlImmOp.
LEMMA ShlImmFormed ==
  ASSUME NEW i \in Instruction, NEW b \in Nat
  PROVE  FormedSeq(i, b, b, ShlImmOp(i, b).ops)
<1>1. CASE NotRegister(i.enc)
  BY <1>1, FormedEmpty DEF ShlImmOp, Result
<1>2. CASE ~NotRegister(i.enc)
  <2> DEFINE s == ShlImmOp(i, b).ops
  <2>1. s = <<LoadContext(RMOf(i.enc)), Constant(i.imm), Truncate(b+1, OpSize(i.enc)),
              BiOp("Shl", b+3, b+2), Truncate(b+4, OpSize(i.enc)),
              StoreContext(b+5, RMOf(i.enc))>>
    BY <1>2 DEF ShlImmOp, Result
  <2>2. /\ b+1 \in Nat /\ b+2 \in Nat /\ b+3 \in Nat /\ b+4 \in Nat /\ b+5 \in Nat
        /\ b+6 \in Nat /\ RMOf(i.enc) \in 0..17 /\ OpSize(i.enc) \in {2, 4, 8}
        /\ (OpSize(i.enc) = 2 => OPSIZE(i.enc)) /\ i.imm \in Int
    BY Operands DEF Instruction
  <2>3. /\ Formed(i, b, b+1, LoadContext(RMOf(i.enc))) /\ Formed(i, b, b+2, Constant(i.imm))
        /\ Formed(i, b, b+3, Truncate(b+1, OpSize(i.enc)))
        /\ Formed(i, b, b+4, BiOp("Shl", b+3, b+2))
        /\ Formed(i, b, b+5, Truncate(b+4, OpSize(i.enc)))
        /\ Formed(i, b, b+6, StoreContext(b+5, RMOf(i.enc)))
    BY <2>2, FormedLoad, FormedConstant, FormedCut, FormedBiOp, FormedStore DEF BiOps
  <2> HIDE DEF s
  <2>4. s \in Seq(IROp)
    BY <2>1, <2>3 DEF Formed
  <2> QED
    BY <2>1, <2>3, <2>4 DEF FormedSeq, s
<1> QED
  BY <1>1, <1>2

\* AddImmOp.
LEMMA AddImmFormed ==
  ASSUME NEW i \in Instruction, NEW b \in Nat
  PROVE  FormedSeq(i, b, b, AddImmOp(i, b).ops)
<1> DEFINE s == AddImmOp(i, b).ops
<1>1. s = <<LoadContext(0), Constant(i.imm), BiOp("Add", b+1, b+2), StoreContext(b+3, 0)>>
  BY DEF AddImmOp, Result
<1>2. /\ b+1 \in Nat /\ b+2 \in Nat /\ b+3 \in Nat /\ b+4 \in Nat /\ i.imm \in Int
  BY DEF Instruction
<1>3. /\ Formed(i, b, b+1, LoadContext(0)) /\ Formed(i, b, b+2, Constant(i.imm))
      /\ Formed(i, b, b+3, BiOp("Add", b+1, b+2)) /\ Formed(i, b, b+4, StoreContext(b+3, 0))
  BY <1>2, FormedLoad, FormedConstant, FormedBiOp, FormedStore DEF BiOps
<1> HIDE DEF s
<1>4. s \in Seq(IROp)
  BY <1>1, <1>3 DEF Formed
<1> QED
  BY <1>1, <1>3, <1>4 DEF FormedSeq, s

\* LEAOp.
LEMMA LEAFormed ==
  ASSUME NEW i \in Instruction, NEW b \in Nat
  PROVE  FormedSeq(i, b, b, LEAOp(i, b).ops)
<1>1. CASE ~HasREX(i.enc) \/ ~MODRM(i.enc) \/ Mod(ModRMOf(i.enc)) # 2 \/ Reg(ModRMOf(i.enc)) = 4
  BY <1>1, FormedEmpty DEF LEAOp, Result
<1>2. CASE ~(~HasREX(i.enc) \/ ~MODRM(i.enc) \/ Mod(ModRMOf(i.enc)) # 2 \/ Reg(ModRMOf(i.enc)) = 4)
  <2> DEFINE s == LEAOp(i, b).ops
  <2>1. s = <<LoadContext(RMOf(i.enc)), Constant(i.imm), BiOp("Add", b+1, b+2),
              StoreContext(b+3, RegOf(i.enc))>>
    BY <1>2 DEF LEAOp, Result
  <2>2. /\ b+1 \in Nat /\ b+2 \in Nat /\ b+3 \in Nat /\ b+4 \in Nat /\ RMOf(i.enc) \in 0..17
        /\ RegOf(i.enc) \in 0..17 /\ i.imm \in Int
    BY Operands DEF Instruction
  <2>3. /\ Formed(i, b, b+1, LoadContext(RMOf(i.enc))) /\ Formed(i, b, b+2, Constant(i.imm))
        /\ Formed(i, b, b+3, BiOp("Add", b+1, b+2))
        /\ Formed(i, b, b+4, StoreContext(b+3, RegOf(i.enc)))
    BY <2>2, FormedLoad, FormedConstant, FormedBiOp, FormedStore DEF BiOps
  <2> HIDE DEF s
  <2>4. s \in Seq(IROp)
    BY <2>1, <2>3 DEF Formed
  <2> QED
    BY <2>1, <2>3, <2>4 DEF FormedSeq, s
<1> QED
  BY <1>1, <1>2

\* JMPOp.
LEMMA JMPFormed ==
  ASSUME NEW i \in Instruction, NEW b \in Nat
  PROVE  FormedSeq(i, b, b, JMPOp(i, b).ops)
<1>1. CASE NotRegister(i.enc)
  BY <1>1, FormedEmpty DEF JMPOp, Result
<1>2. CASE ~NotRegister(i.enc)
  <2> DEFINE s == JMPOp(i, b).ops
  <2>1. s = <<LoadContext(RMOf(i.enc)), StoreContext(b+1, RIP)>>
    BY <1>2 DEF JMPOp, Result
  <2>2. /\ b+1 \in Nat /\ b+2 \in Nat /\ RMOf(i.enc) \in 0..17 /\ RIP \in 0..17
    BY Operands DEF Instruction, RIP
  <2>3. /\ Formed(i, b, b+1, LoadContext(RMOf(i.enc)))
        /\ Formed(i, b, b+2, StoreContext(b+1, RIP))
    BY <2>2, FormedLoad, FormedStore
  <2> HIDE DEF s
  <2>4. s \in Seq(IROp)
    BY <2>1, <2>3 DEF Formed
  <2> QED
    BY <2>1, <2>3, <2>4 DEF FormedSeq, s
<1> QED
  BY <1>1, <1>2

\* RETOp.
LEMMA RETFormed ==
  ASSUME NEW i \in Instruction, NEW b \in Nat
  PROVE  FormedSeq(i, b, b, RETOp(b).ops)
<1> DEFINE s == RETOp(b).ops
<1>1. s = <<LoadContext(RSP), Constant(8), LoadMem(b+1, 8), BiOp("Add", b+1, b+2),
            StoreContext(b+4, RSP), StoreContext(b+3, RIP)>>
  BY DEF RETOp, Result
<1>2. /\ b+1 \in Nat /\ b+2 \in Nat /\ b+3 \in Nat /\ b+4 \in Nat /\ b+5 \in Nat /\ b+6 \in Nat
      /\ RSP \in 0..17 /\ RIP \in 0..17
  BY DEF RSP, RIP
<1>3. /\ Formed(i, b, b+1, LoadContext(RSP)) /\ Formed(i, b, b+2, Constant(8))
      /\ Formed(i, b, b+3, LoadMem(b+1, 8)) /\ Formed(i, b, b+4, BiOp("Add", b+1, b+2))
      /\ Formed(i, b, b+5, StoreContext(b+4, RSP)) /\ Formed(i, b, b+6, StoreContext(b+3, RIP))
  <2>1. Formed(i, b, b+1, LoadContext(RSP)) /\ Formed(i, b, b+2, Constant(8))
    BY <1>2, FormedLoad, FormedConstant
  <2>2. Formed(i, b, b+3, LoadMem(b+1, 8))
    BY <1>2, FormedCut
  <2>3. Formed(i, b, b+4, BiOp("Add", b+1, b+2))
    BY <1>2, FormedBiOp DEF BiOps
  <2>4. Formed(i, b, b+5, StoreContext(b+4, RSP)) /\ Formed(i, b, b+6, StoreContext(b+3, RIP))
    BY <1>2, FormedStore
  <2> QED
    BY <2>1, <2>2, <2>3, <2>4
<1> HIDE DEF s
<1>4. s \in Seq(IROp)
  BY <1>1, <1>3 DEF Formed
<1> QED
  BY <1>1, <1>3, <1>4 DEF FormedSeq, s

\* MovOp.
LEMMA MovFormed ==
  ASSUME NEW i \in Instruction, NEW b \in Nat
  PROVE  FormedSeq(i, b, b, MovOp(i, b).ops)
<1>1. CASE NotRegister(i.enc) \/ OPSIZE(i.enc)
  BY <1>1, FormedEmpty DEF MovOp, Result
<1>2. CASE ~(NotRegister(i.enc) \/ OPSIZE(i.enc))
  <2> DEFINE s == MovOp(i, b).ops
  <2>1. s = <<LoadContext(RegOf(i.enc)), Truncate(b+1, IF HasREX(i.enc) THEN 8 ELSE 4),
              StoreContext(b+2, RMOf(i.enc))>>
    BY <1>2 DEF MovOp, Result
  <2>2. /\ b+1 \in Nat /\ b+2 \in Nat /\ b+3 \in Nat /\ RMOf(i.enc) \in 0..17
        /\ RegOf(i.enc) \in 0..17 /\ (IF HasREX(i.enc) THEN 8 ELSE 4) \in {4, 8}
    BY Operands DEF Instruction
  <2>3. /\ Formed(i, b, b+1, LoadContext(RegOf(i.enc)))
        /\ Formed(i, b, b+2, Truncate(b+1, IF HasREX(i.enc) THEN 8 ELSE 4))
        /\ Formed(i, b, b+3, StoreContext(b+2, RMOf(i.enc)))
    BY <2>2, FormedLoad, FormedCut, FormedStore
  <2> HIDE DEF s
  <2>4. s \in Seq(IROp)
    BY <2>1, <2>3 DEF Formed
  <2> QED
    BY <2>1, <2>3, <2>4 DEF FormedSeq, s
<1> QED
  BY <1>1, <1>2

\* SetCF.
LEMMA SetCFFormed ==
  ASSUME NEW i, NEW b \in Nat, NEW p \in Nat, NEW v \in Nat, b <= p, b < v, v <= p
  PROVE  FormedSeq(i, b, p, SetCF(p, v)) /\ Len(SetCF(p, v)) = 6
<1> DEFINE s == SetCF(p, v)
<1>1. s = <<LoadContext(RFLAGS), Constant(1), BiOp("And", v, p+2), BiOp("Nand", p+1, p+2),
            BiOp("Or", p+3, p+4), StoreContext(p+5, RFLAGS)>>
  BY DEF SetCF
<1>2. /\ p+1 \in Nat /\ p+2 \in Nat /\ p+3 \in Nat /\ p+4 \in Nat /\ p+5 \in Nat /\ p+6 \in Nat
      /\ RFLAGS \in 0..17
  BY DEF RFLAGS
<1>3. /\ Formed(i, b, p+1, LoadContext(RFLAGS)) /\ Formed(i, b, p+2, Constant(1))
      /\ Formed(i, b, p+3, BiOp("And", v, p+2)) /\ Formed(i, b, p+4, BiOp("Nand", p+1, p+2))
      /\ Formed(i, b, p+5, BiOp("Or", p+3, p+4)) /\ Formed(i, b, p+6, StoreContext(p+5, RFLAGS))
  BY <1>2, FormedLoad, FormedConstant, FormedBiOp, FormedStore DEF BiOps
<1> HIDE DEF s
<1>4. s \in Seq(IROp)
  BY <1>1, <1>3 DEF Formed
<1> QED
  BY <1>1, <1>3, <1>4 DEF FormedSeq, s

\* BTOp: five operations, and CF.
BTHead(i, b) ==
  <<LoadContext(RMOf(i.enc)), LoadContext(RegOf(i.enc)), Constant(Bits(4) - 1),
    BiOp("And", b+2, b+3), BiOp("BitExtract", b+1, b+4)>>

LEMMA BTHeadFormed ==
  ASSUME NEW i \in Instruction, NEW b \in Nat
  PROVE  FormedSeq(i, b, b, BTHead(i, b)) /\ Len(BTHead(i, b)) = 5
<1> DEFINE s == BTHead(i, b)
<1>1. s = <<LoadContext(RMOf(i.enc)), LoadContext(RegOf(i.enc)), Constant(Bits(4) - 1),
            BiOp("And", b+2, b+3), BiOp("BitExtract", b+1, b+4)>>
  BY DEF BTHead
<1>2. /\ b+1 \in Nat /\ b+2 \in Nat /\ b+3 \in Nat /\ b+4 \in Nat /\ b+5 \in Nat
      /\ RMOf(i.enc) \in 0..17 /\ RegOf(i.enc) \in 0..17 /\ Bits(4) - 1 \in Int
  BY Operands, Powers DEF Instruction
<1>3. /\ Formed(i, b, b+1, LoadContext(RMOf(i.enc)))
      /\ Formed(i, b, b+2, LoadContext(RegOf(i.enc)))
      /\ Formed(i, b, b+3, Constant(Bits(4) - 1))
      /\ Formed(i, b, b+4, BiOp("And", b+2, b+3))
      /\ Formed(i, b, b+5, BiOp("BitExtract", b+1, b+4))
  BY <1>2, FormedLoad, FormedConstant, FormedBiOp DEF BiOps
<1> HIDE DEF s
<1>4. s \in Seq(IROp)
  BY <1>1, <1>3 DEF Formed
<1> QED
  BY <1>1, <1>3, <1>4 DEF FormedSeq, s

LEMMA BTFormed ==
  ASSUME NEW i \in Instruction, NEW b \in Nat
  PROVE  FormedSeq(i, b, b, BTOp(i, b).ops)
<1>1. CASE NotRegister(i.enc) \/ OPSIZE(i.enc)
  BY <1>1, FormedEmpty DEF BTOp, Result
<1>2. CASE ~(NotRegister(i.enc) \/ OPSIZE(i.enc))
  <2>1. BTOp(i, b).ops = BTHead(i, b) \o SetCF(b+5, b+5)
    BY <1>2 DEF BTOp, BTHead, Result
  <2>2. FormedSeq(i, b, b, BTHead(i, b)) /\ Len(BTHead(i, b)) = 5
    BY BTHeadFormed
  <2>3. FormedSeq(i, b, b+5, SetCF(b+5, b+5))
    BY SetCFFormed, b+5 \in Nat
  <2> QED
    BY <2>1, <2>2, <2>3, FormedConcat
<1> QED
  BY <1>1, <1>2

\* CMPOp: six operations, and ZF.
CMPHead(i, b) ==
  <<LoadContext(RegOf(i.enc)), LoadContext(RMOf(i.enc)), BiOp("Sub", b+2, b+1),
    Constant(1), Constant(0), Op("Select", <<b+1, b+2, b+5, b+4>>, 0)>>

LEMMA CMPHeadFormed ==
  ASSUME NEW i \in Instruction, NEW b \in Nat
  PROVE  FormedSeq(i, b, b, CMPHead(i, b)) /\ Len(CMPHead(i, b)) = 6
<1> DEFINE s == CMPHead(i, b)
<1>1. s = <<LoadContext(RegOf(i.enc)), LoadContext(RMOf(i.enc)), BiOp("Sub", b+2, b+1),
            Constant(1), Constant(0), Op("Select", <<b+1, b+2, b+5, b+4>>, 0)>>
  BY DEF CMPHead
<1>2. /\ b+1 \in Nat /\ b+2 \in Nat /\ b+3 \in Nat /\ b+4 \in Nat /\ b+5 \in Nat
      /\ b+6 \in Nat /\ RMOf(i.enc) \in 0..17 /\ RegOf(i.enc) \in 0..17
  BY Operands DEF Instruction
<1>3. /\ Formed(i, b, b+1, LoadContext(RegOf(i.enc)))
      /\ Formed(i, b, b+2, LoadContext(RMOf(i.enc)))
      /\ Formed(i, b, b+3, BiOp("Sub", b+2, b+1)) /\ Formed(i, b, b+4, Constant(1))
      /\ Formed(i, b, b+5, Constant(0))
      /\ Formed(i, b, b+6, Op("Select", <<b+1, b+2, b+5, b+4>>, 0))
  <2>1. /\ Formed(i, b, b+1, LoadContext(RegOf(i.enc)))
        /\ Formed(i, b, b+2, LoadContext(RMOf(i.enc)))
    BY <1>2, FormedLoad
  <2>2. Formed(i, b, b+3, BiOp("Sub", b+2, b+1))
    BY <1>2, FormedBiOp DEF BiOps
  <2>3. Formed(i, b, b+4, Constant(1)) /\ Formed(i, b, b+5, Constant(0))
    BY FormedConstant
  <2>4. Formed(i, b, b+6, Op("Select", <<b+1, b+2, b+5, b+4>>, 0))
    BY <1>2, FormedSelect
  <2> QED
    BY <2>1, <2>2, <2>3, <2>4
<1> HIDE DEF s
<1>4. s \in Seq(IROp)
  BY <1>1, <1>3 DEF Formed
<1> QED
  BY <1>1, <1>3, <1>4 DEF FormedSeq, s

LEMMA CMPFormed ==
  ASSUME NEW i \in Instruction, NEW b \in Nat, NEW JITRIP
  PROVE  FormedSeq(i, b, b, CMPOp(i, b, JITRIP).ops)
<1>1. CASE NotRegister(i.enc) \/ JITRIP # CMPAddress
  BY <1>1, FormedEmpty DEF CMPOp, Result
<1>2. CASE ~(NotRegister(i.enc) \/ JITRIP # CMPAddress)
  <2>1. CMPOp(i, b, JITRIP).ops = CMPHead(i, b) \o SetFlag(b+6, b+6, 6)
    BY <1>2 DEF CMPOp, CMPHead, Result
  <2>2. FormedSeq(i, b, b, CMPHead(i, b)) /\ Len(CMPHead(i, b)) = 6
    BY CMPHeadFormed
  <2>3. FormedSeq(i, b, b+6, SetFlag(b+6, b+6, 6))
    BY SetFlagFormed, b+6 \in Nat
  <2> QED
    BY <2>1, <2>2, <2>3, FormedConcat
<1> QED
  BY <1>1, <1>2

\* AddImmModRMOp: six operations, SF, three operations, and ZF.
SignBit(i) == (Bits(IF HasREX(i.enc) THEN 8 ELSE OpSize(i.enc)) \div 2) - 1
AddImmHead(i, b) ==
  <<LoadContext(RMOf(i.enc)), Constant(i.imm), BiOp("Add", b+1, b+2),
    StoreContext(b+3, RMOf(i.enc)), Constant(SignBit(i)), BiOp("Shr", b+1, b+5)>>
AddImmMid(b) == <<Constant(1), Constant(0), Op("Select", <<b+3, b+16, b+17, b+16>>, 0)>>

LEMMA AddImmHeadFormed ==
  ASSUME NEW i \in Instruction, NEW b \in Nat
  PROVE  FormedSeq(i, b, b, AddImmHead(i, b)) /\ Len(AddImmHead(i, b)) = 6
<1> DEFINE s == AddImmHead(i, b)
<1>1. s = <<LoadContext(RMOf(i.enc)), Constant(i.imm), BiOp("Add", b+1, b+2),
            StoreContext(b+3, RMOf(i.enc)), Constant(SignBit(i)),
            BiOp("Shr", b+1, b+5)>>
  BY DEF AddImmHead
<1>2. /\ b+1 \in Nat /\ b+2 \in Nat /\ b+3 \in Nat /\ b+4 \in Nat /\ b+5 \in Nat
      /\ b+6 \in Nat /\ RMOf(i.enc) \in 0..17 /\ i.imm \in Int
      /\ SignBit(i) \in Int
  BY Operands, ByteBitsAssumption DEF Instruction, Bits, SignBit
<1>3. /\ Formed(i, b, b+1, LoadContext(RMOf(i.enc))) /\ Formed(i, b, b+2, Constant(i.imm))
      /\ Formed(i, b, b+3, BiOp("Add", b+1, b+2))
      /\ Formed(i, b, b+4, StoreContext(b+3, RMOf(i.enc)))
      /\ Formed(i, b, b+5, Constant(SignBit(i)))
      /\ Formed(i, b, b+6, BiOp("Shr", b+1, b+5))
  BY <1>2, FormedLoad, FormedConstant, FormedBiOp, FormedStore DEF BiOps
<1> HIDE DEF s
<1>4. s \in Seq(IROp)
  BY <1>1, <1>3 DEF Formed
<1> QED
  BY <1>1, <1>3, <1>4 DEF FormedSeq, s

LEMMA AddImmMidFormed ==
  ASSUME NEW i \in Instruction, NEW b \in Nat
  PROVE  FormedSeq(i, b, b+15, AddImmMid(b)) /\ Len(AddImmMid(b)) = 3
<1> DEFINE s == AddImmMid(b)
<1>1. s = <<Constant(1), Constant(0), Op("Select", <<b+3, b+16, b+17, b+16>>, 0)>>
  BY DEF AddImmMid
<1>2. /\ b+3 \in Nat /\ b+15 \in Nat /\ b+16 \in Nat /\ b+17 \in Nat /\ b+18 \in Nat
      /\ (b+15)+1 = b+16 /\ (b+15)+2 = b+17 /\ (b+15)+3 = b+18
  OBVIOUS
<1>3. /\ Formed(i, b, b+16, Constant(1)) /\ Formed(i, b, b+17, Constant(0))
      /\ Formed(i, b, b+18, Op("Select", <<b+3, b+16, b+17, b+16>>, 0))
  BY <1>2, FormedConstant, FormedSelect
<1> HIDE DEF s
<1>4. s \in Seq(IROp)
  BY <1>1, <1>3 DEF Formed
<1> QED
  BY <1>1, <1>2, <1>3, <1>4 DEF FormedSeq, s

LEMMA AddImmModRMFormed ==
  ASSUME NEW i \in Instruction, NEW b \in Nat
  PROVE  FormedSeq(i, b, b, AddImmModRMOp(i, b).ops)
<1>1. CASE NotRegister(i.enc)
  BY <1>1, FormedEmpty DEF AddImmModRMOp, Result
<1>2. CASE ~NotRegister(i.enc)
  <2> DEFINE head == AddImmHead(i, b)
             mid == AddImmMid(b)
             sf == SetFlag(b+6, b+6, 7)
             zf == SetFlag(b+18, b+18, 6)
  <2>1. AddImmModRMOp(i, b).ops = ((head \o sf) \o mid) \o zf
    BY <1>2 DEF AddImmModRMOp, AddImmHead, AddImmMid, SignBit, Result
  <2>2. FormedSeq(i, b, b, head) /\ Len(head) = 6
    BY AddImmHeadFormed
  <2>3. FormedSeq(i, b, b+6, sf) /\ Len(sf) = 9
    BY SetFlagFormed, b+6 \in Nat
  <2>4. FormedSeq(i, b, b+15, mid) /\ Len(mid) = 3
    BY AddImmMidFormed
  <2>5. FormedSeq(i, b, b+18, zf)
    BY SetFlagFormed, b+18 \in Nat
  <2> HIDE DEF head, sf, mid, zf
  <2>6. FormedSeq(i, b, b, head \o sf) /\ Len(head \o sf) = 15
    <3>1. head \in Seq(IROp) /\ sf \in Seq(IROp)
      BY <2>2, <2>3 DEF FormedSeq
    <3> QED
      <4>1. Len(head \o sf) = 15
        <5>1. Len(head \o sf) = Len(head) + Len(sf)
          BY <3>1, ConcatAt
        <5> QED
          BY <2>2, <2>3, <5>1
      <4>2. FormedSeq(i, b, b + Len(head), sf)
        BY <2>2, <2>3
      <4> QED
        BY <2>2, <4>1, <4>2, FormedConcat
  <2> DEFINE hs == head \o sf
  <2>7. FormedSeq(i, b, b, hs) /\ Len(hs) = 15
    BY <2>6
  <2> HIDE DEF hs
  <2>8. FormedSeq(i, b, b, hs \o mid) /\ Len(hs \o mid) = 18
    <3>1. hs \in Seq(IROp) /\ mid \in Seq(IROp)
      BY <2>4, <2>7 DEF FormedSeq
    <3> QED
      <4>1. Len(hs \o mid) = 18
        <5>1. Len(hs \o mid) = Len(hs) + Len(mid)
          BY <3>1, ConcatAt
        <5> QED
          BY <2>4, <2>7, <5>1
      <4>2. FormedSeq(i, b, b + Len(hs), mid)
        BY <2>4, <2>7
      <4> QED
        BY <2>7, <4>1, <4>2, FormedConcat
  <2> QED
    BY <2>1, <2>5, <2>8, FormedConcat DEF hs
<1> QED
  BY <1>1, <1>2

\* AddOp: the source operand, which is at c, and the sum.
AddSum(c, dest, size) ==
  <<LoadContext(dest), Truncate(c+1, size), Truncate(c, size),
    BiOp("Add", c+2, c+3), Truncate(c+4, size), StoreContext(c+5, dest)>>
FromRegister(i) == <<LoadContext(RegOf(i.enc))>>
FromMemory(i, b) == <<LoadContext(RMOf(i.enc)), LoadMem(b+1, OpSize(i.enc))>>
FromSum(i, b) == <<LoadContext(RMOf(i.enc)), Constant(i.imm), BiOp("Add", b+1, b+2)>>

LEMMA AddSumFormed ==
  ASSUME NEW i, NEW b \in Nat, NEW c \in Nat, b < c, NEW dest \in 0..17,
         NEW size \in {2, 4, 8}, size = 2 => OPSIZE(i.enc)
  PROVE  FormedSeq(i, b, c, AddSum(c, dest, size))
<1> DEFINE s == AddSum(c, dest, size)
<1>1. s = <<LoadContext(dest), Truncate(c+1, size), Truncate(c, size), BiOp("Add", c+2, c+3),
            Truncate(c+4, size), StoreContext(c+5, dest)>>
  BY DEF AddSum
<1>2. /\ c+1 \in Nat /\ c+2 \in Nat /\ c+3 \in Nat /\ c+4 \in Nat /\ c+5 \in Nat /\ c+6 \in Nat
      /\ size \in {2, 4, 8}
  OBVIOUS
<1>a. /\ Formed(i, b, c+2, Truncate(c+1, size)) /\ Formed(i, b, c+3, Truncate(c, size))
      /\ Formed(i, b, c+5, Truncate(c+4, size))
  BY <1>2, FormedCut
<1>3. /\ Formed(i, b, c+1, LoadContext(dest)) /\ Formed(i, b, c+2, Truncate(c+1, size))
      /\ Formed(i, b, c+3, Truncate(c, size)) /\ Formed(i, b, c+4, BiOp("Add", c+2, c+3))
      /\ Formed(i, b, c+5, Truncate(c+4, size)) /\ Formed(i, b, c+6, StoreContext(c+5, dest))
  BY <1>2, <1>a, FormedLoad, FormedBiOp, FormedStore DEF BiOps
<1> HIDE DEF s
<1>4. s \in Seq(IROp)
  BY <1>1, <1>3 DEF Formed
<1> QED
  BY <1>1, <1>3, <1>4 DEF FormedSeq, s

LEMMA AddSources ==
  ASSUME NEW i \in Instruction, NEW b \in Nat
  PROVE  /\ FormedSeq(i, b, b, FromRegister(i)) /\ Len(FromRegister(i)) = 1
         /\ FormedSeq(i, b, b, FromMemory(i, b)) /\ Len(FromMemory(i, b)) = 2
         /\ FormedSeq(i, b, b, FromSum(i, b)) /\ Len(FromSum(i, b)) = 3
         /\ \A j \in 1..1 : FromRegister(i)[j].op \in ValueOps
         /\ \A j \in 1..2 : FromMemory(i, b)[j].op \in ValueOps
         /\ \A j \in 1..3 : FromSum(i, b)[j].op \in ValueOps
<1>1. FormedSeq(i, b, b, FromRegister(i)) /\ Len(FromRegister(i)) = 1
  <2> DEFINE s == FromRegister(i)
  <2>1. s = <<LoadContext(RegOf(i.enc))>>
    BY DEF FromRegister
  <2>2. /\ b+1 \in Nat /\ RegOf(i.enc) \in 0..17
    BY Operands DEF Instruction
  <2>3. /\ Formed(i, b, b+1, LoadContext(RegOf(i.enc)))
    BY <2>2, FormedLoad
  <2> HIDE DEF s
  <2>4. s \in Seq(IROp)
    BY <2>1, <2>3 DEF Formed
  <2> QED
    BY <2>1, <2>3, <2>4 DEF FormedSeq, s
<1>2. FormedSeq(i, b, b, FromMemory(i, b)) /\ Len(FromMemory(i, b)) = 2
  <2> DEFINE s == FromMemory(i, b)
  <2>1. s = <<LoadContext(RMOf(i.enc)), LoadMem(b+1, OpSize(i.enc))>>
    BY DEF FromMemory
  <2>2. /\ b+1 \in Nat /\ b+2 \in Nat /\ RMOf(i.enc) \in 0..17 /\ OpSize(i.enc) \in {2, 4, 8}
        /\ (OpSize(i.enc) = 2 => OPSIZE(i.enc))
    BY Operands DEF Instruction
  <2>3. /\ Formed(i, b, b+1, LoadContext(RMOf(i.enc)))
        /\ Formed(i, b, b+2, LoadMem(b+1, OpSize(i.enc)))
    BY <2>2, FormedLoad, FormedCut
  <2> HIDE DEF s
  <2>4. s \in Seq(IROp)
    BY <2>1, <2>3 DEF Formed
  <2> QED
    BY <2>1, <2>3, <2>4 DEF FormedSeq, s
<1>3. FormedSeq(i, b, b, FromSum(i, b)) /\ Len(FromSum(i, b)) = 3
  <2> DEFINE s == FromSum(i, b)
  <2>1. s = <<LoadContext(RMOf(i.enc)), Constant(i.imm), BiOp("Add", b+1, b+2)>>
    BY DEF FromSum
  <2>2. /\ b+1 \in Nat /\ b+2 \in Nat /\ b+3 \in Nat /\ RMOf(i.enc) \in 0..17 /\ i.imm \in Int
    BY Operands DEF Instruction
  <2>3. /\ Formed(i, b, b+1, LoadContext(RMOf(i.enc))) /\ Formed(i, b, b+2, Constant(i.imm))
        /\ Formed(i, b, b+3, BiOp("Add", b+1, b+2))
    BY <2>2, FormedLoad, FormedConstant, FormedBiOp DEF BiOps
  <2> HIDE DEF s
  <2>4. s \in Seq(IROp)
    BY <2>1, <2>3 DEF Formed
  <2> QED
    BY <2>1, <2>3, <2>4 DEF FormedSeq, s
<1>4. /\ \A j \in 1..1 : FromRegister(i)[j].op \in ValueOps
      /\ \A j \in 1..2 : FromMemory(i, b)[j].op \in ValueOps
      /\ \A j \in 1..3 : FromSum(i, b)[j].op \in ValueOps
  BY DEF FromRegister, FromMemory, FromSum, LoadContext, LoadMem, Constant, BiOp, Op, ValueOps
<1> QED
  BY <1>1, <1>2, <1>3, <1>4

\* The ways through AddOp.
LEMMA AddCases ==
  ASSUME NEW i \in Instruction, NEW b \in Nat
  PROVE  LET e == i.enc
             ok == MODRM(e) /\ ~SIB(e)
         IN  \/ /\ AddOp(i, b).fail = TRUE
                /\ AddOp(i, b).ops \in {<<>>, FromRegister(i), FromMemory(i, b), FromSum(i, b)}
             \/ /\ ok /\ Mod(ModRMOf(e)) = 3
                /\ AddOp(i, b) = Result(FALSE, FromRegister(i) \o AddSum(b+1, RMOf(e), OpSize(e)))
             \/ /\ ok /\ Mod(ModRMOf(e)) = 0
                /\ AddOp(i, b) = Result(FALSE, FromMemory(i, b) \o AddSum(b+2, RegOf(e), OpSize(e)))
<1> DEFINE e == i.enc
           mod == Mod(ModRMOf(e))
           ToReg == mod # 3 /\ Reg(ModRMOf(e)) # 4
           dest == IF mod = 3 THEN RMOf(e) ELSE RegOf(e)
           src == CASE ToReg /\ mod = 0 -> FromMemory(i, b)
                    [] ToReg /\ mod = 2 -> FromSum(i, b)
                    [] mod = 3 -> FromRegister(i)
                    [] OTHER -> <<>>
           failed == ~MODRM(e) \/ SIB(e) \/ mod \in {1, 2} \/ (mod = 0 /\ ~ToReg)
<1>1. AddOp(i, b) = IF failed THEN Result(TRUE, src)
                    ELSE Result(FALSE, src \o AddSum(b + Len(src), dest, OpSize(e)))
  BY DEF AddOp, FromMemory, FromSum, FromRegister, AddSum
<1>2. mod \in 0..3
  BY Operands DEF Instruction
<1>3. src \in {<<>>, FromRegister(i), FromMemory(i, b), FromSum(i, b)}
  OBVIOUS
<1>4. mod = 3 => src = FromRegister(i) /\ dest = RMOf(e)
  OBVIOUS
<1>5. mod = 0 /\ ToReg => src = FromMemory(i, b) /\ dest = RegOf(e)
  OBVIOUS
<1> HIDE DEF src, dest
<1>6. CASE failed
  BY <1>1, <1>3, <1>6 DEF Result
<1>7. CASE ~failed /\ mod = 3
  BY <1>1, <1>4, <1>7, AddSources
<1>8. CASE ~failed /\ mod = 0
  BY <1>1, <1>5, <1>8, AddSources
<1>9. failed \/ (~failed /\ mod = 3) \/ (~failed /\ mod = 0)
  BY <1>2
<1> QED
  BY <1>6, <1>7, <1>8, <1>9

LEMMA AddFormed ==
  ASSUME NEW i \in Instruction, NEW b \in Nat
  PROVE  /\ AddOp(i, b).fail \in BOOLEAN
         /\ FormedSeq(i, b, b, AddOp(i, b).ops)
         /\ AddOp(i, b).fail =>
              \A j \in 1..Len(AddOp(i, b).ops) : AddOp(i, b).ops[j].op \in ValueOps
<1>1. /\ RMOf(i.enc) \in 0..17 /\ RegOf(i.enc) \in 0..17
      /\ OpSize(i.enc) \in {2, 4, 8} /\ (OpSize(i.enc) = 2 => OPSIZE(i.enc))
      /\ b+1 \in Nat /\ b+2 \in Nat
  BY Operands DEF Instruction
<1>2. CASE /\ AddOp(i, b).fail = TRUE
           /\ AddOp(i, b).ops \in {<<>>, FromRegister(i), FromMemory(i, b), FromSum(i, b)}
  <2>1. CASE AddOp(i, b).ops = <<>>
    <3>1. Len(AddOp(i, b).ops) = 0 /\ 1..0 = {}
      BY <2>1
    <3>2. FormedSeq(i, b, b, AddOp(i, b).ops)
      BY <2>1, FormedEmpty
    <3> QED
      BY <1>2, <3>1, <3>2
  <2>2. CASE AddOp(i, b).ops = FromRegister(i)
    BY <1>2, <2>2, AddSources
  <2>3. CASE AddOp(i, b).ops = FromMemory(i, b)
    BY <1>2, <2>3, AddSources
  <2>4. CASE AddOp(i, b).ops = FromSum(i, b)
    BY <1>2, <2>4, AddSources
  <2> QED
    BY <1>2, <2>1, <2>2, <2>3, <2>4
<1>3. CASE AddOp(i, b) = Result(FALSE, FromRegister(i) \o AddSum(b+1, RMOf(i.enc), OpSize(i.enc)))
  <2>1. FormedSeq(i, b, b + Len(FromRegister(i)), AddSum(b+1, RMOf(i.enc), OpSize(i.enc)))
    <3>1. FormedSeq(i, b, b+1, AddSum(b+1, RMOf(i.enc), OpSize(i.enc)))
      BY <1>1, b < b+1, AddSumFormed
    <3> QED
      BY <3>1, AddSources
  <2>2. FormedSeq(i, b, b, FromRegister(i) \o AddSum(b+1, RMOf(i.enc), OpSize(i.enc)))
    BY <2>1, AddSources, FormedConcat
  <2> QED
    BY <1>3, <2>2 DEF Result
<1>4. CASE AddOp(i, b) = Result(FALSE, FromMemory(i, b) \o AddSum(b+2, RegOf(i.enc), OpSize(i.enc)))
  <2>1. FormedSeq(i, b, b + Len(FromMemory(i, b)), AddSum(b+2, RegOf(i.enc), OpSize(i.enc)))
    <3>1. FormedSeq(i, b, b+2, AddSum(b+2, RegOf(i.enc), OpSize(i.enc)))
      BY <1>1, b < b+2, AddSumFormed
    <3> QED
      BY <3>1, AddSources
  <2>2. FormedSeq(i, b, b, FromMemory(i, b) \o AddSum(b+2, RegOf(i.enc), OpSize(i.enc)))
    BY <2>1, AddSources, FormedConcat
  <2> QED
    BY <1>4, <2>2 DEF Result
<1> QED
  BY <1>2, <1>3, <1>4, AddCases

\* JccOp: the flag, and the jump.
FlagValue(b, bit) ==
  <<LoadContext(RFLAGS), Constant(1), Constant(2^bit), Constant(bit),
    BiOp("And", b+1, b+3), BiOp("Shr", b+5, b+4)>>
JumpCode(c, target) ==
  <<Op("CondJump", <<c, c+6>>, target), Constant(target), StoreContext(c+2, RIP),
    StoreContext(c+2, RIP), EndBlock(0), Op("JumpTarget", <<>>, 0)>>

LEMMA FlagValueFormed ==
  ASSUME NEW i, NEW b \in Nat, NEW bit \in {0, 2, 6, 7, 11}
  PROVE  FormedSeq(i, b, b, FlagValue(b, bit)) /\ Len(FlagValue(b, bit)) = 6
<1> DEFINE s == FlagValue(b, bit)
<1>1. s = <<LoadContext(RFLAGS), Constant(1), Constant(2^bit), Constant(bit),
            BiOp("And", b+1, b+3), BiOp("Shr", b+5, b+4)>>
  BY DEF FlagValue
<1>2. /\ b+1 \in Nat /\ b+2 \in Nat /\ b+3 \in Nat /\ b+4 \in Nat /\ b+5 \in Nat /\ b+6 \in Nat
      /\ RFLAGS \in 0..17 /\ bit \in Int /\ 2^bit \in Int
  BY 2^0 = 1, 2^2 = 4, 2^6 = 64, 2^7 = 128, 2^11 = 2048 DEF RFLAGS
<1>3. /\ Formed(i, b, b+1, LoadContext(RFLAGS)) /\ Formed(i, b, b+2, Constant(1))
      /\ Formed(i, b, b+3, Constant(2^bit)) /\ Formed(i, b, b+4, Constant(bit))
      /\ Formed(i, b, b+5, BiOp("And", b+1, b+3)) /\ Formed(i, b, b+6, BiOp("Shr", b+5, b+4))
  BY <1>2, FormedLoad, FormedConstant, FormedBiOp DEF BiOps
<1> HIDE DEF s
<1>4. s \in Seq(IROp)
  BY <1>1, <1>3 DEF Formed
<1> QED
  BY <1>1, <1>3, <1>4 DEF FormedSeq, s

LEMMA JumpCodeFormed ==
  ASSUME NEW i, Jump(i), NEW b \in Nat, NEW c \in Nat, b < c, NEW target \in Int
  PROVE  FormedSeq(i, b, c, JumpCode(c, target)) /\ Len(JumpCode(c, target)) = 6
<1> DEFINE s == JumpCode(c, target)
<1>1. s = <<Op("CondJump", <<c, c+6>>, target), Constant(target), StoreContext(c+2, RIP),
            StoreContext(c+2, RIP), EndBlock(0), Op("JumpTarget", <<>>, 0)>>
  BY DEF JumpCode
<1>2. /\ c+1 \in Nat /\ c+2 \in Nat /\ c+3 \in Nat /\ c+4 \in Nat /\ c+5 \in Nat /\ c+6 \in Nat
      /\ RIP \in 0..17
  BY DEF RIP
<1>3. /\ Formed(i, b, c+1, Op("CondJump", <<c, c+6>>, target)) /\ Formed(i, b, c+5, EndBlock(0))
      /\ Formed(i, b, c+6, Op("JumpTarget", <<>>, 0))
  BY <1>2 DEF Formed, EndBlock, Op, IROp, OpNames, ValueOps, JumpOps, BiOps, Arity
<1>4. /\ Formed(i, b, c+2, Constant(target))
      /\ Formed(i, b, c+3, StoreContext(c+2, RIP)) /\ Formed(i, b, c+4, StoreContext(c+2, RIP))
  BY <1>2, FormedConstant, FormedStore
<1> HIDE DEF s
<1>5. s \in Seq(IROp)
  BY <1>1, <1>3, <1>4 DEF Formed
<1> QED
  BY <1>1, <1>3, <1>4, <1>5 DEF FormedSeq, s

\* The target of a jump, and the two forms of a conditional jump.
Target(i, JITRIP) == Wrap(JITRIP + i.imm + SizeOf(i.enc), 8)

LEMMA FlagBitIs ==
  ASSUME NEW i, Jump(i), Handled(JumpType(i.enc))
  PROVE  FlagBit(JumpType(i.enc)) \in {0, 2, 6, 7, 11}
<1>1. JumpType(i.enc) \in 0..15
  BY DEF Jump, JumpType
<1> QED
  BY <1>1 DEF Handled, FlagBit

LEMMA JccCases ==
  ASSUME NEW i \in Instruction, Jump(i), NEW b \in Nat, NEW JITRIP \in Int, NEW start
  PROVE  LET bit == FlagBit(JumpType(i.enc))
             flip == <<BiOp("Xor", b+7, b+2)>>
         IN  \/ JccOp(i, b, JITRIP, start) = Result(TRUE, <<>>)
             \/ /\ Handled(JumpType(i.enc)) /\ start = JccBlock
                /\ \/ /\ Negate(JumpType(i.enc))
                      /\ JccOp(i, b, JITRIP, start) =
                           Result(FALSE, FlagValue(b, bit) \o JumpCode(b+6, Target(i, JITRIP)))
                   \/ /\ ~Negate(JumpType(i.enc))
                      /\ JccOp(i, b, JITRIP, start) =
                           Result(FALSE, (FlagValue(b, bit) \o flip) \o JumpCode(b+7, Target(i, JITRIP)))
<1> DEFINE bit == FlagBit(JumpType(i.enc))
           flip == <<BiOp("Xor", b+7, b+2)>>
           flag == GetFlagBit(b, bit, ~Negate(JumpType(i.enc)))
           failed == SIB(i.enc) \/ ~Handled(JumpType(i.enc)) \/ start # JccBlock
<1>1. JccOp(i, b, JITRIP, start) = IF failed THEN Result(TRUE, <<>>)
        ELSE Result(FALSE, flag \o JumpCode(b + Len(flag), Target(i, JITRIP)))
  BY DEF JccOp, JumpCode, Target
<1>2. CASE failed
  BY <1>1, <1>2
<1>3. CASE ~failed /\ Negate(JumpType(i.enc))
  <2>1. FlagValue(b, bit) \in Seq(IROp) /\ Len(FlagValue(b, bit)) = 6
    BY <1>3, FlagBitIs, FlagValueFormed DEF FormedSeq
  <2>2. flag = FlagValue(b, bit) \o <<>>
    BY <1>3 DEF GetFlagBit, FlagValue
  <2>3. flag = FlagValue(b, bit)
    BY <2>1, <2>2, ConcatEmptySeq
  <2> HIDE DEF flag
  <2> QED
    BY <1>1, <1>3, <2>1, <2>3
<1>4. CASE ~failed /\ ~Negate(JumpType(i.enc))
  <2>1. FlagValue(b, bit) \in Seq(IROp) /\ Len(FlagValue(b, bit)) = 6
    BY <1>4, FlagBitIs, FlagValueFormed DEF FormedSeq
  <2>2. flag = FlagValue(b, bit) \o flip
    BY <1>4 DEF GetFlagBit, FlagValue
  <2>3. flip \in Seq(IROp) /\ Len(flip) = 1
    BY DEF BiOp, Op, IROp, OpNames, ValueOps
  <2> HIDE DEF flag, flip
  <2>4. Len(flag) = 7
    <3>1. Len(flag) = Len(FlagValue(b, bit)) + Len(flip)
      BY <2>1, <2>2, <2>3, ConcatAt
    <3> QED
      BY <2>1, <2>3, <3>1
  <2>5. b + Len(flag) = b + 7
    BY <2>4
  <2> QED
    BY <1>1, <1>4, <2>2, <2>5 DEF flip
<1> QED
  BY <1>2, <1>3, <1>4

LEMMA JccFormed ==
  ASSUME NEW i \in Instruction, Valid(i), Jump(i), NEW b \in Nat, NEW JITRIP \in Int, NEW start
  PROVE  /\ JccOp(i, b, JITRIP, start).fail \in BOOLEAN
         /\ FormedSeq(i, b, b, JccOp(i, b, JITRIP, start).ops)
         /\ JccOp(i, b, JITRIP, start).fail => JccOp(i, b, JITRIP, start).ops = <<>>
<1> DEFINE bit == FlagBit(JumpType(i.enc))
           flip == <<BiOp("Xor", b+7, b+2)>>
           target == Target(i, JITRIP)
<1>1. CASE JccOp(i, b, JITRIP, start) = Result(TRUE, <<>>)
  BY <1>1, FormedEmpty DEF Result
<1>2. target \in Int /\ b+6 \in Nat /\ b+7 \in Nat /\ b < b+6 /\ b < b+7
  <2>1. JITRIP + i.imm + SizeOf(i.enc) \in Int
    BY SizePositive DEF Instruction
  <2> QED
    BY <2>1, WrapWord DEF Target, Word
<1> HIDE DEF target
<1>3. CASE /\ Handled(JumpType(i.enc))
           /\ JccOp(i, b, JITRIP, start) = Result(FALSE, FlagValue(b, bit) \o JumpCode(b+6, target))
  <2>1. FormedSeq(i, b, b, FlagValue(b, bit)) /\ Len(FlagValue(b, bit)) = 6
    BY <1>3, FlagBitIs, FlagValueFormed
  <2>2. FormedSeq(i, b, b + Len(FlagValue(b, bit)), JumpCode(b+6, target))
    BY <1>2, <2>1, JumpCodeFormed
  <2>3. FormedSeq(i, b, b, FlagValue(b, bit) \o JumpCode(b+6, target))
    BY <2>1, <2>2, FormedConcat
  <2> QED
    BY <1>3, <2>3 DEF Result
<1>4. CASE /\ Handled(JumpType(i.enc)) /\ ~Negate(JumpType(i.enc))
           /\ JccOp(i, b, JITRIP, start) =
                Result(FALSE, (FlagValue(b, bit) \o flip) \o JumpCode(b+7, target))
  <2>1. FormedSeq(i, b, b, FlagValue(b, bit)) /\ Len(FlagValue(b, bit)) = 6
    BY <1>4, FlagBitIs, FlagValueFormed
  <2>2. FormedSeq(i, b, b+6, flip) /\ Len(flip) = 1
    <3>1. Formed(i, b, b+7, BiOp("Xor", b+7, b+2))
      BY <1>2, <1>4 DEF Formed, BiOp, Op, IROp, OpNames, ValueOps, JumpOps, BiOps, Arity
    <3>2. flip \in Seq(IROp)
      BY <3>1 DEF Formed
    <3>3. (b+6)+1 = b+7
      OBVIOUS
    <3> QED
      BY <3>1, <3>2, <3>3 DEF FormedSeq
  <2> HIDE DEF flip
  <2> DEFINE flag == FlagValue(b, bit) \o flip
  <2>3. FormedSeq(i, b, b, flag)
    BY <2>1, <2>2, FormedConcat
  <2>4. Len(flag) = 7
    <3>1. FlagValue(b, bit) \in Seq(IROp) /\ flip \in Seq(IROp)
      BY <2>1, <2>2 DEF FormedSeq
    <3>2. Len(flag) = Len(FlagValue(b, bit)) + Len(flip)
      BY <3>1, ConcatAt
    <3> QED
      BY <2>1, <2>2, <3>2
  <2> HIDE DEF flag
  <2>5. FormedSeq(i, b, b+7, JumpCode(b+7, target))
    BY <1>2, JumpCodeFormed
  <2>6. FormedSeq(i, b, b, flag \o JumpCode(b+7, target))
    BY <2>3, <2>4, <2>5, FormedConcat
  <2> QED
    BY <1>4, <2>6 DEF Result, flag
<1> QED
  BY <1>1, <1>3, <1>4, JccCases DEF target

\* SyscallOp.
LEMMA SyscallFormed ==
  ASSUME NEW i, NEW b \in Nat
  PROVE  FormedSeq(i, b, b, SyscallOp(b).ops)
<1> DEFINE loads == [l \in 1..7 |-> LoadContext(GPRIndexes[l])]
           call == Op("Syscall", [l \in 1..7 |-> b + l], 0)
           rest == <<call, StoreContext(b+8, 0)>>
<1>1. SyscallOp(b).ops = loads \o rest
  BY DEF SyscallOp, Result
<1>2. \A l \in 1..7 : GPRIndexes[l] \in 0..17
  BY DEF GPRIndexes
<1>3. \A l \in 1..7 : Formed(i, b, b + l, loads[l])
  BY <1>2, FormedLoad
<1>4. loads \in Seq(IROp) /\ Len(loads) = 7
  <2>1. loads \in [1..7 -> IROp]
    BY <1>3 DEF Formed
  <2> HIDE DEF loads
  <2>2. loads \in Seq(IROp)
    BY <2>1, SeqDef
  <2> QED
    BY <2>1, <2>2, LenProperties
<1>5. FormedSeq(i, b, b, loads)
  BY <1>3, <1>4 DEF FormedSeq
<1>6. Formed(i, b, b+8, call)
  <2> DEFINE args == [l \in 1..7 |-> b + l]
  <2>1. args \in [1..7 -> Nat]
    OBVIOUS
  <2>2. \A a \in 1..7 : args[a] = b + a
    OBVIOUS
  <2> HIDE DEF args
  <2>3. args \in Seq(Nat) /\ Len(args) = 7
    <3>1. args \in Seq(Nat)
      BY <2>1, SeqDef
    <3> QED
      BY <2>1, <3>1, LenProperties
  <2> DEFINE o == Op("Syscall", args, 0)
  <2>4. o.op = "Syscall" /\ o.args = args /\ o.k = 0 /\ o \in IROp
    BY <2>3 DEF Op, IROp, OpNames, ValueOps
  <2>5. Arity(o.op) = 7 /\ o.op \in ValueOps
    BY <2>4 DEF Arity, BiOps, ValueOps
  <2>6. \A a \in 1..7 : o.args[a] \in Nat /\ b < o.args[a] /\ o.args[a] < b+8
    BY <2>2, <2>4
  <2> HIDE DEF o
  <2>7. Formed(i, b, b+8, o)
    <3>1. Len(o.args) >= Arity(o.op)
      <4>1. Len(o.args) = 7
        BY <2>3, <2>4
      <4> QED
        BY <2>5, <4>1
    <3>2. \A a \in 1..Arity(o.op) : o.args[a] \in Nat /\ b < o.args[a] /\ o.args[a] < b+8
      BY <2>5, <2>6
    <3>3. o.op \notin {"StoreContext", "LoadContext", "Trunc", "LoadMem"} /\ o.op # "Xor"
      BY <2>4
    <3> QED
      BY <2>4, <2>5, <3>1, <3>2, <3>3 DEF Formed
  <2> QED
    BY <2>7 DEF args, o
<1>7. Formed(i, b, b+9, StoreContext(b+8, 0))
  BY FormedStore, b+8 \in Nat, b+9 \in Nat, b < b+8, b+8 < b+9
<1>8. FormedSeq(i, b, b+7, rest)
  <2> HIDE DEF call
  <2>1. rest \in Seq(IROp)
    BY <1>6, <1>7 DEF Formed
  <2>2. (b+7)+1 = b+8 /\ (b+7)+2 = b+9
    OBVIOUS
  <2> QED
    BY <1>6, <1>7, <2>1, <2>2 DEF FormedSeq
<1> HIDE DEF loads, rest
<1> QED
  BY <1>1, <1>4, <1>5, <1>8, FormedConcat

\* The handler of each opcode.
LEMMA HandlerCases ==
  ASSUME NEW i, Valid(i), NEW b, NEW JITRIP, NEW start
  PROVE  LET h == Handler(i, b, JITRIP, start)
             op == i.enc.op
         IN  \/ /\ i.enc.map = "two"
                /\ \/ op = \h05 /\ h = SyscallOp(b)
                   \/ op = \h1F /\ h = NoOp
                   \/ op = \hA3 /\ h = BTOp(i, b)
             \/ /\ i.enc.map = "base"
                /\ \/ op \in {\h01, \h03} /\ h = AddOp(i, b)
                   \/ op = \h05 /\ h = AddImmOp(i, b)
                   \/ op = \h31 /\ h = XorOp(i, b)
                   \/ op = \h39 /\ h = CMPOp(i, b, JITRIP)
                   \/ op \in \h70..\h7F /\ h = JccOp(i, b, JITRIP, start)
                   \/ op = \h83 /\ h = AddImmModRMOp(i, b)
                   \/ op = \h89 /\ h = MovOp(i, b)
                   \/ op = \h8D /\ h = LEAOp(i, b)
                   \/ op = \h90 /\ h = NoOp
                   \/ op = \hC1 /\ h = ShlImmOp(i, b)
                   \/ op = \hC3 /\ h = RETOp(b)
                   \/ op = \hFF /\ h = JMPOp(i, b)
<1> DEFINE op == i.enc.op
           h == Handler(i, b, JITRIP, start)
<1>1. CASE i.enc.map = "two"
  <2>1. op \in {\h05, \h1F, \hA3}
    BY <1>1 DEF Valid, HasHandler
  <2> QED
    BY <1>1, <2>1 DEF Handler
<1>2. CASE i.enc.map = "base"
  <2>1. op \in {\h01, \h03, \h05, \h31, \h39, \h83, \h89, \h8D, \h90, \hC1, \hC3, \hFF} \cup \h70..\h7F
    BY <1>2 DEF Valid, HasHandler
  <2>2. CASE op \in {\h01, \h03}
    BY <1>2, <2>2 DEF Handler
  <2>3. CASE op \in {\h05, \h31}
    BY <1>2, <2>3 DEF Handler
  <2>4. CASE op = \h39
    BY <1>2, <2>4 DEF Handler
  <2>5. CASE op \in \h70..\h7F
    BY <1>2, <2>5 DEF Handler
  <2>6. CASE op = \h83
    BY <1>2, <2>6 DEF Handler
  <2>7. CASE op \in {\h89, \h8D}
    BY <1>2, <2>7 DEF Handler
  <2>8. CASE op = \h90
    BY <1>2, <2>8 DEF Handler
  <2>9. CASE op \in {\hC1, \hC3}
    BY <1>2, <2>9 DEF Handler
  <2>10. CASE op = \hFF
    BY <1>2, <2>10 DEF Handler
  <2> QED
    BY <2>1, <2>2, <2>3, <2>4, <2>5, <2>6, <2>7, <2>8, <2>9, <2>10
<1> QED
  BY <1>1, <1>2, EncodingTypes DEF Valid, Instruction

\* A handler appends operations that are in order; one that fails has computed
\* values at most.
LEMMA HandlerFormed ==
  ASSUME NEW i, Valid(i), NEW b \in Nat, NEW JITRIP \in Int, NEW start
  PROVE  LET h == Handler(i, b, JITRIP, start)
         IN  /\ h.fail \in BOOLEAN
             /\ FormedSeq(i, b, b, h.ops)
             /\ h.fail => \A j \in 1..Len(h.ops) : h.ops[j].op \in ValueOps
<1> DEFINE h == Handler(i, b, JITRIP, start)
<1>1. i \in Instruction
  BY DEF Valid
<1>2. CASE /\ h.fail \in BOOLEAN /\ FormedSeq(i, b, b, h.ops)
           /\ h.fail => h.ops = <<>>
  BY <1>2
<1>3. NoOp.fail = FALSE /\ NoOp.ops = <<>> /\ FormedSeq(i, b, b, NoOp.ops)
  BY FormedEmpty DEF NoOp, Result
<1>4. FormedSeq(i, b, b, SyscallOp(b).ops) /\ SyscallOp(b).fail = FALSE
  BY SyscallFormed DEF SyscallOp, Result
<1>5. FormedSeq(i, b, b, RETOp(b).ops) /\ RETOp(b).fail = FALSE
  BY <1>1, RETFormed DEF RETOp, Result
<1>6. FormedSeq(i, b, b, AddImmOp(i, b).ops) /\ AddImmOp(i, b).fail = FALSE
  BY <1>1, AddImmFormed DEF AddImmOp, Result
<1>7. /\ FormedSeq(i, b, b, BTOp(i, b).ops) /\ BTOp(i, b).fail \in BOOLEAN
      /\ BTOp(i, b).fail => BTOp(i, b).ops = <<>>
  BY <1>1, BTFormed DEF BTOp, Result
<1>8. /\ FormedSeq(i, b, b, XorOp(i, b).ops) /\ XorOp(i, b).fail \in BOOLEAN
      /\ XorOp(i, b).fail => XorOp(i, b).ops = <<>>
  BY <1>1, XorFormed DEF XorOp, Result
<1>9. /\ FormedSeq(i, b, b, CMPOp(i, b, JITRIP).ops) /\ CMPOp(i, b, JITRIP).fail \in BOOLEAN
      /\ CMPOp(i, b, JITRIP).fail => CMPOp(i, b, JITRIP).ops = <<>>
  <2>1. CASE NotRegister(i.enc) \/ JITRIP # CMPAddress
    <3>1. CMPOp(i, b, JITRIP).ops = <<>>
      BY <2>1 DEF CMPOp, Result
    <3>2. CMPOp(i, b, JITRIP).fail = TRUE
      BY <2>1 DEF CMPOp, Result
    <3> QED
      BY <3>1, <3>2, FormedEmpty
  <2>2. CASE ~(NotRegister(i.enc) \/ JITRIP # CMPAddress)
    <3>1. CMPOp(i, b, JITRIP).fail = FALSE
      BY <2>2 DEF CMPOp, Result
    <3> QED
      BY <1>1, <3>1, CMPFormed
  <2> QED
    BY <2>1, <2>2
<1>10. /\ FormedSeq(i, b, b, AddImmModRMOp(i, b).ops) /\ AddImmModRMOp(i, b).fail \in BOOLEAN
       /\ AddImmModRMOp(i, b).fail => AddImmModRMOp(i, b).ops = <<>>
  BY <1>1, AddImmModRMFormed DEF AddImmModRMOp, Result
<1>11. /\ FormedSeq(i, b, b, MovOp(i, b).ops) /\ MovOp(i, b).fail \in BOOLEAN
       /\ MovOp(i, b).fail => MovOp(i, b).ops = <<>>
  BY <1>1, MovFormed DEF MovOp, Result
<1>12. /\ FormedSeq(i, b, b, LEAOp(i, b).ops) /\ LEAOp(i, b).fail \in BOOLEAN
       /\ LEAOp(i, b).fail => LEAOp(i, b).ops = <<>>
  BY <1>1, LEAFormed DEF LEAOp, Result
<1>13. /\ FormedSeq(i, b, b, ShlImmOp(i, b).ops) /\ ShlImmOp(i, b).fail \in BOOLEAN
       /\ ShlImmOp(i, b).fail => ShlImmOp(i, b).ops = <<>>
  BY <1>1, ShlImmFormed DEF ShlImmOp, Result
<1>14. /\ FormedSeq(i, b, b, JMPOp(i, b).ops) /\ JMPOp(i, b).fail \in BOOLEAN
       /\ JMPOp(i, b).fail => JMPOp(i, b).ops = <<>>
  BY <1>1, JMPFormed DEF JMPOp, Result
<1>15. CASE i.enc.map = "base" /\ i.enc.op \in {\h01, \h03} /\ h = AddOp(i, b)
  BY <1>1, <1>15, AddFormed
<1>16. CASE i.enc.map = "base" /\ i.enc.op \in \h70..\h7F /\ h = JccOp(i, b, JITRIP, start)
  <2>1. /\ h.fail \in BOOLEAN /\ FormedSeq(i, b, b, h.ops)
        /\ h.fail => h.ops = <<>>
    BY <1>1, <1>16, JccFormed DEF Jump
  <2> QED
    BY <1>2, <2>1
<1>17. \/ h \in {NoOp, SyscallOp(b), RETOp(b), AddImmOp(i, b), BTOp(i, b), XorOp(i, b), CMPOp(i, b, JITRIP)}
       \/ h \in {AddImmModRMOp(i, b), MovOp(i, b), LEAOp(i, b), ShlImmOp(i, b), JMPOp(i, b)}
       \/ i.enc.map = "base" /\ i.enc.op \in {\h01, \h03} /\ h = AddOp(i, b)
       \/ i.enc.map = "base" /\ i.enc.op \in \h70..\h7F /\ h = JccOp(i, b, JITRIP, start)
  BY HandlerCases
<1> HIDE DEF h
<1>18. CASE h \in {NoOp, SyscallOp(b), RETOp(b), AddImmOp(i, b), BTOp(i, b), XorOp(i, b), CMPOp(i, b, JITRIP)}
  BY <1>2, <1>3, <1>4, <1>5, <1>6, <1>7, <1>8, <1>9, <1>18
<1>19. CASE h \in {AddImmModRMOp(i, b), MovOp(i, b), LEAOp(i, b), ShlImmOp(i, b), JMPOp(i, b)}
  BY <1>2, <1>10, <1>11, <1>12, <1>13, <1>14, <1>19
<1> QED
  BY <1>15, <1>16, <1>17, <1>18, <1>19 DEF h

----------------------------------------------------------------------------
(* The list of operations: BeginBlock, then for each instruction a marker  *)
(* and what its handler appends, and EndBlock once CompileCode has run.    *)

Marker(m) == m \in DOMAIN IRList /\ IRList[m].op = "RIPMarker"
Number(m) == IRList[m].args[1]
InstAt(m) == block.insts[Number(m)]
After(m) == IRList[m].k + SizeOf(InstAt(m).enc)
Res(m) == Handler(InstAt(m), m, IRList[m].k, block.start)
Last(m) == m + Len(Res(m).ops)
Ends(m) == "BLOCK_END" \in Info(InstAt(m)).flags
SetsRIP(m) == "SETS_RIP" \in Info(InstAt(m)).flags

Making == phase \in {"compile", "end", "fallback", "stopped"}
Body == IF Making THEN Len(IRList) ELSE Len(IRList) - 1

Types ==
  /\ block \in Blocks
  /\ phase \in {"compile", "end", "fallback", "stopped", "aborted", "run", "done"}
  /\ n \in 1..(Len(block.insts) + 1)
  /\ IRList \in Seq(IROp) /\ Len(IRList) > 0
  /\ Total \in 0..(15 * (n - 1))
  /\ HitRIPSetter \in BOOLEAN

\* The code behind a marker is the handler's, which was not refused.
Placed(m) ==
  /\ Number(m) \in 1..(n - 1) /\ ~Refused(InstAt(m).enc)
  /\ IRList[m].k \in block.start..(block.start + 15 * (Number(m) - 1))
  /\ Last(m) <= Body
  /\ \A j \in 1..Len(Res(m).ops) : IRList[m + j] = Res(m).ops[j]
\* The next instruction follows, if one does.
Followed(m) ==
  Last(m) < Body =>
    /\ Res(m).fail = FALSE /\ ~Ends(m)
    /\ After(m) <= block.start + Total
    /\ Marker(Last(m) + 1) /\ Number(Last(m) + 1) = Number(m) + 1
    /\ IRList[Last(m) + 1].k = After(m)
\* The last instruction accounts for how the loop ended.
Final(m) ==
  Last(m) = Body =>
    /\ Number(m) = n - 1
    /\ Res(m).fail = TRUE =>
         IRList[m].k = block.start + Total /\ phase # "compile" /\ HitRIPSetter = FALSE
    /\ Res(m).fail = FALSE =>
         /\ After(m) = block.start + Total
         /\ HitRIPSetter <=> SetsRIP(m)
         /\ Ends(m) => phase # "compile"

Layout ==
  /\ Types
  /\ IRList[1].op = "BeginBlock"
  /\ n = 1 => Body = 1 /\ Total = 0 /\ phase \in {"compile", "fallback", "stopped"}
  /\ n > 1 => Body >= 2 /\ Marker(2) /\ Number(2) = 1 /\ IRList[2].k = block.start
  /\ \A j \in 2..Body : \E m \in 2..j : Marker(m) /\ j <= Last(m)
  /\ \A m \in 2..Body : Marker(m) => Placed(m) /\ Followed(m) /\ Final(m)
  /\ ~Making => Body > 0 /\ IRList[Len(IRList)] = EndBlock(IF HitRIPSetter THEN 0 ELSE Total)

LEMMA BlockTypes ==
  ASSUME NEW b \in Blocks
  PROVE  /\ b.start \in Word /\ b.start \in Nat /\ Len(b.insts) \in Nat
         /\ b.start + 15 * Len(b.insts) \in Word
         /\ \A k \in 1..Len(b.insts) : Valid(b.insts[k])
<1>1. /\ b.start \in Word /\ b.insts \in Seq(Instruction) /\ b.start + 15 * Len(b.insts) \in Word
      /\ DOMAIN b.insts = 1..Len(b.insts)
  BY BlocksAssumption, LenProperties
<1>2. b.start \in Nat
  BY <1>1, WordNat
<1>3. ASSUME NEW k \in 1..Len(b.insts) PROVE Valid(b.insts[k])
  <2>1. b.insts[k] \in Instruction
    BY <1>1, ElementOfSeq
  <2> QED
    BY <1>1, <1>3, <2>1, BlocksAssumption DEF Valid
<1> QED
  BY <1>1, <1>2, <1>3, LenProperties

LEMMA MarkerOp ==
  ASSUME NEW k \in Nat, NEW x \in Int
  PROVE  /\ Op("RIPMarker", <<k>>, x) \in IROp /\ Op("RIPMarker", <<k>>, x).op = "RIPMarker"
         /\ Op("RIPMarker", <<k>>, x).args[1] = k /\ Op("RIPMarker", <<k>>, x).k = x
  BY DEF Op, IROp, OpNames

LEMMA EndOp ==
  ASSUME NEW x \in Int
  PROVE  EndBlock(x) \in IROp /\ EndBlock(x).op = "EndBlock" /\ EndBlock(x).k = x
  BY DEF EndBlock, Op, IROp, OpNames, JumpOps

LEMMA LayoutInit == Init => Layout
<1> SUFFICES ASSUME Init PROVE Layout
  OBVIOUS
<1>1. Len(block.insts) \in Nat /\ block \in Blocks
  BY BlockTypes DEF Init
<1>2. IRList \in Seq(IROp) /\ Len(IRList) = 1 /\ IRList[1].op = "BeginBlock"
  BY DEF Init, Op, IROp, OpNames
<1>3. n = 1 /\ Total = 0 /\ HitRIPSetter = FALSE /\ phase = "compile"
  BY DEF Init
<1>4. HitRIPSetter \in BOOLEAN
  BY DEF Init
<1>5. Types
  BY <1>1, <1>2, <1>3, <1>4 DEF Types
<1> QED
  BY <1>2, <1>3, <1>5 DEF Layout, Body, Making

\* What CompileBlock appends for an instruction.
LEMMA DispatchAppends ==
  ASSUME Layout, Dispatch
  PROVE  LET q == Len(IRList) + 1
             i == block.insts[n]
             r == Handler(i, q, block.start + Total, block.start)
         IN  /\ q \in Nat /\ Valid(i) /\ n \in 1..Len(block.insts) /\ block' = block
             /\ IRList' \in Seq(IROp) /\ Len(r.ops) \in Nat /\ Len(IRList') = q + Len(r.ops)
             /\ \A k \in 1..Len(IRList) : IRList'[k] = IRList[k]
             /\ IRList'[q] = Op("RIPMarker", <<n>>, block.start + Total)
             /\ \A j \in 1..Len(r.ops) : IRList'[q + j] = r.ops[j]
             /\ \A j \in 1..Len(r.ops) : Formed(i, q, q + j, r.ops[j])
             /\ r.fail \in BOOLEAN
<1> DEFINE q == Len(IRList) + 1
           i == block.insts[n]
           x == block.start + Total
           r == Handler(i, q, x, block.start)
           mk == Op("RIPMarker", <<n>>, x)
           s == Append(IRList, mk)
<1>1. /\ block \in Blocks /\ n \in 1..Len(block.insts) /\ IRList \in Seq(IROp) /\ Total \in Nat
      /\ block' = block /\ IRList' = s \o r.ops
  BY BlockTypes DEF Layout, Types, Dispatch
<1>2. Len(IRList) \in Nat /\ q \in Nat /\ x \in Int /\ n \in Nat /\ Valid(i)
  BY <1>1, BlockTypes, LenProperties
<1>3. FormedSeq(i, q, q, r.ops) /\ r.fail \in BOOLEAN
  BY <1>2, HandlerFormed
<1>4. mk \in IROp
  BY <1>2, MarkerOp
<1>5. s \in Seq(IROp) /\ Len(s) = q /\ s[q] = mk /\ \A k \in 1..Len(IRList) : s[k] = IRList[k]
  <2> HIDE DEF mk
  <2> QED
    BY <1>1, <1>2, <1>4, AppendProperties
<1>6. r.ops \in Seq(IROp) /\ \A j \in 1..Len(r.ops) : Formed(i, q, q + j, r.ops[j])
  BY <1>3 DEF FormedSeq
<1> HIDE DEF s, r, mk, q, i
<1>7. /\ s \o r.ops \in Seq(IROp) /\ Len(r.ops) \in Nat /\ Len(s \o r.ops) = q + Len(r.ops)
      /\ \A k \in 1..q : (s \o r.ops)[k] = s[k]
      /\ \A k \in 1..Len(r.ops) : (s \o r.ops)[q + k] = r.ops[k]
  <2> DEFINE t == r.ops
  <2>1. t \in Seq(IROp) /\ s \in Seq(IROp)
    BY <1>5, <1>6
  <2> HIDE DEF t
  <2>2. /\ s \o t \in Seq(IROp) /\ Len(t) \in Nat /\ Len(s \o t) = Len(s) + Len(t)
        /\ \A k \in 1..Len(s) : (s \o t)[k] = s[k]
        /\ \A k \in 1..Len(t) : (s \o t)[Len(s) + k] = t[k]
    BY <2>1, ConcatAt
  <2> QED
    BY <1>5, <2>2 DEF t
<1>8. q = Len(IRList) + 1
  BY DEF q
<1>9. /\ \A k \in 1..Len(IRList) : IRList'[k] = IRList[k]
      /\ IRList'[q] = mk
  BY <1>1, <1>2, <1>5, <1>7, <1>8
<1> QED
  BY <1>1, <1>2, <1>3, <1>6, <1>7, <1>9 DEF q, r, i, mk

\* A step that keeps what is in the list keeps the code behind its markers.
LEMMA SegmentKept ==
  ASSUME block' = block, NEW m, IRList'[m] = IRList[m]
  PROVE  /\ Number(m)' = Number(m) /\ InstAt(m)' = InstAt(m) /\ After(m)' = After(m)
         /\ Res(m)' = Res(m) /\ Last(m)' = Last(m) /\ Ends(m)' = Ends(m) /\ SetsRIP(m)' = SetsRIP(m)
         /\ IRList'[m].k = IRList[m].k
<1>1. Number(m)' = Number(m) /\ IRList'[m].k = IRList[m].k
  BY DEF Number
<1>2. InstAt(m)' = InstAt(m)
  BY <1>1 DEF InstAt
<1>3. Res(m)' = Res(m) /\ After(m)' = After(m) /\ Ends(m)' = Ends(m) /\ SetsRIP(m)' = SetsRIP(m)
  BY <1>1, <1>2 DEF Res, After, Ends, SetsRIP
<1> QED
  BY <1>1, <1>2, <1>3 DEF Last

LEMMA MarkerTypes ==
  ASSUME Layout, NEW m \in 2..Body, Marker(m)
  PROVE  /\ m \in Nat /\ Number(m) \in 1..Len(block.insts) /\ Valid(InstAt(m))
         /\ IRList[m].k \in Nat /\ IRList[m].k + 15 \in Word
         /\ Len(Res(m).ops) \in Nat /\ Last(m) \in m..Body /\ Body \in Nat
         /\ Res(m).fail \in BOOLEAN
         /\ Res(m).fail = TRUE => \A j \in 1..Len(Res(m).ops) : Res(m).ops[j].op \in ValueOps
         /\ Length(InstAt(m).enc) \in 1..15 /\ SizeOf(InstAt(m).enc) \in 1..15
         /\ After(m) \in Word /\ After(m) \in Nat
         /\ \A j \in (m+1)..Last(m) :
              IRList[j] = Res(m).ops[j - m] /\ Formed(InstAt(m), m, j, IRList[j])
<1>1. /\ Types /\ Placed(m)
  BY DEF Layout
<1>2. /\ block \in Blocks /\ Len(block.insts) \in Nat /\ Len(IRList) \in Nat /\ m \in Nat /\ Body \in Nat
      /\ Number(m) \in 1..Len(block.insts)
  BY <1>1, BlockTypes, LenProperties DEF Types, Placed, Body
<1>3. Valid(InstAt(m)) /\ block.start \in Nat
  BY <1>2, BlockTypes DEF InstAt
<1>4. IRList[m].k \in Nat /\ IRList[m].k + 15 \in Word
  <2>1. block.start + 15 * Len(block.insts) \in Word
    BY <1>2, BlockTypes
  <2>2. IRList[m].k \in block.start..(block.start + 15 * (Number(m) - 1))
    BY <1>1 DEF Placed
  <2>3. block.start + 15 * Len(block.insts) < 2^Bits(8) /\ 2^Bits(8) \in Nat
    BY <2>1, WordNat
  <2>4. IRList[m].k \in Nat /\ IRList[m].k + 15 < 2^Bits(8)
    <3> DEFINE w == 2^Bits(8)
               k == IRList[m].k
               a == Number(m)
               l == Len(block.insts)
               z == block.start
    <3>1. w \in Nat /\ l \in Nat /\ z \in Nat /\ a \in 1..l /\ z + 15 * l < w /\ k \in z..(z + 15 * (a - 1))
      BY <1>2, <1>3, <2>2, <2>3
    <3> HIDE DEF w, k, a, l, z
    <3>2. k \in Nat /\ k + 15 < w
      BY <3>1
    <3> QED
      BY <3>2 DEF w, k
  <2> QED
    BY <2>3, <2>4 DEF Word
<1>a. PICK i, x, s, r : i = InstAt(m) /\ x = IRList[m].k /\ s = block.start /\ r = Handler(i, m, x, s)
  OBVIOUS
<1>b. Res(m) = r
  BY <1>a DEF Res
<1>c. /\ r.fail \in BOOLEAN /\ FormedSeq(i, m, m, r.ops)
      /\ r.fail => \A j \in 1..Len(r.ops) : r.ops[j].op \in ValueOps
  <2>1. Valid(i) /\ m \in Nat /\ x \in Int
    BY <1>2, <1>3, <1>4, <1>a
  <2> QED
    BY <1>a, <2>1, HandlerFormed
<1>5. FormedSeq(InstAt(m), m, m, Res(m).ops) /\ Res(m).fail \in BOOLEAN
  BY <1>a, <1>b, <1>c
<1>6. Res(m).fail = TRUE => \A j \in 1..Len(Res(m).ops) : Res(m).ops[j].op \in ValueOps
  BY <1>b, <1>c
<1>7. Len(Res(m).ops) \in Nat
  BY <1>5, LenProperties DEF FormedSeq
<1>8. Last(m) \in m..Body
  BY <1>1, <1>2, <1>7 DEF Last, Placed
<1>9. Length(InstAt(m).enc) \in 1..15 /\ SizeOf(InstAt(m).enc) \in 1..15
  BY <1>3, LengthPositive, SizePositive DEF Valid, Instruction
<1>10. After(m) \in Word /\ After(m) \in Nat
  BY <1>4, <1>9, Powers DEF After, Word
<1>11. ASSUME NEW j \in (m+1)..Last(m)
       PROVE  IRList[j] = Res(m).ops[j - m] /\ Formed(InstAt(m), m, j, IRList[j])
  <2>1. j - m \in 1..Len(Res(m).ops) /\ m + (j - m) = j
    BY <1>2, <1>7 DEF Last
  <2> QED
    BY <1>1, <1>5, <2>1 DEF Placed, FormedSeq
<1> QED
  BY <1>2, <1>3, <1>4, <1>5, <1>6, <1>7, <1>8, <1>9, <1>10, <1>11

\* The instruction that is dispatched comes behind all others.
LEMMA LayoutDispatch ==
  ASSUME Layout, Dispatch
  PROVE  Layout'
<1>0. PICK q, i, x, r, len : /\ q = Len(IRList) + 1 /\ i = block.insts[n] /\ x = block.start + Total
                             /\ r = Handler(i, q, x, block.start) /\ len = Len(r.ops)
  OBVIOUS
<1>1. q \in Nat /\ len \in Nat /\ q = Len(IRList) + 1 /\ Len(IRList) \in Nat /\ Len(IRList) > 0
  BY <1>0, DispatchAppends, LenProperties DEF Layout, Types
<1>1a. Valid(i) /\ block' = block
  BY <1>0, DispatchAppends
<1>1b. n \in 1..Len(block.insts)
  BY <1>0, DispatchAppends
<1>1c. IRList' \in Seq(IROp) /\ Len(IRList') = q + len
  BY <1>0, DispatchAppends
<1>1d. r.fail \in BOOLEAN
  BY <1>0, DispatchAppends
<1>2. \A k \in 1..Len(IRList) : IRList'[k] = IRList[k]
  BY <1>0, DispatchAppends
<1>3. IRList'[q] = Op("RIPMarker", <<n>>, x)
  BY <1>0, DispatchAppends
<1>4. \A j \in 1..len : IRList'[q + j] = r.ops[j] /\ Formed(i, q, q + j, r.ops[j])
  BY <1>0, DispatchAppends
<1>5. x = block.start + Total
  BY <1>0
<1>5a. i = block.insts[n] /\ r = Handler(i, q, x, block.start) /\ len = Len(r.ops)
  BY <1>0
<1>5b. ~Refused(i.enc)
  BY <1>0 DEF Dispatch
<1>6. /\ phase' \in {"fallback", "end", "compile"}
      /\ HitRIPSetter' \in BOOLEAN
      /\ r.fail = TRUE => phase' # "compile" /\ HitRIPSetter' = FALSE /\ Total' = Total
      /\ r.fail = FALSE => /\ HitRIPSetter' <=> "SETS_RIP" \in Info(i).flags
                           /\ "BLOCK_END" \in Info(i).flags => phase' # "compile"
                           /\ Total' = Total + SizeOf(i.enc)
  <2>1. /\ phase' = CASE r.fail /\ n = 1 -> "fallback"
                      [] (r.fail /\ n # 1) \/ "BLOCK_END" \in Info(i).flags -> "end"
                      [] OTHER -> "compile"
        /\ HitRIPSetter' = (~r.fail /\ "SETS_RIP" \in Info(i).flags)
        /\ Total' = IF r.fail THEN Total ELSE Total + SizeOf(i.enc)
    BY <1>0 DEF Dispatch, Info
  <2> QED
    BY <1>1d, <2>1
<1>7. /\ block \in Blocks /\ phase = "compile" /\ IRList \in Seq(IROp)
  BY DEF Layout, Types, Dispatch
<1>8. /\ Len(block.insts) \in Nat /\ block.start \in Nat
  BY <1>7, BlockTypes
<1>9. /\ n \in Nat /\ n > 0 /\ n' = n + 1 /\ Total \in Nat /\ Total \in 0..(15 * (n - 1)) /\ x \in Nat
  <2>1. Total \in 0..(15 * (n - 1)) /\ n' = n + 1
    BY DEF Layout, Types, Dispatch
  <2> QED
    BY <1>1b, <1>5, <1>8, <2>1
<1>10. SizeOf(i.enc) \in 1..15
  BY <1>1a, SizePositive DEF Valid
<1>11. Body = Len(IRList) /\ Body' = q + len /\ Making'
  BY <1>1c, <1>6, <1>7 DEF Body, Making
<1>12. Total' \in 0..(15 * n) /\ Total <= Total'
  <2>1. Total' = Total \/ Total' = Total + SizeOf(i.enc)
    BY <1>1d, <1>6
  <2> QED
    BY <1>9, <1>10, <2>1
<1>13. Types'
  <2>1. n' \in 1..(Len(block'.insts) + 1) /\ Total' \in 0..(15 * (n' - 1)) /\ Len(IRList') > 0
    BY <1>1, <1>1a, <1>1b, <1>1c, <1>8, <1>9, <1>12
  <2> QED
    BY <1>1a, <1>1c, <1>6, <1>7, <2>1 DEF Types
<1>14. IRList'[1].op = "BeginBlock"
  BY <1>1, <1>2 DEF Layout
<1>15. DOMAIN IRList = 1..Len(IRList) /\ DOMAIN IRList' = 1..(q + len)
  BY <1>1c, <1>7, LenProperties
<1>16. /\ Marker(q)' /\ Number(q)' = n /\ IRList'[q].k = x /\ InstAt(q)' = i /\ Res(q)' = r
       /\ Last(q)' = q + len /\ After(q)' = x + SizeOf(i.enc)
       /\ Ends(q)' <=> "BLOCK_END" \in Info(i).flags
       /\ SetsRIP(q)' <=> "SETS_RIP" \in Info(i).flags
  <2>1. IRList'[q].op = "RIPMarker" /\ IRList'[q].args[1] = n /\ IRList'[q].k = x
    BY <1>3, <1>9, MarkerOp
  <2>2. q \in 1..(q + len)
    BY <1>1
  <2>3. Marker(q)' /\ Number(q)' = n
    BY <1>15, <2>1, <2>2 DEF Marker, Number
  <2>4. InstAt(q)' = i
    BY <1>1a, <1>5a, <2>3 DEF InstAt
  <2>5. Res(q)' = r
    BY <1>1a, <1>5a, <2>1, <2>4 DEF Res
  <2> QED
    BY <1>5a, <2>1, <2>3, <2>4, <2>5 DEF Last, After, Ends, SetsRIP
<1>17. ASSUME NEW m \in 2..Len(IRList), Marker(m)
       PROVE  Marker(m)' /\ Placed(m)' /\ Followed(m)' /\ Final(m)' /\ Last(m)' = Last(m)
  <2>1. m \in 1..Len(IRList) /\ m \in 2..Body /\ m \in Nat
    BY <1>1, <1>11
  <2>2. IRList'[m] = IRList[m]
    BY <1>2, <2>1
  <2>3. /\ Number(m)' = Number(m) /\ InstAt(m)' = InstAt(m) /\ After(m)' = After(m)
        /\ Res(m)' = Res(m) /\ Last(m)' = Last(m) /\ Ends(m)' = Ends(m)
        /\ IRList'[m].k = IRList[m].k
    BY <1>1a, <2>2, SegmentKept
  <2>4. Placed(m) /\ Followed(m) /\ Final(m)
    BY <1>17, <2>1 DEF Layout
  <2>5. /\ Len(Res(m).ops) \in Nat /\ Last(m) \in m..Body /\ After(m) \in Nat
        /\ Number(m) \in Nat /\ Res(m).fail \in BOOLEAN
    <3>1. /\ Len(Res(m).ops) \in Nat /\ Last(m) \in m..Body /\ After(m) \in Nat
          /\ Number(m) \in 1..Len(block.insts) /\ Res(m).fail \in BOOLEAN
      BY <1>17, <2>1, MarkerTypes
    <3> QED
      BY <1>8, <3>1
  <2>6. Last(m) = m + Len(Res(m).ops) /\ Last(m) < Body' /\ Last(m) \in 1..Len(IRList)
    BY <1>1, <1>11, <2>1, <2>5 DEF Last
  <2>7. Marker(m)'
    <3>1. m \in DOMAIN IRList'
      BY <1>1, <1>15, <2>1
    <3> QED
      BY <1>17, <2>2, <3>1 DEF Marker
  <2>8. Placed(m)'
    <3>1. ASSUME NEW j \in 1..Len(Res(m).ops) PROVE IRList'[m + j] = Res(m).ops[j]
      <4>1. m + j \in 1..Len(IRList)
        BY <1>1, <1>11, <2>1, <2>5, <2>6
      <4>2. IRList[m + j] = Res(m).ops[j]
        BY <2>4 DEF Placed
      <4> QED
        BY <1>2, <4>1, <4>2
    <3>2. /\ Number(m) \in 1..(n - 1) /\ ~Refused(InstAt(m).enc)
          /\ IRList[m].k \in block.start..(block.start + 15 * (Number(m) - 1))
      BY <2>4 DEF Placed
    <3>3. Number(m) \in 1..(n' - 1)
      BY <1>9, <2>5, <3>2
    <3>4. Last(m) <= Body'
      BY <1>1, <1>11, <2>5, <2>6
    <3> QED
      BY <1>1a, <2>3, <3>1, <3>2, <3>3, <3>4 DEF Placed
  <2>9. Final(m)'
    BY <1>1, <1>11, <2>1, <2>3, <2>5, <2>6 DEF Final
  <2>10. Followed(m)'
    <3>1. CASE Last(m) < Body
      <4>1. Last(m) + 1 \in 1..Len(IRList)
        BY <1>1, <1>11, <2>6, <3>1
      <4>2. IRList'[Last(m) + 1] = IRList[Last(m) + 1] /\ Last(m) + 1 \in DOMAIN IRList'
        BY <1>1, <1>2, <1>15, <4>1
      <4>3. /\ Res(m).fail = FALSE /\ ~Ends(m) /\ After(m) <= block.start + Total
            /\ Marker(Last(m) + 1) /\ Number(Last(m) + 1) = Number(m) + 1
            /\ IRList[Last(m) + 1].k = After(m)
        BY <2>4, <3>1 DEF Followed
      <4>4. After(m) <= block.start + Total'
        BY <1>8, <1>9, <1>12, <2>5, <4>3
      <4>5. Marker(Last(m) + 1)' /\ Number(Last(m) + 1)' = Number(m) + 1
        BY <2>3, <4>2, <4>3 DEF Marker, Number
      <4> QED
        BY <1>1a, <2>3, <4>2, <4>3, <4>4, <4>5 DEF Followed
    <3>2. CASE Last(m) = Body
      <4>1. Last(m) + 1 = q
        BY <1>1, <1>11, <3>2
      <4>2. Number(m) = n - 1 /\ Res(m).fail = FALSE /\ ~Ends(m) /\ After(m) = x
        BY <1>5, <1>7, <2>4, <2>5, <3>2 DEF Final
      <4>3. After(m) <= block.start + Total' /\ n = Number(m) + 1
        BY <1>5, <1>8, <1>9, <1>12, <4>2
      <4>4. Marker(Last(m) + 1)' /\ Number(Last(m) + 1)' = Number(m) + 1 /\ IRList'[Last(m) + 1].k = After(m)
        BY <1>16, <2>3, <4>1, <4>2, <4>3
      <4> QED
        BY <1>1a, <2>3, <4>2, <4>3, <4>4 DEF Followed
    <3> QED
      BY <1>1, <1>11, <2>1, <2>5, <3>1, <3>2
  <2> QED
    BY <2>3, <2>7, <2>8, <2>9, <2>10
<1>18. Placed(q)' /\ Followed(q)' /\ Final(q)'
  <2>1. /\ n \in 1..(n' - 1) /\ x \in block.start..(block.start + 15 * (n - 1)) /\ n = n' - 1
    BY <1>5, <1>8, <1>9
  <2>2. Placed(q)'
    <3>1. \A j \in 1..len : IRList'[q + j] = r.ops[j]
      BY <1>4
    <3>2. Last(q)' <= Body'
      BY <1>1, <1>11, <1>16
    <3> QED
      BY <1>1a, <1>5a, <1>5b, <1>16, <2>1, <3>1, <3>2 DEF Placed
  <2>3. Final(q)'
    <3>1. CASE r.fail = TRUE
      BY <1>1a, <1>5, <1>6, <1>16, <2>1, <3>1 DEF Final
    <3>2. CASE r.fail = FALSE
      <4>1. x + SizeOf(i.enc) = block.start + Total'
        <5>1. Total' = Total + SizeOf(i.enc)
          BY <1>6, <3>2
        <5> QED
          <6>1. block.start \in Int /\ Total \in Int /\ SizeOf(i.enc) \in Int
            BY <1>8, <1>9, <1>10
          <6> QED
            BY <1>5, <5>1, <6>1
      <4> QED
        BY <1>1a, <1>6, <1>16, <2>1, <3>2, <4>1 DEF Final
    <3> QED
      BY <1>1d, <3>1, <3>2
  <2>4. Followed(q)'
    BY <1>1, <1>11, <1>16 DEF Followed
  <2> QED
    BY <2>2, <2>3, <2>4
<1>19. ASSUME NEW m \in 2..Body' PROVE m \in 2..Len(IRList) \/ m = q \/ m - q \in 1..len
  BY <1>1, <1>11
<1>20. ASSUME NEW m \in 2..Body', Marker(m)'
       PROVE  Placed(m)' /\ Followed(m)' /\ Final(m)'
  <2>1. CASE m \in 2..Len(IRList)
    <3>1. m \in 1..Len(IRList)
      BY <1>1, <2>1
    <3>2. IRList'[m] = IRList[m]
      BY <1>2, <3>1
    <3>3. Marker(m)
      BY <1>15, <1>20, <3>1, <3>2 DEF Marker
    <3> QED
      BY <1>17, <2>1, <3>3
  <2>2. CASE m - q \in 1..len
    <3>1. q + (m - q) = m
      BY <1>1
    <3>2. IRList'[q + (m - q)] = r.ops[m - q] /\ Formed(i, q, q + (m - q), r.ops[m - q])
      BY <1>4, <2>2
    <3>3. r.ops[m - q].op # "RIPMarker"
      BY <3>2 DEF Formed, ValueOps, JumpOps
    <3> QED
      BY <1>20, <3>1, <3>2, <3>3 DEF Marker
  <2> QED
    BY <1>18, <1>19, <2>1, <2>2
<1>21. ASSUME NEW j \in 2..Body'
       PROVE  \E m \in 2..j : Marker(m)' /\ j <= Last(m)'
  <2>1. CASE j \in 2..Len(IRList)
    <3>1. PICK m \in 2..j : Marker(m) /\ j <= Last(m)
      BY <1>11, <2>1 DEF Layout
    <3>2. m \in 2..Len(IRList)
      BY <1>1, <2>1
    <3> QED
      BY <1>17, <3>1, <3>2
  <2>2. CASE j = q \/ j - q \in 1..len
    <3>1. q \in 2..j /\ j <= q + len
      BY <1>1, <2>2
    <3> QED
      BY <1>16, <3>1
  <2> QED
    BY <1>19, <2>1, <2>2
<1>22. n' > 1 /\ Body' >= 2 /\ Marker(2)' /\ Number(2)' = 1 /\ IRList'[2].k = block'.start
  <2>1. n' > 1 /\ Body' >= 2
    BY <1>1, <1>9, <1>11
  <2>2. CASE n = 1
    <3>1. Len(IRList) = 1 /\ Total = 0
      BY <1>11, <2>2 DEF Layout
    <3>2. q = 2 /\ x = block.start
      BY <1>1, <1>5, <1>8, <3>1
    <3> QED
      BY <1>1a, <1>16, <2>1, <2>2, <3>2
  <2>3. CASE n > 1
    <3>1. Len(IRList) >= 2 /\ Marker(2) /\ Number(2) = 1 /\ IRList[2].k = block.start
      BY <1>11, <2>3 DEF Layout
    <3>2. 2 \in 2..Len(IRList) /\ 2 \in 1..Len(IRList)
      BY <1>1, <3>1
    <3>3. IRList'[2] = IRList[2]
      BY <1>2, <3>2
    <3> QED
      BY <1>1a, <1>17, <2>1, <3>1, <3>2, <3>3 DEF Number
  <2> QED
    BY <1>9, <2>2, <2>3
<1> QED
  BY <1>9, <1>11, <1>13, <1>14, <1>20, <1>21, <1>22 DEF Layout

\* CompileCode closes the list.
LEMMA LayoutCompileCode ==
  ASSUME Layout, CompileCode
  PROVE  Layout'
<1> DEFINE close == EndBlock(IF HitRIPSetter THEN 0 ELSE Total)
<1>1. /\ IRList \in Seq(IROp) /\ Len(IRList) \in Nat /\ Len(IRList) > 0 /\ IRList' = Append(IRList, close)
      /\ block' = block /\ n' = n /\ Total' = Total /\ HitRIPSetter' = HitRIPSetter /\ Total \in Int
      /\ HitRIPSetter \in BOOLEAN /\ phase = "end" /\ phase' \in {"aborted", "run"}
      /\ Body = Len(IRList)
  BY LenProperties DEF Layout, Types, CompileCode, Body, Making
<1>2. close \in IROp
  BY <1>1, EndOp
<1>3. /\ IRList' \in Seq(IROp) /\ Len(IRList') = Len(IRList) + 1 /\ IRList'[Len(IRList')] = close
      /\ \A k \in 1..Len(IRList) : IRList'[k] = IRList[k]
  <2> HIDE DEF close
  <2> QED
    BY <1>1, <1>2, AppendProperties
<1> HIDE DEF close
<1>4. Body' = Body /\ ~Making'
  <2>1. ~Making'
    BY <1>1 DEF Making
  <2>2. Body' = Len(IRList') - 1
    BY <2>1 DEF Body
  <2> QED
    BY <1>1, <1>3, <2>1, <2>2
<1>5. Types'
  BY <1>1, <1>3 DEF Layout, Types
<1>6. DOMAIN IRList = 1..Len(IRList) /\ DOMAIN IRList' = 1..(Len(IRList) + 1)
  BY <1>1, <1>3, LenProperties
<1>7. ASSUME NEW m \in 1..Body
      PROVE  /\ Marker(m)' <=> Marker(m)
             /\ Number(m)' = Number(m) /\ InstAt(m)' = InstAt(m) /\ After(m)' = After(m)
             /\ Res(m)' = Res(m) /\ Last(m)' = Last(m) /\ Ends(m)' = Ends(m) /\ SetsRIP(m)' = SetsRIP(m)
             /\ IRList'[m].k = IRList[m].k
  <2>1. IRList'[m] = IRList[m] /\ m \in DOMAIN IRList /\ m \in DOMAIN IRList'
    BY <1>1, <1>3, <1>6
  <2> QED
    BY <1>1, <2>1, SegmentKept DEF Marker
<1>8. ASSUME NEW m \in 2..Body, Marker(m)
      PROVE  Placed(m)' /\ Followed(m)' /\ Final(m)'
  <2>1. Placed(m) /\ Followed(m) /\ Final(m) /\ m \in 1..Body
    BY <1>1, <1>8 DEF Layout
  <2>2. Len(Res(m).ops) \in Nat /\ Last(m) \in m..Body /\ m \in Nat /\ Last(m) = m + Len(Res(m).ops)
    BY <1>8, MarkerTypes DEF Last
  <2>3. /\ Number(m)' = Number(m) /\ InstAt(m)' = InstAt(m) /\ After(m)' = After(m)
        /\ Res(m)' = Res(m) /\ Last(m)' = Last(m) /\ Ends(m)' = Ends(m) /\ SetsRIP(m)' = SetsRIP(m)
        /\ IRList'[m].k = IRList[m].k
    BY <1>7, <2>1
  <2>4. Placed(m)'
    <3>1. \A j \in 1..Len(Res(m).ops) : IRList'[m + j] = Res(m).ops[j]
      BY <1>1, <1>3, <2>1, <2>2 DEF Placed
    <3> QED
      BY <1>1, <1>4, <2>1, <2>3, <3>1 DEF Placed
  <2>5. Followed(m)'
    <3>1. CASE Last(m) < Body
      <4>1. Last(m) + 1 \in 1..Body
        BY <1>1, <2>2, <3>1
      <4>2. /\ Marker(Last(m) + 1)' <=> Marker(Last(m) + 1)
            /\ Number(Last(m) + 1)' = Number(Last(m) + 1)
            /\ IRList'[Last(m) + 1].k = IRList[Last(m) + 1].k
        BY <1>7, <4>1
      <4> QED
        BY <1>1, <1>4, <2>1, <2>3, <3>1, <4>2 DEF Followed
    <3>2. CASE ~(Last(m) < Body)
      BY <1>4, <2>3, <3>2 DEF Followed
    <3> QED
      BY <3>1, <3>2
  <2>6. Final(m)'
    BY <1>1, <1>4, <2>1, <2>3 DEF Final
  <2> QED
    BY <2>4, <2>5, <2>6
<1>9. \A j \in 2..Body : \E m \in 2..j : Marker(m)' /\ j <= Last(m)'
  BY <1>1, <1>7 DEF Layout
<1>10. n > 1
  BY <1>1 DEF Layout, Types
<1>11. Body >= 2 /\ Marker(2) /\ Number(2) = 1 /\ IRList[2].k = block.start
  BY <1>10 DEF Layout
<1>12. Marker(2)' /\ Number(2)' = 1 /\ IRList'[2].k = block.start
  BY <1>1, <1>7, <1>11
<1>13. IRList'[1].op = "BeginBlock"
  BY <1>1, <1>3 DEF Layout
<1>14. \A m \in 2..Body : Marker(m)' => Placed(m)' /\ Followed(m)' /\ Final(m)'
  BY <1>1, <1>7, <1>8
<1> QED
  BY <1>1, <1>3, <1>4, <1>5, <1>9, <1>10, <1>11, <1>12, <1>13, <1>14 DEF Layout, close

\* The other steps leave the list as it is.
LEMMA LayoutOther ==
  ASSUME Layout, compVars' = compVars,
         \/ phase' = phase
         \/ phase = "compile" /\ phase' \in {"end", "fallback", "stopped"} /\ (n = 1 => phase' # "end")
         \/ phase = "run" /\ phase' = "done"
  PROVE  Layout' /\ Body' = Body
<1>1. block' = block /\ n' = n /\ IRList' = IRList /\ Total' = Total /\ HitRIPSetter' = HitRIPSetter
  BY DEF compVars
<1>2. Making' = Making
  BY DEF Making
<1>3. Body' = Body /\ Types'
  BY <1>1, <1>2 DEF Body, Layout, Types
<1>4. \A m : Marker(m)' = Marker(m)
  BY <1>1 DEF Marker
<1>5. \A m : /\ Number(m)' = Number(m) /\ InstAt(m)' = InstAt(m)
             /\ After(m)' = After(m) /\ Res(m)' = Res(m)
             /\ Last(m)' = Last(m) /\ Ends(m)' = Ends(m) /\ SetsRIP(m)' = SetsRIP(m)
  BY <1>1, SegmentKept
<1>6. ASSUME NEW m \in 2..Body, Marker(m) PROVE Placed(m)' /\ Followed(m)' /\ Final(m)'
  <2>1. Placed(m) /\ Followed(m) /\ Final(m)
    BY <1>6 DEF Layout
  <2> QED
    BY <1>1, <1>3, <1>4, <1>5, <2>1 DEF Placed, Followed, Final
<1>7. n = 1 => phase' \in {"compile", "fallback", "stopped"}
  BY DEF Layout
<1>8. \A j \in 2..Body : \E m \in 2..j : Marker(m)' /\ j <= Last(m)'
  BY <1>4, <1>5 DEF Layout
<1> QED
  BY <1>1, <1>2, <1>3, <1>4, <1>5, <1>6, <1>7, <1>8 DEF Layout

\* CompileCode has looked at every operation.
Checked ==
  /\ phase = "aborted" => \E k \in 1..Body : Unknown(k)
  /\ phase \in {"run", "done"} => \A k \in 1..Body : ~Unknown(k)

LEMMA CheckedCompileCode ==
  ASSUME Layout, CompileCode
  PROVE  Checked'
<1>1. /\ IRList \in Seq(IROp) /\ Len(IRList) \in Nat
      /\ IRList' = Append(IRList, EndBlock(IF HitRIPSetter THEN 0 ELSE Total))
      /\ phase = "end" /\ phase' = (IF \E k \in DOMAIN IRList : Unknown(k) THEN "aborted" ELSE "run")
      /\ HitRIPSetter \in BOOLEAN /\ Total \in Int
  BY LenProperties DEF Layout, Types, CompileCode
<1>2. EndBlock(IF HitRIPSetter THEN 0 ELSE Total) \in IROp
  BY <1>1, EndOp
<1>3. Len(IRList') = Len(IRList) + 1 /\ \A k \in 1..Len(IRList) : IRList'[k] = IRList[k]
  BY <1>1, <1>2, AppendProperties
<1>4. Body' = Len(IRList) /\ DOMAIN IRList = 1..Len(IRList)
  BY <1>1, <1>3, LenProperties DEF Body, Making
<1>5. \A k \in 1..Len(IRList) : Unknown(k)' = Unknown(k)
  BY <1>3 DEF Unknown
<1> QED
  BY <1>1, <1>4, <1>5 DEF Checked

LEMMA CheckedOther ==
  ASSUME Checked, compVars' = compVars, Body' = Body,
         phase' = phase \/ phase' \in {"end", "fallback", "stopped"} \/ (phase = "run" /\ phase' = "done")
  PROVE  Checked'
<1>1. \A k : Unknown(k)' = Unknown(k)
  BY DEF compVars, Unknown
<1> QED
  BY <1>1 DEF Checked

LEMMA LayoutStep ==
  ASSUME Layout, Checked, [Next]_vars
  PROVE  Layout' /\ Checked'
<1>1. CASE Dispatch
  <2>1. Layout'
    BY <1>1, LayoutDispatch
  <2>2. phase' \in {"compile", "end", "fallback"}
    BY <1>1 DEF Dispatch
  <2> QED
    BY <2>1, <2>2 DEF Checked
<1>2. CASE CompileCode
  BY <1>2, LayoutCompileCode, CheckedCompileCode
<1>3. CASE ~Dispatch /\ ~CompileCode
  <2>1. /\ compVars' = compVars
        /\ \/ phase' = phase
           \/ phase = "compile" /\ phase' \in {"end", "fallback", "stopped"} /\ (n = 1 => phase' # "end")
           \/ phase = "run" /\ phase' = "done"
    <3>1. CASE NoHandler \/ UnknownEncoding
      BY <3>1 DEF NoHandler, UnknownEncoding
    <3>2. CASE ValueOp \/ StoreContextOp
      BY <3>2 DEF ValueOp, StoreContextOp
    <3>3. CASE RIPMarkerOp \/ EmptyOp
      BY <3>3 DEF RIPMarkerOp, EmptyOp
    <3>4. CASE CondJumpOp
      BY <3>4 DEF CondJumpOp
    <3>5. CASE EndBlockOp \/ TrialEnd
      BY <3>5 DEF EndBlockOp, TrialEnd, At
    <3>6. CASE Over \/ UNCHANGED vars
      BY <3>6 DEF Over, vars
    <3> QED
      BY <1>3, <3>1, <3>2, <3>3, <3>4, <3>5, <3>6 DEF Next
  <2> QED
    BY <2>1, LayoutOther, CheckedOther
<1> QED
  BY <1>1, <1>2, <1>3

\* The IR list holds, behind BeginBlock, for each instruction its marker and
\* what its handler appended.  The address in a marker, and the total length,
\* are sums of the sizes GetInstInfo returned (SizeOf), which need not be the
\* lengths of the processor.  An instruction that is refused is never in the
\* list; a handler that failed ends it, and one that ends the block has nothing
\* behind it but EndBlock.  A block runs only when CompileCode knows every
\* operation.
THEOREM LayoutHolds == Spec => [](Layout /\ Checked)
<1>1. Init => Layout /\ Checked
  BY LayoutInit DEF Init, Checked
<1>2. Layout /\ Checked /\ [Next]_vars => (Layout /\ Checked)'
  BY LayoutStep
<1> QED
  BY <1>1, <1>2, PTL DEF Spec

\* CompileCode stops the emulator only for an operand of 16 bits, or for a
\* conditional jump on a flag that is set, whose exclusive or in GetFlagBit
\* uses itself: no other handler appends an operation HandleIR does not know.
THEOREM AbortsOnlyOn16BitsHolds == Spec => []AbortsOnlyOn16Bits
<1>1. Layout /\ Checked => AbortsOnlyOn16Bits
  <2> SUFFICES ASSUME Layout, Checked, phase = "aborted"
               PROVE  \E k \in 1..(n - 1) :
                        \/ OPSIZE(block.insts[k].enc)
                        \/ /\ block.insts[k].enc.op \in \h70..\h7F
                           /\ ~Negate(JumpType(block.insts[k].enc))
    BY DEF AbortsOnlyOn16Bits
  <2>1. PICK k \in 1..Body : Unknown(k)
    BY DEF Checked
  <2>2. Body \in Nat
    BY LenProperties DEF Layout, Types, Body, Making
  <2>3. k # 1
    BY <2>1 DEF Layout, Unknown
  <2>4. PICK m \in 2..k : Marker(m) /\ k <= Last(m)
    BY <2>2, <2>3 DEF Layout
  <2>5. k # m
    BY <2>1, <2>4 DEF Unknown, Marker
  <2>6. m \in 2..Body /\ m \in Nat /\ k \in (m+1)..Last(m) /\ Number(m) \in 1..(n - 1)
    <3>1. m \in 2..Body
      BY <2>2
    <3>2. Last(m) \in m..Body
      BY <2>4, <3>1, MarkerTypes
    <3>3. Placed(m)
      BY <2>4, <3>1 DEF Layout
    <3> QED
      BY <2>2, <2>4, <2>5, <3>1, <3>2, <3>3 DEF Placed
  <2>7. Formed(InstAt(m), m, k, IRList[k])
    BY <2>4, <2>6, MarkerTypes
  <2>8. OPSIZE(InstAt(m).enc) \/ (Jump(InstAt(m)) /\ ~Negate(JumpType(InstAt(m).enc)))
    <3>1. CASE IRList[k].op \in {"Trunc", "LoadMem"} /\ IRList[k].k = 2
      BY <2>7, <3>1 DEF Formed
    <3>2. CASE IRList[k].op = "Xor" /\ \E a \in DOMAIN IRList[k].args : IRList[k].args[a] = k
      BY <2>7, <3>2 DEF Formed
    <3> QED
      BY <2>1, <3>1, <3>2 DEF Unknown
  <2> QED
    BY <2>6, <2>8 DEF InstAt, Jump
<1> QED
  BY <1>1, LayoutHolds, PTL

----------------------------------------------------------------------------
(* Flags.                                                                  *)

\* Setting or clearing a bit, as a number, leaves the other bits of the flags.
LEMMA OtherZero ==
  ASSUME NEW x \in Int, NEW y \in Int,
         y = x \/ (y = x + 1 /\ (x \div 1) % 2 = 0) \/ (y = x - 1 /\ (x \div 1) % 2 = 1)
  PROVE  \A k \in 0..11 : k # 0 => FlagOf(y, k) = FlagOf(x, k)
<1>1. FlagOf(y, 1) = FlagOf(x, 1)
  BY 2^1 = 2 DEF FlagOf
<1>2. FlagOf(y, 2) = FlagOf(x, 2)
  BY 2^2 = 4 DEF FlagOf
<1>3. FlagOf(y, 3) = FlagOf(x, 3)
  BY 2^3 = 8 DEF FlagOf
<1>4. FlagOf(y, 4) = FlagOf(x, 4)
  BY 2^4 = 16 DEF FlagOf
<1>5. FlagOf(y, 5) = FlagOf(x, 5)
  BY 2^5 = 32 DEF FlagOf
<1>6. FlagOf(y, 6) = FlagOf(x, 6)
  BY 2^6 = 64 DEF FlagOf
<1>7. FlagOf(y, 7) = FlagOf(x, 7)
  BY 2^7 = 128 DEF FlagOf
<1>8. FlagOf(y, 8) = FlagOf(x, 8)
  BY 2^8 = 256 DEF FlagOf
<1>9. FlagOf(y, 9) = FlagOf(x, 9)
  BY 2^9 = 512 DEF FlagOf
<1>10. FlagOf(y, 10) = FlagOf(x, 10)
  BY 2^10 = 1024 DEF FlagOf
<1>11. FlagOf(y, 11) = FlagOf(x, 11)
  BY 2^11 = 2048 DEF FlagOf
<1>12. \A k \in 0..11 : k \in {0, 1, 2, 3, 4, 5, 6, 7, 8, 9, 10, 11}
  OBVIOUS
<1> QED
  BY <1>1, <1>2, <1>3, <1>4, <1>5, <1>6, <1>7, <1>8, <1>9, <1>10, <1>11, <1>12

LEMMA OtherSix ==
  ASSUME NEW x \in Int, NEW y \in Int,
         y = x \/ (y = x + 64 /\ (x \div 64) % 2 = 0) \/ (y = x - 64 /\ (x \div 64) % 2 = 1)
  PROVE  \A k \in 0..11 : k # 6 => FlagOf(y, k) = FlagOf(x, k)
<1>1. FlagOf(y, 0) = FlagOf(x, 0)
  BY 2^0 = 1 DEF FlagOf
<1>2. FlagOf(y, 1) = FlagOf(x, 1)
  BY 2^1 = 2 DEF FlagOf
<1>3. FlagOf(y, 2) = FlagOf(x, 2)
  BY 2^2 = 4 DEF FlagOf
<1>4. FlagOf(y, 3) = FlagOf(x, 3)
  BY 2^3 = 8 DEF FlagOf
<1>5. FlagOf(y, 4) = FlagOf(x, 4)
  BY 2^4 = 16 DEF FlagOf
<1>6. FlagOf(y, 5) = FlagOf(x, 5)
  BY 2^5 = 32 DEF FlagOf
<1>7. FlagOf(y, 7) = FlagOf(x, 7)
  BY 2^7 = 128 DEF FlagOf
<1>8. FlagOf(y, 8) = FlagOf(x, 8)
  BY 2^8 = 256 DEF FlagOf
<1>9. FlagOf(y, 9) = FlagOf(x, 9)
  BY 2^9 = 512 DEF FlagOf
<1>10. FlagOf(y, 10) = FlagOf(x, 10)
  BY 2^10 = 1024 DEF FlagOf
<1>11. FlagOf(y, 11) = FlagOf(x, 11)
  BY 2^11 = 2048 DEF FlagOf
<1>12. \A k \in 0..11 : k \in {0, 1, 2, 3, 4, 5, 6, 7, 8, 9, 10, 11}
  OBVIOUS
<1> QED
  BY <1>1, <1>2, <1>3, <1>4, <1>5, <1>6, <1>7, <1>8, <1>9, <1>10, <1>11, <1>12

LEMMA OtherSeven ==
  ASSUME NEW x \in Int, NEW y \in Int,
         y = x \/ (y = x + 128 /\ (x \div 128) % 2 = 0) \/ (y = x - 128 /\ (x \div 128) % 2 = 1)
  PROVE  \A k \in 0..11 : k # 7 => FlagOf(y, k) = FlagOf(x, k)
<1>1. FlagOf(y, 0) = FlagOf(x, 0)
  BY 2^0 = 1 DEF FlagOf
<1>2. FlagOf(y, 1) = FlagOf(x, 1)
  BY 2^1 = 2 DEF FlagOf
<1>3. FlagOf(y, 2) = FlagOf(x, 2)
  BY 2^2 = 4 DEF FlagOf
<1>4. FlagOf(y, 3) = FlagOf(x, 3)
  BY 2^3 = 8 DEF FlagOf
<1>5. FlagOf(y, 4) = FlagOf(x, 4)
  BY 2^4 = 16 DEF FlagOf
<1>6. FlagOf(y, 5) = FlagOf(x, 5)
  BY 2^5 = 32 DEF FlagOf
<1>7. FlagOf(y, 6) = FlagOf(x, 6)
  BY 2^6 = 64 DEF FlagOf
<1>8. FlagOf(y, 8) = FlagOf(x, 8)
  BY 2^8 = 256 DEF FlagOf
<1>9. FlagOf(y, 9) = FlagOf(x, 9)
  BY 2^9 = 512 DEF FlagOf
<1>10. FlagOf(y, 10) = FlagOf(x, 10)
  BY 2^10 = 1024 DEF FlagOf
<1>11. FlagOf(y, 11) = FlagOf(x, 11)
  BY 2^11 = 2048 DEF FlagOf
<1>12. \A k \in 0..11 : k \in {0, 1, 2, 3, 4, 5, 6, 7, 8, 9, 10, 11}
  OBVIOUS
<1> QED
  BY <1>1, <1>2, <1>3, <1>4, <1>5, <1>6, <1>7, <1>8, <1>9, <1>10, <1>11, <1>12

\* A flag is replaced, and the others are kept.
LEMMA CFReplaced ==
  ASSUME NEW x \in Int, NEW v \in 0..1, NEW y, y = WithFlag(x, 0, v)
  PROVE  y \in Int /\ FlagOf(y, 0) = v /\ \A k \in 0..11 : k # 0 => FlagOf(y, k) = FlagOf(x, k)
<1>1. y = x + (v - ((x \div 1) % 2)) * 1
  BY 2^0 = 1 DEF FlagOf, WithFlag
<1>2. /\ y \in Int /\ (x \div 1) % 2 \in 0..1 /\ (y \div 1) % 2 = v
      /\ y = x \/ (y = x + 1 /\ (x \div 1) % 2 = 0) \/ (y = x - 1 /\ (x \div 1) % 2 = 1)
  BY <1>1
<1>3. \A k \in 0..11 : k # 0 => FlagOf(y, k) = FlagOf(x, k)
  BY <1>2, OtherZero
<1>4. FlagOf(y, 0) = v
  BY <1>2, 2^0 = 1 DEF FlagOf
<1> QED
  BY <1>2, <1>3, <1>4

LEMMA ZFReplaced ==
  ASSUME NEW x \in Int, NEW v \in 0..1, NEW y, y = WithFlag(x, 6, v)
  PROVE  y \in Int /\ FlagOf(y, 6) = v /\ \A k \in 0..11 : k # 6 => FlagOf(y, k) = FlagOf(x, k)
<1>1. y = x + (v - ((x \div 64) % 2)) * 64
  BY 2^6 = 64 DEF FlagOf, WithFlag
<1>2. /\ y \in Int /\ (x \div 64) % 2 \in 0..1 /\ (y \div 64) % 2 = v
      /\ y = x \/ (y = x + 64 /\ (x \div 64) % 2 = 0) \/ (y = x - 64 /\ (x \div 64) % 2 = 1)
  BY <1>1
<1>3. \A k \in 0..11 : k # 6 => FlagOf(y, k) = FlagOf(x, k)
  BY <1>2, OtherSix
<1>4. FlagOf(y, 6) = v
  BY <1>2, 2^6 = 64 DEF FlagOf
<1> QED
  BY <1>2, <1>3, <1>4

LEMMA SFReplaced ==
  ASSUME NEW x \in Int, NEW v \in 0..1, NEW y, y = WithFlag(x, 7, v)
  PROVE  y \in Int /\ FlagOf(y, 7) = v /\ \A k \in 0..11 : k # 7 => FlagOf(y, k) = FlagOf(x, k)
<1>1. y = x + (v - ((x \div 128) % 2)) * 128
  BY 2^7 = 128 DEF FlagOf, WithFlag
<1>2. /\ y \in Int /\ (x \div 128) % 2 \in 0..1 /\ (y \div 128) % 2 = v
      /\ y = x \/ (y = x + 128 /\ (x \div 128) % 2 = 0) \/ (y = x - 128 /\ (x \div 128) % 2 = 1)
  BY <1>1
<1>3. \A k \in 0..11 : k # 7 => FlagOf(y, k) = FlagOf(x, k)
  BY <1>2, OtherSeven
<1>4. FlagOf(y, 7) = v
  BY <1>2, 2^7 = 128 DEF FlagOf
<1> QED
  BY <1>2, <1>3, <1>4

LEMMA FlagWord ==
  ASSUME NEW x \in Word, NEW bit \in {0, 6, 7}, NEW v \in 0..1
  PROVE  WithFlag(x, bit, v) \in Word
<1> DEFINE K == 2^(Bits(8) - 8)
<1>1. /\ Bits(8) - 8 \in 0..Bits(8) /\ Bits(8) - 8 \in 0..(Bits(8) - 8) /\ 8 \in 0..Bits(8)
      /\ 8 + (Bits(8) - 8) = Bits(8)
  BY Powers
<1>2. 2^(8 + (Bits(8) - 8)) = 2^8 * K /\ K \in Nat
  BY <1>1, PowersAssumption
<1>3. 2^Bits(8) = 256 * K
  BY <1>1, <1>2, 2^8 = 256
<1>4. x \in Nat /\ x < 256 * K
  BY <1>3, WordNat
<1>5. WithFlag(x, bit, v) \in 0..(256 * K - 1)
  <2> HIDE DEF K
  <2>1. CASE bit = 0
    BY <1>2, <1>4, <2>1, 2^0 = 1 DEF WithFlag, FlagOf
  <2>2. CASE bit = 6
    BY <1>2, <1>4, <2>2, 2^6 = 64 DEF WithFlag, FlagOf
  <2>3. CASE bit = 7
    BY <1>2, <1>4, <2>3, 2^7 = 128 DEF WithFlag, FlagOf
  <2> QED
    BY <2>1, <2>2, <2>3
<1> QED
  BY <1>3, <1>5 DEF Word

----------------------------------------------------------------------------
(* What operations compute, from the values of others and the registers.   *)

Computed(o, v) ==
  LET a == v[o.args[1]]
      b == v[o.args[2]]
  IN  CASE o.op = "Constant" -> o.k
        [] o.op = "LoadMem" -> Wrap(Memory(a), o.k)
        [] o.op = "Trunc" -> Wrap(a, o.k)
        [] o.op = "Add" -> Wrap(a + b, 8)
        [] o.op = "Sub" -> Wrap(a - b, 8)
        [] o.op = "And" -> BitAnd(a, b)
        [] o.op = "Nand" -> BitAnd(a, 2^Bits(8) - 1 - b)
        [] o.op = "Or" -> BitOr(a, b)
        [] o.op = "Xor" -> BitXor(a, b)
        [] o.op = "Shl" -> Wrap(a * 2^b, 8)
        [] o.op = "Shr" -> a \div 2^b
        [] o.op = "BitExtract" -> (a \div 2^b) % 2
        [] o.op = "Select" -> IF a = b THEN v[o.args[3]] ELSE v[o.args[4]]
        [] o.op = "Syscall" -> Kernel([k \in 1..7 |-> v[o.args[k]]])

LEMMA EvalIs ==
  ASSUME NEW o, NEW v
  PROVE  /\ o.op \in ValueOps \ {"LoadContext"} => Eval(o, v) = Computed(o, v)
         /\ o.op = "LoadContext" => Eval(o, v) = cpu[o.k]
<1>1. CASE o.op \in {"Constant", "LoadMem", "Trunc", "LoadContext"}
  BY <1>1 DEF Eval, Computed, ValueOps
<1>2. CASE o.op \in {"Add", "Sub", "And", "Nand"}
  BY <1>2 DEF Eval, Computed, ValueOps
<1>3. CASE o.op \in {"Or", "Xor", "Shl", "Shr", "BitExtract"}
  BY <1>3 DEF Eval, Computed, ValueOps
<1>4. CASE o.op \in {"Select", "Syscall"}
  BY <1>4 DEF Eval, Computed, ValueOps
<1> QED
  BY <1>1, <1>2, <1>3, <1>4 DEF ValueOps

\* A value depends on the values it uses.
LEMMA ComputedSame ==
  ASSUME NEW o, NEW v, NEW w, o.op \in ValueOps \ {"LoadContext"},
         \A a \in 1..Arity(o.op) : v[o.args[a]] = w[o.args[a]]
  PROVE  Computed(o, v) = Computed(o, w)
<1>1. CASE o.op = "Constant"
  BY <1>1 DEF Computed
<1>2. CASE o.op \in {"LoadMem", "Trunc"}
  <2>1. v[o.args[1]] = w[o.args[1]]
    BY <1>2 DEF Arity
  <2> QED
    BY <1>2, <2>1 DEF Computed
<1>3. CASE o.op \in BiOps
  <2>1. v[o.args[1]] = w[o.args[1]] /\ v[o.args[2]] = w[o.args[2]]
    BY <1>3 DEF Arity, BiOps
  <2> QED
    BY <1>3, <2>1 DEF Computed, BiOps
<1>4. CASE o.op = "Select"
  <2>1. /\ v[o.args[1]] = w[o.args[1]] /\ v[o.args[2]] = w[o.args[2]]
        /\ v[o.args[3]] = w[o.args[3]] /\ v[o.args[4]] = w[o.args[4]]
    BY <1>4 DEF Arity, BiOps
  <2> QED
    BY <1>4, <2>1 DEF Computed
<1>5. CASE o.op = "Syscall"
  <2>1. \A k \in 1..7 : v[o.args[k]] = w[o.args[k]]
    BY <1>5 DEF Arity, BiOps
  <2>2. [k \in 1..7 |-> v[o.args[k]]] = [k \in 1..7 |-> w[o.args[k]]]
    BY <2>1
  <2> QED
    BY <1>5, <2>2 DEF Computed
<1> QED
  BY <1>1, <1>2, <1>3, <1>4, <1>5 DEF ValueOps, BiOps

Put(c, reg, x) == [c EXCEPT ![reg] = x]

\* The operation at place p has run: v are the values, h[p] the registers
\* behind place p.
Step(o, p, v, h) ==
  /\ o.op = "LoadContext" => v[p] = h[p - 1][o.k]
  /\ o.op \in ValueOps \ {"LoadContext"} => v[p] = Computed(o, v)
  /\ o.op = "StoreContext" => h[p] = Put(h[p - 1], o.k, v[o.args[1]])
  /\ o.op # "StoreContext" => h[p] = h[p - 1]

Steps(s, b, v, h) == \A j \in 1..Len(s) : Step(s[j], b + j, v, h)

LEMMA StepsConcat ==
  ASSUME NEW s \in Seq(IROp), NEW t \in Seq(IROp), NEW b \in Nat, NEW v, NEW h, Steps(s \o t, b, v, h)
  PROVE  /\ Steps(s, b, v, h) /\ Steps(t, b + Len(s), v, h)
         /\ Len(s) \in Nat /\ Len(t) \in Nat /\ Len(s \o t) = Len(s) + Len(t)
<1>1. /\ Len(s) \in Nat /\ Len(t) \in Nat /\ Len(s \o t) = Len(s) + Len(t)
      /\ \A k \in 1..Len(s) : (s \o t)[k] = s[k]
      /\ \A k \in 1..Len(t) : (s \o t)[Len(s) + k] = t[k]
  BY ConcatAt
<1>2. ASSUME NEW j \in 1..Len(s) PROVE Step(s[j], b + j, v, h)
  <2>1. j \in 1..Len(s \o t)
    BY <1>1
  <2> QED
    BY <1>1, <2>1 DEF Steps
<1>3. ASSUME NEW j \in 1..Len(t) PROVE Step(t[j], (b + Len(s)) + j, v, h)
  <2>1. Len(s) + j \in 1..Len(s \o t) /\ (b + Len(s)) + j = b + (Len(s) + j)
    BY <1>1
  <2> QED
    BY <1>1, <2>1 DEF Steps
<1> QED
  BY <1>1, <1>2, <1>3 DEF Steps

LEMMA StepLoad ==
  ASSUME NEW reg, NEW p, NEW v, NEW h, Step(LoadContext(reg), p, v, h)
  PROVE  v[p] = h[p - 1][reg] /\ h[p] = h[p - 1]
  BY DEF Step, LoadContext, Op, ValueOps

LEMMA StepConstant ==
  ASSUME NEW x, NEW p, NEW v, NEW h, Step(Constant(x), p, v, h)
  PROVE  v[p] = Wrap(x, 8) /\ h[p] = h[p - 1]
  BY DEF Step, Constant, Op, ValueOps, Computed

LEMMA StepCut ==
  ASSUME NEW a, NEW size, NEW p, NEW v, NEW h
  PROVE  /\ Step(Truncate(a, size), p, v, h) => v[p] = Wrap(v[a], size) /\ h[p] = h[p - 1]
         /\ Step(LoadMem(a, size), p, v, h) => v[p] = Wrap(Memory(v[a]), size) /\ h[p] = h[p - 1]
  BY DEF Step, Truncate, LoadMem, Op, ValueOps, Computed

LEMMA StepStore ==
  ASSUME NEW a, NEW reg, NEW p, NEW v, NEW h, Step(StoreContext(a, reg), p, v, h)
  PROVE  h[p] = Put(h[p - 1], reg, v[a])
  BY DEF Step, StoreContext, Op

LEMMA StepBiOp ==
  ASSUME NEW a, NEW b, NEW p, NEW v, NEW h
  PROVE  /\ Step(BiOp("Add", a, b), p, v, h) => v[p] = Wrap(v[a] + v[b], 8) /\ h[p] = h[p - 1]
         /\ Step(BiOp("Sub", a, b), p, v, h) => v[p] = Wrap(v[a] - v[b], 8) /\ h[p] = h[p - 1]
         /\ Step(BiOp("And", a, b), p, v, h) => v[p] = BitAnd(v[a], v[b]) /\ h[p] = h[p - 1]
         /\ Step(BiOp("Nand", a, b), p, v, h) => v[p] = BitAnd(v[a], 2^Bits(8) - 1 - v[b]) /\ h[p] = h[p - 1]
         /\ Step(BiOp("Or", a, b), p, v, h) => v[p] = BitOr(v[a], v[b]) /\ h[p] = h[p - 1]
         /\ Step(BiOp("Xor", a, b), p, v, h) => v[p] = BitXor(v[a], v[b]) /\ h[p] = h[p - 1]
         /\ Step(BiOp("Shl", a, b), p, v, h) => v[p] = Wrap(v[a] * 2^v[b], 8) /\ h[p] = h[p - 1]
         /\ Step(BiOp("Shr", a, b), p, v, h) => v[p] = v[a] \div 2^v[b] /\ h[p] = h[p - 1]
         /\ Step(BiOp("BitExtract", a, b), p, v, h) => v[p] = (v[a] \div 2^v[b]) % 2 /\ h[p] = h[p - 1]
<1>1. ASSUME NEW op \in BiOps, Step(BiOp(op, a, b), p, v, h)
      PROVE  v[p] = Computed(BiOp(op, a, b), v) /\ h[p] = h[p - 1]
  BY <1>1 DEF Step, BiOp, Op, ValueOps, BiOps
<1>2. ASSUME NEW op
      PROVE  BiOp(op, a, b).op = op /\ BiOp(op, a, b).args[1] = a /\ BiOp(op, a, b).args[2] = b
  BY DEF BiOp, Op
<1>3. /\ Computed(BiOp("Add", a, b), v) = Wrap(v[a] + v[b], 8)
      /\ Computed(BiOp("Sub", a, b), v) = Wrap(v[a] - v[b], 8)
      /\ Computed(BiOp("And", a, b), v) = BitAnd(v[a], v[b])
  BY <1>2 DEF Computed
<1>4. /\ Computed(BiOp("Nand", a, b), v) = BitAnd(v[a], 2^Bits(8) - 1 - v[b])
      /\ Computed(BiOp("Or", a, b), v) = BitOr(v[a], v[b])
      /\ Computed(BiOp("Xor", a, b), v) = BitXor(v[a], v[b])
  BY <1>2 DEF Computed
<1>5. /\ Computed(BiOp("Shl", a, b), v) = Wrap(v[a] * 2^v[b], 8)
      /\ Computed(BiOp("Shr", a, b), v) = v[a] \div 2^v[b]
      /\ Computed(BiOp("BitExtract", a, b), v) = (v[a] \div 2^v[b]) % 2
  BY <1>2 DEF Computed
<1> QED
  BY <1>1, <1>3, <1>4, <1>5 DEF BiOps

LEMMA StepSelect ==
  ASSUME NEW a, NEW b, NEW x, NEW y, NEW p, NEW v, NEW h, Step(Op("Select", <<a, b, x, y>>, 0), p, v, h)
  PROVE  v[p] = (IF v[a] = v[b] THEN v[x] ELSE v[y]) /\ h[p] = h[p - 1]
  BY DEF Step, Op, ValueOps, Computed

LEMMA StepSyscall ==
  ASSUME NEW b \in Nat, NEW p, NEW v, NEW h, Step(Op("Syscall", [l \in 1..7 |-> b + l], 0), p, v, h)
  PROVE  v[p] = Kernel([k \in 1..7 |-> v[b + k]]) /\ h[p] = h[p - 1]
<1> DEFINE o == Op("Syscall", [l \in 1..7 |-> b + l], 0)
<1>1. o.op = "Syscall" /\ \A k \in 1..7 : o.args[k] = b + k
  BY DEF Op
<1>2. [k \in 1..7 |-> v[o.args[k]]] = [k \in 1..7 |-> v[b + k]]
  BY <1>1
<1> HIDE DEF o
<1>3. v[p] = Computed(o, v) /\ h[p] = h[p - 1]
  BY <1>1 DEF Step, ValueOps, o
<1>4. Computed(o, v) = Kernel([k \in 1..7 |-> v[o.args[k]]])
  BY <1>1 DEF Computed
<1> QED
  BY <1>2, <1>3, <1>4

----------------------------------------------------------------------------
(* What the code of each handler does to the registers.                    *)

\* A handler has not set DecodeFailure.
Succeeds(r) == r.fail = FALSE

LEMMA SmallWord ==
  ASSUME NEW x \in Nat, x <= 65535
  PROVE  x \in Word /\ Wrap(x, 8) = x
<1>1. 2^Bits(8) \in Nat /\ 2^Bits(8) >= 65536
  BY Powers
<1>2. x \in Word
  BY <1>1 DEF Word
<1> QED
  BY <1>2, WrapFits

LEMMA SetFlagEffect ==
  ASSUME NEW p \in Nat, NEW a, NEW bit \in {6, 7}, NEW v, NEW h,
         Steps(SetFlag(p, a, bit), p, v, h), v[a] \in Word, h[p][RFLAGS] \in Word
  PROVE  h[p+9] = Put(h[p], RFLAGS, WithFlag(h[p][RFLAGS], bit, v[a] % 2))
<1>1. /\ Step(LoadContext(RFLAGS), p+1, v, h) /\ Step(Constant(1), p+2, v, h)
      /\ Step(Constant(2^bit), p+3, v, h) /\ Step(Constant(bit), p+4, v, h)
      /\ Step(BiOp("And", a, p+2), p+5, v, h) /\ Step(BiOp("Shl", p+5, p+4), p+6, v, h)
      /\ Step(BiOp("Nand", p+1, p+3), p+7, v, h) /\ Step(BiOp("Or", p+6, p+7), p+8, v, h)
      /\ Step(StoreContext(p+8, RFLAGS), p+9, v, h)
  BY DEF Steps, SetFlag
<1>2. /\ (p+1) - 1 = p /\ (p+2) - 1 = p+1 /\ (p+3) - 1 = p+2 /\ (p+4) - 1 = p+3 /\ (p+5) - 1 = p+4
      /\ (p+6) - 1 = p+5 /\ (p+7) - 1 = p+6 /\ (p+8) - 1 = p+7 /\ (p+9) - 1 = p+8
  OBVIOUS
<1>3. 2^bit \in {64, 128} /\ bit \in {0, 6, 7}
  BY 2^6 = 64, 2^7 = 128
<1>4. Wrap(1, 8) = 1 /\ Wrap(2^bit, 8) = 2^bit /\ Wrap(bit, 8) = bit
  <2>1. 2^bit \in Nat /\ 2^bit <= 65535 /\ bit \in Nat /\ bit <= 65535
    BY <1>3
  <2> QED
    BY <2>1, SmallWord
<1>5. v[p+1] = h[p][RFLAGS] /\ h[p+1] = h[p]
  BY <1>1, <1>2, StepLoad
<1>6. v[p+2] = 1 /\ v[p+3] = 2^bit /\ v[p+4] = bit /\ h[p+4] = h[p]
  BY <1>1, <1>2, <1>4, <1>5, StepConstant
<1>7. v[p+5] = v[a] % 2 /\ h[p+5] = h[p]
  <2>1. v[p+5] = BitAnd(v[a], v[p+2]) /\ h[p+5] = h[p+4]
    BY <1>1, <1>2, StepBiOp
  <2> QED
    BY <1>6, <2>1, MaskAssumption
<1>8. v[a] % 2 \in 0..1
  BY WordNat
<1>9. (v[a] % 2) * 2^bit \in Nat /\ (v[a] % 2) * 2^bit <= 65535
  BY <1>3, <1>8
<1>10. v[p+6] = (v[a] % 2) * 2^bit /\ h[p+6] = h[p]
  <2>1. v[p+6] = Wrap(v[p+5] * 2^v[p+4], 8) /\ h[p+6] = h[p+5]
    BY <1>1, <1>2, StepBiOp
  <2>2. v[p+6] = Wrap((v[a] % 2) * 2^bit, 8)
    BY <1>6, <1>7, <2>1
  <2> QED
    BY <1>7, <1>9, <2>1, <2>2, SmallWord
<1>11. v[p+7] = BitAnd(h[p][RFLAGS], 2^Bits(8) - 1 - 2^bit) /\ h[p+7] = h[p]
  <2>1. v[p+7] = BitAnd(v[p+1], 2^Bits(8) - 1 - v[p+3]) /\ h[p+7] = h[p+6]
    BY <1>1, <1>2, StepBiOp
  <2> QED
    BY <1>5, <1>6, <1>10, <2>1
<1>12. v[p+8] = WithFlag(h[p][RFLAGS], bit, v[a] % 2) /\ h[p+8] = h[p]
  <2>1. v[p+8] = BitOr(v[p+6], v[p+7]) /\ h[p+8] = h[p+7]
    BY <1>1, <1>2, StepBiOp
  <2>2. BitOr((v[a] % 2) * 2^bit, BitAnd(h[p][RFLAGS], 2^Bits(8) - 1 - 2^bit)) = WithFlag(h[p][RFLAGS], bit, v[a] % 2)
    BY <1>3, <1>8, MaskAssumption
  <2> QED
    BY <1>10, <1>11, <2>1, <2>2
<1> QED
  BY <1>1, <1>2, <1>12, StepStore

LEMMA SetCFEffect ==
  ASSUME NEW p \in Nat, NEW a, NEW v, NEW h,
         Steps(SetCF(p, a), p, v, h), v[a] \in Word, h[p][RFLAGS] \in Word
  PROVE  h[p+6] = Put(h[p], RFLAGS, WithFlag(h[p][RFLAGS], 0, v[a] % 2))
<1>1. /\ Step(LoadContext(RFLAGS), p+1, v, h) /\ Step(Constant(1), p+2, v, h)
      /\ Step(BiOp("And", a, p+2), p+3, v, h) /\ Step(BiOp("Nand", p+1, p+2), p+4, v, h)
      /\ Step(BiOp("Or", p+3, p+4), p+5, v, h) /\ Step(StoreContext(p+5, RFLAGS), p+6, v, h)
  BY DEF Steps, SetCF
<1>2. /\ (p+1) - 1 = p /\ (p+2) - 1 = p+1 /\ (p+3) - 1 = p+2 /\ (p+4) - 1 = p+3 /\ (p+5) - 1 = p+4
      /\ (p+6) - 1 = p+5
  OBVIOUS
<1>3. 2^0 = 1 /\ Wrap(1, 8) = 1
  BY SmallWord, 2^0 = 1
<1>4. v[p+1] = h[p][RFLAGS] /\ h[p+1] = h[p]
  BY <1>1, <1>2, StepLoad
<1>5. v[p+2] = 1 /\ h[p+2] = h[p]
  BY <1>1, <1>2, <1>3, <1>4, StepConstant
<1>6. v[p+3] = v[a] % 2 /\ h[p+3] = h[p]
  <2>1. v[p+3] = BitAnd(v[a], v[p+2]) /\ h[p+3] = h[p+2]
    BY <1>1, <1>2, StepBiOp
  <2> QED
    BY <1>5, <2>1, MaskAssumption
<1>7. v[a] % 2 \in 0..1
  BY WordNat
<1>8. v[p+4] = BitAnd(h[p][RFLAGS], 2^Bits(8) - 1 - 2^0) /\ h[p+4] = h[p]
  <2>1. v[p+4] = BitAnd(v[p+1], 2^Bits(8) - 1 - v[p+2]) /\ h[p+4] = h[p+3]
    BY <1>1, <1>2, StepBiOp
  <2> QED
    BY <1>3, <1>4, <1>5, <1>6, <2>1
<1>9. v[p+5] = WithFlag(h[p][RFLAGS], 0, v[a] % 2) /\ h[p+5] = h[p]
  <2>1. v[p+5] = BitOr(v[p+3], v[p+4]) /\ h[p+5] = h[p+4]
    BY <1>1, <1>2, StepBiOp
  <2>2. BitOr((v[a] % 2) * 2^0, BitAnd(h[p][RFLAGS], 2^Bits(8) - 1 - 2^0)) = WithFlag(h[p][RFLAGS], 0, v[a] % 2)
    BY <1>7, MaskAssumption
  <2>3. (v[a] % 2) * 2^0 = v[a] % 2
    BY <1>3, <1>7
  <2> QED
    BY <1>6, <1>8, <2>1, <2>2, <2>3
<1> QED
  BY <1>1, <1>2, <1>9, StepStore

\* What the operands of a handler are worth, once c is CPUState before it.
LEMMA ContextWord ==
  ASSUME NEW c \in Context, NEW r \in 0..17
  PROVE  c[r] \in Word /\ c[r] \in Int
<1>1. c[r] \in Word
  BY DEF Context
<1> QED
  BY <1>1, WordNat

LEMMA AddSumEffect ==
  ASSUME NEW p \in Nat, NEW dest, NEW size \in {4, 8}, NEW v, NEW h,
         Steps(AddSum(p, dest, size), p, v, h), v[p] \in Int, h[p][dest] \in Int
  PROVE  h[p+6] = Put(h[p], dest, Wrap(h[p][dest] + v[p], size))
<1>1. /\ Step(LoadContext(dest), p+1, v, h) /\ Step(Truncate(p+1, size), p+2, v, h)
      /\ Step(Truncate(p, size), p+3, v, h) /\ Step(BiOp("Add", p+2, p+3), p+4, v, h)
      /\ Step(Truncate(p+4, size), p+5, v, h) /\ Step(StoreContext(p+5, dest), p+6, v, h)
  BY DEF Steps, AddSum
<1>2. /\ (p+1) - 1 = p /\ (p+2) - 1 = p+1 /\ (p+3) - 1 = p+2 /\ (p+4) - 1 = p+3 /\ (p+5) - 1 = p+4
      /\ (p+6) - 1 = p+5
  OBVIOUS
<1>3. v[p+1] = h[p][dest] /\ h[p+1] = h[p]
  BY <1>1, <1>2, StepLoad
<1>4. v[p+2] = Wrap(h[p][dest], size) /\ v[p+3] = Wrap(v[p], size) /\ h[p+3] = h[p]
  BY <1>1, <1>2, <1>3, StepCut
<1>5. v[p+4] = Wrap(v[p+2] + v[p+3], 8) /\ h[p+4] = h[p]
  BY <1>1, <1>2, <1>4, StepBiOp
<1>6. v[p+5] = Wrap(v[p+4], size) /\ h[p+5] = h[p]
  BY <1>1, <1>2, <1>5, StepCut
<1>7. v[p+5] = Wrap(h[p][dest] + v[p], size)
  <2>1. Wrap(h[p][dest], size) \in Int /\ Wrap(v[p], size) \in Int
    BY WrapWord, WordNat
  <2>2. v[p+5] = Wrap(Wrap(h[p][dest], size) + Wrap(v[p], size), size)
    BY <1>4, <1>5, <1>6, <2>1, WrapWrap
  <2> QED
    BY <2>2, WrapSum
<1> QED
  BY <1>1, <1>2, <1>6, <1>7, StepStore

AddRegisterCode(i, b) == FromRegister(i) \o AddSum(b+1, RMOf(i.enc), OpSize(i.enc))
AddMemoryCode(i, b) == FromMemory(i, b) \o AddSum(b+2, RegOf(i.enc), OpSize(i.enc))
LEMMA AddRegisterEffect ==
  ASSUME NEW i \in Instruction, NEW b \in Nat, NEW c \in Context, NEW v, NEW h, h[b] = c,
         NEW s, s = AddRegisterCode(i, b),
         OpSize(i.enc) \in {4, 8}, Steps(s, b, v, h)
  PROVE  h[b + Len(s)] = Put(c, RMOf(i.enc), Wrap(c[RMOf(i.enc)] + c[RegOf(i.enc)], OpSize(i.enc)))
<1> USE DEF AddRegisterCode, AddMemoryCode
<1> DEFINE rm == RMOf(i.enc)
           reg == RegOf(i.enc)
           size == OpSize(i.enc)
           t == AddSum(b+1, rm, size)
<1>1. rm \in 0..17 /\ reg \in 0..17 /\ i.enc \in Encoding
  BY Operands DEF Instruction
<1>2. FromRegister(i) \in Seq(IROp) /\ Len(FromRegister(i)) = 1
  BY AddSources DEF FormedSeq
<1>2a. FromRegister(i) = <<LoadContext(reg)>>
  BY DEF FromRegister
<1>3. t \in Seq(IROp) /\ Len(t) = 6
  <2>1. FormedSeq(i, b, b+1, t)
    BY <1>1, AddSumFormed
  <2> QED
    BY <2>1 DEF FormedSeq, AddSum
<1> HIDE DEF t
<1>4. Steps(FromRegister(i), b, v, h) /\ Steps(t, b+1, v, h) /\ Len(s) = 7
  <2>1. s = FromRegister(i) \o t
    BY DEF t
  <2>2. Steps(FromRegister(i) \o t, b, v, h)
    BY <2>1
  <2>3. /\ Steps(FromRegister(i), b, v, h) /\ Steps(t, b + Len(FromRegister(i)), v, h)
        /\ Len(FromRegister(i) \o t) = Len(FromRegister(i)) + Len(t)
    BY <1>2, <1>3, <2>2, StepsConcat, Zenon
  <2> QED
    BY <1>2, <1>3, <2>1, <2>3
<1>5. Step(LoadContext(reg), b+1, v, h) /\ (b+1) - 1 = b
  BY <1>2, <1>2a, <1>4 DEF Steps
<1>6. v[b+1] = c[reg] /\ h[b+1] = c
  BY <1>5, StepLoad
<1>7. c[rm] \in Int /\ c[reg] \in Int
  BY <1>1, ContextWord
<1>8. h[(b+1)+6] = Put(h[b+1], rm, Wrap(h[b+1][rm] + v[b+1], size))
  BY <1>4, <1>6, <1>7, AddSumEffect DEF t
<1> QED
  BY <1>4, <1>6, <1>8

LEMMA AddMemoryEffect ==
  ASSUME NEW i \in Instruction, NEW b \in Nat, NEW c \in Context, NEW v, NEW h, h[b] = c,
         NEW s, s = AddMemoryCode(i, b),
         OpSize(i.enc) \in {4, 8}, Steps(s, b, v, h)
  PROVE  h[b + Len(s)] =
           Put(c, RegOf(i.enc), Wrap(c[RegOf(i.enc)] + Memory(c[RMOf(i.enc)]), OpSize(i.enc)))
<1> USE DEF AddRegisterCode, AddMemoryCode
<1> DEFINE rm == RMOf(i.enc)
           reg == RegOf(i.enc)
           size == OpSize(i.enc)
           t == AddSum(b+2, reg, size)
<1>1. rm \in 0..17 /\ reg \in 0..17 /\ i.enc \in Encoding
  BY Operands DEF Instruction
<1>2. FromMemory(i, b) \in Seq(IROp) /\ Len(FromMemory(i, b)) = 2
  BY AddSources DEF FormedSeq
<1>2a. FromMemory(i, b) = <<LoadContext(rm), LoadMem(b+1, size)>>
  BY DEF FromMemory
<1>3. t \in Seq(IROp) /\ Len(t) = 6
  <2>1. FormedSeq(i, b, b+2, t)
    BY <1>1, AddSumFormed
  <2> QED
    BY <2>1 DEF FormedSeq, AddSum
<1> HIDE DEF t
<1>4. Steps(FromMemory(i, b), b, v, h) /\ Steps(t, b+2, v, h) /\ Len(s) = 8
  <2>1. s = FromMemory(i, b) \o t
    BY DEF t
  <2>2. Steps(FromMemory(i, b) \o t, b, v, h)
    BY <2>1
  <2>3. /\ Steps(FromMemory(i, b), b, v, h) /\ Steps(t, b + Len(FromMemory(i, b)), v, h)
        /\ Len(FromMemory(i, b) \o t) = Len(FromMemory(i, b)) + Len(t)
    BY <1>2, <1>3, <2>2, StepsConcat, Zenon
  <2> QED
    BY <1>2, <1>3, <2>1, <2>3
<1>5. /\ Step(LoadContext(rm), b+1, v, h) /\ Step(LoadMem(b+1, size), b+2, v, h)
      /\ (b+1) - 1 = b /\ (b+2) - 1 = b+1
  BY <1>2, <1>2a, <1>4 DEF Steps
<1>6. v[b+1] = c[rm] /\ h[b+1] = c
  BY <1>5, StepLoad
<1>7. v[b+2] = Wrap(Memory(c[rm]), size) /\ h[b+2] = c
  BY <1>5, <1>6, StepCut
<1>8. c[rm] \in Word /\ c[reg] \in Int
  BY <1>1, ContextWord
<1>9. Memory(c[rm]) \in Int
  BY <1>8, MemoryAssumption, WordNat
<1>10. v[b+2] \in Int
  <2>1. Wrap(Memory(c[rm]), size) \in Word
    BY <1>9, WrapWord
  <2> QED
    BY <1>7, <2>1, WordNat
<1>11. h[(b+2)+6] = Put(h[b+2], reg, Wrap(h[b+2][reg] + v[b+2], size))
  BY <1>4, <1>7, <1>8, <1>10, AddSumEffect DEF t
<1>12. Wrap(c[reg] + Wrap(Memory(c[rm]), size), size) = Wrap(c[reg] + Memory(c[rm]), size)
  <2> HIDE DEF reg, rm, size
  <2>1. size \in {4, 8}
    BY DEF size
  <2> QED
    BY <1>8, <1>9, <2>1, WrapSum
<1> QED
  BY <1>4, <1>7, <1>11, <1>12

LEMMA AddImmEffect ==
  ASSUME NEW i \in Instruction, NEW b \in Nat, NEW c \in Context, NEW v, NEW h, h[b] = c,
         Steps(AddImmOp(i, b).ops, b, v, h)
  PROVE  h[b + Len(AddImmOp(i, b).ops)] = Put(c, 0, Wrap(c[0] + i.imm, 8))
<1>1. AddImmOp(i, b).ops = <<LoadContext(0), Constant(i.imm), BiOp("Add", b+1, b+2), StoreContext(b+3, 0)>>
  BY DEF AddImmOp, Result
<1>2. /\ Step(LoadContext(0), b+1, v, h) /\ Step(Constant(i.imm), b+2, v, h)
      /\ Step(BiOp("Add", b+1, b+2), b+3, v, h) /\ Step(StoreContext(b+3, 0), b+4, v, h)
      /\ Len(AddImmOp(i, b).ops) = 4
  BY <1>1 DEF Steps
<1>3. (b+1) - 1 = b /\ (b+2) - 1 = b+1 /\ (b+3) - 1 = b+2 /\ (b+4) - 1 = b+3
  OBVIOUS
<1>4. v[b+1] = c[0] /\ h[b+1] = c
  BY <1>2, <1>3, StepLoad
<1>5. v[b+2] = Wrap(i.imm, 8) /\ h[b+2] = c
  BY <1>2, <1>3, <1>4, StepConstant
<1>6. v[b+3] = Wrap(c[0] + Wrap(i.imm, 8), 8) /\ h[b+3] = c
  BY <1>2, <1>3, <1>4, <1>5, StepBiOp
<1>7. Wrap(c[0] + Wrap(i.imm, 8), 8) = Wrap(c[0] + i.imm, 8)
  <2>1. c[0] \in Int /\ i.imm \in Int
    BY ContextWord DEF Instruction
  <2> QED
    BY <2>1, WrapSum
<1> QED
  BY <1>2, <1>3, <1>6, <1>7, StepStore

LEMMA LEAEffect ==
  ASSUME NEW i \in Instruction, NEW b \in Nat, NEW c \in Context, NEW v, NEW h, h[b] = c,
         Succeeds(LEAOp(i, b)), Steps(LEAOp(i, b).ops, b, v, h)
  PROVE  /\ h[b + Len(LEAOp(i, b).ops)] = Put(c, RegOf(i.enc), Wrap(c[RMOf(i.enc)] + i.imm, 8))
         /\ Mod(ModRMOf(i.enc)) = 2
<1> USE DEF Succeeds
<1> DEFINE rm == RMOf(i.enc)
           reg == RegOf(i.enc)
<1>1. /\ LEAOp(i, b).ops = <<LoadContext(rm), Constant(i.imm), BiOp("Add", b+1, b+2), StoreContext(b+3, reg)>>
      /\ Mod(ModRMOf(i.enc)) = 2
  BY DEF LEAOp, Result
<1> HIDE DEF reg, rm
<1>2. /\ Step(LoadContext(rm), b+1, v, h) /\ Step(Constant(i.imm), b+2, v, h)
      /\ Step(BiOp("Add", b+1, b+2), b+3, v, h) /\ Step(StoreContext(b+3, reg), b+4, v, h)
      /\ Len(LEAOp(i, b).ops) = 4
  BY <1>1 DEF Steps
<1>3. (b+1) - 1 = b /\ (b+2) - 1 = b+1 /\ (b+3) - 1 = b+2 /\ (b+4) - 1 = b+3
  OBVIOUS
<1>4. v[b+1] = c[rm] /\ h[b+1] = c
  BY <1>2, <1>3, StepLoad
<1>5. v[b+2] = Wrap(i.imm, 8) /\ h[b+2] = c
  BY <1>2, <1>3, <1>4, StepConstant
<1>6. v[b+3] = Wrap(c[rm] + Wrap(i.imm, 8), 8) /\ h[b+3] = c
  BY <1>2, <1>3, <1>4, <1>5, StepBiOp
<1>7. Wrap(c[rm] + Wrap(i.imm, 8), 8) = Wrap(c[rm] + i.imm, 8)
  <2>1. rm \in 0..17 /\ i.imm \in Int
    BY Operands DEF Instruction, rm
  <2>2. c[rm] \in Int
    BY <2>1, ContextWord
  <2> QED
    BY <2>1, <2>2, WrapSum
<1> QED
  BY <1>1, <1>2, <1>3, <1>6, <1>7, StepStore DEF reg, rm

LEMMA JMPEffect ==
  ASSUME NEW i \in Instruction, NEW b \in Nat, NEW c \in Context, NEW v, NEW h, h[b] = c,
         Succeeds(JMPOp(i, b)), Steps(JMPOp(i, b).ops, b, v, h)
  PROVE  h[b + Len(JMPOp(i, b).ops)] = Put(c, RIP, c[RMOf(i.enc)])
<1> USE DEF Succeeds
<1> DEFINE rm == RMOf(i.enc)
<1>1. JMPOp(i, b).ops = <<LoadContext(rm), StoreContext(b+1, RIP)>>
  BY DEF JMPOp, Result
<1> HIDE DEF rm
<1>2. /\ Step(LoadContext(rm), b+1, v, h) /\ Step(StoreContext(b+1, RIP), b+2, v, h)
      /\ Len(JMPOp(i, b).ops) = 2
  BY <1>1 DEF Steps
<1>3. (b+1) - 1 = b /\ (b+2) - 1 = b+1
  OBVIOUS
<1>4. v[b+1] = c[rm] /\ h[b+1] = c
  BY <1>2, <1>3, StepLoad
<1> QED
  BY <1>2, <1>3, <1>4, StepStore DEF rm

LEMMA RETEffect ==
  ASSUME NEW b \in Nat, NEW c \in Context, NEW v, NEW h, h[b] = c, Steps(RETOp(b).ops, b, v, h)
  PROVE  h[b + Len(RETOp(b).ops)] = Put(Put(c, RSP, Wrap(c[RSP] + 8, 8)), RIP, Memory(c[RSP]))
<1>1. RETOp(b).ops = <<LoadContext(RSP), Constant(8), LoadMem(b+1, 8), BiOp("Add", b+1, b+2),
                       StoreContext(b+4, RSP), StoreContext(b+3, RIP)>>
  BY DEF RETOp, Result
<1>2. /\ Step(LoadContext(RSP), b+1, v, h) /\ Step(Constant(8), b+2, v, h)
      /\ Step(LoadMem(b+1, 8), b+3, v, h) /\ Step(BiOp("Add", b+1, b+2), b+4, v, h)
      /\ Step(StoreContext(b+4, RSP), b+5, v, h) /\ Step(StoreContext(b+3, RIP), b+6, v, h)
      /\ Len(RETOp(b).ops) = 6
  BY <1>1 DEF Steps
<1>3. /\ (b+1) - 1 = b /\ (b+2) - 1 = b+1 /\ (b+3) - 1 = b+2 /\ (b+4) - 1 = b+3
      /\ (b+5) - 1 = b+4 /\ (b+6) - 1 = b+5
  OBVIOUS
<1>4. v[b+1] = c[RSP] /\ h[b+1] = c
  BY <1>2, <1>3, StepLoad
<1>5. v[b+2] = 8 /\ h[b+2] = c
  BY <1>2, <1>3, <1>4, StepConstant, SmallWord
<1>6. v[b+3] = Memory(c[RSP]) /\ h[b+3] = c
  <2>1. v[b+3] = Wrap(Memory(c[RSP]), 8) /\ h[b+3] = c
    BY <1>2, <1>3, <1>4, <1>5, StepCut
  <2>2. c[RSP] \in Word
    BY ContextWord DEF RSP
  <2> QED
    BY <2>1, <2>2, MemoryAssumption, WrapFits
<1>7. v[b+4] = Wrap(c[RSP] + 8, 8) /\ h[b+4] = c
  BY <1>2, <1>3, <1>4, <1>5, <1>6, StepBiOp
<1>8. h[b+5] = Put(c, RSP, Wrap(c[RSP] + 8, 8))
  BY <1>2, <1>3, <1>7, StepStore
<1> QED
  BY <1>2, <1>3, <1>6, <1>8, StepStore

LEMMA MovEffect ==
  ASSUME NEW i \in Instruction, NEW b \in Nat, NEW c \in Context, NEW v, NEW h, h[b] = c,
         Succeeds(MovOp(i, b)), Steps(MovOp(i, b).ops, b, v, h)
  PROVE  h[b + Len(MovOp(i, b).ops)] =
           Put(c, RMOf(i.enc), Wrap(c[RegOf(i.enc)], IF HasREX(i.enc) THEN 8 ELSE 4))
<1> USE DEF Succeeds
<1> DEFINE rm == RMOf(i.enc)
           reg == RegOf(i.enc)
           size == IF HasREX(i.enc) THEN 8 ELSE 4
<1>1. MovOp(i, b).ops = <<LoadContext(reg), Truncate(b+1, size), StoreContext(b+2, rm)>>
  BY DEF MovOp, Result
<1> HIDE DEF rm, reg, size
<1>2. /\ Step(LoadContext(reg), b+1, v, h) /\ Step(Truncate(b+1, size), b+2, v, h)
      /\ Step(StoreContext(b+2, rm), b+3, v, h) /\ Len(MovOp(i, b).ops) = 3
  BY <1>1 DEF Steps
<1>3. (b+1) - 1 = b /\ (b+2) - 1 = b+1 /\ (b+3) - 1 = b+2
  OBVIOUS
<1>4. v[b+1] = c[reg] /\ h[b+1] = c
  BY <1>2, <1>3, StepLoad
<1>5. v[b+2] = Wrap(c[reg], size) /\ h[b+2] = c
  BY <1>2, <1>3, <1>4, StepCut
<1> QED
  BY <1>2, <1>3, <1>5, StepStore DEF rm, reg, size

\* What a shift leaves of CPUState c.
Shifted(i, c) == Put(c, RMOf(i.enc), Wrap(c[RMOf(i.enc)] * 2^i.imm, OpSize(i.enc)))

LEMMA ShlImmEffect ==
  ASSUME NEW i \in Instruction, NEW b \in Nat, NEW c \in Context, NEW v, NEW h, h[b] = c,
         Succeeds(ShlImmOp(i, b)), OpSize(i.enc) \in {4, 8}, i.imm \in 0..(Bits(8) - 1),
         Steps(ShlImmOp(i, b).ops, b, v, h)
  PROVE  h[b + Len(ShlImmOp(i, b).ops)] = Shifted(i, c)
<1> USE DEF Succeeds, Shifted
<1>0. PICK rm, size, x : rm = RMOf(i.enc) /\ size = OpSize(i.enc) /\ x = i.imm
  OBVIOUS
<1>1. ShlImmOp(i, b).ops = <<LoadContext(rm), Constant(x), Truncate(b+1, size),
           BiOp("Shl", b+3, b+2), Truncate(b+4, size), StoreContext(b+5, rm)>>
  BY <1>0 DEF ShlImmOp, Result
<1>2. /\ Step(LoadContext(rm), b+1, v, h) /\ Step(Constant(x), b+2, v, h)
      /\ Step(Truncate(b+1, size), b+3, v, h) /\ Step(BiOp("Shl", b+3, b+2), b+4, v, h)
      /\ Step(Truncate(b+4, size), b+5, v, h) /\ Step(StoreContext(b+5, rm), b+6, v, h)
      /\ Len(ShlImmOp(i, b).ops) = 6
  BY <1>1 DEF Steps
<1>3. /\ (b+1) - 1 = b /\ (b+2) - 1 = b+1 /\ (b+3) - 1 = b+2 /\ (b+4) - 1 = b+3
      /\ (b+5) - 1 = b+4 /\ (b+6) - 1 = b+5
  OBVIOUS
<1>4. v[b+1] = c[rm] /\ h[b+1] = c
  BY <1>2, <1>3, StepLoad
<1>5. Wrap(x, 8) = x /\ 2^x \in Int
  <2>1. x \in 0..(Bits(8) - 1) /\ Bits(8) \in Nat /\ 2^Bits(8) \in Nat /\ Bits(8) < 2^Bits(8)
    BY <1>0, Powers
  <2>2. x \in Word /\ x \in 0..Bits(8)
    BY <2>1 DEF Word
  <2>3. 2^x \in Nat
    BY <2>2, PowersAssumption
  <2> QED
    BY <2>2, <2>3, WrapFits
<1>6. v[b+2] = x /\ h[b+2] = c
  BY <1>2, <1>3, <1>4, <1>5, StepConstant
<1>7. v[b+3] = Wrap(c[rm], size) /\ h[b+3] = c
  BY <1>2, <1>3, <1>4, <1>6, StepCut
<1>8. v[b+4] = Wrap(Wrap(c[rm], size) * 2^x, 8) /\ h[b+4] = c
  BY <1>2, <1>3, <1>6, <1>7, StepBiOp
<1>9. v[b+5] = Wrap(Wrap(Wrap(c[rm], size) * 2^x, 8), size) /\ h[b+5] = c
  BY <1>2, <1>3, <1>8, StepCut
<1>10. Wrap(Wrap(Wrap(c[rm], size) * 2^x, 8), size) = Wrap(c[rm] * 2^x, size)
  <2>1. rm \in 0..17 /\ size \in {4, 8}
    BY <1>0, Operands DEF Instruction
  <2>2. c[rm] \in Int
    BY <2>1, ContextWord
  <2>3. Wrap(c[rm], size) \in Int
    BY <2>1, <2>2, WrapWord, WordNat
  <2>4. Wrap(c[rm], size) * 2^x \in Int
    BY <1>5, <2>3
  <2>5. Wrap(Wrap(Wrap(c[rm], size) * 2^x, 8), size) = Wrap(Wrap(c[rm], size) * 2^x, size)
    BY <2>1, <2>4, WrapWrap
  <2> QED
    BY <1>5, <2>1, <2>2, <2>5, WrapProduct
<1> QED
  BY <1>0, <1>2, <1>3, <1>9, <1>10, StepStore

LEMMA XorEffect ==
  ASSUME NEW i \in Instruction, NEW b \in Nat, NEW c \in Context, NEW v, NEW h, h[b] = c,
         Succeeds(XorOp(i, b)), Steps(XorOp(i, b).ops, b, v, h)
  PROVE  h[b + Len(XorOp(i, b).ops)] =
           Put(c, RMOf(i.enc), Wrap(BitXor(Wrap(c[RMOf(i.enc)], OpSize(i.enc)),
                                           Wrap(c[RegOf(i.enc)], OpSize(i.enc))), OpSize(i.enc)))
<1> USE DEF Succeeds
<1>0. PICK rm, reg, size : rm = RMOf(i.enc) /\ reg = RegOf(i.enc) /\ size = OpSize(i.enc)
  OBVIOUS
<1>1. XorOp(i, b).ops = <<LoadContext(rm), LoadContext(reg), Truncate(b+1, size), Truncate(b+2, size),
                          BiOp("Xor", b+3, b+4), Truncate(b+5, size), StoreContext(b+6, rm)>>
  BY <1>0 DEF XorOp, Result
<1>2. /\ Step(LoadContext(rm), b+1, v, h) /\ Step(LoadContext(reg), b+2, v, h)
      /\ Step(Truncate(b+1, size), b+3, v, h) /\ Step(Truncate(b+2, size), b+4, v, h)
      /\ Step(BiOp("Xor", b+3, b+4), b+5, v, h) /\ Step(Truncate(b+5, size), b+6, v, h)
      /\ Step(StoreContext(b+6, rm), b+7, v, h) /\ Len(XorOp(i, b).ops) = 7
  BY <1>1 DEF Steps
<1>3. /\ (b+1) - 1 = b /\ (b+2) - 1 = b+1 /\ (b+3) - 1 = b+2 /\ (b+4) - 1 = b+3
      /\ (b+5) - 1 = b+4 /\ (b+6) - 1 = b+5 /\ (b+7) - 1 = b+6
  OBVIOUS
<1>4. v[b+1] = c[rm] /\ h[b+1] = c
  BY <1>2, <1>3, StepLoad
<1>5. v[b+2] = c[reg] /\ h[b+2] = c
  BY <1>2, <1>3, <1>4, StepLoad
<1>6. v[b+3] = Wrap(c[rm], size) /\ h[b+3] = c
  BY <1>2, <1>3, <1>4, <1>5, StepCut
<1>7. v[b+4] = Wrap(c[reg], size) /\ h[b+4] = c
  BY <1>2, <1>3, <1>5, <1>6, StepCut
<1>8. v[b+5] = BitXor(Wrap(c[rm], size), Wrap(c[reg], size)) /\ h[b+5] = c
  BY <1>2, <1>3, <1>6, <1>7, StepBiOp
<1>9. v[b+6] = Wrap(BitXor(Wrap(c[rm], size), Wrap(c[reg], size)), size) /\ h[b+6] = c
  BY <1>2, <1>3, <1>8, StepCut
<1> QED
  BY <1>0, <1>2, <1>3, <1>9, StepStore

CallKernel(c) == Put(c, 0, Kernel(<<c[0], c[7], c[6], c[2], c[10], c[8], c[9]>>))
LEMMA SyscallEffect ==
  ASSUME NEW b \in Nat, NEW c, NEW v, NEW h, h[b] = c, Steps(SyscallOp(b).ops, b, v, h)
  PROVE  h[b + Len(SyscallOp(b).ops)] = CallKernel(c)
<1> DEFINE loads == [l \in 1..7 |-> LoadContext(GPRIndexes[l])]
           call == Op("Syscall", [l \in 1..7 |-> b + l], 0)
           rest == <<call, StoreContext(b+8, 0)>>
           s == SyscallOp(b).ops
<1>1. s = loads \o rest
  BY DEF SyscallOp, Result
<1>2. Len(loads) = 7 /\ Len(rest) = 2
  OBVIOUS
<1>3. /\ Len(s) = 9 /\ \A k \in 1..7 : s[k] = loads[k]
      /\ s[8] = call /\ s[9] = StoreContext(b+8, 0)
  BY <1>1, <1>2
<1>4. \A k \in 1..7 : s[k] = LoadContext(GPRIndexes[k])
  BY <1>3
<1> HIDE DEF s, loads, rest, call
<1>5. \A k \in 1..9 : Step(s[k], b + k, v, h)
  BY <1>3 DEF Steps, s
<1>6. /\ (b+1) - 1 = b /\ (b+2) - 1 = b+1 /\ (b+3) - 1 = b+2 /\ (b+4) - 1 = b+3 /\ (b+5) - 1 = b+4
      /\ (b+6) - 1 = b+5 /\ (b+7) - 1 = b+6 /\ (b+8) - 1 = b+7 /\ (b+9) - 1 = b+8
  OBVIOUS
<1>7. /\ Step(LoadContext(0), b+1, v, h) /\ Step(LoadContext(7), b+2, v, h)
      /\ Step(LoadContext(6), b+3, v, h) /\ Step(LoadContext(2), b+4, v, h)
      /\ Step(LoadContext(10), b+5, v, h) /\ Step(LoadContext(8), b+6, v, h)
      /\ Step(LoadContext(9), b+7, v, h)
  BY <1>4, <1>5 DEF GPRIndexes
<1>8. v[b+1] = c[0] /\ h[b+1] = c
  BY <1>6, <1>7, StepLoad
<1>9. v[b+2] = c[7] /\ h[b+2] = c
  BY <1>6, <1>7, <1>8, StepLoad
<1>10. v[b+3] = c[6] /\ h[b+3] = c
  BY <1>6, <1>7, <1>9, StepLoad
<1>11. v[b+4] = c[2] /\ h[b+4] = c
  BY <1>6, <1>7, <1>10, StepLoad
<1>12. v[b+5] = c[10] /\ h[b+5] = c
  BY <1>6, <1>7, <1>11, StepLoad
<1>13. v[b+6] = c[8] /\ h[b+6] = c
  BY <1>6, <1>7, <1>12, StepLoad
<1>14. v[b+7] = c[9] /\ h[b+7] = c
  BY <1>6, <1>7, <1>13, StepLoad
<1>15. v[b+8] = Kernel([k \in 1..7 |-> v[b + k]]) /\ h[b+8] = c
  <2>1. Step(call, b+8, v, h)
    BY <1>3, <1>5
  <2> QED
    BY <1>6, <1>14, <2>1, StepSyscall DEF call
<1>16. [k \in 1..7 |-> v[b + k]] = <<c[0], c[7], c[6], c[2], c[10], c[8], c[9]>>
  BY <1>8, <1>9, <1>10, <1>11, <1>12, <1>13, <1>14
<1>17. Step(StoreContext(b+8, 0), b+9, v, h)
  BY <1>3, <1>5
<1>18. h[b+9] = Put(c, 0, v[b+8])
  BY <1>6, <1>15, <1>17, StepStore
<1> QED
  BY <1>3, <1>15, <1>16, <1>18 DEF s, CallKernel

\* A shift to the right stays within the word.
LEMMA Quotient ==
  ASSUME NEW x \in Nat, NEW m \in Nat, m > 0
  PROVE  x \div m \in 0..x
<1>1. PICK q, r : q = x \div m /\ r = x % m
  OBVIOUS
<1>2. q \in Int /\ r \in 0..(m - 1) /\ x = m * q + r
  BY <1>1, Division
<1>3. q >= 0
  <2> SUFFICES ASSUME q < 0 PROVE FALSE
    BY <1>2
  <2>1. m * q <= -m
    BY <1>2
  <2> QED
    BY <1>2, <2>1
<1>4. m * q >= q
  BY <1>2, <1>3
<1> QED
  BY <1>1, <1>2, <1>3, <1>4

LEMMA BTEffect ==
  ASSUME NEW i \in Instruction, NEW b \in Nat, NEW c \in Context, NEW v, NEW h, h[b] = c,
         Succeeds(BTOp(i, b)), Steps(BTOp(i, b).ops, b, v, h)
  PROVE  /\ FlagOf(c[RMOf(i.enc)], c[RegOf(i.enc)] % Bits(4)) \in 0..1
         /\ h[b + Len(BTOp(i, b).ops)] =
              Put(c, RFLAGS, WithFlag(c[RFLAGS], 0, FlagOf(c[RMOf(i.enc)], c[RegOf(i.enc)] % Bits(4))))
<1> USE DEF Succeeds
<1>0. PICK rm, reg, k : rm = RMOf(i.enc) /\ reg = RegOf(i.enc) /\ k = Bits(4) - 1
  OBVIOUS
<1>1. PICK ops, hd, cf : ops = BTOp(i, b).ops /\ hd = BTHead(i, b) /\ cf = SetCF(b+5, b+5)
  OBVIOUS
<1>2. hd \in Seq(IROp) /\ Len(hd) = 5
  BY <1>1, BTHeadFormed DEF FormedSeq
<1>3. cf \in Seq(IROp) /\ Len(cf) = 6
  <2>1. FormedSeq(i, b, b+5, SetCF(b+5, b+5)) /\ Len(SetCF(b+5, b+5)) = 6
    BY SetCFFormed, b+5 \in Nat DEF SetCF
  <2> QED
    BY <1>1, <2>1 DEF FormedSeq
<1>4. ops = hd \o cf /\ Steps(ops, b, v, h)
  BY <1>1 DEF BTOp, BTHead, Result
<1>5. Steps(hd, b, v, h) /\ Steps(cf, b+5, v, h) /\ Len(ops) = 11
  <2>1. Steps(hd \o cf, b, v, h)
    BY <1>4
  <2>2. /\ Steps(hd, b, v, h) /\ Steps(cf, b + Len(hd), v, h)
        /\ Len(hd \o cf) = Len(hd) + Len(cf)
    BY <1>2, <1>3, <2>1, StepsConcat, Zenon
  <2> QED
    BY <1>2, <1>3, <1>4, <2>2
<1>6. /\ Step(LoadContext(rm), b+1, v, h) /\ Step(LoadContext(reg), b+2, v, h)
      /\ Step(Constant(k), b+3, v, h) /\ Step(BiOp("And", b+2, b+3), b+4, v, h)
      /\ Step(BiOp("BitExtract", b+1, b+4), b+5, v, h)
  <2>1. hd = <<LoadContext(rm), LoadContext(reg), Constant(k), BiOp("And", b+2, b+3),
               BiOp("BitExtract", b+1, b+4)>>
    BY <1>0, <1>1 DEF BTHead
  <2>2. Steps(hd, b, v, h)
    BY <1>5
  <2> QED
    BY <2>1, <2>2 DEF Steps
<1>7. /\ (b+1) - 1 = b /\ (b+2) - 1 = b+1 /\ (b+3) - 1 = b+2 /\ (b+4) - 1 = b+3
      /\ (b+5) - 1 = b+4
  OBVIOUS
<1>8. rm \in 0..17 /\ reg \in 0..17
  BY <1>0, Operands DEF Instruction
<1>9. c[rm] \in Word /\ c[reg] \in Word /\ c[RFLAGS] \in Word
  BY <1>8, ContextWord DEF RFLAGS
<1>10. Wrap(k, 8) = k /\ c[reg] % Bits(4) \in 0..Bits(8)
  <2>1. Bits(4) \in Nat /\ Bits(4) >= 8 /\ Bits(8) = Bits(4) + Bits(4) /\ Bits(8) < 2^Bits(8) /\ 2^Bits(8) \in Nat
    BY Powers, ByteBitsAssumption DEF Bits
  <2>2. k \in Word
    BY <1>0, <2>1 DEF Word
  <2>3. c[reg] % Bits(4) \in 0..(Bits(4) - 1)
    BY <1>9, <2>1, WordNat, Division
  <2> QED
    BY <2>1, <2>2, <2>3, WrapFits
<1>11. v[b+1] = c[rm] /\ h[b+1] = c
  BY <1>6, <1>7, StepLoad
<1>12. v[b+2] = c[reg] /\ h[b+2] = c
  BY <1>6, <1>7, <1>11, StepLoad
<1>13. v[b+3] = k /\ h[b+3] = c
  BY <1>6, <1>7, <1>10, <1>12, StepConstant
<1>14. v[b+4] = c[reg] % Bits(4) /\ h[b+4] = c
  <2>1. v[b+4] = BitAnd(v[b+2], v[b+3]) /\ h[b+4] = h[b+3]
    BY <1>6, <1>7, StepBiOp
  <2>2. BitAnd(c[reg], Bits(4) - 1) = c[reg] % Bits(4)
    BY <1>9, MaskAssumption
  <2> QED
    BY <1>0, <1>12, <1>13, <2>1, <2>2
<1>15. PICK f : f = FlagOf(c[rm], c[reg] % Bits(4))
  OBVIOUS
<1>16. v[b+5] = f /\ h[b+5] = c
  BY <1>6, <1>7, <1>11, <1>14, <1>15, StepBiOp DEF FlagOf
<1>17. f \in 0..1
  <2>1. PICK w : w = 2^(c[reg] % Bits(4))
    OBVIOUS
  <2>2. w \in Nat /\ w > 0
    BY <1>10, <2>1, PowersAssumption
  <2>3. PICK z : z = c[rm] \div w
    OBVIOUS
  <2>4. z \in Int
    BY <1>9, <2>2, <2>3, WordNat, Quotient
  <2>5. f = z % 2
    BY <1>15, <2>1, <2>3 DEF FlagOf
  <2> QED
    BY <2>4, <2>5
<1>18. f \in Word /\ f % 2 = f
  BY <1>17, SmallWord
<1>19. h[(b+5)+6] = Put(h[b+5], RFLAGS, WithFlag(h[b+5][RFLAGS], 0, v[b+5] % 2))
  BY <1>1, <1>5, <1>9, <1>16, <1>18, SetCFEffect, b+5 \in Nat
<1> QED
  BY <1>0, <1>1, <1>5, <1>15, <1>16, <1>17, <1>18, <1>19

LEMMA CMPEffect ==
  ASSUME NEW i \in Instruction, NEW b \in Nat, NEW JITRIP, NEW c \in Context, NEW v, NEW h, h[b] = c,
         Succeeds(CMPOp(i, b, JITRIP)), Steps(CMPOp(i, b, JITRIP).ops, b, v, h)
  PROVE  h[b + Len(CMPOp(i, b, JITRIP).ops)] =
           Put(c, RFLAGS, WithFlag(c[RFLAGS], 6, IF c[RMOf(i.enc)] = c[RegOf(i.enc)] THEN 0 ELSE 1))
<1> USE DEF Succeeds
<1>0. PICK rm, reg : rm = RMOf(i.enc) /\ reg = RegOf(i.enc)
  OBVIOUS
<1>1. PICK ops, hd, zf : ops = CMPOp(i, b, JITRIP).ops /\ hd = CMPHead(i, b) /\ zf = SetFlag(b+6, b+6, 6)
  OBVIOUS
<1>2. hd \in Seq(IROp) /\ Len(hd) = 6
  BY <1>1, CMPHeadFormed DEF FormedSeq
<1>3. zf \in Seq(IROp) /\ Len(zf) = 9
  <2>1. FormedSeq(i, b, b+6, SetFlag(b+6, b+6, 6)) /\ Len(SetFlag(b+6, b+6, 6)) = 9
    BY SetFlagFormed, b+6 \in Nat
  <2> QED
    BY <1>1, <2>1 DEF FormedSeq
<1>4. ops = hd \o zf /\ Steps(ops, b, v, h)
  <2>1. ~(NotRegister(i.enc) \/ JITRIP # CMPAddress)
    BY DEF CMPOp, Result
  <2> QED
    BY <1>1, <2>1 DEF CMPOp, CMPHead, Result
<1>5. Steps(hd, b, v, h) /\ Steps(zf, b+6, v, h) /\ Len(ops) = 15
  <2>1. Steps(hd \o zf, b, v, h)
    BY <1>4
  <2>2. /\ Steps(hd, b, v, h) /\ Steps(zf, b + Len(hd), v, h)
        /\ Len(hd \o zf) = Len(hd) + Len(zf)
    BY <1>2, <1>3, <2>1, StepsConcat, Zenon
  <2> QED
    BY <1>2, <1>3, <1>4, <2>2
<1>6. /\ Step(LoadContext(reg), b+1, v, h) /\ Step(LoadContext(rm), b+2, v, h)
      /\ Step(BiOp("Sub", b+2, b+1), b+3, v, h) /\ Step(Constant(1), b+4, v, h)
      /\ Step(Constant(0), b+5, v, h) /\ Step(Op("Select", <<b+1, b+2, b+5, b+4>>, 0), b+6, v, h)
  <2>1. hd = <<LoadContext(reg), LoadContext(rm), BiOp("Sub", b+2, b+1), Constant(1), Constant(0),
               Op("Select", <<b+1, b+2, b+5, b+4>>, 0)>>
    BY <1>0, <1>1 DEF CMPHead
  <2>2. Steps(hd, b, v, h)
    BY <1>5
  <2> QED
    BY <2>1, <2>2 DEF Steps
<1>7. /\ (b+1) - 1 = b /\ (b+2) - 1 = b+1 /\ (b+3) - 1 = b+2 /\ (b+4) - 1 = b+3
      /\ (b+5) - 1 = b+4 /\ (b+6) - 1 = b+5
  OBVIOUS
<1>8. v[b+1] = c[reg] /\ h[b+1] = c
  BY <1>6, <1>7, StepLoad
<1>9. v[b+2] = c[rm] /\ h[b+2] = c
  BY <1>6, <1>7, <1>8, StepLoad
<1>10. h[b+3] = c
  BY <1>6, <1>7, <1>9, StepBiOp
<1>11. v[b+4] = 1 /\ h[b+4] = c
  BY <1>6, <1>7, <1>10, StepConstant, SmallWord
<1>12. v[b+5] = 0 /\ h[b+5] = c
  BY <1>6, <1>7, <1>11, StepConstant, SmallWord
<1>13. PICK f : f = IF c[rm] = c[reg] THEN 0 ELSE 1
  OBVIOUS
<1>14. v[b+6] = f /\ h[b+6] = c
  <2>1. v[b+6] = (IF v[b+1] = v[b+2] THEN v[b+5] ELSE v[b+4]) /\ h[b+6] = h[b+5]
    BY <1>6, <1>7, StepSelect
  <2> QED
    BY <1>8, <1>9, <1>11, <1>12, <1>13, <2>1
<1>15. f \in Word /\ f % 2 = f
  BY <1>13, SmallWord
<1>16. c[RFLAGS] \in Word
  BY ContextWord DEF RFLAGS
<1>17. h[(b+6)+9] = Put(h[b+6], RFLAGS, WithFlag(h[b+6][RFLAGS], 6, v[b+6] % 2))
  BY <1>1, <1>5, <1>14, <1>15, <1>16, SetFlagEffect, b+6 \in Nat
<1> QED
  BY <1>0, <1>1, <1>5, <1>13, <1>14, <1>15, <1>17

\* The bit that becomes SF.
LEMMA SignBitPower ==
  ASSUME NEW i \in Instruction
  PROVE  Wrap(SignBit(i), 8) = SignBit(i) /\ 2^SignBit(i) \in Nat /\ 2^SignBit(i) > 0
<1>1. PICK size : size = IF HasREX(i.enc) THEN 8 ELSE OpSize(i.enc)
  OBVIOUS
<1>2. size \in {2, 4, 8}
  BY <1>1, Operands DEF Instruction
<1>3. SignBit(i) = (size * ByteBits) \div 2 - 1 /\ Bits(8) = 8 * ByteBits
  BY <1>1 DEF SignBit, Bits
<1>4. SignBit(i) \in 0..Bits(8) /\ Bits(8) \in Nat
  BY <1>2, <1>3, ByteBitsAssumption
<1>5. Bits(8) < 2^Bits(8) /\ 2^Bits(8) \in Nat
  BY Powers
<1>6. SignBit(i) \in Word
  BY <1>4, <1>5 DEF Word
<1>7. 2^SignBit(i) \in Nat /\ SignBit(i) < 2^SignBit(i)
  BY <1>4, PowersAssumption
<1> QED
  BY <1>4, <1>6, <1>7, WrapFits

LEMMA PutTypes ==
  ASSUME NEW c \in Context, NEW r \in 0..17, NEW x \in Word
  PROVE  Put(c, r, x) \in Context
  BY DEF Put, Context

LEMMA PutAt ==
  ASSUME NEW c, DOMAIN c = 0..17, NEW r \in 0..17, NEW x
  PROVE  /\ DOMAIN Put(c, r, x) = 0..17
         /\ Put(c, r, x)[r] = x
         /\ \A k \in 0..17 : k # r => Put(c, r, x)[k] = c[k]
  BY DEF Put

LEMMA AddImmModRMEffect ==
  ASSUME NEW i \in Instruction, NEW b \in Nat, NEW c \in Context, NEW v, NEW h, h[b] = c,
         Succeeds(AddImmModRMOp(i, b)), Steps(AddImmModRMOp(i, b).ops, b, v, h)
  PROVE  \E x, y \in 0..1 :
           h[b + Len(AddImmModRMOp(i, b).ops)] =
             Put(Put(Put(c, RMOf(i.enc), Wrap(c[RMOf(i.enc)] + i.imm, 8)),
                     RFLAGS, WithFlag(c[RFLAGS], 7, x)),
                 RFLAGS, WithFlag(WithFlag(c[RFLAGS], 7, x), 6, y))
<1> USE DEF Succeeds
<1>0. PICK rm, imm, k : rm = RMOf(i.enc) /\ imm = i.imm /\ k = SignBit(i)
  OBVIOUS
<1>1. PICK ops, hd, sf, mid, zf :
        /\ ops = AddImmModRMOp(i, b).ops /\ hd = AddImmHead(i, b) /\ sf = SetFlag(b+6, b+6, 7)
        /\ mid = AddImmMid(b) /\ zf = SetFlag(b+18, b+18, 6)
  OBVIOUS
<1>2. hd \in Seq(IROp) /\ Len(hd) = 6 /\ mid \in Seq(IROp) /\ Len(mid) = 3
  BY <1>1, AddImmHeadFormed, AddImmMidFormed DEF FormedSeq
<1>3. sf \in Seq(IROp) /\ Len(sf) = 9 /\ zf \in Seq(IROp) /\ Len(zf) = 9
  <2>1. FormedSeq(i, b, b+6, SetFlag(b+6, b+6, 7)) /\ Len(SetFlag(b+6, b+6, 7)) = 9
    BY SetFlagFormed, b+6 \in Nat
  <2>2. FormedSeq(i, b, b+18, SetFlag(b+18, b+18, 6)) /\ Len(SetFlag(b+18, b+18, 6)) = 9
    BY SetFlagFormed, b+18 \in Nat
  <2> QED
    BY <1>1, <2>1, <2>2 DEF FormedSeq
<1>4. ops = ((hd \o sf) \o mid) \o zf /\ Steps(ops, b, v, h)
  <2>1. ~NotRegister(i.enc)
    BY DEF AddImmModRMOp, Result
  <2> QED
    BY <1>1, <2>1 DEF AddImmModRMOp, AddImmHead, AddImmMid, SignBit, Result
<1>5. PICK hs, hsm : hs = hd \o sf /\ hsm = hs \o mid
  OBVIOUS
<1>6. hs \in Seq(IROp) /\ Len(hs) = 15
  <2>1. hd \o sf \in Seq(IROp) /\ Len(hd \o sf) = Len(hd) + Len(sf)
    BY <1>2, <1>3, ConcatAt
  <2> QED
    BY <1>2, <1>3, <1>5, <2>1
<1>7. hsm \in Seq(IROp) /\ Len(hsm) = 18
  <2>1. hs \o mid \in Seq(IROp) /\ Len(hs \o mid) = Len(hs) + Len(mid)
    BY <1>2, <1>6, ConcatAt
  <2> QED
    BY <1>2, <1>5, <1>6, <2>1
<1>8. Steps(hsm, b, v, h) /\ Steps(zf, b+18, v, h) /\ Len(ops) = 27
  <2>1. Steps(hsm \o zf, b, v, h) /\ ops = hsm \o zf
    BY <1>4, <1>5
  <2>2. /\ Steps(hsm, b, v, h) /\ Steps(zf, b + Len(hsm), v, h)
        /\ Len(hsm \o zf) = Len(hsm) + Len(zf)
    BY <1>3, <1>7, <2>1, StepsConcat, Zenon
  <2> QED
    BY <1>3, <1>7, <2>1, <2>2
<1>9. Steps(hs, b, v, h) /\ Steps(mid, b+15, v, h)
  <2>1. Steps(hs \o mid, b, v, h)
    BY <1>5, <1>8
  <2>2. Steps(hs, b, v, h) /\ Steps(mid, b + Len(hs), v, h)
    BY <1>2, <1>6, <2>1, StepsConcat, Zenon
  <2> QED
    BY <1>6, <2>2
<1>10. Steps(hd, b, v, h) /\ Steps(sf, b+6, v, h)
  <2>1. Steps(hd \o sf, b, v, h)
    BY <1>5, <1>9
  <2>2. Steps(hd, b, v, h) /\ Steps(sf, b + Len(hd), v, h)
    BY <1>2, <1>3, <2>1, StepsConcat, Zenon
  <2> QED
    BY <1>2, <2>2
<1>11. /\ Step(LoadContext(rm), b+1, v, h) /\ Step(Constant(imm), b+2, v, h)
       /\ Step(BiOp("Add", b+1, b+2), b+3, v, h) /\ Step(StoreContext(b+3, rm), b+4, v, h)
       /\ Step(Constant(k), b+5, v, h) /\ Step(BiOp("Shr", b+1, b+5), b+6, v, h)
  <2>1. hd = <<LoadContext(rm), Constant(imm), BiOp("Add", b+1, b+2), StoreContext(b+3, rm),
               Constant(k), BiOp("Shr", b+1, b+5)>>
    BY <1>0, <1>1 DEF AddImmHead
  <2>2. Steps(hd, b, v, h)
    BY <1>10
  <2> QED
    BY <2>1, <2>2 DEF Steps
<1>12. /\ Step(Constant(1), b+16, v, h) /\ Step(Constant(0), b+17, v, h)
       /\ Step(Op("Select", <<b+3, b+16, b+17, b+16>>, 0), b+18, v, h)
  <2>1. mid = <<Constant(1), Constant(0), Op("Select", <<b+3, b+16, b+17, b+16>>, 0)>>
    BY <1>1 DEF AddImmMid
  <2>2. Steps(mid, b+15, v, h) /\ (b+15)+1 = b+16 /\ (b+15)+2 = b+17 /\ (b+15)+3 = b+18
    BY <1>9
  <2>3. /\ Step(Constant(1), (b+15)+1, v, h) /\ Step(Constant(0), (b+15)+2, v, h)
        /\ Step(Op("Select", <<b+3, b+16, b+17, b+16>>, 0), (b+15)+3, v, h)
    BY <2>1, <2>2 DEF Steps
  <2> QED
    BY <2>2, <2>3
<1>13. /\ (b+1) - 1 = b /\ (b+2) - 1 = b+1 /\ (b+3) - 1 = b+2 /\ (b+4) - 1 = b+3
       /\ (b+5) - 1 = b+4 /\ (b+6) - 1 = b+5
       /\ (b+16) - 1 = b+15 /\ (b+17) - 1 = b+16 /\ (b+18) - 1 = b+17
  OBVIOUS
<1>14. rm \in 0..15 /\ rm \in 0..17 /\ imm \in Int
  BY <1>0, Operands DEF Instruction
<1>15. c[rm] \in Word /\ c[rm] \in Int /\ c[rm] \in Nat /\ c[RFLAGS] \in Word
  BY <1>14, ContextWord, WordNat DEF RFLAGS
<1>16. v[b+1] = c[rm] /\ h[b+1] = c
  BY <1>11, <1>13, StepLoad
<1>17. v[b+2] = Wrap(imm, 8) /\ h[b+2] = c
  BY <1>11, <1>13, <1>16, StepConstant
<1>18. v[b+3] = Wrap(c[rm] + imm, 8) /\ h[b+3] = c
  <2>1. v[b+3] = Wrap(c[rm] + Wrap(imm, 8), 8) /\ h[b+3] = c
    BY <1>11, <1>13, <1>16, <1>17, StepBiOp
  <2> QED
    BY <1>14, <1>15, <2>1, WrapSum
<1>19. PICK d : d = Put(c, rm, Wrap(c[rm] + imm, 8))
  OBVIOUS
<1>20. h[b+4] = d
  BY <1>11, <1>13, <1>18, <1>19, StepStore
<1>21. Wrap(c[rm] + imm, 8) \in Word
  <2>1. c[rm] + imm \in Int
    BY <1>14, <1>15
  <2> QED
    BY <2>1, WrapWord
<1>22. d \in Context /\ d[RFLAGS] = c[RFLAGS]
  <2>1. DOMAIN c = 0..17 /\ RFLAGS \in 0..17 /\ RFLAGS # rm
    BY <1>14 DEF Context, RFLAGS
  <2>2. d \in Context
    BY <1>14, <1>19, <1>21, PutTypes
  <2> QED
    BY <1>14, <1>19, <2>1, <2>2, PutAt
<1>23. v[b+5] = k /\ h[b+5] = d
  BY <1>0, <1>11, <1>13, <1>20, StepConstant, SignBitPower
<1>24. v[b+6] = c[rm] \div 2^k /\ h[b+6] = d
  BY <1>11, <1>13, <1>16, <1>23, StepBiOp
<1>25. v[b+6] \in Word
  <2>1. PICK w : w = 2^k
    OBVIOUS
  <2>2. w \in Nat /\ w > 0
    BY <1>0, <2>1, SignBitPower
  <2>3. v[b+6] \in 0..c[rm]
    BY <1>15, <1>24, <2>1, <2>2, Quotient
  <2>4. c[rm] < 2^Bits(8) /\ 2^Bits(8) \in Nat
    BY <1>15, WordNat
  <2> QED
    BY <1>15, <2>3, <2>4 DEF Word
<1>26. PICK x, f : x = v[b+6] % 2 /\ f = WithFlag(c[RFLAGS], 7, x)
  OBVIOUS
<1>27. x \in 0..1
  BY <1>25, <1>26, WordNat
<1>28. f \in Word
  BY <1>15, <1>26, <1>27, FlagWord
<1>29. h[b+15] = Put(d, RFLAGS, f)
  <2>1. h[(b+6)+9] = Put(h[b+6], RFLAGS, WithFlag(h[b+6][RFLAGS], 7, v[b+6] % 2))
    BY <1>1, <1>10, <1>15, <1>22, <1>24, <1>25, SetFlagEffect, b+6 \in Nat
  <2>2. (b+6)+9 = b+15
    OBVIOUS
  <2> QED
    BY <1>22, <1>24, <1>26, <2>1, <2>2
<1>30. PICK g : g = Put(d, RFLAGS, f)
  OBVIOUS
<1>31. g[RFLAGS] = f
  BY <1>22, <1>30, PutAt DEF Context, RFLAGS
<1>32. v[b+16] = 1 /\ h[b+16] = g
  BY <1>12, <1>13, <1>29, <1>30, StepConstant, SmallWord
<1>33. v[b+17] = 0 /\ h[b+17] = g
  BY <1>12, <1>13, <1>32, StepConstant, SmallWord
<1>34. PICK y : y = v[b+18]
  OBVIOUS
<1>35. y \in 0..1 /\ h[b+18] = g
  <2>1. v[b+18] = (IF v[b+3] = v[b+16] THEN v[b+17] ELSE v[b+16]) /\ h[b+18] = h[b+17]
    BY <1>12, <1>13, StepSelect
  <2> QED
    BY <1>32, <1>33, <1>34, <2>1
<1>36. y \in Word /\ y % 2 = y
  BY <1>35, SmallWord
<1>37. h[(b+18)+9] = Put(h[b+18], RFLAGS, WithFlag(h[b+18][RFLAGS], 6, v[b+18] % 2))
  BY <1>1, <1>8, <1>28, <1>31, <1>34, <1>35, <1>36, SetFlagEffect, b+18 \in Nat
<1>38. h[b+27] = Put(g, RFLAGS, WithFlag(f, 6, y))
  <2>1. (b+18)+9 = b+27
    OBVIOUS
  <2> QED
    BY <1>31, <1>34, <1>35, <1>36, <1>37, <2>1
<1>39. b + Len(AddImmModRMOp(i, b).ops) = b+27
  BY <1>1, <1>8
<1>40. h[b+27] = Put(Put(Put(c, rm, Wrap(c[rm] + imm, 8)), RFLAGS, WithFlag(c[RFLAGS], 7, x)),
                     RFLAGS, WithFlag(WithFlag(c[RFLAGS], 7, x), 6, y))
  BY <1>19, <1>26, <1>30, <1>38
<1> QED
  BY <1>0, <1>27, <1>35, <1>39, <1>40

----------------------------------------------------------------------------
(* What an instruction leaves, compared with the architecture.             *)

\* Which instructions end a block, and which of them set rip.
LEMMA InfoFlags ==
  ASSUME NEW i, Valid(i)
  PROVE  /\ "SETS_RIP" \in Info(i).flags <=> i.enc.map = "base" /\ i.enc.op \in {\hC3, \hFF}
         /\ "BLOCK_END" \in Info(i).flags <=> \/ i.enc.map = "base" /\ i.enc.op \in {\hC3, \hFF}
                                              \/ i.enc.map = "two" /\ i.enc.op = \h05
<1> DEFINE op == i.enc.op
<1>1. CASE i.enc.map = "two"
  <2>1. op \in {\h05, \h1F, \hA3} /\ Info(i) = SecondBaseOps[op]
    BY <1>1 DEF Valid, HasHandler, Info, InstInfo
  <2>2. Info(i).flags = IF op = \h05 THEN {"BLOCK_END"} ELSE {"HAS_MODRM"}
    BY <2>1 DEF SecondBaseOps, Inst, Entry, Byte
  <2> QED
    BY <1>1, <2>2
<1>2. CASE i.enc.map = "base" /\ op \in {\h83, \hC1, \hFF}
  <2>1. op \in ModRMTablePrefix /\ Reg(i.enc.next) \in 0..7 /\ (op = \hFF => Reg(i.enc.next) = 4)
    BY <1>2 DEF Valid, HasHandler, ModRMTablePrefix
  <2>2. Info(i) = ModRMOps[op][Reg(i.enc.next)]
    BY <1>2, <2>1 DEF Info, InstInfo
  <2>3. CASE op = \hFF
    <3>1. Info(i) = IndirectJump
      BY <2>1, <2>2, <2>3 DEF ModRMOps
    <3> QED
      BY <1>2, <2>3, <3>1 DEF IndirectJump, Inst, Entry
  <2>4. CASE op \in {\h83, \hC1}
    <3>1. Info(i) = Inst({"HAS_MODRM"}, 1)
      BY <2>1, <2>2, <2>4 DEF ModRMOps
    <3> QED
      BY <1>2, <2>4, <3>1 DEF Inst, Entry
  <2> QED
    BY <1>2, <2>3, <2>4
<1>3. CASE i.enc.map = "base" /\ op \in {\h01, \h03, \h05, \h31, \h39, \h89, \h8D, \h90} \cup \h70..\h7F
  <2>1. op \in Byte /\ op \notin ModRMTablePrefix
    BY <1>3 DEF ModRMTablePrefix, Byte
  <2>2. Info(i) = BaseOps[op]
    BY <1>3, <2>1 DEF Info, InstInfo
  <2>a. op \notin LegacyPrefix /\ op \notin REXPrefix
    BY <1>3 DEF LegacyPrefix, REXPrefix
  <2>3. CASE op \in {\h01, \h03, \h05, \h31, \h39, \h89, \h8D, \h90}
    <3>1. Info(i) \in {Inst({"HAS_MODRM", "DIV_2"}, 0), Inst({"HAS_MODRM"}, 0), Inst({"DIV_2"}, 4), Inst({}, 0)}
      <4>1. CASE op = \h01
        BY <2>1, <2>2, <2>a, <4>1 DEF BaseOps
      <4>2. CASE op = \h03
        BY <2>1, <2>2, <2>a, <4>2 DEF BaseOps
      <4>3. CASE op = \h05
        BY <2>1, <2>2, <2>a, <4>3 DEF BaseOps
      <4>4. CASE op = \h31
        BY <2>1, <2>2, <2>a, <4>4 DEF BaseOps
      <4>5. CASE op = \h39
        BY <2>1, <2>2, <2>a, <4>5 DEF BaseOps
      <4>6. CASE op = \h89
        BY <2>1, <2>2, <2>a, <4>6 DEF BaseOps
      <4>7. CASE op = \h8D
        BY <2>1, <2>2, <2>a, <4>7 DEF BaseOps
      <4>8. CASE op = \h90
        BY <2>1, <2>2, <2>a, <4>8 DEF BaseOps
      <4> QED
        BY <2>3, <4>1, <4>2, <4>3, <4>4, <4>5, <4>6, <4>7, <4>8
    <3>2. Info(i).flags \subseteq {"HAS_MODRM", "DIV_2"}
      BY <3>1 DEF Inst, Entry
    <3> QED
      BY <1>3, <2>3, <3>2
  <2>4. CASE op \in \h70..\h7F
    <3>1. BaseOps[op] = Inst({}, 1)
      BY <2>1, <2>a, <2>4 DEF BaseOps
    <3> QED
      BY <1>3, <2>2, <2>4, <3>1 DEF Inst, Entry
  <2> QED
    BY <1>3, <2>3, <2>4
<1>4. CASE i.enc.map = "base" /\ op = \hC3
  <2>1. op \in Byte /\ op \notin ModRMTablePrefix
    BY <1>4 DEF ModRMTablePrefix, Byte
  <2>2. Info(i) = BaseOps[op]
    BY <1>4, <2>1 DEF Info, InstInfo
  <2>3. Info(i).flags = {"SETS_RIP", "BLOCK_END"}
    BY <1>4, <2>1, <2>2 DEF BaseOps, Inst, Entry, LegacyPrefix, REXPrefix, ModRMTablePrefix
  <2> QED
    BY <1>4, <2>3
<1> QED
  BY <1>1, <1>2, <1>3, <1>4 DEF Valid, HasHandler

Registers == [0..17 -> Int]
Same(c, a) == \A r \in 0..15 : c[r] = a[r]

\* The code of i has taken CPUState from c to d.
FlagsKept(i, c, d) ==
  /\ \A bit \in 0..11 \ FlagsComputed(i.enc) : FlagOf(d[RFLAGS], bit) = FlagOf(c[RFLAGS], bit)
  /\ i.enc.map = "two" /\ i.enc.op = \hA3 =>
       FlagOf(d[RFLAGS], 0) = FlagOf(c[RMOf(i.enc)], c[RegOf(i.enc)] % Bits(4))
Outcome(i, c, d) ==
  /\ DOMAIN d = 0..17 /\ d[RIP] \in Word
  /\ "SETS_RIP" \notin Info(i).flags => d[RIP] = c[RIP]
  /\ "BLOCK_END" \notin Info(i).flags => d \in Context
  /\ FlagsKept(i, c, d)

\* The architecture has taken the registers, with rip x, to a.
ArchAgrees(i, d, a, x) ==
  /\ Same(d, a)
  /\ a[RIP] = IF "SETS_RIP" \in Info(i).flags THEN d[RIP] ELSE x + Length(i.enc)
  /\ "BLOCK_END" \notin Info(i).flags => a \in Registers
  /\ i.enc.op = \h39 => FlagOf(d[RFLAGS], 6) + FlagOf(a[RFLAGS], 6) = 1

\* What the comparison needs of a covered instruction.
Supported(i) ==
  LET e == i.enc
      wide == REXBit(e, 8)
  IN  /\ e.map = "two" /\ e.op = \hA3 => ~Prefixed(e) /\ ~wide
      /\ e.map = "base" /\ e.op \notin {\h90, \hC3} => ~Prefixed(e)
      /\ e.map = "base" /\ e.op = \h01 => Mod(e.next) = 3
      /\ e.map = "base" /\ e.op = \h03 => Mod(e.next) = 0
      /\ e.map = "base" /\ e.op \in {\h05, \h39, \h83, \h8D} => wide
      /\ e.map = "base" /\ e.op = \h89 => wide \/ ~HasREX(e)

LEMMA SupportedIs ==
  ASSUME NEW k, Valid(block.insts[k]), Covered(k)
  PROVE  Supported(block.insts[k])
<1> DEFINE i == block.insts[k]
           e == i.enc
           wide == REXBit(e, 8)
<1>1. CASE e.map = "two"
  <2>1. e.op \in {\h05, \h1F, \hA3}
    BY <1>1 DEF Valid, HasHandler
  <2> QED
    BY <1>1, <2>1 DEF Supported, Covered
<1>2. CASE e.map = "base"
  <2>1. e.op \notin {\h90, \hC3} => ~Prefixed(e)
    BY <1>2 DEF Covered
  <2>2. e.op = \h01 => Mod(e.next) = 3
    BY <1>2 DEF Covered
  <2>3. e.op = \h03 => Mod(e.next) = 0
    BY <1>2 DEF Covered
  <2>4. e.op \in {\h05, \h39, \h83, \h8D} => wide
    BY <1>2 DEF Covered
  <2>5. e.op = \h89 => wide \/ ~HasREX(e)
    BY <1>2 DEF Covered
  <2> QED
    BY <1>2, <2>1, <2>2, <2>3, <2>4, <2>5 DEF Supported
<1> QED
  BY <1>1, <1>2, EncodingTypes DEF Valid, Instruction

\* A register is written: on both sides.
LEMMA WriteOutcome ==
  ASSUME NEW i, Valid(i), NEW c \in Context, NEW r \in 0..15, NEW y \in Word, NEW d, d = Put(c, r, y),
         ~(i.enc.map = "two" /\ i.enc.op = \hA3)
  PROVE  Outcome(i, c, d)
<1>1. d \in Context
  BY PutTypes, r \in 0..17
<1>2. DOMAIN c = 0..17 /\ RIP \in 0..17 /\ RFLAGS \in 0..17 /\ RIP # r /\ RFLAGS # r
  BY DEF Context, RIP, RFLAGS
<1>3. DOMAIN d = 0..17 /\ d[RIP] = c[RIP] /\ d[RFLAGS] = c[RFLAGS]
  BY <1>2, PutAt
<1>4. d[RIP] \in Word
  BY <1>1, <1>2, ContextWord
<1> QED
  BY <1>1, <1>3, <1>4 DEF Outcome, FlagsKept

LEMMA ArchWrite ==
  ASSUME NEW i, Valid(i), i.enc.op # \h39, NEW c \in Context, NEW a \in Registers, Same(c, a),
         NEW r \in 0..15, NEW y \in Int, NEW x \in Nat, x + Length(i.enc) \in Word, NEW f \in Int,
         NEW z, z \in {[a EXCEPT ![r] = y, ![RIP] = x + Length(i.enc)],
                       [[a EXCEPT ![r] = y, ![RIP] = x + Length(i.enc)] EXCEPT ![RFLAGS] = f]},
         "SETS_RIP" \notin Info(i).flags
  PROVE  ArchAgrees(i, Put(c, r, y), z, x)
<1>1. PICK w : w = x + Length(i.enc)
  OBVIOUS
<1>2. w \in Int
  BY <1>1, WordNat
<1>3. DOMAIN c = 0..17 /\ r \in 0..17
  BY DEF Context
<1>4. /\ z \in Registers /\ z[RIP] = w /\ z[r] = y
      /\ \A k \in 0..15 : k # r => z[k] = a[k]
  <2>1. CASE z = [a EXCEPT ![r] = y, ![RIP] = w]
    BY <1>2, <2>1 DEF Registers, RIP, RFLAGS
  <2>2. CASE z = [[a EXCEPT ![r] = y, ![RIP] = w] EXCEPT ![RFLAGS] = f]
    BY <1>2, <2>2 DEF Registers, RIP, RFLAGS
  <2> QED
    BY <1>1, <2>1, <2>2
<1>5. /\ Put(c, r, y)[r] = y
      /\ \A k \in 0..15 : k # r => Put(c, r, y)[k] = c[k]
  BY <1>3, PutAt
<1>6. Same(Put(c, r, y), z)
  BY <1>4, <1>5 DEF Same
<1> QED
  BY <1>1, <1>4, <1>6 DEF ArchAgrees

\* The parts of ArchStep, by their names.
ArchReg(e) == MapModRMToReg(IF REXBit(e, 4) THEN 1 ELSE 0, Reg(e.next))
ArchRM(e) == MapModRMToReg(IF REXBit(e, 1) THEN 1 ELSE 0, RM(e.next))
ArchSize(e) == IF REXBit(e, 8) THEN 8 ELSE 4
ArchWritten(e, a, r, v) == [a EXCEPT ![r] = Wrap(v, ArchSize(e)), ![RIP] = Wrap(a[RIP] + Length(e), 8)]
ArchZero(e, a, v) == WithFlag(a[RFLAGS], 6, IF Wrap(v, ArchSize(e)) = 0 THEN 1 ELSE 0)
ArchComputed(e, a, r, v) == [ArchWritten(e, a, r, v) EXCEPT ![RFLAGS] = ArchZero(e, a, v)]

LEMMA ArchStepWrites ==
  ASSUME NEW i, i.enc.map = "base", NEW a
  PROVE  LET e == i.enc
             rm == ArchRM(e)
             reg == ArchReg(e)
         IN  /\ e.op = \h01 => ArchStep(i, a) = ArchComputed(e, a, rm, a[rm] + a[reg])
             /\ e.op = \h03 => ArchStep(i, a) = ArchComputed(e, a, reg, a[reg] + Memory(a[rm]))
             /\ e.op = \h05 => ArchStep(i, a) = ArchComputed(e, a, 0, a[0] + i.imm)
             /\ e.op = \h83 => ArchStep(i, a) = ArchComputed(e, a, rm, a[rm] + i.imm)
             /\ e.op = \hC1 /\ i.imm > 0 => ArchStep(i, a) = ArchComputed(e, a, rm, a[rm] * 2^i.imm)
             /\ e.op = \hC1 /\ i.imm = 0 => ArchStep(i, a) = ArchWritten(e, a, rm, a[rm])
             /\ e.op = \h31 => ArchStep(i, a) = ArchComputed(e, a, rm,
                                  BitXor(Wrap(a[rm], ArchSize(e)), Wrap(a[reg], ArchSize(e))))
             /\ e.op = \h89 => ArchStep(i, a) = ArchWritten(e, a, rm, a[reg])
             /\ e.op = \h8D => ArchStep(i, a) = ArchWritten(e, a, reg, a[rm] + i.imm)
<1> DEFINE e == i.enc
           rm == ArchRM(e)
           reg == ArchReg(e)
<1>1. e.op = \h01 => ArchStep(i, a) = ArchComputed(e, a, rm, a[rm] + a[reg])
  BY DEF ArchStep, ArchComputed, ArchWritten, ArchZero, ArchSize, ArchRM, ArchReg
<1>2. e.op = \h03 => ArchStep(i, a) = ArchComputed(e, a, reg, a[reg] + Memory(a[rm]))
  BY DEF ArchStep, ArchComputed, ArchWritten, ArchZero, ArchSize, ArchRM, ArchReg
<1>3. e.op = \h05 => ArchStep(i, a) = ArchComputed(e, a, 0, a[0] + i.imm)
  BY DEF ArchStep, ArchComputed, ArchWritten, ArchZero, ArchSize, ArchRM, ArchReg
<1>4. e.op = \h83 => ArchStep(i, a) = ArchComputed(e, a, rm, a[rm] + i.imm)
  BY DEF ArchStep, ArchComputed, ArchWritten, ArchZero, ArchSize, ArchRM, ArchReg
<1>5. e.op = \hC1 /\ i.imm > 0 => ArchStep(i, a) = ArchComputed(e, a, rm, a[rm] * 2^i.imm)
  BY DEF ArchStep, ArchComputed, ArchWritten, ArchZero, ArchSize, ArchRM, ArchReg
<1>6. e.op = \hC1 /\ i.imm = 0 => ArchStep(i, a) = ArchWritten(e, a, rm, a[rm])
  BY DEF ArchStep, ArchComputed, ArchWritten, ArchZero, ArchSize, ArchRM, ArchReg
<1>7. e.op = \h31 => ArchStep(i, a) = ArchComputed(e, a, rm, BitXor(Wrap(a[rm], ArchSize(e)), Wrap(a[reg], ArchSize(e))))
  BY DEF ArchStep, ArchComputed, ArchWritten, ArchZero, ArchSize, ArchRM, ArchReg
<1>8. e.op = \h89 => ArchStep(i, a) = ArchWritten(e, a, rm, a[reg])
  BY DEF ArchStep, ArchComputed, ArchWritten, ArchZero, ArchSize, ArchRM, ArchReg
<1>9. e.op = \h8D => ArchStep(i, a) = ArchWritten(e, a, reg, a[rm] + i.imm)
  BY DEF ArchStep, ArchComputed, ArchWritten, ArchZero, ArchSize, ArchRM, ArchReg
<1> QED
  BY <1>1, <1>2, <1>3, <1>4, <1>5, <1>6, <1>7, <1>8, <1>9

\* The code of i does what it should to CPUState, when rip is x.
Right(i, c, d, x) ==
  /\ Outcome(i, c, d)
  /\ Supported(i) => \A a \in Registers : Same(c, a) /\ a[RIP] = x => ArchAgrees(i, d, ArchStep(i, a), x)

\* A handler that writes one register, with a value of the operand size.
LEMMA WriteRight ==
  ASSUME NEW i, Valid(i), i.enc.map = "base", i.enc.op \notin {\h39, \hC3, \hFF}, NEW c \in Context,
         NEW x \in Nat, x + Length(i.enc) \in Word, NEW r \in 0..15, NEW y \in Int, NEW size \in {4, 8},
         Supported(i) => /\ size = ArchSize(i.enc)
                         /\ \A a \in Registers : Same(c, a) =>
                              ArchStep(i, a) \in {ArchWritten(i.enc, a, r, y), ArchComputed(i.enc, a, r, y)}
  PROVE  Right(i, c, Put(c, r, Wrap(y, size)), x)
<1>1. Wrap(y, size) \in Word
  BY WrapWord
<1>2. Outcome(i, c, Put(c, r, Wrap(y, size)))
  BY <1>1, WriteOutcome
<1>3. "SETS_RIP" \notin Info(i).flags
  BY InfoFlags
<1>4. ASSUME Supported(i), NEW a \in Registers, Same(c, a), a[RIP] = x
      PROVE  ArchAgrees(i, Put(c, r, Wrap(y, size)), ArchStep(i, a), x)
  <2>1. ArchStep(i, a) \in {ArchWritten(i.enc, a, r, y), ArchComputed(i.enc, a, r, y)}
    BY <1>4
  <2>2. ArchAgrees(i, Put(c, r, Wrap(y, ArchSize(i.enc))), ArchStep(i, a), x)
    <3>1. Wrap(x + Length(i.enc), 8) = x + Length(i.enc)
      BY WrapFits
    <3>2. PICK w, f : w = Wrap(y, ArchSize(i.enc)) /\ f = ArchZero(i.enc, a, y)
      OBVIOUS
    <3>3. w \in Int
      <4>1. ArchSize(i.enc) \in {4, 8}
        BY DEF ArchSize
      <4> QED
        BY <3>2, <4>1, WrapWord, WordNat
    <3>4. f \in Int
      <4>1. a[RFLAGS] \in Int
        BY DEF Registers, RFLAGS
      <4>2. PICK g : g = IF Wrap(y, ArchSize(i.enc)) = 0 THEN 1 ELSE 0
        OBVIOUS
      <4>3. f = WithFlag(a[RFLAGS], 6, g) /\ g \in 0..1
        BY <3>2, <4>2 DEF ArchZero
      <4> QED
        BY <4>1, <4>3, ZFReplaced
    <3>5. ArchStep(i, a) \in {[a EXCEPT ![r] = w, ![RIP] = x + Length(i.enc)],
                 [[a EXCEPT ![r] = w, ![RIP] = x + Length(i.enc)] EXCEPT ![RFLAGS] = f]}
      BY <1>4, <2>1, <3>1, <3>2 DEF ArchWritten, ArchComputed
    <3> QED
      BY <1>3, <1>4, <3>2, <3>3, <3>4, <3>5, ArchWrite
  <2>3. size = ArchSize(i.enc)
    BY <1>4
  <2> QED
    BY <2>2, <2>3
<1> QED
  BY <1>2, <1>4 DEF Right

\* The operands on both sides.
LEMMA SupportedOperands ==
  ASSUME NEW i \in Instruction, Supported(i),
         \/ i.enc.map = "base" /\ i.enc.op \notin {\h90, \hC3}
         \/ i.enc.map = "two" /\ i.enc.op = \hA3
  PROVE  /\ RegOf(i.enc) = ArchReg(i.enc) /\ RMOf(i.enc) = ArchRM(i.enc)
         /\ OpSize(i.enc) = ArchSize(i.enc) /\ ModRMOf(i.enc) = i.enc.next /\ ~OPSIZE(i.enc)
<1>1. ~Prefixed(i.enc) /\ i.enc \in Encoding
  BY DEF Supported, Instruction
<1> QED
  BY <1>1, OperandsUnprefixed, CodeUnprefixed DEF ArchReg, ArchRM, ArchSize

LEMMA SameAt ==
  ASSUME NEW c, NEW a, Same(c, a), NEW r \in 0..15
  PROVE  a[r] = c[r]
  BY DEF Same

LEMMA AddImmRight ==
  ASSUME NEW i, Valid(i), i.enc.map = "base", i.enc.op = \h05, NEW c \in Context,
         NEW x \in Nat, x + Length(i.enc) \in Word
  PROVE  Right(i, c, Put(c, 0, Wrap(c[0] + i.imm, 8)), x)
<1>1. c[0] \in Int /\ i.imm \in Int
  BY ContextWord DEF Valid, Instruction
<1>2. PICK y : y = c[0] + i.imm
  OBVIOUS
<1>3. y \in Int
  BY <1>1, <1>2
<1>4. ASSUME Supported(i) PROVE ArchSize(i.enc) = 8
  BY <1>4 DEF Supported, ArchSize
<1>5. ASSUME NEW a \in Registers, Same(c, a) PROVE ArchStep(i, a) = ArchComputed(i.enc, a, 0, y)
  BY <1>2, <1>5, SameAt, ArchStepWrites
<1> QED
  BY <1>2, <1>3, <1>4, <1>5, WriteRight

LEMMA AddRegisterRight ==
  ASSUME NEW i, Valid(i), i.enc.map = "base", i.enc.op \in {\h01, \h03}, Mod(ModRMOf(i.enc)) = 3,
         OpSize(i.enc) \in {4, 8}, NEW c \in Context, NEW x \in Nat, x + Length(i.enc) \in Word
  PROVE  Right(i, c, Put(c, RMOf(i.enc), Wrap(c[RMOf(i.enc)] + c[RegOf(i.enc)], OpSize(i.enc))), x)
<1>1. PICK rm, reg, y : rm = RMOf(i.enc) /\ reg = RegOf(i.enc) /\ y = c[rm] + c[reg]
  OBVIOUS
<1>2. rm \in 0..15 /\ reg \in 0..15 /\ i \in Instruction
  BY <1>1, Operands DEF Valid, Instruction
<1>3. c[rm] \in Int /\ c[reg] \in Int
  BY <1>2, ContextWord
<1>4. y \in Int
  BY <1>1, <1>3
<1>5. ASSUME Supported(i), NEW a \in Registers, Same(c, a)
      PROVE  ArchStep(i, a) = ArchComputed(i.enc, a, rm, y)
  <2>1. ArchRM(i.enc) = rm /\ ArchReg(i.enc) = reg /\ ModRMOf(i.enc) = i.enc.next
    BY <1>1, <1>2, <1>5, SupportedOperands
  <2>2. i.enc.op = \h01
    BY <1>5, <2>1 DEF Supported
  <2>3. a[rm] = c[rm] /\ a[reg] = c[reg]
    BY <1>2, <1>5, SameAt
  <2>4. ArchStep(i, a) = ArchComputed(i.enc, a, rm, a[rm] + a[reg])
    BY <2>1, <2>2, ArchStepWrites
  <2> QED
    BY <1>1, <2>3, <2>4
<1>6. Supported(i) => OpSize(i.enc) = ArchSize(i.enc)
  BY <1>2, SupportedOperands
<1> QED
  BY <1>1, <1>2, <1>4, <1>5, <1>6, WriteRight

LEMMA AddMemoryRight ==
  ASSUME NEW i, Valid(i), i.enc.map = "base", i.enc.op \in {\h01, \h03}, Mod(ModRMOf(i.enc)) = 0,
         OpSize(i.enc) \in {4, 8}, NEW c \in Context, NEW x \in Nat, x + Length(i.enc) \in Word
  PROVE  Right(i, c, Put(c, RegOf(i.enc), Wrap(c[RegOf(i.enc)] + Memory(c[RMOf(i.enc)]), OpSize(i.enc))), x)
<1>1. PICK rm, reg, y : rm = RMOf(i.enc) /\ reg = RegOf(i.enc) /\ y = c[reg] + Memory(c[rm])
  OBVIOUS
<1>2. rm \in 0..15 /\ reg \in 0..15 /\ i \in Instruction
  BY <1>1, Operands DEF Valid, Instruction
<1>3. c[rm] \in Word /\ c[reg] \in Int
  BY <1>2, ContextWord
<1>4. y \in Int
  <2>1. Memory(c[rm]) \in Int
    BY <1>3, MemoryAssumption, WordNat
  <2> QED
    BY <1>1, <1>3, <2>1
<1>5. ASSUME Supported(i), NEW a \in Registers, Same(c, a)
      PROVE  ArchStep(i, a) = ArchComputed(i.enc, a, reg, y)
  <2>1. ArchRM(i.enc) = rm /\ ArchReg(i.enc) = reg /\ ModRMOf(i.enc) = i.enc.next
    BY <1>1, <1>2, <1>5, SupportedOperands
  <2>2. i.enc.op = \h03
    BY <1>5, <2>1 DEF Supported
  <2>3. a[rm] = c[rm] /\ a[reg] = c[reg]
    BY <1>2, <1>5, SameAt
  <2>4. ArchStep(i, a) = ArchComputed(i.enc, a, reg, a[reg] + Memory(a[rm]))
    BY <2>1, <2>2, ArchStepWrites
  <2> QED
    BY <1>1, <2>3, <2>4
<1>6. Supported(i) => OpSize(i.enc) = ArchSize(i.enc)
  BY <1>2, SupportedOperands
<1> QED
  BY <1>1, <1>2, <1>4, <1>5, <1>6, WriteRight

LEMMA MovRight ==
  ASSUME NEW i, Valid(i), i.enc.map = "base", i.enc.op = \h89,
         NEW c \in Context, NEW x \in Nat, x + Length(i.enc) \in Word
  PROVE  Right(i, c, Put(c, RMOf(i.enc), Wrap(c[RegOf(i.enc)], IF HasREX(i.enc) THEN 8 ELSE 4)), x)
<1>1. PICK rm, reg, y, size : /\ rm = RMOf(i.enc) /\ reg = RegOf(i.enc) /\ y = c[reg]
                              /\ size = IF HasREX(i.enc) THEN 8 ELSE 4
  OBVIOUS
<1>2. rm \in 0..15 /\ reg \in 0..15 /\ i \in Instruction /\ size \in {4, 8}
  BY <1>1, Operands DEF Valid, Instruction
<1>3. y \in Int
  BY <1>1, <1>2, ContextWord
<1>4. ASSUME Supported(i), NEW a \in Registers, Same(c, a)
      PROVE  ArchStep(i, a) = ArchWritten(i.enc, a, rm, y)
  <2>1. ArchRM(i.enc) = rm /\ ArchReg(i.enc) = reg
    BY <1>1, <1>2, <1>4, SupportedOperands
  <2>2. a[reg] = c[reg]
    BY <1>2, <1>4, SameAt
  <2>3. ArchStep(i, a) = ArchWritten(i.enc, a, rm, a[reg])
    BY <2>1, ArchStepWrites
  <2> QED
    BY <1>1, <2>2, <2>3
<1>5. Supported(i) => size = ArchSize(i.enc)
  BY <1>1 DEF Supported, ArchSize, HasREX, REXBit
<1> QED
  BY <1>1, <1>2, <1>3, <1>4, <1>5, WriteRight

LEMMA LEARight ==
  ASSUME NEW i, Valid(i), i.enc.map = "base", i.enc.op = \h8D,
         NEW c \in Context, NEW x \in Nat, x + Length(i.enc) \in Word
  PROVE  Right(i, c, Put(c, RegOf(i.enc), Wrap(c[RMOf(i.enc)] + i.imm, 8)), x)
<1>1. PICK rm, reg, y : rm = RMOf(i.enc) /\ reg = RegOf(i.enc) /\ y = c[rm] + i.imm
  OBVIOUS
<1>2. rm \in 0..15 /\ reg \in 0..15 /\ i \in Instruction /\ i.imm \in Int
  BY <1>1, Operands DEF Valid, Instruction
<1>3. y \in Int
  BY <1>1, <1>2, ContextWord
<1>4. ASSUME Supported(i), NEW a \in Registers, Same(c, a)
      PROVE  ArchStep(i, a) = ArchWritten(i.enc, a, reg, y)
  <2>1. ArchRM(i.enc) = rm /\ ArchReg(i.enc) = reg
    BY <1>1, <1>2, <1>4, SupportedOperands
  <2>2. a[rm] = c[rm]
    BY <1>2, <1>4, SameAt
  <2>3. ArchStep(i, a) = ArchWritten(i.enc, a, reg, a[rm] + i.imm)
    BY <2>1, ArchStepWrites
  <2> QED
    BY <1>1, <2>2, <2>3
<1>5. Supported(i) => 8 = ArchSize(i.enc)
  BY DEF Supported, ArchSize
<1> QED
  BY <1>1, <1>2, <1>3, <1>4, <1>5, WriteRight

LEMMA ShlImmRight ==
  ASSUME NEW i, Valid(i), i.enc.map = "base", i.enc.op = \hC1, OpSize(i.enc) \in {4, 8},
         NEW c \in Context, NEW x \in Nat, x + Length(i.enc) \in Word
  PROVE  Right(i, c, Shifted(i, c), x)
<1> USE DEF Shifted
<1>1. PICK rm, y : rm = RMOf(i.enc) /\ y = c[rm] * 2^i.imm
  OBVIOUS
<1>2. rm \in 0..15 /\ i \in Instruction
  BY <1>1, Operands DEF Valid, Instruction
<1>3. i.imm \in 0..Bits(8) /\ i.imm \in Nat
  BY Powers DEF Valid
<1>4. c[rm] \in Int /\ 2^i.imm \in Int
  BY <1>2, <1>3, ContextWord, PowersAssumption
<1>5. y \in Int
  BY <1>1, <1>4
<1>6. ASSUME Supported(i), NEW a \in Registers, Same(c, a)
      PROVE  ArchStep(i, a) \in {ArchWritten(i.enc, a, rm, y), ArchComputed(i.enc, a, rm, y)}
  <2>1. ArchRM(i.enc) = rm
    BY <1>1, <1>2, <1>6, SupportedOperands
  <2>2. a[rm] = c[rm]
    BY <1>2, <1>6, SameAt
  <2>3. CASE i.imm > 0
    BY <1>1, <2>1, <2>2, <2>3, ArchStepWrites
  <2>4. CASE i.imm = 0
    <3>1. y = c[rm]
      BY <1>1, <1>4, <2>4, 2^0 = 1
    <3> QED
      BY <2>1, <2>2, <2>4, <3>1, ArchStepWrites
  <2> QED
    BY <1>3, <2>3, <2>4
<1>7. Supported(i) => OpSize(i.enc) = ArchSize(i.enc)
  BY <1>2, SupportedOperands
<1> QED
  BY <1>1, <1>2, <1>5, <1>6, <1>7, WriteRight

LEMMA BitXorInt ==
  ASSUME NEW x \in Nat, NEW y \in Nat
  PROVE  BitXor(x, y) \in Int
<1>1. 2^Bits(1) \in Nat /\ 2^Bits(1) > 0
  BY ByteBitsAssumption, PowersAssumption DEF Bits
<1>2. ASSUME NEW j \in 0..7 PROVE XorByte(ByteOf(x, j), ByteOf(y, j)) * 2^Bits(j) \in Int
  <2>1. Bits(j) \in 0..Bits(8)
    BY ByteBitsAssumption DEF Bits
  <2>2. 2^Bits(j) \in Nat /\ 2^Bits(j) > 0
    BY <2>1, PowersAssumption
  <2>3. x \div 2^Bits(j) \in Int /\ y \div 2^Bits(j) \in Int
    BY <2>2, Division
  <2>4. ByteOf(x, j) \in 0..(2^Bits(1) - 1) /\ ByteOf(y, j) \in 0..(2^Bits(1) - 1)
    BY <1>1, <2>3, Division DEF ByteOf
  <2>5. XorByte(ByteOf(x, j), ByteOf(y, j)) \in 0..(2^Bits(1) - 1)
    BY <2>4, ByteOpsAssumption
  <2> QED
    BY <1>1, <2>2, <2>5
<1> DEFINE byte(j) == XorByte(ByteOf(x, j), ByteOf(y, j)) * 2^Bits(j)
<1>3. BitXor(x, y) = byte(0) + byte(1) + byte(2) + byte(3) + byte(4) + byte(5) + byte(6) + byte(7)
  BY DEF BitXor, Bytewise
<1>4. /\ byte(0) \in Int /\ byte(1) \in Int /\ byte(2) \in Int /\ byte(3) \in Int
      /\ byte(4) \in Int /\ byte(5) \in Int /\ byte(6) \in Int /\ byte(7) \in Int
  BY <1>2
<1> HIDE DEF byte
<1> QED
  BY <1>3, <1>4

LEMMA XorRight ==
  ASSUME NEW i, Valid(i), i.enc.map = "base", i.enc.op = \h31, OpSize(i.enc) \in {4, 8},
         NEW c \in Context, NEW x \in Nat, x + Length(i.enc) \in Word
  PROVE  Right(i, c, Put(c, RMOf(i.enc), Wrap(BitXor(Wrap(c[RMOf(i.enc)], OpSize(i.enc)),
                                           Wrap(c[RegOf(i.enc)], OpSize(i.enc))), OpSize(i.enc))), x)
<1>1. PICK rm, reg, size, y : /\ rm = RMOf(i.enc) /\ reg = RegOf(i.enc) /\ size = OpSize(i.enc)
                              /\ y = BitXor(Wrap(c[rm], size), Wrap(c[reg], size))
  OBVIOUS
<1>2. rm \in 0..15 /\ reg \in 0..15 /\ i \in Instruction /\ size \in {4, 8}
  BY <1>1, Operands DEF Valid, Instruction
<1>3. y \in Int
  <2>1. c[rm] \in Int /\ c[reg] \in Int
    BY <1>2, ContextWord
  <2>2. Wrap(c[rm], size) \in Nat /\ Wrap(c[reg], size) \in Nat
    BY <1>2, <2>1, WrapWord, WordNat
  <2> QED
    BY <1>1, <2>2, BitXorInt
<1>4. Supported(i) => size = ArchSize(i.enc)
  BY <1>1, <1>2, SupportedOperands
<1>5. ASSUME Supported(i), NEW a \in Registers, Same(c, a)
      PROVE  ArchStep(i, a) = ArchComputed(i.enc, a, rm, y)
  <2>1. ArchRM(i.enc) = rm /\ ArchReg(i.enc) = reg
    BY <1>1, <1>2, <1>5, SupportedOperands
  <2>2. a[rm] = c[rm] /\ a[reg] = c[reg]
    BY <1>2, <1>5, SameAt
  <2>3. ArchStep(i, a) = ArchComputed(i.enc, a, rm, BitXor(Wrap(a[rm], size), Wrap(a[reg], size)))
    BY <1>4, <1>5, <2>1, ArchStepWrites
  <2> QED
    BY <1>1, <2>2, <2>3
<1> QED
  BY <1>1, <1>2, <1>3, <1>4, <1>5, WriteRight

\* The instructions that write no register but rflags.
LEMMA FlagsOutcome ==
  ASSUME NEW i, Valid(i), NEW c \in Context, NEW f \in Word,
         \A bit \in 0..11 \ FlagsComputed(i.enc) : FlagOf(f, bit) = FlagOf(c[RFLAGS], bit),
         i.enc.map = "two" /\ i.enc.op = \hA3 =>
           FlagOf(f, 0) = FlagOf(c[RMOf(i.enc)], c[RegOf(i.enc)] % Bits(4))
  PROVE  Outcome(i, c, Put(c, RFLAGS, f)) /\ Same(Put(c, RFLAGS, f), c)
<1>1. RFLAGS \in 0..17 /\ RIP \in 0..17 /\ RIP # RFLAGS /\ DOMAIN c = 0..17
  BY DEF RFLAGS, RIP, Context
<1>2. PICK d : d = Put(c, RFLAGS, f)
  OBVIOUS
<1>3. d \in Context
  BY <1>1, <1>2, PutTypes
<1>4. DOMAIN d = 0..17 /\ d[RFLAGS] = f /\ \A k \in 0..17 : k # RFLAGS => d[k] = c[k]
  BY <1>1, <1>2, PutAt
<1>5. d[RIP] = c[RIP] /\ d[RIP] \in Word
  BY <1>1, <1>3, <1>4, ContextWord
<1>6. Same(d, c)
  BY <1>4 DEF Same, RFLAGS
<1>7. Outcome(i, c, d)
  BY <1>3, <1>4, <1>5 DEF Outcome, FlagsKept
<1> QED
  BY <1>2, <1>6, <1>7

\* Two words are equal when their difference is zero.
LEMMA Difference ==
  ASSUME NEW p \in Word, NEW q \in Word
  PROVE  Wrap(p - q, 8) = 0 <=> p = q
<1>1. PICK m : m = 2^Bits(8)
  OBVIOUS
<1>2. m \in Nat /\ m > 0 /\ p \in 0..(m - 1) /\ q \in 0..(m - 1)
  BY <1>1, WordNat DEF Word
<1>3. CASE p >= q
  <2>1. (p - q) % m = p - q
    BY <1>2, <1>3
  <2> QED
    BY <1>1, <1>2, <2>1 DEF Wrap
<1>4. CASE p < q
  <2>1. p - q = (-1) * m + (m + p - q)
    BY <1>2
  <2>2. ((-1) * m + (m + p - q)) % m = m + p - q
    BY <1>2, <1>4, Remainder
  <2> QED
    BY <1>1, <1>2, <1>4, <2>1, <2>2 DEF Wrap
<1> QED
  BY <1>2, <1>3, <1>4

LEMMA CMPRight ==
  ASSUME NEW i, Valid(i), i.enc.map = "base", i.enc.op = \h39,
         NEW c \in Context, NEW x \in Nat, x + Length(i.enc) \in Word
  PROVE  Right(i, c, Put(c, RFLAGS, WithFlag(c[RFLAGS], 6,
                              IF c[RMOf(i.enc)] = c[RegOf(i.enc)] THEN 0 ELSE 1)), x)
<1>1. PICK rm, reg, y, f, d : /\ rm = RMOf(i.enc) /\ reg = RegOf(i.enc)
                              /\ y = (IF c[rm] = c[reg] THEN 0 ELSE 1)
                              /\ f = WithFlag(c[RFLAGS], 6, y) /\ d = Put(c, RFLAGS, f)
  OBVIOUS
<1>2. rm \in 0..15 /\ reg \in 0..15 /\ i \in Instruction /\ y \in 0..1
  BY <1>1, Operands DEF Valid, Instruction
<1>3. c[RFLAGS] \in Word /\ c[RFLAGS] \in Int
  BY ContextWord DEF RFLAGS
<1>4. /\ f \in Word /\ FlagOf(f, 6) = y
      /\ \A k \in 0..11 : k # 6 => FlagOf(f, k) = FlagOf(c[RFLAGS], k)
  <2>1. PICK e : e = c[RFLAGS]
    OBVIOUS
  <2>2. e \in Word /\ e \in Int /\ f = WithFlag(e, 6, y)
    BY <1>1, <1>3, <2>1
  <2>3. f \in Word
    BY <1>2, <2>2, FlagWord
  <2>4. FlagOf(f, 6) = y /\ \A k \in 0..11 : k # 6 => FlagOf(f, k) = FlagOf(e, k)
    BY <1>2, <2>2, ZFReplaced
  <2> QED
    BY <2>1, <2>3, <2>4
<1>5. FlagsComputed(i.enc) = {6}
  BY DEF FlagsComputed
<1>6. Outcome(i, c, d) /\ Same(d, c)
  BY <1>1, <1>4, <1>5, FlagsOutcome
<1>7. "SETS_RIP" \notin Info(i).flags
  BY InfoFlags
<1>8. ASSUME Supported(i), NEW a \in Registers, Same(c, a), a[RIP] = x
      PROVE  ArchAgrees(i, d, ArchStep(i, a), x)
  <2>1. ArchRM(i.enc) = rm /\ ArchReg(i.enc) = reg
    BY <1>1, <1>2, <1>8, SupportedOperands
  <2>2. ArchSize(i.enc) = 8
    BY <1>8 DEF Supported, ArchSize
  <2>3. a[rm] = c[rm] /\ a[reg] = c[reg]
    BY <1>2, <1>8, SameAt
  <2>4. PICK w, z : w = x + Length(i.enc) /\ z = (IF Wrap(c[rm] - c[reg], 8) = 0 THEN 1 ELSE 0)
    OBVIOUS
  <2>5. w \in Int /\ Wrap(x + Length(i.enc), 8) = w
    BY <2>4, WrapFits, WordNat
  <2>6. PICK g : g = WithFlag(a[RFLAGS], 6, z)
    OBVIOUS
  <2>7. g \in Int /\ FlagOf(g, 6) = z
    <3>1. a[RFLAGS] \in Int /\ z \in 0..1
      BY <2>4 DEF Registers, RFLAGS
    <3> QED
      BY <2>6, <3>1, ZFReplaced
  <2>8. y + z = 1
    <3>1. c[rm] \in Word /\ c[reg] \in Word
      BY <1>2, ContextWord
    <3>2. Wrap(c[rm] - c[reg], 8) = 0 <=> c[rm] = c[reg]
      BY <3>1, Difference
    <3> QED
      BY <1>1, <2>4, <3>2
  <2>9. ArchStep(i, a) = [a EXCEPT ![RIP] = Wrap(a[RIP] + Length(i.enc), 8),
                                   ![RFLAGS] = ArchZero(i.enc, a, a[ArchRM(i.enc)] - a[ArchReg(i.enc)])]
    BY DEF ArchStep, ArchZero, ArchSize, ArchRM, ArchReg
  <2>10. ArchStep(i, a) = [a EXCEPT ![RIP] = w, ![RFLAGS] = g]
    <3>1. ArchZero(i.enc, a, c[rm] - c[reg]) = g
      BY <2>2, <2>4, <2>6 DEF ArchZero
    <3> QED
      BY <1>8, <2>1, <2>3, <2>5, <2>9, <3>1
  <2>11. PICK b : b = ArchStep(i, a)
    OBVIOUS
  <2>12. b \in Registers /\ b[RIP] = w /\ b[RFLAGS] = g /\ Same(b, a)
    BY <2>5, <2>7, <2>10, <2>11 DEF Registers, RIP, RFLAGS, Same
  <2>13. Same(d, b)
    BY <1>6, <1>8, <2>12 DEF Same
  <2>14. d[RFLAGS] = f
    BY <1>1, PutAt DEF Context, RFLAGS
  <2>15. ArchAgrees(i, d, b, x)
    BY <1>4, <1>7, <2>4, <2>7, <2>8, <2>12, <2>13, <2>14 DEF ArchAgrees
  <2> QED
    BY <2>11, <2>15
<1>9. Right(i, c, d, x)
  BY <1>6, <1>8 DEF Right
<1> QED
  BY <1>1, <1>9

\* What a handler adds to the flags does not matter for the registers.
LEMMA AgreesFlags ==
  ASSUME NEW i, i.enc.op # \h39, "SETS_RIP" \notin Info(i).flags, NEW c, NEW d, Same(d, c), NEW a, NEW x,
         ArchAgrees(i, c, a, x)
  PROVE  ArchAgrees(i, d, a, x)
  BY DEF ArchAgrees, Same

LEMMA TwoFlags ==
  ASSUME NEW e \in Word, NEW u \in 0..1, NEW z \in 0..1
  PROVE  /\ WithFlag(WithFlag(e, 7, u), 6, z) \in Word
         /\ \A k \in 0..11 : k \notin {6, 7} =>
              FlagOf(WithFlag(WithFlag(e, 7, u), 6, z), k) = FlagOf(e, k)
<1>1. PICK f : f = WithFlag(e, 7, u)
  OBVIOUS
<1>2. f \in Word
  BY <1>1, FlagWord
<1>3. e \in Int /\ f \in Int
  BY <1>2, WordNat
<1>4. \A k \in 0..11 : k # 7 => FlagOf(f, k) = FlagOf(e, k)
  BY <1>1, <1>3, SFReplaced
<1>5. \A k \in 0..11 : k # 6 => FlagOf(WithFlag(f, 6, z), k) = FlagOf(f, k)
  BY <1>3, ZFReplaced
<1>6. WithFlag(f, 6, z) \in Word
  BY <1>2, FlagWord
<1> QED
  BY <1>1, <1>4, <1>5, <1>6

LEMMA AddImmModRMRight ==
  ASSUME NEW i, Valid(i), i.enc.map = "base", i.enc.op = \h83,
         NEW c \in Context, NEW x \in Nat, x + Length(i.enc) \in Word, NEW u \in 0..1, NEW z \in 0..1
  PROVE  Right(i, c, Put(Put(Put(c, RMOf(i.enc), Wrap(c[RMOf(i.enc)] + i.imm, 8)),
                             RFLAGS, WithFlag(c[RFLAGS], 7, u)),
                         RFLAGS, WithFlag(WithFlag(c[RFLAGS], 7, u), 6, z)), x)
<1>1. PICK rm, y, e, f, g : /\ rm = RMOf(i.enc) /\ y = c[rm] + i.imm /\ e = c[RFLAGS]
                            /\ f = WithFlag(e, 7, u) /\ g = WithFlag(f, 6, z)
  OBVIOUS
<1>2. PICK c1, c2, d : c1 = Put(c, rm, Wrap(y, 8)) /\ c2 = Put(c1, RFLAGS, f) /\ d = Put(c2, RFLAGS, g)
  OBVIOUS
<1>3. rm \in 0..15 /\ rm \in 0..17 /\ i \in Instruction /\ i.imm \in Int
  BY <1>1, Operands DEF Valid, Instruction
<1>4. y \in Int /\ e \in Word /\ e \in Int
  BY <1>1, <1>3, ContextWord DEF RFLAGS
<1>5. f \in Word
  BY <1>1, <1>4, FlagWord
<1>6. /\ g \in Word
      /\ \A k \in 0..11 : k \notin {6, 7} => FlagOf(g, k) = FlagOf(e, k)
  BY <1>1, <1>4, TwoFlags
<1>7. "SETS_RIP" \notin Info(i).flags /\ FlagsComputed(i.enc) = {6, 7}
  BY InfoFlags DEF FlagsComputed
<1>8. Right(i, c, c1, x)
  <2>1. Supported(i) => 8 = ArchSize(i.enc)
    BY DEF Supported, ArchSize
  <2>2. ASSUME Supported(i), NEW a \in Registers, Same(c, a)
        PROVE  ArchStep(i, a) = ArchComputed(i.enc, a, rm, y)
    <3>1. ArchRM(i.enc) = rm /\ a[rm] = c[rm]
      BY <1>1, <1>3, <2>2, SupportedOperands, SameAt
    <3>2. ArchStep(i, a) = ArchComputed(i.enc, a, rm, a[rm] + i.imm)
      BY <3>1, ArchStepWrites
    <3> QED
      BY <1>1, <3>1, <3>2
  <2> QED
    BY <1>2, <1>3, <1>4, <2>1, <2>2, WriteRight
<1>9. c1 \in Context /\ Outcome(i, c, c1)
  <2>1. Wrap(y, 8) \in Word
    BY <1>4, WrapWord
  <2> QED
    BY <1>2, <1>3, <1>8, <2>1, PutTypes DEF Right
<1>10. RFLAGS \in 0..17 /\ RIP \in 0..17 /\ RFLAGS # RIP /\ DOMAIN c1 = 0..17
  BY <1>9 DEF RFLAGS, RIP, Context
<1>11. c2 \in Context
  BY <1>2, <1>5, <1>9, <1>10, PutTypes
<1>12. d \in Context
  BY <1>2, <1>6, <1>10, <1>11, PutTypes
<1>13. DOMAIN c2 = 0..17 /\ \A k \in 0..17 : k # RFLAGS => c2[k] = c1[k]
  BY <1>2, <1>10, PutAt
<1>14. DOMAIN d = 0..17 /\ d[RFLAGS] = g /\ \A k \in 0..17 : k # RFLAGS => d[k] = c2[k]
  BY <1>2, <1>10, <1>13, PutAt
<1>15. Same(d, c1)
  BY <1>13, <1>14 DEF Same, RFLAGS
<1>16. d[RIP] = c[RIP]
  BY <1>7, <1>9, <1>10, <1>13, <1>14 DEF Outcome
<1>17. d[RIP] \in Word
  BY <1>10, <1>12, ContextWord
<1>18. Outcome(i, c, d)
  BY <1>1, <1>5, <1>6, <1>7, <1>12, <1>14, <1>16, <1>17 DEF Outcome, FlagsKept
<1>19. ASSUME Supported(i), NEW a \in Registers, Same(c, a), a[RIP] = x
       PROVE  ArchAgrees(i, d, ArchStep(i, a), x)
  <2>1. ArchAgrees(i, c1, ArchStep(i, a), x)
    BY <1>8, <1>19 DEF Right
  <2>2. i.enc.op # \h39
    OBVIOUS
  <2> QED
    BY <1>7, <1>15, <2>1, <2>2, AgreesFlags
<1>20. Right(i, c, d, x)
  BY <1>18, <1>19 DEF Right
<1> QED
  BY <1>1, <1>2, <1>20

LEMMA BTRight ==
  ASSUME NEW i, Valid(i), i.enc.map = "two", i.enc.op = \hA3,
         NEW c \in Context, NEW x \in Nat, x + Length(i.enc) \in Word,
         FlagOf(c[RMOf(i.enc)], c[RegOf(i.enc)] % Bits(4)) \in 0..1
  PROVE  Right(i, c, Put(c, RFLAGS, WithFlag(c[RFLAGS], 0,
                              FlagOf(c[RMOf(i.enc)], c[RegOf(i.enc)] % Bits(4)))), x)
<1>1. PICK rm, reg, y, e, f, d :
         /\ rm = RMOf(i.enc) /\ reg = RegOf(i.enc) /\ y = FlagOf(c[rm], c[reg] % Bits(4))
         /\ e = c[RFLAGS] /\ f = WithFlag(e, 0, y) /\ d = Put(c, RFLAGS, f)
  OBVIOUS
<1>2. rm \in 0..15 /\ reg \in 0..15 /\ i \in Instruction /\ y \in 0..1
  BY <1>1, Operands DEF Valid, Instruction
<1>3. e \in Word /\ e \in Int
  BY <1>1, ContextWord DEF RFLAGS
<1>4. /\ f \in Word /\ FlagOf(f, 0) = y
      /\ \A k \in 0..11 : k # 0 => FlagOf(f, k) = FlagOf(e, k)
  <2>1. f \in Word
    BY <1>1, <1>2, <1>3, FlagWord
  <2>2. f = WithFlag(e, 0, y) /\ e \in Int /\ y \in 0..1
    BY <1>1, <1>2, <1>3
  <2>3. FlagOf(f, 0) = y /\ \A k \in 0..11 : k # 0 => FlagOf(f, k) = FlagOf(e, k)
    BY <2>2, CFReplaced
  <2> QED
    BY <2>1, <2>3
<1>5. FlagsComputed(i.enc) = {0}
  BY DEF FlagsComputed
<1>6. Outcome(i, c, d) /\ Same(d, c)
  BY <1>1, <1>4, <1>5, FlagsOutcome
<1>7. "SETS_RIP" \notin Info(i).flags
  BY InfoFlags
<1>8. ASSUME Supported(i), NEW a \in Registers, Same(c, a), a[RIP] = x
      PROVE  ArchAgrees(i, d, ArchStep(i, a), x)
  <2>1. ArchRM(i.enc) = rm /\ ArchReg(i.enc) = reg
    BY <1>1, <1>2, <1>8, SupportedOperands
  <2>2. ArchSize(i.enc) = 4
    BY <1>8 DEF Supported, ArchSize
  <2>3. a[rm] = c[rm] /\ a[reg] = c[reg]
    BY <1>2, <1>8, SameAt
  <2>4. PICK w, g : w = x + Length(i.enc) /\ g = WithFlag(a[RFLAGS], 0, y)
    OBVIOUS
  <2>5. w \in Int /\ Wrap(x + Length(i.enc), 8) = w
    BY <2>4, WrapFits, WordNat
  <2>6. g \in Int
    <3>1. a[RFLAGS] \in Int
      BY DEF Registers, RFLAGS
    <3> QED
      BY <1>2, <2>4, <3>1, CFReplaced
  <2>7. ArchStep(i, a) = [a EXCEPT ![RIP] = Wrap(a[RIP] + Length(i.enc), 8),
                 ![RFLAGS] = WithFlag(@, 0, FlagOf(a[ArchRM(i.enc)], a[ArchReg(i.enc)] % Bits(ArchSize(i.enc))))]
    BY DEF ArchStep, ArchSize, ArchRM, ArchReg
  <2>8. PICK b : b = ArchStep(i, a)
    OBVIOUS
  <2>9. b = [a EXCEPT ![RIP] = w, ![RFLAGS] = g]
    BY <1>1, <1>8, <2>1, <2>2, <2>3, <2>4, <2>5, <2>7, <2>8 DEF RIP, RFLAGS
  <2>10. b \in Registers /\ b[RIP] = w /\ Same(b, a)
    BY <2>5, <2>6, <2>9 DEF Registers, RIP, RFLAGS, Same
  <2>11. Same(d, b)
    BY <1>6, <1>8, <2>10 DEF Same
  <2>12. ArchAgrees(i, d, b, x)
    BY <1>7, <2>4, <2>10, <2>11 DEF ArchAgrees
  <2> QED
    BY <2>8, <2>12
<1>9. Right(i, c, d, x)
  BY <1>6, <1>8 DEF Right
<1> QED
  BY <1>1, <1>9

LEMMA NOPRight ==
  ASSUME NEW i, Valid(i), \/ i.enc.map = "base" /\ i.enc.op = \h90
                          \/ i.enc.map = "two" /\ i.enc.op = \h1F,
         NEW c \in Context, NEW x \in Nat, x + Length(i.enc) \in Word
  PROVE  Right(i, c, c, x)
<1>1. "SETS_RIP" \notin Info(i).flags
  BY InfoFlags
<1>2. c[RIP] \in Word /\ DOMAIN c = 0..17
  BY ContextWord DEF RIP, Context
<1>3. Outcome(i, c, c)
  BY <1>1, <1>2 DEF Outcome, FlagsKept
<1>4. ASSUME NEW a \in Registers, Same(c, a), a[RIP] = x
      PROVE  ArchAgrees(i, c, ArchStep(i, a), x)
  <2>1. PICK w : w = x + Length(i.enc)
    OBVIOUS
  <2>2. w \in Int /\ Wrap(x + Length(i.enc), 8) = w
    BY <2>1, WrapFits, WordNat
  <2>3. ArchStep(i, a) = [a EXCEPT ![RIP] = Wrap(a[RIP] + Length(i.enc), 8)]
    BY DEF ArchStep
  <2>4. PICK b : b = ArchStep(i, a)
    OBVIOUS
  <2>5. b \in Registers /\ b[RIP] = w /\ Same(b, a)
    BY <1>4, <2>1, <2>2, <2>3, <2>4 DEF Registers, RIP, Same
  <2>6. Same(c, b)
    BY <1>4, <2>5 DEF Same
  <2>7. ArchAgrees(i, c, b, x)
    BY <1>1, <2>1, <2>5, <2>6 DEF ArchAgrees
  <2> QED
    BY <2>4, <2>7
<1> QED
  BY <1>3, <1>4 DEF Right

LEMMA JMPRight ==
  ASSUME NEW i, Valid(i), i.enc.map = "base", i.enc.op = \hFF,
         NEW c \in Context, NEW x \in Nat, x + Length(i.enc) \in Word
  PROVE  Right(i, c, Put(c, RIP, c[RMOf(i.enc)]), x)
<1>1. PICK rm, d : rm = RMOf(i.enc) /\ d = Put(c, RIP, c[rm])
  OBVIOUS
<1>2. rm \in 0..15 /\ rm \in 0..17 /\ i \in Instruction
  BY <1>1, Operands DEF Valid, Instruction
<1>3. c[rm] \in Word /\ DOMAIN c = 0..17 /\ RIP \in 0..17
  BY <1>2, ContextWord DEF Context, RIP
<1>4. DOMAIN d = 0..17 /\ d[RIP] = c[rm] /\ \A k \in 0..17 : k # RIP => d[k] = c[k]
  BY <1>1, <1>3, PutAt
<1>5. "SETS_RIP" \in Info(i).flags /\ "BLOCK_END" \in Info(i).flags
  BY InfoFlags
<1>6. d[RFLAGS] = c[RFLAGS] /\ Same(d, c)
  BY <1>4 DEF RFLAGS, RIP, Same
<1>7. Outcome(i, c, d)
  BY <1>3, <1>4, <1>5, <1>6 DEF Outcome, FlagsKept
<1>8. ASSUME Supported(i), NEW a \in Registers, Same(c, a), a[RIP] = x
      PROVE  ArchAgrees(i, d, ArchStep(i, a), x)
  <2>1. ArchRM(i.enc) = rm
    BY <1>1, <1>2, <1>8, SupportedOperands
  <2>2. a[rm] = c[rm]
    BY <1>2, <1>8, SameAt
  <2>3. ArchStep(i, a) = [a EXCEPT ![RIP] = a[ArchRM(i.enc)]]
    BY DEF ArchStep, ArchRM
  <2>4. PICK b : b = ArchStep(i, a)
    OBVIOUS
  <2>5. b[RIP] = c[rm] /\ Same(b, a)
    BY <2>1, <2>2, <2>3, <2>4 DEF Registers, RIP, Same
  <2>6. Same(d, b)
    BY <1>6, <1>8, <2>5 DEF Same
  <2>7. ArchAgrees(i, d, b, x)
    BY <1>4, <1>5, <2>5, <2>6 DEF ArchAgrees
  <2> QED
    BY <2>4, <2>7
<1>9. Right(i, c, d, x)
  BY <1>7, <1>8 DEF Right
<1> QED
  BY <1>1, <1>9

LEMMA RETRight ==
  ASSUME NEW i, Valid(i), i.enc.map = "base", i.enc.op = \hC3,
         NEW c \in Context, NEW x \in Nat, x + Length(i.enc) \in Word
  PROVE  Right(i, c, Put(Put(c, RSP, Wrap(c[RSP] + 8, 8)), RIP, Memory(c[RSP])), x)
<1>1. PICK s, t, c1, d : /\ s = Wrap(c[RSP] + 8, 8) /\ t = Memory(c[RSP])
                         /\ c1 = Put(c, RSP, s) /\ d = Put(c1, RIP, t)
  OBVIOUS
<1>2. DOMAIN c = 0..17 /\ RIP \in 0..17 /\ RSP \in 0..17 /\ RSP \in 0..15
  BY DEF Context, RIP, RSP
<1>3. t \in Word
  BY <1>1, <1>2, ContextWord, MemoryAssumption
<1>4. DOMAIN c1 = 0..17 /\ c1[RSP] = s /\ \A k \in 0..17 : k # RSP => c1[k] = c[k]
  BY <1>1, <1>2, PutAt
<1>5. DOMAIN d = 0..17 /\ d[RIP] = t /\ \A k \in 0..17 : k # RIP => d[k] = c1[k]
  BY <1>1, <1>2, <1>4, PutAt
<1>6. "SETS_RIP" \in Info(i).flags /\ "BLOCK_END" \in Info(i).flags
  BY InfoFlags
<1>7. d[RFLAGS] = c[RFLAGS]
  BY <1>4, <1>5 DEF RFLAGS, RIP, RSP
<1>8. Outcome(i, c, d)
  BY <1>3, <1>5, <1>6, <1>7 DEF Outcome, FlagsKept
<1>9. ASSUME NEW a \in Registers, Same(c, a), a[RIP] = x
      PROVE  ArchAgrees(i, d, ArchStep(i, a), x)
  <2>1. a[RSP] = c[RSP]
    BY <1>2, <1>9, SameAt
  <2>2. ArchStep(i, a) = [a EXCEPT ![RSP] = Wrap(a[RSP] + 8, 8), ![RIP] = Memory(a[RSP])]
    BY DEF ArchStep
  <2>3. PICK b : b = ArchStep(i, a)
    OBVIOUS
  <2>4. b = [a EXCEPT ![RSP] = s, ![RIP] = t]
    BY <1>1, <2>1, <2>2, <2>3
  <2>5. b[RIP] = t /\ b[RSP] = s /\ \A k \in 0..15 : k # RSP => b[k] = a[k]
    BY <2>4 DEF Registers, RIP, RSP
  <2>6. Same(d, b)
    <3>1. ASSUME NEW k \in 0..15 PROVE d[k] = b[k]
      <4>1. d[k] = c1[k]
        BY <1>5 DEF RIP
      <4>2. CASE k = RSP
        BY <1>4, <2>5, <4>1, <4>2
      <4>3. CASE k # RSP
        <5>1. c1[k] = c[k]
          BY <1>4, <4>3
        <5> QED
          BY <1>9, <2>5, <4>1, <4>3, <5>1, SameAt
      <4> QED
        BY <4>2, <4>3
    <3> QED
      BY <3>1 DEF Same
  <2>7. ArchAgrees(i, d, b, x)
    BY <1>5, <1>6, <2>5, <2>6 DEF ArchAgrees
  <2> QED
    BY <2>3, <2>7
<1>10. Right(i, c, d, x)
  BY <1>8, <1>9 DEF Right
<1> QED
  BY <1>1, <1>10

LEMMA SyscallRight ==
  ASSUME NEW i, Valid(i), i.enc.map = "two", i.enc.op = \h05,
         NEW c \in Context, NEW x \in Nat, x + Length(i.enc) \in Word
  PROVE  Right(i, c, CallKernel(c), x)
<1>1. PICK y, d : y = Kernel(<<c[0], c[7], c[6], c[2], c[10], c[8], c[9]>>) /\ d = Put(c, 0, y)
  OBVIOUS
<1>2. DOMAIN c = 0..17
  BY DEF Context
<1>3. DOMAIN d = 0..17 /\ d[0] = y /\ \A k \in 0..17 : k # 0 => d[k] = c[k]
  BY <1>1, <1>2, PutAt
<1>4. "SETS_RIP" \notin Info(i).flags /\ "BLOCK_END" \in Info(i).flags
  BY InfoFlags
<1>5. d[RFLAGS] = c[RFLAGS] /\ d[RIP] = c[RIP] /\ c[RIP] \in Word
  BY <1>3, ContextWord DEF RFLAGS, RIP
<1>6. Outcome(i, c, d)
  BY <1>3, <1>4, <1>5 DEF Outcome, FlagsKept
<1>7. ASSUME NEW a \in Registers, Same(c, a), a[RIP] = x
      PROVE  ArchAgrees(i, d, ArchStep(i, a), x)
  <2>1. PICK w : w = x + Length(i.enc)
    OBVIOUS
  <2>2. Wrap(x + Length(i.enc), 8) = w
    BY <2>1, WrapFits
  <2>3. ArchStep(i, a) = [a EXCEPT ![0] = Kernel(<<a[0], a[7], a[6], a[2], a[10], a[8], a[9]>>),
                                   ![RIP] = Wrap(a[RIP] + Length(i.enc), 8)]
    BY DEF ArchStep
  <2>4. /\ a[0] = c[0] /\ a[7] = c[7] /\ a[6] = c[6] /\ a[2] = c[2]
        /\ a[10] = c[10] /\ a[8] = c[8] /\ a[9] = c[9]
    BY <1>7 DEF Same
  <2>5. PICK b : b = ArchStep(i, a)
    OBVIOUS
  <2>6. b = [a EXCEPT ![0] = y, ![RIP] = w]
    BY <1>1, <1>7, <2>2, <2>3, <2>4, <2>5
  <2>7. b[RIP] = w /\ b[0] = y /\ \A k \in 0..15 : k # 0 => b[k] = a[k]
    BY <2>6 DEF Registers, RIP
  <2>8. Same(d, b)
    BY <1>3, <1>7, <2>7 DEF Same
  <2>9. ArchAgrees(i, d, b, x)
    BY <1>4, <2>1, <2>7, <2>8 DEF ArchAgrees
  <2> QED
    BY <2>5, <2>9
<1>8. Right(i, c, d, x)
  BY <1>6, <1>7 DEF Right
<1> QED
  BY <1>1, <1>8 DEF CallKernel

\* CompileCode knows every operation.
Known(s) == \A j \in 1..Len(s) : ~(s[j].op \in {"Trunc", "LoadMem"} /\ s[j].k = 2)

LEMMA InConcat ==
  ASSUME NEW s \in Seq(IROp), NEW t \in Seq(IROp), NEW j \in 1..Len(t)
  PROVE  Len(s) + j \in 1..Len(s \o t) /\ (s \o t)[Len(s) + j] = t[j]
<1>1. /\ Len(s) \in Nat /\ Len(t) \in Nat /\ Len(s \o t) = Len(s) + Len(t)
      /\ \A k \in 1..Len(s) : (s \o t)[k] = s[k]
      /\ \A k \in 1..Len(t) : (s \o t)[Len(s) + k] = t[k]
  BY ConcatAt
<1> QED
  BY <1>1

LEMMA KnownSize ==
  ASSUME NEW i \in Instruction, NEW b \in Nat, NEW r, Known(r.ops), Succeeds(r),
         \/ r = XorOp(i, b)
         \/ r = ShlImmOp(i, b)
         \/ r = AddOp(i, b)
  PROVE  OpSize(i.enc) \in {4, 8}
<1> USE DEF Succeeds
<1>1. OpSize(i.enc) \in {2, 4, 8} /\ RMOf(i.enc) \in 0..17 /\ RegOf(i.enc) \in 0..17
      /\ (OpSize(i.enc) = 2 => OPSIZE(i.enc))
  BY Operands DEF Instruction
<1>2. PICK size : size = OpSize(i.enc)
  OBVIOUS
<1>3. ASSUME NEW a PROVE Truncate(a, size).op = "Trunc" /\ Truncate(a, size).k = size
  BY DEF Truncate, Op
<1>4. CASE r = XorOp(i, b)
  <2>1. 3 \in 1..Len(r.ops) /\ r.ops[3] = Truncate(b+1, size)
    BY <1>2, <1>4 DEF XorOp, Result
  <2>2. size # 2
    BY <1>3, <2>1 DEF Known
  <2> QED
    BY <1>1, <1>2, <2>2
<1>5. CASE r = ShlImmOp(i, b)
  <2>1. 3 \in 1..Len(r.ops) /\ r.ops[3] = Truncate(b+1, size)
    BY <1>2, <1>5 DEF ShlImmOp, Result
  <2>2. size # 2
    BY <1>3, <2>1 DEF Known
  <2> QED
    BY <1>1, <1>2, <2>2
<1>6. CASE r = AddOp(i, b)
  <2>1. PICK s, c, dest : /\ r.ops = s \o AddSum(c, dest, size) /\ c \in Nat /\ b < c /\ dest \in 0..17
                          /\ s \in Seq(IROp)
    <3>1. FromRegister(i) \in Seq(IROp) /\ FromMemory(i, b) \in Seq(IROp)
      BY AddSources DEF FormedSeq
    <3>2. \/ r.ops = FromRegister(i) \o AddSum(b+1, RMOf(i.enc), size)
          \/ r.ops = FromMemory(i, b) \o AddSum(b+2, RegOf(i.enc), size)
      <4>1. \/ AddOp(i, b).fail = TRUE
            \/ AddOp(i, b) = Result(FALSE, FromRegister(i) \o AddSum(b+1, RMOf(i.enc), size))
            \/ AddOp(i, b) = Result(FALSE, FromMemory(i, b) \o AddSum(b+2, RegOf(i.enc), size))
        BY <1>2, AddCases
      <4> QED
        BY <1>6, <4>1 DEF Result
    <3>3. CASE r.ops = FromRegister(i) \o AddSum(b+1, RMOf(i.enc), size)
      BY <1>1, <3>1, <3>3, b+1 \in Nat, b < b+1
    <3>4. CASE r.ops = FromMemory(i, b) \o AddSum(b+2, RegOf(i.enc), size)
      BY <1>1, <3>1, <3>4, b+2 \in Nat, b < b+2
    <3> QED
      BY <3>2, <3>3, <3>4
  <2>2. PICK t : t = AddSum(c, dest, size)
    OBVIOUS
  <2>3. t \in Seq(IROp) /\ Len(t) = 6 /\ t[2] = Truncate(c+1, size)
    <3>1. FormedSeq(i, b, c, t)
      BY <1>1, <1>2, <2>1, <2>2, AddSumFormed
    <3> QED
      BY <2>2, <3>1 DEF FormedSeq, AddSum
  <2>4. Len(s) + 2 \in 1..Len(s \o t) /\ (s \o t)[Len(s) + 2] = t[2]
    <3>1. s \in Seq(IROp) /\ t \in Seq(IROp) /\ Len(t) = 6
      BY <2>1, <2>3
    <3> QED
      BY <3>1, 2 \in 1..Len(t), InConcat
  <2>5. Len(s) + 2 \in 1..Len(r.ops) /\ r.ops[Len(s) + 2] = Truncate(c+1, size)
    BY <2>1, <2>2, <2>3, <2>4
  <2>6. size # 2
    BY <1>3, <2>5 DEF Known
  <2> QED
    BY <1>1, <1>2, <2>6
<1> QED
  BY <1>4, <1>5, <1>6

\* The operations a handler appends take CPUState where the instruction should,
\* for every instruction that is not a conditional jump.
Executed(i, b, x, r, c, v, h) ==
  /\ Valid(i) /\ b \in Nat /\ x \in Nat /\ x + Length(i.enc) \in Word
  /\ Succeeds(r) /\ Known(r.ops) /\ Steps(r.ops, b, v, h)
  /\ c \in Context /\ h[b] = c
LEMMA SyscallRuns ==
  ASSUME NEW i, NEW b, NEW x, NEW c, NEW v, NEW h, Executed(i, b, x, SyscallOp(b), c, v, h),
         i.enc.map = "two", i.enc.op = \h05
  PROVE  Right(i, c, h[b + Len(SyscallOp(b).ops)], x)
<1>1. /\ i \in Instruction /\ b \in Nat /\ c \in Context /\ h[b] = c
      /\ Succeeds(SyscallOp(b)) /\ Steps(SyscallOp(b).ops, b, v, h)
  BY DEF Executed, Valid
<1>2. Valid(i) /\ x \in Nat /\ x + Length(i.enc) \in Word
  BY DEF Executed
<1>4. h[b + Len(SyscallOp(b).ops)] = CallKernel(c)
  BY <1>1, SyscallEffect
<1>5. Right(i, c, CallKernel(c), x)
  BY <1>1, <1>2, SyscallRight
<1> QED
  BY <1>4, <1>5

LEMMA BTRuns ==
  ASSUME NEW i, NEW b, NEW x, NEW c, NEW v, NEW h, Executed(i, b, x, BTOp(i, b), c, v, h),
         i.enc.map = "two", i.enc.op = \hA3
  PROVE  Right(i, c, h[b + Len(BTOp(i, b).ops)], x)
<1>1. /\ i \in Instruction /\ b \in Nat /\ c \in Context /\ h[b] = c
      /\ Succeeds(BTOp(i, b)) /\ Steps(BTOp(i, b).ops, b, v, h)
  BY DEF Executed, Valid
<1>2. Valid(i) /\ x \in Nat /\ x + Length(i.enc) \in Word
  BY DEF Executed
<1>4. /\ FlagOf(c[RMOf(i.enc)], c[RegOf(i.enc)] % Bits(4)) \in 0..1
      /\ h[b + Len(BTOp(i, b).ops)] =
           Put(c, RFLAGS, WithFlag(c[RFLAGS], 0, FlagOf(c[RMOf(i.enc)], c[RegOf(i.enc)] % Bits(4))))
  BY <1>1, BTEffect
<1>5. Right(i, c,
        Put(c, RFLAGS, WithFlag(c[RFLAGS], 0, FlagOf(c[RMOf(i.enc)], c[RegOf(i.enc)] % Bits(4)))), x)
  BY <1>1, <1>2, <1>4, BTRight
<1> QED
  BY <1>4, <1>5

LEMMA AddImmRuns ==
  ASSUME NEW i, NEW b, NEW x, NEW c, NEW v, NEW h, Executed(i, b, x, AddImmOp(i, b), c, v, h),
         i.enc.map = "base", i.enc.op = \h05
  PROVE  Right(i, c, h[b + Len(AddImmOp(i, b).ops)], x)
<1>1. /\ i \in Instruction /\ b \in Nat /\ c \in Context /\ h[b] = c
      /\ Succeeds(AddImmOp(i, b)) /\ Steps(AddImmOp(i, b).ops, b, v, h)
  BY DEF Executed, Valid
<1>2. Valid(i) /\ x \in Nat /\ x + Length(i.enc) \in Word
  BY DEF Executed
<1>4. h[b + Len(AddImmOp(i, b).ops)] =
        Put(c, 0, Wrap(c[0] + i.imm, 8))
  BY <1>1, AddImmEffect
<1>5. Right(i, c,
        Put(c, 0, Wrap(c[0] + i.imm, 8)), x)
  BY <1>1, <1>2, AddImmRight
<1> QED
  BY <1>4, <1>5

LEMMA XorRuns ==
  ASSUME NEW i, NEW b, NEW x, NEW c, NEW v, NEW h, Executed(i, b, x, XorOp(i, b), c, v, h),
         i.enc.map = "base", i.enc.op = \h31
  PROVE  Right(i, c, h[b + Len(XorOp(i, b).ops)], x)
<1>1. /\ i \in Instruction /\ b \in Nat /\ c \in Context /\ h[b] = c
      /\ Succeeds(XorOp(i, b)) /\ Steps(XorOp(i, b).ops, b, v, h)
  BY DEF Executed, Valid
<1>2. Valid(i) /\ x \in Nat /\ x + Length(i.enc) \in Word
  BY DEF Executed
<1>3. OpSize(i.enc) \in {4, 8}
  <2>1. Known(XorOp(i, b).ops)
    BY DEF Executed
  <2> QED
    BY <1>1, <2>1, KnownSize
<1>4. h[b + Len(XorOp(i, b).ops)] =
        Put(c, RMOf(i.enc), Wrap(BitXor(Wrap(c[RMOf(i.enc)], OpSize(i.enc)),
                                      Wrap(c[RegOf(i.enc)], OpSize(i.enc))), OpSize(i.enc)))
  BY <1>1, <1>3, XorEffect
<1>5. Right(i, c,
        Put(c, RMOf(i.enc), Wrap(BitXor(Wrap(c[RMOf(i.enc)], OpSize(i.enc)),
                                      Wrap(c[RegOf(i.enc)], OpSize(i.enc))), OpSize(i.enc))), x)
  BY <1>1, <1>2, <1>3, XorRight
<1> QED
  BY <1>4, <1>5

LEMMA CMPRuns ==
  ASSUME NEW i, NEW b, NEW x, NEW c, NEW v, NEW h, Executed(i, b, x, CMPOp(i, b, x), c, v, h),
         i.enc.map = "base", i.enc.op = \h39
  PROVE  Right(i, c, h[b + Len(CMPOp(i, b, x).ops)], x)
<1>1. /\ i \in Instruction /\ b \in Nat /\ c \in Context /\ h[b] = c
      /\ Succeeds(CMPOp(i, b, x)) /\ Steps(CMPOp(i, b, x).ops, b, v, h)
  BY DEF Executed, Valid
<1>2. Valid(i) /\ x \in Nat /\ x + Length(i.enc) \in Word
  BY DEF Executed
<1>4. h[b + Len(CMPOp(i, b, x).ops)] =
        Put(c, RFLAGS, WithFlag(c[RFLAGS], 6, IF c[RMOf(i.enc)] = c[RegOf(i.enc)] THEN 0 ELSE 1))
  BY <1>1, CMPEffect
<1>5. Right(i, c,
        Put(c, RFLAGS, WithFlag(c[RFLAGS], 6, IF c[RMOf(i.enc)] = c[RegOf(i.enc)] THEN 0 ELSE 1)), x)
  BY <1>1, <1>2, CMPRight
<1> QED
  BY <1>4, <1>5

LEMMA MovRuns ==
  ASSUME NEW i, NEW b, NEW x, NEW c, NEW v, NEW h, Executed(i, b, x, MovOp(i, b), c, v, h),
         i.enc.map = "base", i.enc.op = \h89
  PROVE  Right(i, c, h[b + Len(MovOp(i, b).ops)], x)
<1>1. /\ i \in Instruction /\ b \in Nat /\ c \in Context /\ h[b] = c
      /\ Succeeds(MovOp(i, b)) /\ Steps(MovOp(i, b).ops, b, v, h)
  BY DEF Executed, Valid
<1>2. Valid(i) /\ x \in Nat /\ x + Length(i.enc) \in Word
  BY DEF Executed
<1>4. h[b + Len(MovOp(i, b).ops)] =
        Put(c, RMOf(i.enc), Wrap(c[RegOf(i.enc)], IF HasREX(i.enc) THEN 8 ELSE 4))
  BY <1>1, MovEffect
<1>5. Right(i, c,
        Put(c, RMOf(i.enc), Wrap(c[RegOf(i.enc)], IF HasREX(i.enc) THEN 8 ELSE 4)), x)
  BY <1>1, <1>2, MovRight
<1> QED
  BY <1>4, <1>5

LEMMA LEARuns ==
  ASSUME NEW i, NEW b, NEW x, NEW c, NEW v, NEW h, Executed(i, b, x, LEAOp(i, b), c, v, h),
         i.enc.map = "base", i.enc.op = \h8D
  PROVE  Right(i, c, h[b + Len(LEAOp(i, b).ops)], x)
<1>1. /\ i \in Instruction /\ b \in Nat /\ c \in Context /\ h[b] = c
      /\ Succeeds(LEAOp(i, b)) /\ Steps(LEAOp(i, b).ops, b, v, h)
  BY DEF Executed, Valid
<1>2. Valid(i) /\ x \in Nat /\ x + Length(i.enc) \in Word
  BY DEF Executed
<1>4. h[b + Len(LEAOp(i, b).ops)] =
        Put(c, RegOf(i.enc), Wrap(c[RMOf(i.enc)] + i.imm, 8))
  BY <1>1, LEAEffect
<1>5. Right(i, c,
        Put(c, RegOf(i.enc), Wrap(c[RMOf(i.enc)] + i.imm, 8)), x)
  BY <1>1, <1>2, LEARight
<1> QED
  BY <1>4, <1>5

LEMMA ShlImmRuns ==
  ASSUME NEW i, NEW b, NEW x, NEW c, NEW v, NEW h, Executed(i, b, x, ShlImmOp(i, b), c, v, h),
         i.enc.map = "base", i.enc.op = \hC1
  PROVE  Right(i, c, h[b + Len(ShlImmOp(i, b).ops)], x)
<1>1. /\ i \in Instruction /\ b \in Nat /\ c \in Context /\ h[b] = c
      /\ Succeeds(ShlImmOp(i, b)) /\ Steps(ShlImmOp(i, b).ops, b, v, h)
  BY DEF Executed, Valid
<1>2. Valid(i) /\ x \in Nat /\ x + Length(i.enc) \in Word
  BY DEF Executed
<1>3. OpSize(i.enc) \in {4, 8}
  <2>1. Known(ShlImmOp(i, b).ops)
    BY DEF Executed
  <2> QED
    BY <1>1, <2>1, KnownSize
<1>a. i.imm \in 0..(Bits(8) - 1)
  BY <1>2 DEF Valid
<1>4. h[b + Len(ShlImmOp(i, b).ops)] = Shifted(i, c)
  BY <1>1, <1>3, <1>a, ShlImmEffect, SMTT(30)
<1>5. Right(i, c, Shifted(i, c), x)
  BY <1>1, <1>2, <1>3, ShlImmRight
<1> QED
  BY <1>4, <1>5

LEMMA RETRuns ==
  ASSUME NEW i, NEW b, NEW x, NEW c, NEW v, NEW h, Executed(i, b, x, RETOp(b), c, v, h),
         i.enc.map = "base", i.enc.op = \hC3
  PROVE  Right(i, c, h[b + Len(RETOp(b).ops)], x)
<1>1. /\ i \in Instruction /\ b \in Nat /\ c \in Context /\ h[b] = c
      /\ Succeeds(RETOp(b)) /\ Steps(RETOp(b).ops, b, v, h)
  BY DEF Executed, Valid
<1>2. Valid(i) /\ x \in Nat /\ x + Length(i.enc) \in Word
  BY DEF Executed
<1>4. h[b + Len(RETOp(b).ops)] =
        Put(Put(c, RSP, Wrap(c[RSP] + 8, 8)), RIP, Memory(c[RSP]))
  BY <1>1, RETEffect
<1>5. Right(i, c,
        Put(Put(c, RSP, Wrap(c[RSP] + 8, 8)), RIP, Memory(c[RSP])), x)
  BY <1>1, <1>2, RETRight
<1> QED
  BY <1>4, <1>5

LEMMA JMPRuns ==
  ASSUME NEW i, NEW b, NEW x, NEW c, NEW v, NEW h, Executed(i, b, x, JMPOp(i, b), c, v, h),
         i.enc.map = "base", i.enc.op = \hFF
  PROVE  Right(i, c, h[b + Len(JMPOp(i, b).ops)], x)
<1>1. /\ i \in Instruction /\ b \in Nat /\ c \in Context /\ h[b] = c
      /\ Succeeds(JMPOp(i, b)) /\ Steps(JMPOp(i, b).ops, b, v, h)
  BY DEF Executed, Valid
<1>2. Valid(i) /\ x \in Nat /\ x + Length(i.enc) \in Word
  BY DEF Executed
<1>4. h[b + Len(JMPOp(i, b).ops)] =
        Put(c, RIP, c[RMOf(i.enc)])
  BY <1>1, JMPEffect
<1>5. Right(i, c,
        Put(c, RIP, c[RMOf(i.enc)]), x)
  BY <1>1, <1>2, JMPRight
<1> QED
  BY <1>4, <1>5

LEMMA AddImmModRMRuns ==
  ASSUME NEW i, NEW b, NEW x, NEW c, NEW v, NEW h, Executed(i, b, x, AddImmModRMOp(i, b), c, v, h),
         i.enc.map = "base", i.enc.op = \h83
  PROVE  Right(i, c, h[b + Len(AddImmModRMOp(i, b).ops)], x)
<1>1. /\ i \in Instruction /\ b \in Nat /\ c \in Context /\ h[b] = c
      /\ Succeeds(AddImmModRMOp(i, b)) /\ Steps(AddImmModRMOp(i, b).ops, b, v, h)
  BY DEF Executed, Valid
<1>2. Valid(i) /\ x \in Nat /\ x + Length(i.enc) \in Word
  BY DEF Executed
<1>3. PICK u, z \in 0..1 : h[b + Len(AddImmModRMOp(i, b).ops)] =
             Put(Put(Put(c, RMOf(i.enc), Wrap(c[RMOf(i.enc)] + i.imm, 8)),
                     RFLAGS, WithFlag(c[RFLAGS], 7, u)),
                 RFLAGS, WithFlag(WithFlag(c[RFLAGS], 7, u), 6, z))
  BY <1>1, AddImmModRMEffect
<1>4. Right(i, c, Put(Put(Put(c, RMOf(i.enc), Wrap(c[RMOf(i.enc)] + i.imm, 8)),
                     RFLAGS, WithFlag(c[RFLAGS], 7, u)),
                 RFLAGS, WithFlag(WithFlag(c[RFLAGS], 7, u), 6, z)), x)
  BY <1>1, <1>2, AddImmModRMRight
<1> QED
  BY <1>3, <1>4

LEMMA NOPRuns ==
  ASSUME NEW i, NEW b, NEW x, NEW c, NEW v, NEW h, Executed(i, b, x, NoOp, c, v, h),
         \/ i.enc.map = "base" /\ i.enc.op = \h90
         \/ i.enc.map = "two" /\ i.enc.op = \h1F
  PROVE  Right(i, c, h[b + Len(NoOp.ops)], x)
<1>1. Valid(i) /\ b \in Nat /\ c \in Context /\ h[b] = c /\ x \in Nat /\ x + Length(i.enc) \in Word
  BY DEF Executed
<1>2. b + Len(NoOp.ops) = b
  BY <1>1 DEF NoOp, Result
<1>3. Right(i, c, c, x)
  BY <1>1, NOPRight
<1> QED
  BY <1>1, <1>2, <1>3

LEMMA AddRuns ==
  ASSUME NEW i, NEW b, NEW x, NEW c, NEW v, NEW h, Executed(i, b, x, AddOp(i, b), c, v, h),
         i.enc.map = "base", i.enc.op \in {\h01, \h03}
  PROVE  Right(i, c, h[b + Len(AddOp(i, b).ops)], x)
<1>1. /\ i \in Instruction /\ b \in Nat /\ c \in Context /\ h[b] = c
      /\ Succeeds(AddOp(i, b)) /\ Steps(AddOp(i, b).ops, b, v, h)
  BY DEF Executed, Valid
<1>2. Valid(i) /\ x \in Nat /\ x + Length(i.enc) \in Word
  BY DEF Executed
<1>3. OpSize(i.enc) \in {4, 8}
  <2>1. Known(AddOp(i, b).ops)
    BY DEF Executed
  <2> QED
    BY <1>1, <2>1, KnownSize
<1>4. PICK s : s = AddOp(i, b).ops
  OBVIOUS
<1>5. Steps(s, b, v, h)
  BY <1>1, <1>4
<1>6. \/ /\ Mod(ModRMOf(i.enc)) = 3
         /\ s = AddRegisterCode(i, b)
      \/ /\ Mod(ModRMOf(i.enc)) = 0
         /\ s = AddMemoryCode(i, b)
  <2>1. \/ AddOp(i, b).fail = TRUE
        \/ /\ Mod(ModRMOf(i.enc)) = 3
           /\ AddOp(i, b) = Result(FALSE, AddRegisterCode(i, b))
        \/ /\ Mod(ModRMOf(i.enc)) = 0
           /\ AddOp(i, b) = Result(FALSE, AddMemoryCode(i, b))
    BY <1>1, AddCases DEF AddRegisterCode, AddMemoryCode
  <2> QED
    BY <1>1, <1>4, <2>1 DEF Result, Succeeds
<1>7. CASE /\ Mod(ModRMOf(i.enc)) = 3
           /\ s = AddRegisterCode(i, b)
  <2>1. h[b + Len(s)] = Put(c, RMOf(i.enc), Wrap(c[RMOf(i.enc)] + c[RegOf(i.enc)], OpSize(i.enc)))
    BY <1>1, <1>3, <1>5, <1>7, AddRegisterEffect
  <2>2. Right(i, c, Put(c, RMOf(i.enc), Wrap(c[RMOf(i.enc)] + c[RegOf(i.enc)], OpSize(i.enc))), x)
    BY <1>1, <1>2, <1>3, <1>7, AddRegisterRight
  <2> QED
    BY <1>4, <2>1, <2>2
<1>8. CASE /\ Mod(ModRMOf(i.enc)) = 0
           /\ s = AddMemoryCode(i, b)
  <2>1. h[b + Len(s)] =
          Put(c, RegOf(i.enc), Wrap(c[RegOf(i.enc)] + Memory(c[RMOf(i.enc)]), OpSize(i.enc)))
    BY <1>1, <1>3, <1>5, <1>8, AddMemoryEffect
  <2>2. Right(i, c, Put(c, RegOf(i.enc),
                        Wrap(c[RegOf(i.enc)] + Memory(c[RMOf(i.enc)]), OpSize(i.enc))), x)
    BY <1>1, <1>2, <1>3, <1>8, AddMemoryRight
  <2> QED
    BY <1>4, <2>1, <2>2
<1> QED
  BY <1>6, <1>7, <1>8

LEMMA HandlerRight ==
  ASSUME NEW i, NEW b, NEW x, NEW start, NEW r, NEW c, NEW v, NEW h, Executed(i, b, x, r, c, v, h),
         ~Jump(i), r = Handler(i, b, x, start)
  PROVE  Right(i, c, h[b + Len(r.ops)], x)
<1>1. CASE i.enc.map = "two" /\ i.enc.op = \h05 /\ r = SyscallOp(b)
  BY <1>1, SyscallRuns
<1>2. CASE i.enc.map = "two" /\ i.enc.op = \h1F /\ r = NoOp
  BY <1>2, NOPRuns
<1>3. CASE i.enc.map = "two" /\ i.enc.op = \hA3 /\ r = BTOp(i, b)
  BY <1>3, BTRuns
<1>4. CASE i.enc.map = "base" /\ i.enc.op \in {\h01, \h03} /\ r = AddOp(i, b)
  BY <1>4, AddRuns
<1>5. CASE i.enc.map = "base" /\ i.enc.op = \h05 /\ r = AddImmOp(i, b)
  BY <1>5, AddImmRuns
<1>6. CASE i.enc.map = "base" /\ i.enc.op = \h31 /\ r = XorOp(i, b)
  BY <1>6, XorRuns
<1>7. CASE i.enc.map = "base" /\ i.enc.op = \h39 /\ r = CMPOp(i, b, x)
  BY <1>7, CMPRuns
<1>8. CASE i.enc.map = "base" /\ i.enc.op = \h83 /\ r = AddImmModRMOp(i, b)
  BY <1>8, AddImmModRMRuns
<1>9. CASE i.enc.map = "base" /\ i.enc.op = \h89 /\ r = MovOp(i, b)
  BY <1>9, MovRuns
<1>10. CASE i.enc.map = "base" /\ i.enc.op = \h8D /\ r = LEAOp(i, b)
  BY <1>10, LEARuns
<1>11. CASE i.enc.map = "base" /\ i.enc.op = \h90 /\ r = NoOp
  BY <1>11, NOPRuns
<1>12. CASE i.enc.map = "base" /\ i.enc.op = \hC1 /\ r = ShlImmOp(i, b)
  BY <1>12, ShlImmRuns
<1>13. CASE i.enc.map = "base" /\ i.enc.op = \hC3 /\ r = RETOp(b)
  BY <1>13, RETRuns
<1>14. CASE i.enc.map = "base" /\ i.enc.op = \hFF /\ r = JMPOp(i, b)
  BY <1>14, JMPRuns
<1>15. ~(i.enc.map = "base" /\ i.enc.op \in \h70..\h7F) /\ Valid(i)
  BY DEF Jump, Executed
<1> QED
  <2>1. \/ /\ i.enc.map = "two"
           /\ \/ i.enc.op = \h05 /\ r = SyscallOp(b)
              \/ i.enc.op = \h1F /\ r = NoOp
              \/ i.enc.op = \hA3 /\ r = BTOp(i, b)
        \/ /\ i.enc.map = "base"
           /\ \/ i.enc.op \in {\h01, \h03} /\ r = AddOp(i, b)
              \/ i.enc.op = \h05 /\ r = AddImmOp(i, b)
              \/ i.enc.op = \h31 /\ r = XorOp(i, b)
              \/ i.enc.op = \h39 /\ r = CMPOp(i, b, x)
              \/ i.enc.op = \h83 /\ r = AddImmModRMOp(i, b)
              \/ i.enc.op = \h89 /\ r = MovOp(i, b)
              \/ i.enc.op = \h8D /\ r = LEAOp(i, b)
              \/ i.enc.op = \h90 /\ r = NoOp
              \/ i.enc.op = \hC1 /\ r = ShlImmOp(i, b)
              \/ i.enc.op = \hC3 /\ r = RETOp(b)
              \/ i.enc.op = \hFF /\ r = JMPOp(i, b)
    BY <1>15, HandlerCases
  <2> QED
    BY <2>1, <1>1, <1>2, <1>3, <1>4, <1>5, <1>6, <1>7, <1>8, <1>9, <1>10, <1>11, <1>12, <1>13, <1>14

----------------------------------------------------------------------------
(* A block that runs.  q is the place it is at, c CPUState, a the registers *)
(* of the architecture, f the variable before, v the values.                *)

\* The places of a block that runs.
LEMMA Places ==
  ASSUME Layout, phase = "run"
  PROVE  /\ block \in Blocks /\ block.start \in Nat /\ block.start \in Word
         /\ Body \in Nat /\ Body >= 2 /\ Len(IRList) = Body + 1 /\ DOMAIN IRList = 1..(Body + 1)
         /\ Marker(2) /\ Number(2) = 1 /\ IRList[2].k = block.start
         /\ IRList[1].op = "BeginBlock" /\ IRList[Body + 1].op = "EndBlock"
         /\ IRList[Body + 1].k = (IF HitRIPSetter THEN 0 ELSE Total) /\ Total \in Nat
         /\ \A p \in 1..(Body + 1) : IRList[p].op \in OpNames
<1>1. /\ Types /\ IRList[1].op = "BeginBlock" /\ ~Making
      /\ n # 1 /\ n \in Nat /\ IRList \in Seq(IROp)
  BY BlockTypes DEF Layout, Types, Making
<1>2. n > 1
  BY <1>1, BlockTypes DEF Types
<1>3. Body >= 2 /\ Marker(2) /\ Number(2) = 1 /\ IRList[2].k = block.start
  BY <1>2 DEF Layout
<1>4. block \in Blocks /\ block.start \in Nat /\ block.start \in Word /\ Total \in Nat
  BY <1>1, BlockTypes DEF Types
<1>5. Len(IRList) \in Nat /\ Body = Len(IRList) - 1 /\ DOMAIN IRList = 1..Len(IRList)
  BY <1>1, LenProperties DEF Body
<1>6. IRList[Len(IRList)] = EndBlock(IF HitRIPSetter THEN 0 ELSE Total)
  BY <1>1 DEF Layout
<1>7. IRList[Len(IRList)].op = "EndBlock" /\ IRList[Len(IRList)].k = (IF HitRIPSetter THEN 0 ELSE Total)
  BY <1>6 DEF EndBlock, Op
<1>8. ASSUME NEW p \in 1..Len(IRList) PROVE IRList[p].op \in OpNames
  <2>1. IRList[p] \in IROp
    BY <1>1, ElementOfSeq
  <2> QED
    BY <2>1 DEF IROp
<1>9. Len(IRList) = Body + 1 /\ Body \in Nat
  BY <1>3, <1>5
<1> QED
  BY <1>1, <1>3, <1>4, <1>5, <1>7, <1>8, <1>9

\* The architecture executes the instructions whose handler did not fail.
LEMMA TranslatedIs ==
  ASSUME Layout, NEW m \in 2..Body, Marker(m), phase = "run"
  PROVE  Translated(IRList[m]) <=> Succeeds(Res(m))
<1>1. /\ IRList[m].k \in Nat /\ SizeOf(InstAt(m).enc) \in 1..15 /\ Last(m) \in m..Body /\ Body \in Nat
      /\ Res(m).fail \in BOOLEAN
  BY MarkerTypes
<1>2. Followed(m) /\ Final(m)
  BY DEF Layout
<1>3. block.start \in Nat /\ Total \in Nat
  BY Places
<1>4. CASE Res(m).fail = TRUE
  <2>1. Last(m) = Body
    BY <1>1, <1>2, <1>4 DEF Followed
  <2>2. IRList[m].k = block.start + Total
    BY <1>2, <1>4, <2>1 DEF Final
  <2>3. ~Translated(IRList[m])
    BY <1>3, <2>2 DEF Translated
  <2> QED
    BY <1>4, <2>3 DEF Succeeds
<1>5. CASE Res(m).fail = FALSE
  <2>1. CASE Last(m) < Body
    <3>1. After(m) <= block.start + Total
      BY <1>2, <2>1 DEF Followed
    <3> QED
      BY <1>1, <1>3, <1>5, <3>1 DEF Translated, After, Succeeds
  <2>2. CASE Last(m) = Body
    <3>1. After(m) = block.start + Total
      BY <1>2, <1>5, <2>2 DEF Final
    <3> QED
      BY <1>1, <1>3, <1>5, <3>1 DEF Translated, After, Succeeds
  <2> QED
    BY <1>1, <2>1, <2>2
<1> QED
  BY <1>1, <1>4, <1>5

\* What comes behind the code of an instruction.
LEMMA NextPlace ==
  ASSUME Layout, NEW m \in 2..Body, Marker(m), phase = "run"
  PROVE  /\ Last(m) < Body => /\ Succeeds(Res(m)) /\ ~Ends(m) /\ Last(m) + 1 \in 2..Body
                              /\ Marker(Last(m) + 1) /\ Number(Last(m) + 1) = Number(m) + 1
                              /\ IRList[Last(m) + 1].k = After(m)
         /\ ~(Last(m) < Body) =>
              /\ Last(m) = Body
              /\ Succeeds(Res(m)) =>
                   IRList[Body + 1].k = IF SetsRIP(m) THEN 0 ELSE After(m) - block.start
              /\ ~Succeeds(Res(m)) => IRList[Body + 1].k = IRList[m].k - block.start
<1>1. /\ IRList[m].k \in Nat /\ Last(m) \in m..Body /\ Body \in Nat /\ m \in Nat /\ After(m) \in Nat
      /\ Res(m).fail \in BOOLEAN
  BY MarkerTypes
<1>2. Followed(m) /\ Final(m)
  BY DEF Layout
<1>3. /\ block.start \in Nat /\ Total \in Nat
      /\ IRList[Body + 1].k = (IF HitRIPSetter THEN 0 ELSE Total)
  BY Places
<1>4. CASE Last(m) < Body
  BY <1>1, <1>2, <1>4 DEF Followed, Succeeds
<1>5. CASE Last(m) = Body /\ Res(m).fail = TRUE
  <2>1. IRList[m].k = block.start + Total /\ HitRIPSetter = FALSE
    BY <1>2, <1>5 DEF Final
  <2>2. IRList[Body + 1].k = Total
    BY <1>3, <2>1
  <2>3. ~Succeeds(Res(m))
    BY <1>5 DEF Succeeds
  <2> QED
    BY <1>1, <1>3, <1>5, <2>1, <2>2, <2>3
<1>6. CASE Last(m) = Body /\ Res(m).fail = FALSE
  <2>1. After(m) = block.start + Total /\ (HitRIPSetter <=> SetsRIP(m))
    BY <1>2, <1>6 DEF Final
  <2>2. IRList[Body + 1].k = IF SetsRIP(m) THEN 0 ELSE Total
    BY <1>3, <2>1
  <2>3. Succeeds(Res(m))
    BY <1>6 DEF Succeeds
  <2> QED
    BY <1>1, <1>3, <1>6, <2>1, <2>2, <2>3
<1>7. Last(m) < Body \/ Last(m) = Body
  BY <1>1
<1>8. Res(m).fail = TRUE \/ Res(m).fail = FALSE
  BY <1>1
<1> QED
  BY <1>4, <1>5, <1>6, <1>7, <1>8, Zenon

LEMMA CoveredIs ==
  ASSUME Layout, NEW m \in 2..Body, Marker(m), phase = "run", Succeeds(Res(m)), CoveredBlock
  PROVE  /\ Covered(Number(m)) /\ Supported(InstAt(m))
         /\ SizeOf(InstAt(m).enc) = Length(InstAt(m).enc)
<1>1. Translated(IRList[m])
  BY TranslatedIs
<1>2. Covered(Number(m))
  BY <1>1 DEF CoveredBlock, Marker, Number
<1>3. Valid(InstAt(m))
  BY MarkerTypes
<1>4. Plain(InstAt(m).enc)
  BY <1>2 DEF Covered, InstAt
<1> QED
  BY <1>2, <1>3, <1>4, SupportedIs, PlainSize DEF InstAt

\* The code of a conditional jump that CompileCode has accepted: the flag, and
\* the jump.
JumpKind(m) == JumpType(InstAt(m).enc)
JumpGoal(m) == Target(InstAt(m), IRList[m].k)
LEMMA JumpPlaces ==
  ASSUME Layout, Checked, phase = "run", NEW m \in 2..Body, Marker(m), Succeeds(Res(m)), Jump(InstAt(m))
  PROVE  /\ Last(m) = m + 12
         /\ Handled(JumpKind(m)) /\ Negate(JumpKind(m)) /\ JumpGoal(m) \in Word
         /\ \A j \in 1..6 : IRList[m+j] = FlagValue(m, FlagBit(JumpKind(m)))[j]
         /\ \A j \in 1..6 : IRList[m+6+j] = JumpCode(m+6, JumpGoal(m))[j]
<1> DEFINE i == InstAt(m)
           bit == FlagBit(JumpKind(m))
           flip == <<BiOp("Xor", m+7, m+2)>>
           x == IRList[m].k
           s == FlagValue(m, bit)
<1>1. /\ Valid(i) /\ i \in Instruction /\ m \in Nat /\ x \in Int /\ Body \in Nat /\ Last(m) <= Body
      /\ Len(Res(m).ops) \in Nat /\ Last(m) = m + Len(Res(m).ops)
  <2>1. /\ Valid(i) /\ m \in Nat /\ x \in Nat /\ Body \in Nat /\ Last(m) \in m..Body
        /\ Len(Res(m).ops) \in Nat
    BY MarkerTypes
  <2> QED
    BY <2>1 DEF Valid, Last
<1>2. Res(m) = JccOp(i, m, x, block.start)
  <2>1. PICK j, y, z : j = i /\ y = x /\ z = block.start
    OBVIOUS
  <2>2. j.enc.map = "base" /\ j.enc.op \in \h70..\h7F /\ Valid(j)
    BY <1>1, <2>1 DEF Jump
  <2>3. Handler(j, m, y, z) = JccOp(j, m, y, z)
    BY <2>2 DEF Handler
  <2> QED
    BY <2>1, <2>3 DEF Res
<1>3. \A j \in 1..Len(Res(m).ops) : IRList[m + j] = Res(m).ops[j]
  BY DEF Layout, Placed
<1>4. JumpGoal(m) \in Word /\ JumpGoal(m) \in Int
  <2>1. x + i.imm + SizeOf(i.enc) \in Int
    BY <1>1, SizePositive DEF Instruction
  <2> QED
    BY <2>1, WrapWord DEF Target, Word, JumpGoal
<1>5. JccOp(i, m, x, block.start) # Result(TRUE, <<>>)
  BY <1>2 DEF Succeeds, Result
<1>6. /\ Handled(JumpKind(m))
      /\ \/ Negate(JumpKind(m)) /\ Res(m) = Result(FALSE, s \o JumpCode(m+6, JumpGoal(m)))
         \/ Res(m) = Result(FALSE, (s \o flip) \o JumpCode(m+7, JumpGoal(m)))
  BY <1>1, <1>2, <1>5, JccCases DEF JumpKind, JumpGoal
<1>7. s \in Seq(IROp) /\ Len(s) = 6 /\ bit \in {0, 2, 6, 7, 11}
  BY <1>1, <1>6, FlagBitIs, FlagValueFormed DEF FormedSeq, JumpKind
<1> HIDE DEF s
<1>8. Res(m) # Result(FALSE, (s \o flip) \o JumpCode(m+7, JumpGoal(m)))
  <2> SUFFICES ASSUME Res(m) = Result(FALSE, (s \o flip) \o JumpCode(m+7, JumpGoal(m))) PROVE FALSE
    OBVIOUS
  <2>1. PICK t : t = JumpCode(m+7, JumpGoal(m))
    OBVIOUS
  <2>2. t \in Seq(IROp) /\ Len(t) = 6
    BY <1>1, <1>4, <2>1, JumpCodeFormed, m+7 \in Nat, m < m+7 DEF FormedSeq
  <2>3. flip \in Seq(IROp) /\ Len(flip) = 1 /\ flip[1] = BiOp("Xor", m+7, m+2)
    BY <1>1 DEF BiOp, Op, IROp, OpNames, ValueOps
  <2> HIDE DEF flip
  <2>4. PICK u : u = s \o flip
    OBVIOUS
  <2>5. u \in Seq(IROp) /\ Len(u) = 7 /\ u[7] = BiOp("Xor", m+7, m+2)
    <3>1. /\ u \in Seq(IROp) /\ Len(u) = Len(s) + Len(flip)
          /\ \A k \in 1..Len(flip) : u[Len(s) + k] = flip[k]
      <4>1. s \in Seq(IROp) /\ flip \in Seq(IROp)
        BY <1>7, <2>3
      <4> QED
        BY <2>4, <4>1, ConcatAt
    <3> QED
      BY <1>7, <2>3, <3>1
  <2>6. Len(u \o t) = 13 /\ (u \o t)[7] = u[7]
    <3>1. u \in Seq(IROp) /\ t \in Seq(IROp)
      BY <2>2, <2>5
    <3>2. Len(u \o t) = Len(u) + Len(t) /\ \A k \in 1..Len(u) : (u \o t)[k] = u[k]
      BY <3>1, ConcatAt, Zenon
    <3> QED
      BY <2>2, <2>5, <3>2
  <2>7. Res(m).ops = u \o t
    BY <2>1, <2>4 DEF Result
  <2>8. IRList[m+7] = BiOp("Xor", m+7, m+2) /\ m+7 \in 1..Body
    <3>1. Len(Res(m).ops) = 13 /\ Res(m).ops[7] = BiOp("Xor", m+7, m+2)
      BY <2>5, <2>6, <2>7
    <3>2. m+7 \in 1..Body /\ 7 \in 1..Len(Res(m).ops)
      <4>1. PICK l : l = Len(Res(m).ops)
        OBVIOUS
      <4>2. l = 13
        BY <3>1, <4>1
      <4>3. Last(m) = m + l /\ Last(m) <= Body /\ m \in Nat /\ Body \in Nat
        BY <1>1, <4>1
      <4>4. m+7 \in 1..Body /\ 7 \in 1..l
        BY <4>2, <4>3
      <4> QED
        BY <4>1, <4>4
    <3>3. IRList[m+7] = Res(m).ops[7]
      BY <1>3, <3>2
    <3> QED
      BY <3>1, <3>2, <3>3
  <2>9. Unknown(m+7)
    BY <2>8 DEF Unknown, BiOp, Op
  <2> QED
    BY <2>8, <2>9 DEF Checked
<1>9. Negate(JumpKind(m)) /\ Res(m) = Result(FALSE, s \o JumpCode(m+6, JumpGoal(m)))
  BY <1>6, <1>8
<1>10. PICK t : t = JumpCode(m+6, JumpGoal(m))
  OBVIOUS
<1>11. t \in Seq(IROp) /\ Len(t) = 6
  BY <1>1, <1>4, <1>10, JumpCodeFormed, m+6 \in Nat, m < m+6 DEF FormedSeq
<1>12. /\ Len(s \o t) = Len(s) + Len(t)
       /\ \A k \in 1..Len(s) : (s \o t)[k] = s[k]
       /\ \A k \in 1..Len(t) : (s \o t)[Len(s) + k] = t[k]
  <2>1. s \in Seq(IROp) /\ t \in Seq(IROp)
    BY <1>7, <1>11
  <2> QED
    BY <2>1, ConcatAt
<1>13. Res(m).ops = s \o t
  BY <1>9, <1>10 DEF Result
<1>14. Len(Res(m).ops) = 12 /\ Last(m) = m + 12
  BY <1>1, <1>7, <1>11, <1>12, <1>13
<1>15. ASSUME NEW j \in 1..6 PROVE IRList[m+j] = s[j] /\ IRList[m+6+j] = t[j]
  <2>1. j \in 1..12 /\ 6 + j \in 1..12 /\ m + (6 + j) = m+6+j
    BY <1>1
  <2>2. IRList[m+j] = Res(m).ops[j] /\ IRList[m+6+j] = Res(m).ops[6+j]
    BY <1>3, <1>14, <2>1
  <2>3. (s \o t)[j] = s[j] /\ (s \o t)[6+j] = t[j]
    BY <1>7, <1>11, <1>12
  <2> QED
    BY <1>13, <2>2, <2>3
<1> QED
  BY <1>4, <1>6, <1>9, <1>10, <1>14, <1>15 DEF s

LEMMA JumpOpsAre ==
  ASSUME Layout, Checked, phase = "run", NEW m \in 2..Body, Marker(m), Succeeds(Res(m)), Jump(InstAt(m))
  PROVE  /\ m \in Nat /\ Last(m) = m + 12
         /\ IRList[m+1] = LoadContext(RFLAGS) /\ IRList[m+2] = Constant(1)
         /\ IRList[m+3] = Constant(2^FlagBit(JumpKind(m))) /\ IRList[m+4] = Constant(FlagBit(JumpKind(m)))
         /\ IRList[m+5] = BiOp("And", m+1, m+3) /\ IRList[m+6] = BiOp("Shr", m+5, m+4)
         /\ IRList[m+7].op = "CondJump" /\ IRList[m+7].args[1] = m+6 /\ IRList[m+7].k = JumpGoal(m)
         /\ IRList[m+8] = Constant(JumpGoal(m))
         /\ IRList[m+9] = StoreContext(m+8, RIP) /\ IRList[m+10] = StoreContext(m+8, RIP)
         /\ IRList[m+11].op = "EndBlock" /\ IRList[m+11].k = 0 /\ IRList[m+12].op = "JumpTarget"
<1>1. /\ Last(m) = m + 12
      /\ \A j \in 1..6 : IRList[m+j] = FlagValue(m, FlagBit(JumpKind(m)))[j]
      /\ \A j \in 1..6 : IRList[m+6+j] = JumpCode(m+6, JumpGoal(m))[j]
  BY JumpPlaces
<1>2. m \in Nat
  BY MarkerTypes
<1>3. /\ IRList[m+1] = LoadContext(RFLAGS) /\ IRList[m+2] = Constant(1)
      /\ IRList[m+3] = Constant(2^FlagBit(JumpKind(m))) /\ IRList[m+4] = Constant(FlagBit(JumpKind(m)))
      /\ IRList[m+5] = BiOp("And", m+1, m+3) /\ IRList[m+6] = BiOp("Shr", m+5, m+4)
  BY <1>1 DEF FlagValue
<1>4. /\ IRList[m+6+1] = Op("CondJump", <<m+6, m+6+6>>, JumpGoal(m))
      /\ IRList[m+6+2] = Constant(JumpGoal(m)) /\ IRList[m+6+3] = StoreContext(m+6+2, RIP)
      /\ IRList[m+6+4] = StoreContext(m+6+2, RIP) /\ IRList[m+6+5] = EndBlock(0)
      /\ IRList[m+6+6] = Op("JumpTarget", <<>>, 0)
  BY <1>1 DEF JumpCode
<1>5. /\ m+6+1 = m+7 /\ m+6+2 = m+8 /\ m+6+3 = m+9 /\ m+6+4 = m+10 /\ m+6+5 = m+11 /\ m+6+6 = m+12
  BY <1>2
<1>6. /\ IRList[m+7] = Op("CondJump", <<m+6, m+12>>, JumpGoal(m)) /\ IRList[m+8] = Constant(JumpGoal(m))
      /\ IRList[m+9] = StoreContext(m+8, RIP) /\ IRList[m+10] = StoreContext(m+8, RIP)
      /\ IRList[m+11] = EndBlock(0) /\ IRList[m+12] = Op("JumpTarget", <<>>, 0)
  BY <1>4, <1>5
<1>7. IRList[m+7].op = "CondJump" /\ IRList[m+7].args[1] = m+6 /\ IRList[m+7].k = JumpGoal(m)
  BY <1>6 DEF Op
<1>8. IRList[m+11].op = "EndBlock" /\ IRList[m+11].k = 0 /\ IRList[m+12].op = "JumpTarget"
  BY <1>6 DEF Op, EndBlock
<1> QED
  BY <1>1, <1>2, <1>3, <1>6, <1>7, <1>8

\* Before the EndBlock of a jump there is no other, and its JumpTarget behind.
LEMMA NoTarget ==
  ASSUME Layout, Checked, phase = "run", NEW m \in 2..Body, Marker(m), Succeeds(Res(m)), Jump(InstAt(m))
  PROVE  /\ \A p \in (m+1)..(m+10) : IRList[p].op # "EndBlock"
         /\ \A p \in (m+1)..(m+11) : IRList[p].op # "JumpTarget"
         /\ \A p \in (m+1)..(m+12) : IRList[p].op = "CondJump" => p = m+7
<1>1. /\ m \in Nat
      /\ IRList[m+1] = LoadContext(RFLAGS) /\ IRList[m+2] = Constant(1)
      /\ IRList[m+3] = Constant(2^FlagBit(JumpKind(m))) /\ IRList[m+4] = Constant(FlagBit(JumpKind(m)))
      /\ IRList[m+5] = BiOp("And", m+1, m+3) /\ IRList[m+6] = BiOp("Shr", m+5, m+4)
      /\ IRList[m+7].op = "CondJump" /\ IRList[m+8] = Constant(JumpGoal(m))
      /\ IRList[m+9] = StoreContext(m+8, RIP) /\ IRList[m+10] = StoreContext(m+8, RIP)
      /\ IRList[m+11].op = "EndBlock" /\ IRList[m+12].op = "JumpTarget"
  BY JumpOpsAre
<1>2. /\ IRList[m+1].op = "LoadContext" /\ IRList[m+2].op = "Constant" /\ IRList[m+3].op = "Constant"
      /\ IRList[m+4].op = "Constant" /\ IRList[m+5].op = "And" /\ IRList[m+6].op = "Shr"
      /\ IRList[m+8].op = "Constant" /\ IRList[m+9].op = "StoreContext" /\ IRList[m+10].op = "StoreContext"
  BY <1>1 DEF LoadContext, Constant, BiOp, StoreContext, Op
<1>3. \A p \in (m+1)..(m+12) :
        p \in {m+1, m+2, m+3, m+4, m+5, m+6, m+7, m+8, m+9, m+10, m+11, m+12}
  BY <1>1
<1>4. m+11 \notin (m+1)..(m+10) /\ m+12 \notin (m+1)..(m+10) /\ m+12 \notin (m+1)..(m+11)
  BY <1>1
<1>5. (m+1)..(m+10) \subseteq (m+1)..(m+12) /\ (m+1)..(m+11) \subseteq (m+1)..(m+12)
  BY <1>1
<1>6. ASSUME NEW p \in (m+1)..(m+10) PROVE IRList[p].op # "EndBlock"
  BY <1>1, <1>2, <1>3, <1>4, <1>5
<1>7. ASSUME NEW p \in (m+1)..(m+11) PROVE IRList[p].op # "JumpTarget"
  BY <1>1, <1>2, <1>3, <1>4, <1>5
<1>8. ASSUME NEW p \in (m+1)..(m+12), IRList[p].op = "CondJump" PROVE p = m+7
  BY <1>1, <1>2, <1>3, <1>8
<1> QED
  BY <1>6, <1>7, <1>8

\* A conditional jump in a block that is compared: JNZ after a comparison.
AfterCMP(m) == Number(m) > 1 /\ block.insts[Number(m) - 1].enc.op = \h39
LEMMA CoveredJump ==
  ASSUME Layout, NEW m \in 2..Body, Marker(m), phase = "run", Succeeds(Res(m)), CoveredBlock,
         Jump(InstAt(m))
  PROVE  AfterCMP(m) /\ InstAt(m).enc.op = \h75 /\ JumpKind(m) = 5 /\ FlagBit(JumpKind(m)) = 6
<1>1. Covered(Number(m))
  BY CoveredIs
<1>2. InstAt(m).enc.op = \h75 /\ AfterCMP(m)
  BY <1>1 DEF Covered, Jump, InstAt, AfterCMP
<1>3. JumpKind(m) = 5
  BY <1>2 DEF JumpKind, JumpType
<1> QED
  BY <1>2, <1>3 DEF FlagBit

\* CPUState c and the registers a of the architecture, at the marker m.  A
\* comparison leaves ZF the wrong way round, as JNZ expects it.
Matches(c, a, m) ==
  /\ a \in Registers /\ Same(c, a) /\ a[RIP] = IRList[m].k
  /\ AfterCMP(m) => FlagOf(c[RFLAGS], 6) + FlagOf(a[RFLAGS], 6) = 1
\* The flags, since the marker of the last instruction.
FlagsOK(c, f) == f.inst # 0 => FlagsKept(block.insts[f.inst], f.cpu, c)
\* At the marker m.
Ready(m, c, a, f) ==
  /\ c \in Context /\ c[RIP] = block.start /\ FlagsOK(c, f)
  /\ CoveredBlock => Matches(c, a, m)
\* Behind the marker m, whose instruction the architecture has executed.
Inside(m, a, f) ==
  /\ Succeeds(Res(m)) /\ f.inst = Number(m) /\ f.cpu \in Context /\ f.cpu[RIP] = block.start
  /\ CoveredBlock => \E z : Matches(f.cpu, z, m) /\ a = ArchStep(InstAt(m), z)
\* The operations behind m, up to q, have run.
Ran(m, q, c, f, v) ==
  \E h : h[m] = f.cpu /\ h[q] = c /\ \A p \in (m+1)..q : Step(IRList[p], p, v, h)
\* The code of the instruction at m has run.
Completed(m, c, a, f) ==
  /\ Inside(m, a, f) /\ Outcome(InstAt(m), f.cpu, c)
  /\ CoveredBlock => ArchAgrees(InstAt(m), c, a, IRList[m].k)
\* At an EndBlock.
Ended(q, c, a, f) ==
  /\ DOMAIN c = 0..17 /\ FlagsOK(c, f)
  /\ CoveredBlock => Same(c, a) /\ Wrap(c[RIP] + IRList[q].k, 8) = a[RIP]

LEMMA CompletedFlags ==
  ASSUME Layout, NEW m \in 2..Body, Marker(m), NEW c, NEW a, NEW f, Completed(m, c, a, f)
  PROVE  FlagsOK(c, f)
<1>1. f.inst = Number(m) /\ FlagsKept(InstAt(m), f.cpu, c)
  BY DEF Completed, Inside, Outcome
<1> QED
  BY <1>1 DEF FlagsOK, InstAt

LEMMA SetsAndEnds ==
  ASSUME Layout, NEW m \in 2..Body, Marker(m)
  PROVE  /\ SetsRIP(m) => Ends(m)
         /\ Jump(InstAt(m)) => ~Ends(m) /\ ~SetsRIP(m)
<1>1. Valid(InstAt(m))
  BY MarkerTypes
<1>2. /\ SetsRIP(m) <=> InstAt(m).enc.map = "base" /\ InstAt(m).enc.op \in {\hC3, \hFF}
      /\ Ends(m) <=> \/ InstAt(m).enc.map = "base" /\ InstAt(m).enc.op \in {\hC3, \hFF}
                     \/ InstAt(m).enc.map = "two" /\ InstAt(m).enc.op = \h05
  BY <1>1, InfoFlags DEF SetsRIP, Ends
<1> QED
  BY <1>2 DEF Jump

\* On to the next instruction.
LEMMA CompletedNext ==
  ASSUME Layout, phase = "run", NEW m \in 2..Body, Marker(m), NEW c, NEW a, NEW f,
         Completed(m, c, a, f), Last(m) < Body
  PROVE  Ready(Last(m) + 1, c, a, f)
<1> DEFINE q == Last(m) + 1
<1>1. /\ ~Ends(m) /\ Marker(q) /\ Number(q) = Number(m) + 1 /\ IRList[q].k = After(m)
  BY NextPlace
<1>2. ~SetsRIP(m) /\ Number(m) \in Nat
  <2>1. ~SetsRIP(m)
    BY <1>1, SetsAndEnds
  <2>2. Number(m) \in 1..Len(block.insts)
    BY MarkerTypes
  <2> QED
    BY <2>1, <2>2
<1>3. c \in Context /\ c[RIP] = block.start
  BY <1>1, <1>2 DEF Completed, Inside, Outcome, Ends, SetsRIP
<1>4. FlagsOK(c, f)
  BY CompletedFlags
<1>5. ASSUME CoveredBlock PROVE Matches(c, a, q)
  <2>1. ArchAgrees(InstAt(m), c, a, IRList[m].k)
    BY <1>5 DEF Completed
  <2>a. SizeOf(InstAt(m).enc) = Length(InstAt(m).enc)
    BY <1>5, CoveredIs DEF Completed, Inside
  <2>2. a \in Registers /\ Same(c, a) /\ a[RIP] = After(m)
    BY <1>1, <1>2, <2>1, <2>a DEF ArchAgrees, Ends, SetsRIP, After
  <2>3. AfterCMP(q) => InstAt(m).enc.op = \h39
    BY <1>1, <1>2 DEF AfterCMP, InstAt
  <2>4. AfterCMP(q) => FlagOf(c[RFLAGS], 6) + FlagOf(a[RFLAGS], 6) = 1
    BY <2>1, <2>3 DEF ArchAgrees
  <2> HIDE DEF q
  <2> QED
    BY <1>1, <2>2, <2>4 DEF Matches
<1> HIDE DEF q
<1>6. Ready(q, c, a, f)
  BY <1>3, <1>4, <1>5 DEF Ready
<1> QED
  BY <1>6 DEF q

\* On to the end of the block.
LEMMA CompletedEnd ==
  ASSUME Layout, phase = "run", NEW m \in 2..Body, Marker(m), NEW c, NEW a, NEW f,
         Completed(m, c, a, f), ~(Last(m) < Body)
  PROVE  Ended(Body + 1, c, a, f)
<1>1. Succeeds(Res(m)) /\ f.cpu[RIP] = block.start
  BY DEF Completed, Inside
<1>2. IRList[Body + 1].k = IF SetsRIP(m) THEN 0 ELSE After(m) - block.start
  BY <1>1, NextPlace
<1>3. FlagsOK(c, f)
  BY CompletedFlags
<1>4. After(m) \in Word /\ After(m) \in Nat /\ block.start \in Nat
  BY MarkerTypes, Places
<1>5. ASSUME CoveredBlock PROVE Same(c, a) /\ Wrap(c[RIP] + IRList[Body + 1].k, 8) = a[RIP]
  <2>a. SizeOf(InstAt(m).enc) = Length(InstAt(m).enc)
    BY <1>1, <1>5, CoveredIs
  <2>1. /\ Same(c, a) /\ a[RIP] = IF SetsRIP(m) THEN c[RIP] ELSE After(m)
    BY <1>5, <2>a DEF Completed, ArchAgrees, SetsRIP, After
  <2>2. c[RIP] \in Word /\ (~SetsRIP(m) => c[RIP] = block.start)
    BY <1>1 DEF Completed, Outcome, SetsRIP
  <2>3. CASE SetsRIP(m)
    <3>1. c[RIP] + IRList[Body + 1].k = c[RIP]
      BY <1>2, <2>2, <2>3, WordNat
    <3>2. Wrap(c[RIP], 8) = c[RIP]
      BY <2>2, WrapFits
    <3> QED
      BY <2>1, <2>3, <3>1, <3>2
  <2>4. CASE ~SetsRIP(m)
    <3>1. c[RIP] + IRList[Body + 1].k = After(m)
      BY <1>2, <1>4, <2>2, <2>4
    <3>2. Wrap(After(m), 8) = After(m)
      BY <1>4, WrapFits
    <3> QED
      BY <2>1, <2>4, <3>1, <3>2
  <2> QED
    BY <2>3, <2>4
<1>6. DOMAIN c = 0..17
  BY DEF Completed, Outcome
<1> QED
  BY <1>3, <1>5, <1>6 DEF Ended

\* The handler of the last instruction failed: the block ends before it.
LEMMA FailedEnd ==
  ASSUME Layout, phase = "run", NEW m \in 2..Body, Marker(m), NEW c, NEW a, NEW f,
         ~Succeeds(Res(m)), Ready(m, c, a, f)
  PROVE  Last(m) = Body /\ Ended(Body + 1, c, a, f)
<1>1. Last(m) = Body /\ IRList[Body + 1].k = IRList[m].k - block.start
  BY NextPlace
<1>2. IRList[m].k \in Nat /\ block.start \in Nat /\ IRList[m].k + 15 \in Word
  BY MarkerTypes, Places
<1>3. IRList[m].k \in Word
  BY <1>2, WordNat DEF Word
<1>4. FlagsOK(c, f) /\ c[RIP] = block.start
  BY DEF Ready
<1>5. ASSUME CoveredBlock PROVE Same(c, a) /\ Wrap(c[RIP] + IRList[Body + 1].k, 8) = a[RIP]
  <2>1. Same(c, a) /\ a[RIP] = IRList[m].k
    BY <1>5 DEF Ready, Matches
  <2>2. c[RIP] + IRList[Body + 1].k = IRList[m].k
    BY <1>1, <1>2, <1>4
  <2>3. Wrap(IRList[m].k, 8) = IRList[m].k
    BY <1>3, WrapFits
  <2> QED
    BY <2>1, <2>2, <2>3
<1>6. DOMAIN c = 0..17
  BY DEF Ready, Context
<1> QED
  BY <1>1, <1>4, <1>5, <1>6 DEF Ended

\* The code of an instruction that is not a conditional jump has run.
LEMMA CodeDone ==
  ASSUME Layout, Checked, phase = "run", NEW m \in 2..Body, Marker(m), NEW c, NEW a, NEW f, NEW v,
         Inside(m, a, f), ~Jump(InstAt(m)), Ran(m, Last(m), c, f, v)
  PROVE  Completed(m, c, a, f)
<1> DEFINE i == InstAt(m)
           x == IRList[m].k
<1>1. /\ Valid(i) /\ m \in Nat /\ x \in Nat /\ x + Length(i.enc) \in Word /\ Last(m) \in m..Body
      /\ Body \in Nat /\ Len(Res(m).ops) \in Nat
  <2>1. /\ Valid(i) /\ m \in Nat /\ x \in Nat /\ x + 15 \in Word /\ Length(i.enc) \in 1..15
        /\ Last(m) \in m..Body /\ Body \in Nat /\ Len(Res(m).ops) \in Nat
    BY MarkerTypes
  <2>2. x + Length(i.enc) \in Word
    BY <2>1, WordBelow, Zenon
  <2> QED
    BY <2>1, <2>2, Zenon
<1>2. /\ Last(m) = m + Len(Res(m).ops)
      /\ \A j \in 1..Len(Res(m).ops) : IRList[m + j] = Res(m).ops[j]
  BY DEF Layout, Placed, Last
<1>3. Succeeds(Res(m)) /\ f.cpu \in Context
  BY DEF Inside
<1>4. PICK h : h[m] = f.cpu /\ h[Last(m)] = c /\ \A p \in (m+1)..Last(m) : Step(IRList[p], p, v, h)
  BY Zenon DEF Ran
<1>5. ASSUME NEW j \in 1..Len(Res(m).ops)
      PROVE  Step(Res(m).ops[j], m + j, v, h) /\ ~Unknown(m + j)
  <2>1. m + j \in (m+1)..Last(m) /\ m + j \in 1..Body
    BY <1>1, <1>2
  <2>2. Step(IRList[m+j], m + j, v, h)
    BY <1>4, <2>1
  <2> QED
    BY <1>2, <2>1, <2>2 DEF Checked
<1>6. Steps(Res(m).ops, m, v, h)
  BY <1>5 DEF Steps
<1>7. Known(Res(m).ops)
  BY <1>2, <1>5 DEF Known, Unknown
<1>8. Executed(i, m, x, Res(m), f.cpu, v, h)
  BY <1>1, <1>3, <1>4, <1>6, <1>7 DEF Executed
<1>9. Right(i, f.cpu, h[m + Len(Res(m).ops)], x)
  <2>1. PICK r : r = Res(m)
    OBVIOUS
  <2>2. r = Handler(i, m, x, block.start) /\ Executed(i, m, x, r, f.cpu, v, h)
    BY <1>8, <2>1 DEF Res
  <2>3. Right(i, f.cpu, h[m + Len(r.ops)], x)
    BY <2>2, HandlerRight
  <2> QED
    BY <2>1, <2>3
<1>10. Right(i, f.cpu, c, x)
  BY <1>2, <1>4, <1>9
<1>11. ASSUME CoveredBlock PROVE ArchAgrees(i, c, a, x)
  <2>1. Supported(i)
    BY <1>3, <1>11, CoveredIs
  <2>2. PICK z : Matches(f.cpu, z, m) /\ a = ArchStep(i, z)
    BY <1>11 DEF Inside
  <2>3. z \in Registers /\ Same(f.cpu, z) /\ z[RIP] = x
    BY <2>2 DEF Matches
  <2>4. ArchAgrees(i, c, ArchStep(i, z), x)
    BY <1>10, <2>1, <2>3 DEF Right
  <2> QED
    BY <2>2, <2>4
<1> QED
  BY <1>10, <1>11 DEF Right, Completed

\* What JNZ does in the architecture.
LEMMA ArchJump ==
  ASSUME NEW i, i.enc.map = "base", i.enc.op = \h75, NEW z
  PROVE  ArchStep(i, z) =
           [z EXCEPT ![RIP] = IF FlagOf(z[RFLAGS], 6) = 1 THEN Wrap(z[RIP] + Length(i.enc), 8)
                              ELSE Wrap(Wrap(z[RIP] + Length(i.enc), 8) + i.imm, 8)]
<1>1. JumpType(i.enc) = 5 /\ Handled(5) /\ FlagBit(5) = 6 /\ Negate(5)
  BY DEF JumpType, Handled, FlagBit, Negate
<1>2. ArchStep(i, z) =
        [z EXCEPT ![RIP] = IF Handled(JumpType(i.enc)) /\
                              (FlagOf(z[RFLAGS], FlagBit(JumpType(i.enc))) = 1) # Negate(JumpType(i.enc))
                           THEN Wrap(Wrap(z[RIP] + Length(i.enc), 8) + i.imm, 8)
                           ELSE Wrap(z[RIP] + Length(i.enc), 8)]
  BY DEF ArchStep
<1>3. (FlagOf(z[RFLAGS], 6) = 1) # Negate(5) <=> ~(FlagOf(z[RFLAGS], 6) = 1)
  BY <1>1
<1> QED
  BY <1>1, <1>2, <1>3

\* JNZ in the block, and in the architecture.
LEMMA JumpAgrees ==
  ASSUME Layout, phase = "run", NEW m \in 2..Body, Marker(m), NEW a, NEW f,
         Inside(m, a, f), Jump(InstAt(m)), CoveredBlock
  PROVE  /\ FlagOf(f.cpu[RFLAGS], 6) \in 0..1
         /\ a \in Registers /\ Same(f.cpu, a) /\ FlagOf(f.cpu[RFLAGS], 6) + FlagOf(a[RFLAGS], 6) = 1
         /\ a[RIP] = IF FlagOf(f.cpu[RFLAGS], 6) = 0 THEN After(m) ELSE JumpGoal(m)
<1> DEFINE i == InstAt(m)
           x == IRList[m].k
           l == Length(i.enc)
<1>1. /\ Valid(i) /\ x \in Nat /\ l \in 1..15 /\ After(m) \in Word
  BY MarkerTypes
<1>a. SizeOf(i.enc) = l
  BY CoveredIs DEF Inside
<1>2. Succeeds(Res(m)) /\ f.cpu \in Context
  BY DEF Inside
<1>3. AfterCMP(m) /\ i.enc.op = \h75 /\ i.enc.map = "base"
  BY <1>2, CoveredJump DEF Jump
<1>4. PICK z : Matches(f.cpu, z, m) /\ a = ArchStep(i, z)
  BY DEF Inside
<1>5. /\ z \in Registers /\ Same(f.cpu, z) /\ z[RIP] = x
      /\ FlagOf(f.cpu[RFLAGS], 6) + FlagOf(z[RFLAGS], 6) = 1
  BY <1>3, <1>4 DEF Matches
<1>6. f.cpu[RFLAGS] \in Int /\ z[RFLAGS] \in Int
  BY <1>2, <1>5, WordNat DEF Context, Registers, RFLAGS
<1>7. FlagOf(f.cpu[RFLAGS], 6) \in 0..1 /\ FlagOf(z[RFLAGS], 6) \in 0..1
  BY <1>6, 2^6 = 64 DEF FlagOf
<1>8. PICK y : y = IF FlagOf(z[RFLAGS], 6) = 1 THEN Wrap(x + l, 8) ELSE Wrap(Wrap(x + l, 8) + i.imm, 8)
  OBVIOUS
<1>9. a = [z EXCEPT ![RIP] = y]
  BY <1>3, <1>4, <1>5, <1>8, ArchJump
<1>10. i.imm \in Int /\ x + l \in Int /\ x + l = After(m)
  BY <1>1, <1>a DEF Valid, Instruction, After
<1>11. Wrap(x + l, 8) = After(m)
  BY <1>1, <1>10, WrapFits
<1>12. Wrap(After(m) + i.imm, 8) = JumpGoal(m)
  <2>1. After(m) + i.imm = x + i.imm + l
    BY <1>1, <1>10
  <2> QED
    BY <1>a, <2>1 DEF JumpGoal, Target
<1>13. y = IF FlagOf(z[RFLAGS], 6) = 1 THEN After(m) ELSE JumpGoal(m)
  BY <1>8, <1>11, <1>12
<1>14. y \in Int
  <2>1. After(m) + i.imm \in Int
    BY <1>1, <1>10
  <2>2. JumpGoal(m) \in Word
    BY <1>12, <2>1, WrapWord
  <2> QED
    BY <1>1, <1>13, <2>2, WordNat
<1>15. a \in Registers /\ a[RIP] = y /\ a[RFLAGS] = z[RFLAGS] /\ \A r \in 0..15 : a[r] = z[r]
  BY <1>5, <1>9, <1>14 DEF Registers, RIP, RFLAGS
<1>16. Same(f.cpu, a)
  BY <1>5, <1>15 DEF Same
<1>17. FlagOf(z[RFLAGS], 6) = 1 <=> FlagOf(f.cpu[RFLAGS], 6) = 0
  BY <1>5, <1>7
<1> QED
  BY <1>5, <1>7, <1>13, <1>15, <1>16, <1>17

\* Not taken.
LEMMA FallsThrough ==
  ASSUME Layout, phase = "run", NEW m \in 2..Body, Marker(m), NEW a, NEW f,
         Inside(m, a, f), Jump(InstAt(m)), CoveredBlock => FlagOf(f.cpu[RFLAGS], 6) = 0
  PROVE  Completed(m, f.cpu, a, f)
<1>1. f.cpu \in Context /\ Jump(InstAt(m))
  BY DEF Inside
<1>2. ~SetsRIP(m) /\ ~Ends(m)
  BY <1>1, SetsAndEnds
<1>3. FlagsKept(InstAt(m), f.cpu, f.cpu)
  BY <1>1 DEF FlagsKept, Jump
<1>4. Outcome(InstAt(m), f.cpu, f.cpu)
  BY <1>1, <1>3 DEF Outcome, Context, RIP
<1>5. ASSUME CoveredBlock PROVE ArchAgrees(InstAt(m), f.cpu, a, IRList[m].k)
  <2>1. a \in Registers /\ Same(f.cpu, a) /\ a[RIP] = After(m)
    BY <1>5, JumpAgrees
  <2>2. InstAt(m).enc.op # \h39
    BY <1>1 DEF Jump
  <2>3. SizeOf(InstAt(m).enc) = Length(InstAt(m).enc)
    BY <1>5, CoveredIs DEF Inside
  <2> QED
    BY <1>2, <2>1, <2>2, <2>3 DEF ArchAgrees, SetsRIP, After
<1> QED
  BY <1>4, <1>5 DEF Completed

\* The operations before the jump read the flag.
LEMMA JumpRead ==
  ASSUME Layout, Checked, phase = "run", NEW m \in 2..Body, Marker(m), NEW a, NEW f, NEW v, NEW h,
         Inside(m, a, f), Jump(InstAt(m)), h[m] = f.cpu,
         \A p \in (m+1)..(m+6) : Step(IRList[p], p, v, h)
  PROVE  /\ h[m+6] = f.cpu
         /\ CoveredBlock => v[m+6] = FlagOf(f.cpu[RFLAGS], 6)
<1> DEFINE bit == FlagBit(JumpKind(m))
<1>1. Succeeds(Res(m)) /\ f.cpu \in Context
  BY DEF Inside
<1>2. /\ m \in Nat
      /\ IRList[m+1] = LoadContext(RFLAGS) /\ IRList[m+2] = Constant(1)
      /\ IRList[m+3] = Constant(2^bit) /\ IRList[m+4] = Constant(bit)
      /\ IRList[m+5] = BiOp("And", m+1, m+3) /\ IRList[m+6] = BiOp("Shr", m+5, m+4)
  BY <1>1, JumpOpsAre
<1>3. /\ m+1 \in (m+1)..(m+6) /\ m+2 \in (m+1)..(m+6) /\ m+3 \in (m+1)..(m+6)
      /\ m+4 \in (m+1)..(m+6) /\ m+5 \in (m+1)..(m+6) /\ m+6 \in (m+1)..(m+6)
  BY <1>2
<1>4. /\ Step(LoadContext(RFLAGS), m+1, v, h) /\ Step(Constant(1), m+2, v, h)
      /\ Step(Constant(2^bit), m+3, v, h) /\ Step(Constant(bit), m+4, v, h)
      /\ Step(BiOp("And", m+1, m+3), m+5, v, h) /\ Step(BiOp("Shr", m+5, m+4), m+6, v, h)
  BY <1>2, <1>3
<1> HIDE DEF bit
<1>5. /\ v[m+1] = h[(m+1)-1][RFLAGS] /\ h[m+1] = h[(m+1)-1] /\ h[m+2] = h[(m+2)-1]
      /\ v[m+3] = Wrap(2^bit, 8) /\ h[m+3] = h[(m+3)-1]
      /\ v[m+4] = Wrap(bit, 8) /\ h[m+4] = h[(m+4)-1]
  BY <1>4, StepLoad, StepConstant
<1>6. /\ v[m+5] = BitAnd(v[m+1], v[m+3]) /\ h[m+5] = h[(m+5)-1]
      /\ v[m+6] = v[m+5] \div 2^v[m+4] /\ h[m+6] = h[(m+6)-1]
  BY <1>4, StepBiOp
<1>7. (m+1)-1 = m /\ (m+2)-1 = m+1 /\ (m+3)-1 = m+2 /\ (m+4)-1 = m+3 /\ (m+5)-1 = m+4 /\ (m+6)-1 = m+5
  BY <1>2
<1>8. h[m+6] = f.cpu /\ v[m+1] = f.cpu[RFLAGS]
  BY <1>5, <1>6, <1>7
<1>9. ASSUME CoveredBlock PROVE v[m+6] = FlagOf(f.cpu[RFLAGS], 6)
  <2>1. bit = 6
    BY <1>1, <1>9, CoveredJump DEF bit
  <2>2. Wrap(64, 8) = 64 /\ Wrap(6, 8) = 6
    BY SmallWord
  <2>3. v[m+3] = 64 /\ v[m+4] = 6
    BY <1>5, <2>1, <2>2, 2^6 = 64
  <2>4. PICK w \in Word : w = f.cpu[RFLAGS]
    BY <1>1 DEF Context, RFLAGS
  <2>5. BitAnd(w, 64) = FlagOf(w, 6) * 64
    BY MaskAssumption, 2^6 = 64
  <2>6. w \in Nat
    BY WordNat
  <2>7. (FlagOf(w, 6) * 64) \div 64 = FlagOf(w, 6)
    BY <2>6, 2^6 = 64 DEF FlagOf
  <2>8. v[m+6] = BitAnd(w, 64) \div 2^6
    BY <1>6, <1>8, <2>3, <2>4
  <2> QED
    BY <2>4, <2>5, <2>7, <2>8, 2^6 = 64
<1> QED
  BY <1>8, <1>9

\* A conditional jump out of the block is taken.
LEMMA JumpLeaves ==
  ASSUME Layout, Checked, phase = "run", NEW m \in 2..Body, Marker(m), NEW c, NEW a, NEW f, NEW v,
         Inside(m, a, f), Jump(InstAt(m)), Ran(m, m+10, c, f, v), v[m+6] # 0
  PROVE  Ended(m + 11, c, a, f)
<1>1. Succeeds(Res(m)) /\ f.cpu \in Context /\ f.inst = Number(m)
  BY DEF Inside
<1>2. /\ m \in Nat /\ IRList[m+7].op = "CondJump" /\ IRList[m+8] = Constant(JumpGoal(m))
      /\ IRList[m+9] = StoreContext(m+8, RIP) /\ IRList[m+10] = StoreContext(m+8, RIP)
      /\ IRList[m+11].k = 0
  BY <1>1, JumpOpsAre
<1>3. JumpGoal(m) \in Word
  BY <1>1, JumpPlaces
<1>4. PICK h : h[m] = f.cpu /\ h[m+10] = c /\ \A p \in (m+1)..(m+10) : Step(IRList[p], p, v, h)
  BY Zenon DEF Ran
<1>5. \A p \in (m+1)..(m+6) : Step(IRList[p], p, v, h)
  BY <1>2, <1>4
<1>6. h[m+6] = f.cpu /\ (CoveredBlock => v[m+6] = FlagOf(f.cpu[RFLAGS], 6))
  BY <1>4, <1>5, JumpRead
<1>7. /\ m+7 \in (m+1)..(m+10) /\ m+8 \in (m+1)..(m+10) /\ m+9 \in (m+1)..(m+10)
      /\ m+10 \in (m+1)..(m+10)
      /\ (m+7)-1 = m+6 /\ (m+8)-1 = m+7 /\ (m+9)-1 = m+8 /\ (m+10)-1 = m+9
  BY <1>2
<1>8. /\ Step(IRList[m+7], m+7, v, h) /\ Step(Constant(JumpGoal(m)), m+8, v, h)
      /\ Step(StoreContext(m+8, RIP), m+9, v, h) /\ Step(StoreContext(m+8, RIP), m+10, v, h)
  BY <1>2, <1>4, <1>7
<1>9. h[m+7] = h[(m+7)-1]
  BY <1>2, <1>8 DEF Step
<1>10. /\ v[m+8] = Wrap(JumpGoal(m), 8) /\ h[m+8] = h[(m+8)-1]
       /\ h[m+9] = Put(h[(m+9)-1], RIP, v[m+8]) /\ h[m+10] = Put(h[(m+10)-1], RIP, v[m+8])
  BY <1>8, StepConstant, StepStore
<1>11. v[m+8] = JumpGoal(m)
  BY <1>3, <1>10, WrapFits
<1>12. c = Put(Put(f.cpu, RIP, JumpGoal(m)), RIP, JumpGoal(m))
  BY <1>4, <1>6, <1>7, <1>9, <1>10, <1>11
<1>13. c[RIP] = JumpGoal(m) /\ \A r \in 0..17 : r # RIP => c[r] = f.cpu[r]
  BY <1>1, <1>12 DEF Put, Context, RIP
<1>14. c[RFLAGS] = f.cpu[RFLAGS]
  BY <1>13 DEF RFLAGS, RIP
<1>15. FlagsOK(c, f)
  <2>1. FlagsKept(InstAt(m), f.cpu, c)
    BY <1>14 DEF FlagsKept, Jump
  <2> QED
    BY <1>1, <2>1 DEF FlagsOK, InstAt
<1>16. ASSUME CoveredBlock PROVE Same(c, a) /\ Wrap(c[RIP] + IRList[m+11].k, 8) = a[RIP]
  <2>1. Same(f.cpu, a) /\ a[RIP] = JumpGoal(m)
    BY <1>6, <1>16, JumpAgrees
  <2>2. Same(c, a)
    BY <1>13, <2>1 DEF Same, RIP
  <2>3. c[RIP] + IRList[m+11].k = JumpGoal(m)
    BY <1>2, <1>3, <1>13, WordNat
  <2> QED
    BY <1>3, <2>1, <2>2, <2>3, WrapFits
<1>17. DOMAIN c = 0..17
  BY <1>1, <1>12 DEF Put, Context
<1> QED
  BY <1>15, <1>16, <1>17 DEF Ended

\* Where a block may be: in the code that a handler appended before it failed,
\* in the code of an instruction, or behind a conditional jump not taken.
InFailed(m, q, c, a, f) ==
  ~Succeeds(Res(m)) /\ q \in (m+1)..(Last(m)+1) /\ Ready(m, c, a, f)
InCode(m, q, c, a, f, v) ==
  /\ Inside(m, a, f) /\ q \in (m+1)..(Last(m)+1) /\ Ran(m, q-1, c, f, v)
  /\ Jump(InstAt(m)) => q <= m+11 /\ (q > m+7 => v[m+6] # 0)
BehindJump(m, q, c, a, f) ==
  /\ Inside(m, a, f) /\ Jump(InstAt(m)) /\ q \in {Last(m), Last(m)+1} /\ c = f.cpu
  /\ CoveredBlock => FlagOf(f.cpu[RFLAGS], 6) = 0
Running(m, q, c, a, f, v) ==
  \/ q = m /\ Ready(m, c, a, f)
  \/ InFailed(m, q, c, a, f)
  \/ InCode(m, q, c, a, f, v)
  \/ BehindJump(m, q, c, a, f)
RunAt(q, c, a, f, v) ==
  \/ q = 1 /\ c = saved /\ a = saved /\ f.inst = 0
  \/ \E m \in 2..Body : Marker(m) /\ Running(m, q, c, a, f, v)

\* The operations there.
LEMMA OpAt ==
  ASSUME Layout, phase = "run", NEW m \in 2..Body, Marker(m)
  PROVE  /\ m \in Nat /\ Last(m) \in Nat /\ Last(m) >= m
         /\ \A p \in (m+1)..Last(m) :
              /\ IRList[p].op \in ValueOps \cup {"StoreContext"} \/ (Jump(InstAt(m)) /\ IRList[p].op \in JumpOps)
              /\ ~Succeeds(Res(m)) => IRList[p].op \in ValueOps
         /\ IRList[Last(m)+1].op = IF Last(m) < Body THEN "RIPMarker" ELSE "EndBlock"
         /\ Last(m) < Body => Last(m)+1 \in 2..Body /\ Marker(Last(m)+1)
         /\ ~(Last(m) < Body) => Last(m) = Body
<1>1. /\ m \in Nat /\ Last(m) \in m..Body /\ Body \in Nat /\ Res(m).fail \in BOOLEAN
      /\ Len(Res(m).ops) \in Nat
  BY MarkerTypes
<1>2. /\ Res(m).fail = TRUE => \A j \in 1..Len(Res(m).ops) : Res(m).ops[j].op \in ValueOps
      /\ \A j \in (m+1)..Last(m) : IRList[j] = Res(m).ops[j - m] /\ Formed(InstAt(m), m, j, IRList[j])
  BY MarkerTypes
<1>3. ASSUME NEW p \in (m+1)..Last(m)
      PROVE  /\ IRList[p].op \in ValueOps \cup {"StoreContext"} \/ (Jump(InstAt(m)) /\ IRList[p].op \in JumpOps)
             /\ ~Succeeds(Res(m)) => IRList[p].op \in ValueOps
  <2>1. p - m \in 1..Len(Res(m).ops)
    BY <1>1 DEF Last
  <2>2. ~Succeeds(Res(m)) => IRList[p].op \in ValueOps
    BY <1>1, <1>2, <2>1 DEF Succeeds
  <2>3. Formed(InstAt(m), m, p, IRList[p])
    BY <1>2
  <2> QED
    BY <2>2, <2>3 DEF Formed
<1>4. CASE Last(m) < Body
  <2>1. Last(m)+1 \in 2..Body /\ Marker(Last(m)+1)
    BY <1>4, NextPlace
  <2> QED
    BY <1>1, <1>3, <1>4, <2>1 DEF Marker
<1>5. CASE Last(m) = Body
  <2>1. IRList[Body + 1].op = "EndBlock"
    BY Places
  <2> QED
    BY <1>1, <1>3, <1>5, <2>1
<1> QED
  BY <1>1, <1>4, <1>5

\* A block comes to a marker with the registers of the architecture.
LEMMA Arrived ==
  ASSUME Layout, Checked, phase = "run", NEW q, NEW c, NEW a, NEW f, NEW v, RunAt(q, c, a, f, v),
         IRList[q].op = "RIPMarker"
  PROVE  q \in 2..Body /\ Marker(q) /\ Ready(q, c, a, f)
<1>1. q # 1
  BY Places
<1>2. PICK m \in 2..Body : Marker(m) /\ Running(m, q, c, a, f, v)
  BY <1>1 DEF RunAt
<1>3. /\ m \in Nat /\ Last(m) \in Nat /\ Last(m) >= m
      /\ \A p \in (m+1)..Last(m) : IRList[p].op # "RIPMarker"
      /\ IRList[Last(m)+1].op = IF Last(m) < Body THEN "RIPMarker" ELSE "EndBlock"
      /\ Last(m) < Body => Last(m)+1 \in 2..Body /\ Marker(Last(m)+1)
      /\ ~(Last(m) < Body) => Last(m) = Body
  BY <1>2, OpAt DEF ValueOps, JumpOps
<1>4. CASE q = m /\ Ready(m, c, a, f)
  BY <1>2, <1>4
<1>5. ASSUME q = Last(m)+1, Completed(m, c, a, f)
      PROVE  q \in 2..Body /\ Marker(q) /\ Ready(q, c, a, f)
  <2>1. Last(m) < Body
    BY <1>3, <1>5
  <2>2. Ready(Last(m)+1, c, a, f)
    BY <1>2, <1>5, <2>1, CompletedNext
  <2> QED
    BY <1>3, <1>5, <2>1, <2>2
<1>6. CASE InFailed(m, q, c, a, f)
  <2>1. q = Last(m)+1 /\ ~Succeeds(Res(m))
    BY <1>3, <1>6 DEF InFailed
  <2>2. ~(Last(m) < Body)
    BY <1>2, <2>1, NextPlace
  <2> QED
    BY <1>3, <2>1, <2>2
<1>7. CASE InCode(m, q, c, a, f, v)
  <2>1. q = Last(m)+1 /\ Inside(m, a, f) /\ Ran(m, q-1, c, f, v)
    BY <1>3, <1>7 DEF InCode
  <2>2. ~Jump(InstAt(m))
    <3>1. Jump(InstAt(m)) => Last(m) = m + 12
      BY <1>2, <2>1, JumpOpsAre DEF Inside
    <3> QED
      BY <1>3, <1>7, <2>1, <3>1 DEF InCode
  <2>3. Ran(m, Last(m), c, f, v)
    BY <1>3, <2>1, q-1 = Last(m)
  <2>4. Completed(m, c, a, f)
    BY <1>2, <2>1, <2>2, <2>3, CodeDone
  <2> QED
    BY <1>5, <2>1, <2>4
<1>8. CASE BehindJump(m, q, c, a, f)
  <2>1. Completed(m, c, a, f)
    BY <1>2, <1>8, FallsThrough DEF BehindJump
  <2>2. Last(m) = m + 12
    BY <1>2, <1>8, JumpOpsAre DEF BehindJump, Inside
  <2>3. q = Last(m)+1
    BY <1>3, <1>8, <2>2 DEF BehindJump
  <2> QED
    BY <1>5, <2>1, <2>3
<1> QED
  BY <1>2, <1>4, <1>6, <1>7, <1>8 DEF Running

\* A block comes to its end with the registers of the architecture, but for rip.
LEMMA Finished ==
  ASSUME Layout, Checked, phase = "run", NEW q, NEW c, NEW a, NEW f, NEW v, RunAt(q, c, a, f, v),
         IRList[q].op = "EndBlock"
  PROVE  Ended(q, c, a, f)
<1>1. q # 1
  BY Places
<1>2. PICK m \in 2..Body : Marker(m) /\ Running(m, q, c, a, f, v)
  BY <1>1 DEF RunAt
<1>3. /\ m \in Nat /\ Last(m) \in Nat /\ Last(m) >= m
      /\ \A p \in (m+1)..Last(m) :
           /\ IRList[p].op # "EndBlock" \/ Jump(InstAt(m))
           /\ ~Succeeds(Res(m)) => IRList[p].op # "EndBlock"
      /\ IRList[Last(m)+1].op = IF Last(m) < Body THEN "RIPMarker" ELSE "EndBlock"
      /\ ~(Last(m) < Body) => Last(m) = Body
  BY <1>2, OpAt DEF ValueOps, JumpOps
<1>4. q # m
  BY <1>2 DEF Marker
<1>5. ASSUME q = Last(m)+1, Completed(m, c, a, f) PROVE Ended(q, c, a, f)
  <2>1. ~(Last(m) < Body)
    BY <1>3, <1>5
  <2>2. Ended(Body + 1, c, a, f)
    BY <1>2, <1>5, <2>1, CompletedEnd
  <2> QED
    BY <1>3, <1>5, <2>1, <2>2
<1>6. CASE InFailed(m, q, c, a, f)
  <2>1. q = Last(m)+1 /\ ~Succeeds(Res(m)) /\ Ready(m, c, a, f)
    BY <1>3, <1>6 DEF InFailed
  <2>2. Last(m) = Body /\ Ended(Body + 1, c, a, f)
    BY <1>2, <2>1, FailedEnd
  <2> QED
    BY <2>1, <2>2
<1>7. CASE InCode(m, q, c, a, f, v) /\ ~Jump(InstAt(m))
  <2>1. q = Last(m)+1 /\ Inside(m, a, f) /\ Ran(m, q-1, c, f, v)
    BY <1>3, <1>7 DEF InCode
  <2>2. Ran(m, Last(m), c, f, v)
    BY <1>3, <2>1, q-1 = Last(m)
  <2>3. Completed(m, c, a, f)
    BY <1>2, <1>7, <2>1, <2>2, CodeDone
  <2> QED
    BY <1>5, <2>1, <2>3
<1>8. CASE InCode(m, q, c, a, f, v) /\ Jump(InstAt(m))
  <2>1. /\ Inside(m, a, f) /\ q \in (m+1)..(m+11) /\ Ran(m, q-1, c, f, v)
        /\ q > m+7 => v[m+6] # 0
    BY <1>3, <1>8 DEF InCode
  <2>3. \A p \in (m+1)..(m+10) : IRList[p].op # "EndBlock"
    BY <1>2, <1>8, <2>1, NoTarget DEF Inside
  <2>4. q = m+11
    BY <1>3, <2>1, <2>3
  <2>5. Ran(m, m+10, c, f, v) /\ v[m+6] # 0
    BY <1>3, <2>1, <2>4, q-1 = m+10
  <2>6. Ended(m + 11, c, a, f)
    BY <1>2, <1>8, <2>1, <2>5, JumpLeaves
  <2> QED
    BY <2>4, <2>6
<1>9. CASE BehindJump(m, q, c, a, f)
  <2>1. Completed(m, c, a, f)
    BY <1>2, <1>9, FallsThrough DEF BehindJump
  <2>2. Last(m) = m + 12 /\ IRList[m+12].op = "JumpTarget"
    BY <1>2, <1>9, JumpOpsAre DEF BehindJump, Inside
  <2>3. q = Last(m)+1
    BY <1>9, <2>2 DEF BehindJump
  <2> QED
    BY <1>5, <2>1, <2>3
<1> QED
  BY <1>2, <1>4, <1>6, <1>7, <1>8, <1>9 DEF Running

\* The operation o at place q runs: from CPUState c and values v to d and w.
Does(o, q, c, d, v, w) ==
  /\ DOMAIN w = DOMAIN v /\ \A r \in DOMAIN v : r # q => w[r] = v[r]
  /\ o.op = "LoadContext" => w[q] = c[o.k]
  /\ o.op \in ValueOps \ {"LoadContext"} => w[q] = Computed(o, v)
  /\ o.op = "StoreContext" => d = Put(c, o.k, v[o.args[1]])
  /\ o.op # "StoreContext" => d = c

LEMMA StepSame ==
  ASSUME NEW o, NEW p, NEW v, NEW h, NEW w, NEW g, Step(o, p, v, h), g[p] = h[p], g[p - 1] = h[p - 1],
         w[p] = v[p], \A j \in 1..Arity(o.op) : v[o.args[j]] = w[o.args[j]]
  PROVE  Step(o, p, w, g)
<1>1. CASE o.op = "LoadContext"
  BY <1>1 DEF Step, ValueOps
<1>2. CASE o.op \in ValueOps \ {"LoadContext"}
  <2>1. Computed(o, v) = Computed(o, w)
    BY <1>2, ComputedSame
  <2> QED
    BY <1>2, <2>1 DEF Step, ValueOps
<1>3. CASE o.op = "StoreContext"
  <2>1. v[o.args[1]] = w[o.args[1]]
    BY <1>3 DEF Arity
  <2> QED
    BY <1>3, <2>1 DEF Step, ValueOps
<1>4. CASE o.op \notin ValueOps \cup {"StoreContext"}
  BY <1>4 DEF Step, ValueOps
<1> QED
  BY <1>1, <1>2, <1>3, <1>4

\* The values an operation uses are computed before it.
LEMMA ArgsBefore ==
  ASSUME Layout, Checked, phase = "run", NEW m \in 2..Body, Marker(m), NEW q \in (m+1)..Last(m)
  PROVE  \A j \in 1..Arity(IRList[q].op) : IRList[q].args[j] \in (m+1)..(q-1)
<1>1. m \in Nat /\ Last(m) \in m..Body /\ Body \in Nat /\ Formed(InstAt(m), m, q, IRList[q])
  BY MarkerTypes
<1>2. q \in Nat /\ q \in 1..Body
  BY <1>1
<1>3. ~Unknown(q)
  BY <1>2 DEF Checked
<1>4. PICK o : o = IRList[q]
  OBVIOUS
<1>5. /\ o.args \in Seq(Nat) /\ Len(o.args) >= Arity(o.op)
      /\ \A j \in 1..Arity(o.op) : /\ o.args[j] \in Nat /\ m < o.args[j]
                                   /\ o.args[j] < q \/ (o.op = "Xor" /\ o.args[j] = q)
  BY <1>1, <1>4 DEF Formed, IROp
<1>6. ASSUME NEW j \in 1..Arity(o.op) PROVE o.args[j] \in (m+1)..(q-1)
  <2>1. ASSUME o.op = "Xor", o.args[j] = q PROVE FALSE
    <3>1. Arity(o.op) = 2
      BY <2>1 DEF Arity, BiOps
    <3>2. j \in DOMAIN o.args
      BY <1>5, <3>1, LenProperties
    <3> QED
      BY <1>3, <1>4, <2>1, <3>2 DEF Unknown
  <2> QED
    BY <1>1, <1>2, <1>5, <2>1
<1> QED
  BY <1>4, <1>6

LEMMA RanFurther ==
  ASSUME Layout, Checked, phase = "run", NEW m \in 2..Body, Marker(m), NEW q \in (m+1)..Last(m),
         NEW c, NEW d, NEW f, NEW v, NEW w, DOMAIN v = 1..Body, Ran(m, q-1, c, f, v),
         Does(IRList[q], q, c, d, v, w)
  PROVE  Ran(m, q, d, f, w)
<1>1. m \in Nat /\ Last(m) \in m..Body /\ Body \in Nat /\ q \in Nat
  <2>1. m \in Nat /\ Last(m) \in m..Body /\ Body \in Nat
    BY MarkerTypes
  <2> QED
    BY <2>1
<1>2. PICK h : h[m] = f.cpu /\ h[q-1] = c /\ \A p \in (m+1)..(q-1) : Step(IRList[p], p, v, h)
  BY Zenon DEF Ran
<1>3. PICK g : g = [p \in Nat |-> IF p = q THEN d ELSE h[p]]
  OBVIOUS
<1>4. g[q] = d /\ \A p \in Nat : p # q => g[p] = h[p]
  BY <1>1, <1>3
<1>5. \A r \in 1..Body : r # q => w[r] = v[r]
  BY DEF Does
<1>6. ASSUME NEW p \in (m+1)..q, NEW j \in 1..Arity(IRList[p].op)
      PROVE  v[IRList[p].args[j]] = w[IRList[p].args[j]]
  <2>1. p \in (m+1)..Last(m)
    BY <1>1
  <2>2. IRList[p].args[j] \in (m+1)..(p-1)
    BY <2>1, ArgsBefore
  <2>3. IRList[p].args[j] \in 1..Body /\ IRList[p].args[j] # q
    BY <1>1, <2>1, <2>2
  <2> QED
    BY <1>5, <2>3
<1>7. ASSUME NEW p \in (m+1)..(q-1) PROVE Step(IRList[p], p, w, g)
  <2>1. p \in Nat /\ p-1 \in Nat /\ p # q /\ p-1 # q /\ p \in 1..Body /\ p \in (m+1)..q
    BY <1>1
  <2>2. g[p] = h[p] /\ g[p-1] = h[p-1] /\ w[p] = v[p] /\ Step(IRList[p], p, v, h)
    BY <1>2, <1>4, <1>5, <2>1
  <2>3. \A j \in 1..Arity(IRList[p].op) : v[IRList[p].args[j]] = w[IRList[p].args[j]]
    BY <1>6, <2>1
  <2> QED
    BY <2>2, <2>3, StepSame
<1>8. Step(IRList[q], q, w, g)
  <2>1. PICK o : o = IRList[q]
    OBVIOUS
  <2>2. q \in (m+1)..q /\ q-1 \in Nat /\ q-1 # q
    BY <1>1
  <2>3. g[q-1] = c /\ g[q] = d
    BY <1>2, <1>4, <2>2
  <2>4. \A j \in 1..Arity(o.op) : v[o.args[j]] = w[o.args[j]]
    BY <1>6, <2>1, <2>2
  <2>5. /\ o.op = "LoadContext" => w[q] = c[o.k]
        /\ o.op \in ValueOps \ {"LoadContext"} => w[q] = Computed(o, v)
        /\ o.op = "StoreContext" => d = Put(c, o.k, v[o.args[1]])
        /\ o.op # "StoreContext" => d = c
    BY <2>1 DEF Does
  <2>6. o.op \in ValueOps \ {"LoadContext"} => w[q] = Computed(o, w)
    BY <2>4, <2>5, ComputedSame
  <2>7. o.op = "StoreContext" => d = Put(c, o.k, w[o.args[1]])
    <3>1. o.op = "StoreContext" => Arity(o.op) = 1
      BY DEF Arity, BiOps
    <3> QED
      <4>1. ASSUME o.op = "StoreContext" PROVE v[o.args[1]] = w[o.args[1]]
        BY <2>4, <3>1, <4>1
      <4> QED
        BY <2>5, <4>1
  <2>8. Step(o, q, w, g)
    BY <2>3, <2>5, <2>6, <2>7 DEF Step
  <2> QED
    BY <2>1, <2>8
<1>9. g[m] = f.cpu
  BY <1>1, <1>2, <1>4
<1>10. ASSUME NEW p \in (m+1)..q PROVE Step(IRList[p], p, w, g)
  <2>1. p = q \/ p \in (m+1)..(q-1)
    BY <1>1
  <2> QED
    BY <1>7, <1>8, <2>1
<1> QED
  BY <1>4, <1>9, <1>10, Zenon DEF Ran

\* An operation that computes a value, or writes a register.
LEMMA ComputeStep ==
  ASSUME Layout, Checked, phase = "run", NEW q, NEW c, NEW d, NEW a, NEW f, NEW v, NEW w,
         DOMAIN v = 1..Body, RunAt(q, c, a, f, v), IRList[q].op \in ValueOps \cup {"StoreContext"},
         Does(IRList[q], q, c, d, v, w)
  PROVE  RunAt(q+1, d, a, f, w)
<1>1. q # 1
  BY Places DEF ValueOps
<1>2. PICK m \in 2..Body : Marker(m) /\ Running(m, q, c, a, f, v)
  BY <1>1 DEF RunAt
<1>3. /\ m \in Nat /\ Last(m) \in Nat /\ Last(m) >= m
      /\ \A p \in (m+1)..Last(m) : ~Succeeds(Res(m)) => IRList[p].op \in ValueOps
      /\ IRList[Last(m)+1].op \in {"RIPMarker", "EndBlock"}
  BY <1>2, OpAt
<1>4. q # m /\ q # Last(m)+1
  BY <1>2, <1>3 DEF Marker, ValueOps
<1>5. Last(m) <= Body /\ Body \in Nat
  <2>1. Last(m) \in m..Body /\ Body \in Nat
    BY <1>2, MarkerTypes
  <2> QED
    BY <1>3, <2>1
<1>6. CASE InFailed(m, q, c, a, f)
  <2>1. q \in (m+1)..Last(m) /\ ~Succeeds(Res(m)) /\ Ready(m, c, a, f)
    BY <1>3, <1>4, <1>6 DEF InFailed
  <2>2. d = c
    BY <1>3, <2>1 DEF Does, ValueOps
  <2>3. InFailed(m, q+1, d, a, f)
    BY <1>3, <2>1, <2>2 DEF InFailed
  <2> QED
    BY <1>2, <2>3 DEF RunAt, Running
<1>7. CASE InCode(m, q, c, a, f, v)
  <2>1. q \in (m+1)..Last(m) /\ Inside(m, a, f) /\ Ran(m, q-1, c, f, v)
    BY <1>3, <1>4, <1>7 DEF InCode
  <2>2. Ran(m, q, d, f, w)
    BY <1>2, <2>1, RanFurther
  <2>3. Ran(m, (q+1)-1, d, f, w) /\ q+1 \in (m+1)..(Last(m)+1)
    BY <1>3, <2>1, <2>2, (q+1)-1 = q
  <2>4. ASSUME Jump(InstAt(m)) PROVE q+1 <= m+11 /\ (q+1 > m+7 => w[m+6] # 0)
    <3>1. Last(m) = m+12 /\ IRList[m+7].op = "CondJump" /\ IRList[m+11].op = "EndBlock"
      BY <1>2, <2>1, <2>4, JumpOpsAre DEF Inside
    <3>2. q # m+7 /\ q # m+11
      BY <3>1 DEF ValueOps
    <3>3. q <= m+11 /\ (q > m+7 => v[m+6] # 0)
      BY <1>7, <2>4 DEF InCode
    <3>4. q > m+7 => w[m+6] = v[m+6]
      BY <1>3, <1>5, <3>1 DEF Does
    <3> QED
      BY <1>3, <2>1, <3>2, <3>3, <3>4
  <2>5. InCode(m, q+1, d, a, f, w)
    BY <2>1, <2>3, <2>4 DEF InCode
  <2> QED
    BY <1>2, <2>5 DEF RunAt, Running
<1>8. CASE BehindJump(m, q, c, a, f)
  <2>1. Last(m) = m+12 /\ IRList[m+12].op = "JumpTarget"
    BY <1>2, <1>8, JumpOpsAre DEF BehindJump, Inside
  <2> QED
    BY <1>4, <1>8, <2>1 DEF BehindJump, ValueOps
<1> QED
  BY <1>2, <1>4, <1>6, <1>7, <1>8 DEF Running

\* A marker.
LEMMA MarkerStep ==
  ASSUME Layout, Checked, phase = "run", NEW q, NEW c, NEW a, NEW f, NEW v, RunAt(q, c, a, f, v),
         IRList[q].op = "RIPMarker"
  PROVE  /\ Translated(IRList[q]) =>
              RunAt(q+1, c, ArchStep(InstAt(q), a), [cpu |-> c, inst |-> Number(q)], v)
         /\ ~Translated(IRList[q]) => RunAt(q+1, c, a, f, v)
<1>1. q \in 2..Body /\ Marker(q) /\ Ready(q, c, a, f)
  BY Arrived
<1>2. q \in Nat /\ Last(q) \in Nat /\ Last(q) >= q
  BY <1>1, OpAt
<1>3. Translated(IRList[q]) <=> Succeeds(Res(q))
  BY <1>1, TranslatedIs
<1>4. CASE ~Succeeds(Res(q))
  <2>1. InFailed(q, q+1, c, a, f)
    BY <1>1, <1>2, <1>4 DEF InFailed
  <2>2. RunAt(q+1, c, a, f, v)
    BY <1>1, <2>1 DEF RunAt, Running
  <2> QED
    BY <1>3, <1>4, <2>2
<1>5. CASE Succeeds(Res(q))
  <2>1. PICK e, z : e = [cpu |-> c, inst |-> Number(q)] /\ z = ArchStep(InstAt(q), a)
    OBVIOUS
  <2>2. e.cpu = c /\ e.inst = Number(q)
    BY <2>1
  <2>3. Inside(q, z, e)
    BY <1>1, <1>5, <2>1, <2>2 DEF Inside, Ready
  <2>4. Ran(q, q, c, e, v)
    <3>1. PICK h : h = [p \in Nat |-> c]
      OBVIOUS
    <3>2. h[q] = e.cpu /\ h[q] = c
      BY <1>2, <2>2, <3>1
    <3>3. \A p \in (q+1)..q : Step(IRList[p], p, v, h)
      BY <1>2
    <3> QED
      BY <3>2, <3>3, Zenon DEF Ran
  <2>5. Ran(q, (q+1)-1, c, e, v) /\ q+1 \in (q+1)..(Last(q)+1) /\ q+1 <= q+11 /\ ~(q+1 > q+7)
    BY <1>2, <2>4, (q+1)-1 = q
  <2>6. InCode(q, q+1, c, z, e, v)
    BY <2>3, <2>5 DEF InCode
  <2>7. RunAt(q+1, c, z, e, v)
    BY <1>1, <2>6 DEF RunAt, Running
  <2> QED
    BY <1>3, <1>5, <2>1, <2>7
<1> QED
  BY <1>4, <1>5

\* BeginBlock, and a JumpTarget.
LEMMA EmptyStep ==
  ASSUME Layout, Checked, phase = "run", NEW q, NEW c, NEW a, NEW f, NEW v, RunAt(q, c, a, f, v),
         saved \in Context, saved[RIP] = block.start, IRList[q].op \in {"BeginBlock", "JumpTarget"}
  PROVE  RunAt(q+1, c, a, f, v)
<1>1. CASE q = 1 /\ c = saved /\ a = saved /\ f.inst = 0
  <2>1. Marker(2) /\ Number(2) = 1 /\ IRList[2].k = block.start /\ 2 \in 2..Body
    BY Places
  <2>2. FlagsOK(c, f) /\ c \in Context /\ c[RIP] = block.start
    BY <1>1 DEF FlagsOK
  <2>3. a \in Registers
    BY <1>1, WordNat DEF Registers, Context
  <2>4. Same(c, a) /\ a[RIP] = IRList[2].k /\ ~AfterCMP(2)
    BY <1>1, <2>1 DEF Same, AfterCMP
  <2>5. Ready(2, c, a, f)
    BY <2>2, <2>3, <2>4 DEF Ready, Matches
  <2>6. RunAt(2, c, a, f, v)
    BY <2>1, <2>5 DEF RunAt, Running
  <2> QED
    BY <1>1, <2>6
<1>2. CASE ~(q = 1 /\ c = saved /\ a = saved /\ f.inst = 0)
  <2>1. PICK m \in 2..Body : Marker(m) /\ Running(m, q, c, a, f, v)
    BY <1>2 DEF RunAt
  <2>2. /\ m \in Nat /\ Last(m) \in Nat /\ Last(m) >= m
        /\ \A p \in (m+1)..Last(m) :
             /\ IRList[p].op \in ValueOps \cup {"StoreContext"} \/ (Jump(InstAt(m)) /\ IRList[p].op \in JumpOps)
             /\ ~Succeeds(Res(m)) => IRList[p].op \in ValueOps
        /\ IRList[Last(m)+1].op \in {"RIPMarker", "EndBlock"}
    BY <2>1, OpAt
  <2>3. q # m /\ q # Last(m)+1
    BY <2>1, <2>2 DEF Marker
  <2>4. CASE InFailed(m, q, c, a, f)
    BY <2>2, <2>3, <2>4 DEF InFailed, ValueOps
  <2>5. CASE InCode(m, q, c, a, f, v)
    <3>1. q \in (m+1)..Last(m) /\ Inside(m, a, f)
      BY <2>2, <2>3, <2>5 DEF InCode
    <3>2. Jump(InstAt(m)) /\ IRList[q].op = "JumpTarget"
      BY <2>2, <3>1 DEF ValueOps, JumpOps
    <3>3. q <= m+11
      BY <2>5, <3>2 DEF InCode
    <3>4. \A p \in (m+1)..(m+11) : IRList[p].op # "JumpTarget"
      BY <2>1, <3>1, <3>2, NoTarget DEF Inside
    <3> QED
      BY <2>2, <3>1, <3>2, <3>3, <3>4
  <2>6. CASE BehindJump(m, q, c, a, f)
    <3>1. q+1 \in {Last(m), Last(m)+1}
      BY <2>3, <2>6 DEF BehindJump
    <3>2. BehindJump(m, q+1, c, a, f)
      BY <2>6, <3>1 DEF BehindJump
    <3> QED
      BY <2>1, <3>2 DEF RunAt, Running
  <2> QED
    BY <2>1, <2>3, <2>4, <2>5, <2>6 DEF Running
<1> QED
  BY <1>1, <1>2

\* A conditional jump: to an instruction the block has passed, to the code that
\* leaves the block, or behind the EndBlock of that code.
LEMMA CondJumpStep ==
  ASSUME Layout, Checked, phase = "run", NEW q, NEW c, NEW a, NEW f, NEW v, RunAt(q, c, a, f, v),
         DOMAIN v = 1..Body, IRList[q].op = "CondJump"
  PROVE  /\ q \in Nat /\ q+4 \in q..Len(IRList) /\ IRList[q+4].op = "EndBlock"
         /\ \A p \in q..(q+3) : IRList[p].op # "EndBlock"
         /\ v[IRList[q].args[1]] # 0 => RunAt(q+1, c, a, f, v)
         /\ v[IRList[q].args[1]] # 0 =>
              \A k \in 1..q : IRList[k].op = "RIPMarker" /\ IRList[k].k = IRList[q].k => RunAt(k, c, a, f, v)
         /\ ~(v[IRList[q].args[1]] # 0) => RunAt((q+4)+1, c, a, f, v)
<1>1. q # 1
  BY Places
<1>2. PICK m \in 2..Body : Marker(m) /\ Running(m, q, c, a, f, v)
  BY <1>1 DEF RunAt
<1>3. /\ m \in Nat /\ Last(m) \in Nat /\ Last(m) >= m
      /\ \A p \in (m+1)..Last(m) :
           /\ IRList[p].op \in ValueOps \cup {"StoreContext"} \/ (Jump(InstAt(m)) /\ IRList[p].op \in JumpOps)
           /\ ~Succeeds(Res(m)) => IRList[p].op \in ValueOps
      /\ IRList[Last(m)+1].op \in {"RIPMarker", "EndBlock"}
  BY <1>2, OpAt
<1>4. q # m /\ q # Last(m)+1
  BY <1>2, <1>3 DEF Marker
<1>5. ~InFailed(m, q, c, a, f)
  BY <1>3, <1>4 DEF InFailed, ValueOps
<1>6. ~BehindJump(m, q, c, a, f)
  <2>1. ASSUME BehindJump(m, q, c, a, f) PROVE IRList[Last(m)].op = "JumpTarget"
    BY <1>2, <2>1, JumpOpsAre DEF BehindJump, Inside
  <2> QED
    BY <1>4, <2>1 DEF BehindJump
<1>7. InCode(m, q, c, a, f, v)
  BY <1>2, <1>4, <1>5, <1>6 DEF Running
<1>8. q \in (m+1)..Last(m) /\ Inside(m, a, f) /\ Ran(m, q-1, c, f, v) /\ Succeeds(Res(m))
  BY <1>3, <1>4, <1>7 DEF InCode, Inside
<1>9. Jump(InstAt(m))
  BY <1>3, <1>8 DEF ValueOps
<1>10. /\ Last(m) = m+12 /\ IRList[m+7].args[1] = m+6 /\ IRList[m+7].k = JumpGoal(m)
       /\ IRList[m+11].op = "EndBlock"
  BY <1>2, <1>8, <1>9, JumpOpsAre
<1>11. /\ \A p \in (m+1)..(m+10) : IRList[p].op # "EndBlock"
       /\ \A p \in (m+1)..(m+12) : IRList[p].op = "CondJump" => p = m+7
  BY <1>2, <1>8, <1>9, NoTarget
<1>12. q = m+7
  BY <1>8, <1>10, <1>11
<1>13. Last(m) \in m..Body /\ Body \in Nat /\ Len(IRList) = Body + 1
  BY <1>2, MarkerTypes, Places
<1>14. q \in Nat /\ q+4 = m+11 /\ q+4 \in q..Len(IRList) /\ (q+4)+1 = m+12 /\ q-1 = m+6
  BY <1>3, <1>10, <1>12, <1>13
<1>15. IRList[q+4].op = "EndBlock" /\ \A p \in q..(q+3) : IRList[p].op # "EndBlock"
  <2>1. \A p \in q..(q+3) : p \in (m+1)..(m+10)
    BY <1>3, <1>12
  <2> QED
    BY <1>10, <1>11, <1>14, <2>1
<1>16. IRList[q].args[1] = m+6 /\ IRList[q].k = JumpGoal(m)
  BY <1>10, <1>12
<1>17. c = f.cpu /\ (CoveredBlock => v[m+6] = FlagOf(f.cpu[RFLAGS], 6))
  <2>1. Ran(m, m+6, c, f, v)
    BY <1>8, <1>14
  <2>2. PICK h : h[m] = f.cpu /\ h[m+6] = c /\ \A p \in (m+1)..(m+6) : Step(IRList[p], p, v, h)
    BY <2>1, Zenon DEF Ran
  <2>3. h[m+6] = f.cpu /\ (CoveredBlock => v[m+6] = FlagOf(f.cpu[RFLAGS], 6))
    BY <1>2, <1>8, <1>9, <2>2, JumpRead
  <2> QED
    BY <2>2, <2>3
<1>18. ASSUME v[m+6] # 0 PROVE RunAt(q+1, c, a, f, v)
  <2>1. Does(IRList[q], q, c, c, v, v)
    BY DEF Does, ValueOps
  <2>2. Ran(m, q, c, f, v)
    BY <1>2, <1>8, <2>1, RanFurther
  <2>3. Ran(m, (q+1)-1, c, f, v) /\ q+1 \in (m+1)..(Last(m)+1) /\ q+1 <= m+11
    BY <1>3, <1>8, <1>12, <2>2, (q+1)-1 = q
  <2>4. InCode(m, q+1, c, a, f, v)
    BY <1>8, <1>18, <2>3 DEF InCode
  <2> QED
    BY <1>2, <2>4 DEF RunAt, Running
<1>19. ASSUME v[m+6] # 0, NEW k \in 1..q, IRList[k].op = "RIPMarker", IRList[k].k = JumpGoal(m)
       PROVE  RunAt(k, c, a, f, v)
  <2>1. k \in 2..Body /\ Marker(k)
    <3>1. IRList[1].op = "BeginBlock" /\ DOMAIN IRList = 1..(Body + 1)
      BY Places
    <3> QED
      BY <1>10, <1>12, <1>13, <1>14, <1>19, <3>1 DEF Marker
  <2>2. c \in Context /\ c[RIP] = block.start /\ f.inst = Number(m)
    BY <1>8, <1>17 DEF Inside
  <2>3. FlagsOK(c, f)
    <3>1. FlagsKept(InstAt(m), f.cpu, c)
      BY <1>9, <1>17 DEF FlagsKept, Jump
    <3> QED
      BY <2>2, <3>1 DEF FlagsOK, InstAt
  <2>4. ASSUME CoveredBlock PROVE Matches(c, a, k)
    <3>1. /\ a \in Registers /\ Same(f.cpu, a) /\ FlagOf(f.cpu[RFLAGS], 6) + FlagOf(a[RFLAGS], 6) = 1
          /\ a[RIP] = IF FlagOf(f.cpu[RFLAGS], 6) = 0 THEN After(m) ELSE JumpGoal(m)
      BY <1>2, <1>8, <1>9, <2>4, JumpAgrees
    <3>2. a[RIP] = JumpGoal(m)
      BY <1>17, <1>19, <2>4, <3>1
    <3> QED
      BY <1>17, <1>19, <3>1, <3>2 DEF Matches
  <2>5. Ready(k, c, a, f)
    BY <2>2, <2>3, <2>4 DEF Ready
  <2> QED
    BY <2>1, <2>5 DEF RunAt, Running
<1>20. ASSUME v[m+6] = 0 PROVE RunAt((q+4)+1, c, a, f, v)
  <2>1. BehindJump(m, m+12, c, a, f)
    BY <1>8, <1>9, <1>10, <1>17, <1>20 DEF BehindJump
  <2> QED
    BY <1>2, <1>14, <2>1 DEF RunAt, Running
<1> QED
  BY <1>14, <1>15, <1>16, <1>18, <1>19, <1>20

\* The places a block is at; a value has one before the end of the list.
LEMMA PlaceIs ==
  ASSUME Layout, Checked, phase = "run", NEW q, NEW c, NEW a, NEW f, NEW v, RunAt(q, c, a, f, v)
  PROVE  q \in 1..(Body + 1) /\ (IRList[q].op # "EndBlock" => q \in 1..Body)
<1>1. Body \in Nat /\ Body >= 2 /\ IRList[Body + 1].op = "EndBlock"
  BY Places
<1>2. q \in 1..(Body + 1)
  <2>1. CASE q = 1
    BY <1>1, <2>1
  <2>2. ASSUME NEW m \in 2..Body, Marker(m), Running(m, q, c, a, f, v) PROVE q \in 1..(Body + 1)
    <3>1. m \in Nat /\ Last(m) \in m..Body
      BY <2>2, MarkerTypes
    <3>2. q = m \/ q \in (m+1)..(Last(m)+1) \/ q \in {Last(m), Last(m)+1}
      BY <2>2 DEF Running, InFailed, InCode, BehindJump
    <3> QED
      BY <1>1, <3>1, <3>2
  <2> QED
    BY <2>1, <2>2 DEF RunAt
<1> QED
  BY <1>1, <1>2

\* The block while it runs, and when it has ended.
Current == \E q, c, a, f, v : /\ q = ip /\ c = cpu /\ a = arch /\ f = before /\ v = Values
                              /\ RunAt(q, c, a, f, v)
Agreed(c, a, f) == FlagsOK(c, f) /\ (CoveredBlock => Same(c, a) /\ a[RIP] = c[RIP])
Stopped == \E c, a, f : c = cpu /\ a = arch /\ f = before /\ Agreed(c, a, f)
RunInv ==
  /\ saved \in Context /\ saved[RIP] = block.start
  /\ phase \notin {"run", "done"} => cpu = saved /\ arch = saved /\ ip = 1 /\ before.inst = 0
  /\ phase = "run" => DOMAIN Values = 1..Body /\ Current
  /\ phase = "done" => Stopped

\* A step that leaves the code as it is.
LEMMA CodeKept ==
  ASSUME compVars' = compVars
  PROVE  /\ \A m : /\ Marker(m)' = Marker(m) /\ Number(m)' = Number(m) /\ InstAt(m)' = InstAt(m)
                   /\ Res(m)' = Res(m) /\ Last(m)' = Last(m) /\ AfterCMP(m)' = AfterCMP(m)
         /\ CoveredBlock' = CoveredBlock
         /\ \A c, f : FlagsOK(c, f)' = FlagsOK(c, f)
<1>1. block' = block /\ IRList' = IRList /\ Total' = Total
  BY DEF compVars
<1>2. ASSUME NEW m
      PROVE  /\ Marker(m)' = Marker(m) /\ Number(m)' = Number(m) /\ InstAt(m)' = InstAt(m)
             /\ Res(m)' = Res(m) /\ Last(m)' = Last(m) /\ AfterCMP(m)' = AfterCMP(m)
  <2>1. Number(m)' = Number(m) /\ InstAt(m)' = InstAt(m) /\ Res(m)' = Res(m) /\ Last(m)' = Last(m)
    BY <1>1, SegmentKept
  <2> QED
    BY <1>1, <2>1 DEF Marker, AfterCMP
<1>3. CoveredBlock' = CoveredBlock
  <2>1. \A k : Covered(k)' = Covered(k)
    BY <1>1 DEF Covered
  <2>2. \A o : Translated(o)' = Translated(o)
    BY <1>1 DEF Translated
  <2> QED
    BY <1>1, <2>1, <2>2 DEF CoveredBlock
<1>4. \A c, f : FlagsOK(c, f)' = FlagsOK(c, f)
  BY <1>1 DEF FlagsOK
<1> QED
  BY <1>2, <1>3, <1>4

LEMMA RunAtKept ==
  ASSUME compVars' = compVars, Body' = Body, saved' = saved, NEW q, NEW c, NEW a, NEW f, NEW v,
         RunAt(q, c, a, f, v)
  PROVE  RunAt(q, c, a, f, v)'
<1>1. block' = block /\ IRList' = IRList
  BY DEF compVars
<1>2. CASE q = 1 /\ c = saved /\ a = saved /\ f.inst = 0
  BY <1>2 DEF RunAt
<1>3. ASSUME NEW m \in 2..Body, Marker(m), Running(m, q, c, a, f, v)
      PROVE  Marker(m)' /\ Running(m, q, c, a, f, v)'
  <2>1. /\ Marker(m)' = Marker(m) /\ Number(m)' = Number(m) /\ InstAt(m)' = InstAt(m)
        /\ Res(m)' = Res(m) /\ Last(m)' = Last(m) /\ AfterCMP(m)' = AfterCMP(m)
    BY CodeKept
  <2>2. CoveredBlock' = CoveredBlock /\ FlagsOK(c, f)' = FlagsOK(c, f)
    BY CodeKept
  <2>3. \A d, z : Matches(d, z, m)' = Matches(d, z, m)
    BY <1>1, <2>1 DEF Matches
  <2>4. Ready(m, c, a, f)' = Ready(m, c, a, f)
    BY <1>1, <2>2, <2>3 DEF Ready
  <2>5. Inside(m, a, f)' = Inside(m, a, f)
    BY <1>1, <2>1, <2>2, <2>3 DEF Inside
  <2>6. Ran(m, q-1, c, f, v)' = Ran(m, q-1, c, f, v)
    BY <1>1 DEF Ran
  <2>7. InFailed(m, q, c, a, f)' = InFailed(m, q, c, a, f)
    BY <2>1, <2>4 DEF InFailed
  <2>8. InCode(m, q, c, a, f, v)' = InCode(m, q, c, a, f, v)
    BY <2>1, <2>5, <2>6 DEF InCode
  <2>9. BehindJump(m, q, c, a, f)' = BehindJump(m, q, c, a, f)
    BY <2>1, <2>2, <2>5 DEF BehindJump
  <2> QED
    BY <1>3, <2>1, <2>4, <2>7, <2>8, <2>9 DEF Running
<1> QED
  BY <1>2, <1>3 DEF RunAt

LEMMA CurrentIs ==
  ASSUME compVars' = compVars, Body' = Body, saved' = saved, NEW q, NEW c, NEW a, NEW f, NEW v,
         RunAt(q, c, a, f, v), q = ip', c = cpu', a = arch', f = before', v = Values'
  PROVE  Current'
<1>1. RunAt(q, c, a, f, v)'
  BY RunAtKept
<1> QED
  BY <1>1 DEF Current

\* One step of the code.
LEMMA RunStep ==
  ASSUME Layout, Checked, RunInv, phase = "run",
         ValueOp \/ StoreContextOp \/ RIPMarkerOp \/ EmptyOp \/ CondJumpOp
  PROVE  RunInv'
<1>1. compVars' = compVars /\ phase' = phase /\ saved' = saved
  BY DEF ValueOp, StoreContextOp, RIPMarkerOp, EmptyOp, CondJumpOp
<1>2. Body' = Body
  BY <1>1, LayoutOther
<1>3. /\ RunAt(ip, cpu, arch, before, Values) /\ DOMAIN Values = 1..Body
      /\ saved \in Context /\ saved[RIP] = block.start
  BY DEF RunInv, Current
<1>4. block' = block
  BY <1>1 DEF compVars
<1>5. PICK q, c, a, f, v : q = ip' /\ c = cpu' /\ a = arch' /\ f = before' /\ v = Values'
  OBVIOUS
<1>6. ASSUME RunAt(q, c, a, f, v), DOMAIN Values' = DOMAIN Values PROVE RunInv'
  <2>1. Current'
    BY <1>1, <1>2, <1>5, <1>6, CurrentIs
  <2> QED
    BY <1>1, <1>2, <1>3, <1>4, <1>6, <2>1 DEF RunInv
<1>7. CASE ValueOp
  <2>1. /\ q = ip+1 /\ c = cpu /\ a = arch /\ f = before
        /\ v = [Values EXCEPT ![ip] = Eval(IRList[ip], Values)]
    BY <1>5, <1>7 DEF ValueOp
  <2>2. IRList[ip].op \in ValueOps
    <3>1. ip \in 1..(Body + 1)
      BY <1>3, PlaceIs
    <3>2. IRList[ip].op \in OpNames
      BY <3>1, Places
    <3> QED
      BY <1>7, <3>2 DEF ValueOp, OpNames, JumpOps
  <2>3. ip \in DOMAIN Values
    BY <1>3, <2>2, PlaceIs DEF ValueOps
  <2>4. v[ip] = Eval(IRList[ip], Values) /\ DOMAIN v = DOMAIN Values /\ \A r \in DOMAIN Values : r # ip => v[r] = Values[r]
    BY <2>1, <2>3
  <2>5. Does(IRList[ip], ip, cpu, cpu, Values, v)
    BY <2>2, <2>4, EvalIs DEF Does, ValueOps
  <2>6. RunAt(ip+1, cpu, arch, before, v)
    BY <1>3, <2>2, <2>5, ComputeStep
  <2> QED
    BY <1>5, <1>6, <2>1, <2>4, <2>6
<1>8. CASE StoreContextOp
  <2>1. /\ q = ip+1 /\ a = arch /\ f = before /\ v = Values /\ IRList[ip].op = "StoreContext"
        /\ c = Put(cpu, IRList[ip].k, Values[IRList[ip].args[1]])
    BY <1>5, <1>8 DEF StoreContextOp, At, Put
  <2>2. Does(IRList[ip], ip, cpu, c, Values, Values)
    BY <2>1 DEF Does, ValueOps
  <2>3. RunAt(ip+1, c, arch, before, Values)
    BY <1>3, <2>1, <2>2, ComputeStep
  <2> QED
    BY <1>5, <1>6, <2>1, <2>3
<1>9. CASE RIPMarkerOp
  <2>1. q = ip+1 /\ c = cpu /\ v = Values /\ IRList[ip].op = "RIPMarker"
    BY <1>5, <1>9 DEF RIPMarkerOp, At
  <2>2. /\ Translated(IRList[ip]) =>
             a = ArchStep(InstAt(ip), arch) /\ f = [cpu |-> cpu, inst |-> Number(ip)]
        /\ ~Translated(IRList[ip]) => a = arch /\ f = before
    BY <1>5, <1>9 DEF RIPMarkerOp, InstAt, Number
  <2>3. /\ Translated(IRList[ip]) =>
             RunAt(ip+1, cpu, ArchStep(InstAt(ip), arch), [cpu |-> cpu, inst |-> Number(ip)], Values)
        /\ ~Translated(IRList[ip]) => RunAt(ip+1, cpu, arch, before, Values)
    BY <1>3, <2>1, MarkerStep
  <2>4. RunAt(q, c, a, f, v)
    BY <2>1, <2>2, <2>3
  <2> QED
    BY <1>5, <1>6, <2>1, <2>4
<1>10. CASE EmptyOp
  <2>1. /\ q = ip+1 /\ c = cpu /\ a = arch /\ f = before /\ v = Values
        /\ IRList[ip].op \in {"BeginBlock", "JumpTarget"}
    BY <1>5, <1>10 DEF EmptyOp, At
  <2>2. RunAt(ip+1, cpu, arch, before, Values)
    BY <1>3, <2>1, EmptyStep
  <2> QED
    BY <1>5, <1>6, <2>1, <2>2
<1>11. CASE CondJumpOp
  <2>1. c = cpu /\ a = arch /\ f = before /\ v = Values /\ IRList[ip].op = "CondJump"
    BY <1>5, <1>11 DEF CondJumpOp, At
  <2> DEFINE o == IRList[ip]
             ends == {k \in ip..Len(IRList) : IRList[k].op = "EndBlock"}
             end == CHOOSE k \in ends : \A l \in ends : k <= l
             yes == Values[o.args[1]] # 0
  <2>2. q = CASE yes /\ Passed(o.k) # {} -> CHOOSE k \in Passed(o.k) : TRUE
              [] yes /\ Passed(o.k) = {} -> ip + 1
              [] OTHER -> end + 1
    BY <1>5, <1>11 DEF CondJumpOp
  <2>3. /\ ip \in Nat /\ ip+4 \in ip..Len(IRList) /\ IRList[ip+4].op = "EndBlock"
        /\ \A p \in ip..(ip+3) : IRList[p].op # "EndBlock"
        /\ yes => RunAt(ip+1, cpu, arch, before, Values)
        /\ yes => \A k \in 1..ip : IRList[k].op = "RIPMarker" /\ IRList[k].k = o.k =>
                                     RunAt(k, cpu, arch, before, Values)
        /\ ~yes => RunAt((ip+4)+1, cpu, arch, before, Values)
    BY <1>3, <2>1, CondJumpStep
  <2>4. Len(IRList) \in Nat
    BY Places
  <2>5. end = ip+4
    <3>1. ip+4 \in ends
      BY <2>3
    <3>2. \A l \in ends : ip+4 <= l
      BY <2>3, <2>4
    <3>3. \A k \in ends : k \in Nat
      BY <2>3, <2>4
    <3> HIDE DEF ends
    <3>4. end \in ends /\ \A l \in ends : end <= l
      BY <3>1, <3>2
    <3> HIDE DEF end
    <3> QED
      BY <2>3, <3>1, <3>2, <3>3, <3>4
  <2> HIDE DEF ends, end
  <2>6. CASE yes /\ Passed(o.k) # {}
    <3>1. q \in Passed(o.k)
      BY <2>2, <2>6
    <3>2. q \in 1..ip /\ IRList[q].op = "RIPMarker" /\ IRList[q].k = o.k
      BY <3>1 DEF Passed
    <3> QED
      BY <2>1, <2>3, <2>6, <3>2, <1>5, <1>6
  <2>7. CASE yes /\ Passed(o.k) = {}
    BY <1>5, <1>6, <2>1, <2>2, <2>3, <2>7
  <2>8. CASE ~yes
    BY <1>5, <1>6, <2>1, <2>2, <2>3, <2>5, <2>8
  <2> QED
    BY <2>6, <2>7, <2>8
<1> QED
  BY <1>7, <1>8, <1>9, <1>10, <1>11

LEMMA RunInit == Init => RunInv
<1> SUFFICES ASSUME Init PROVE RunInv
  OBVIOUS
<1>1. PICK c \in Contexts(block) : cpu = [c EXCEPT ![RIP] = block.start]
  BY DEF Init
<1>2. block \in Blocks /\ c \in Context /\ block.start \in Word
  BY BlockTypes, ContextsAssumption DEF Init
<1>3. cpu \in Context /\ cpu[RIP] = block.start
  BY <1>1, <1>2 DEF Context, RIP
<1>4. saved = cpu /\ arch = cpu /\ ip = 1 /\ before.inst = 0 /\ phase = "compile"
  BY DEF Init
<1> QED
  BY <1>3, <1>4 DEF RunInv

\* The generated code starts with the registers the compiler found.
LEMMA RunCompileCode ==
  ASSUME Layout, RunInv, CompileCode
  PROVE  RunInv'
<1>1. /\ phase = "end" /\ phase' \in {"aborted", "run"} /\ saved' = cpu /\ cpu' = cpu /\ arch' = arch
      /\ ip' = ip /\ before' = before /\ block' = block /\ Values' = [k \in DOMAIN IRList |-> 0]
  BY DEF CompileCode
<1>2. saved \in Context /\ saved[RIP] = block.start /\ cpu = saved /\ arch = saved /\ ip = 1 /\ before.inst = 0
  BY <1>1 DEF RunInv
<1>3. DOMAIN Values' = 1..Body'
  <2> DEFINE close == EndBlock(IF HitRIPSetter THEN 0 ELSE Total)
  <2>1. /\ IRList \in Seq(IROp) /\ Len(IRList) \in Nat /\ IRList' = Append(IRList, close)
        /\ HitRIPSetter \in BOOLEAN /\ Total \in Int
    BY LenProperties DEF Layout, Types, CompileCode
  <2>2. close \in IROp
    BY <2>1, EndOp
  <2> HIDE DEF close
  <2>3. Len(IRList') = Len(IRList) + 1
    BY <2>1, <2>2, AppendProperties
  <2>4. Body' = Len(IRList') - 1
    BY <1>1 DEF Body, Making
  <2>5. DOMAIN IRList = 1..Len(IRList)
    BY <2>1, LenProperties
  <2>6. Body' = Len(IRList)
    BY <2>1, <2>3, <2>4
  <2> QED
    BY <1>1, <2>5, <2>6
<1>4. Current'
  <2>1. PICK q, c, a, f, v : q = ip' /\ c = cpu' /\ a = arch' /\ f = before' /\ v = Values'
    OBVIOUS
  <2>2. q = 1 /\ c = saved' /\ a = saved' /\ f.inst = 0
    BY <1>1, <1>2, <2>1
  <2>3. RunAt(q, c, a, f, v)'
    BY <2>2 DEF RunAt
  <2> QED
    BY <2>1, <2>3 DEF Current
<1> QED
  BY <1>1, <1>2, <1>3, <1>4 DEF RunInv

\* The code ends, for good or as a trial.
LEMMA RunEnds ==
  ASSUME Layout, Checked, RunInv, EndBlockOp \/ TrialEnd
  PROVE  RunInv'
<1>1. phase = "run" /\ IRList[ip].op = "EndBlock" /\ compVars' = compVars /\ saved' = saved
  BY DEF EndBlockOp, TrialEnd, At
<1>2. Body' = Body
  BY <1>1, LayoutOther DEF EndBlockOp, TrialEnd
<1>3. /\ RunAt(ip, cpu, arch, before, Values) /\ DOMAIN Values = 1..Body
      /\ saved \in Context /\ saved[RIP] = block.start
  BY <1>1 DEF RunInv, Current
<1>4. block' = block
  BY <1>1 DEF compVars
<1>5. CASE EndBlockOp
  <2>1. PICK c, a, f : c = cpu' /\ a = arch' /\ f = before'
    OBVIOUS
  <2>2. /\ a = arch /\ f = before /\ phase' = "done"
        /\ c = [cpu EXCEPT ![RIP] = Wrap(cpu[RIP] + IRList[ip].k, 8)]
    BY <1>5, <2>1 DEF EndBlockOp, Increment
  <2>3. Ended(ip, cpu, arch, before)
    BY <1>1, <1>3, Finished
  <2>4. DOMAIN cpu = 0..17
    BY <2>3 DEF Ended
  <2>5. /\ c[RIP] = Wrap(cpu[RIP] + IRList[ip].k, 8) /\ \A r \in 0..17 : r # RIP => c[r] = cpu[r]
    BY <2>2, <2>4 DEF RIP
  <2>6. FlagsOK(c, f)
    <3>1. c[RFLAGS] = cpu[RFLAGS]
      BY <2>5 DEF RIP, RFLAGS
    <3>2. FlagsOK(cpu, f)
      BY <2>2, <2>3 DEF Ended
    <3> QED
      BY <3>1, <3>2 DEF FlagsOK, FlagsKept
  <2>7. CoveredBlock => Same(c, a) /\ a[RIP] = c[RIP]
    <3>1. CoveredBlock => Same(cpu, a) /\ Wrap(cpu[RIP] + IRList[ip].k, 8) = a[RIP]
      BY <2>2, <2>3 DEF Ended
    <3> QED
      BY <2>5, <3>1 DEF Same, RIP
  <2>8. CoveredBlock' = CoveredBlock /\ FlagsOK(c, f)' = FlagsOK(c, f)
    BY <1>1, CodeKept
  <2>9. Agreed(c, a, f)'
    BY <2>6, <2>7, <2>8 DEF Agreed
  <2>10. Stopped'
    BY <2>1, <2>9 DEF Stopped
  <2> QED
    BY <1>1, <1>3, <1>4, <2>2, <2>10 DEF RunInv
<1>6. CASE TrialEnd
  <2>1. PICK q, c, a, f, v : q = ip' /\ c = cpu' /\ a = arch' /\ f = before' /\ v = Values'
    OBVIOUS
  <2>2. q = 1 /\ c = saved /\ a = saved /\ f.inst = 0 /\ v = Values /\ phase' = phase
    BY <1>6, <2>1 DEF TrialEnd
  <2>3. RunAt(q, c, a, f, v)
    BY <2>2 DEF RunAt
  <2>4. Current'
    BY <1>1, <1>2, <2>1, <2>3, CurrentIs
  <2> QED
    BY <1>1, <1>2, <1>3, <1>4, <2>1, <2>2, <2>4 DEF RunInv
<1> QED
  BY <1>5, <1>6

LEMMA RunKept ==
  ASSUME Layout, Checked, RunInv, [Next]_vars
  PROVE  RunInv'
<1>1. CASE Dispatch \/ NoHandler \/ UnknownEncoding
  <2>1. /\ phase = "compile" /\ phase' \in {"compile", "end", "fallback", "stopped"} /\ block' = block
        /\ cpu' = cpu /\ saved' = saved /\ arch' = arch /\ ip' = ip /\ before' = before
    BY <1>1 DEF Dispatch, NoHandler, UnknownEncoding, compVars, runVars
  <2> QED
    BY <2>1 DEF RunInv
<1>2. CASE CompileCode
  BY <1>2, RunCompileCode
<1>3. CASE ValueOp \/ StoreContextOp \/ RIPMarkerOp \/ EmptyOp \/ CondJumpOp
  <2>1. phase = "run"
    BY <1>3 DEF ValueOp, StoreContextOp, RIPMarkerOp, EmptyOp, CondJumpOp, At
  <2> QED
    BY <1>3, <2>1, RunStep
<1>4. CASE EndBlockOp \/ TrialEnd
  BY <1>4, RunEnds
<1>5. CASE Over \/ UNCHANGED vars
  <2>1. UNCHANGED vars
    BY <1>5 DEF Over
  <2>2. compVars' = compVars /\ phase' = phase /\ saved' = saved /\ block' = block
    BY <2>1 DEF vars, compVars, runVars
  <2>3. /\ cpu' = cpu /\ arch' = arch /\ ip' = ip /\ before' = before /\ Values' = Values
    BY <2>1 DEF vars, runVars
  <2>4. Body' = Body
    BY <2>2, LayoutOther
  <2>5. ASSUME phase = "run" PROVE Current'
    <3>1. PICK q, c, a, f, v : /\ q = ip /\ c = cpu /\ a = arch /\ f = before /\ v = Values
                               /\ RunAt(q, c, a, f, v)
      BY <2>5 DEF RunInv, Current
    <3> QED
      BY <2>2, <2>3, <2>4, <3>1, CurrentIs
  <2>6. ASSUME phase = "done" PROVE Stopped'
    <3>1. PICK c, a, f : c = cpu /\ a = arch /\ f = before /\ Agreed(c, a, f)
      BY <2>6 DEF RunInv, Stopped
    <3>2. CoveredBlock' = CoveredBlock /\ FlagsOK(c, f)' = FlagsOK(c, f)
      BY <2>2, CodeKept
    <3>3. Agreed(c, a, f)'
      BY <3>1, <3>2 DEF Agreed
    <3> QED
      BY <2>3, <3>1, <3>3 DEF Stopped
  <2> QED
    BY <2>2, <2>3, <2>4, <2>5, <2>6 DEF RunInv
<1> QED
  BY <1>1, <1>2, <1>3, <1>4, <1>5 DEF Next

\* Wherever a block is, CPUState and the registers of the architecture are
\* related as the operations between its markers require, when its instructions
\* are covered and their sizes therefore the lengths: this is the inductive
\* invariant behind InStep and FlagsRight.
THEOREM RunHolds == Spec => []RunInv
<1>1. Layout /\ Checked /\ RunInv /\ [Next]_vars => RunInv'
  BY RunKept
<1> QED
  BY <1>1, RunInit, LayoutHolds, PTL DEF Spec

\* What a block shows between two instructions and at its end.
LEMMA AtBoundary ==
  ASSUME Layout, Checked, RunInv, Boundary
  PROVE  /\ FlagsOK(cpu, before)
         /\ CoveredBlock => /\ \A r \in 0..15 : cpu[r] = arch[r]
                            /\ arch[RIP] = IF phase = "done" THEN cpu[RIP] ELSE IRList[ip].k
<1>1. CASE phase = "done"
  <2>1. FlagsOK(cpu, before) /\ (CoveredBlock => Same(cpu, arch) /\ arch[RIP] = cpu[RIP])
    BY <1>1 DEF RunInv, Stopped, Agreed
  <2> QED
    BY <1>1, <2>1 DEF Same
<1>2. CASE phase # "done"
  <2>1. phase = "run" /\ IRList[ip].op = "RIPMarker"
    BY <1>2 DEF Boundary, At
  <2>2. RunAt(ip, cpu, arch, before, Values)
    BY <2>1 DEF RunInv, Current
  <2>3. Ready(ip, cpu, arch, before)
    BY <2>1, <2>2, Arrived
  <2> QED
    BY <1>2, <2>3 DEF Ready, Matches, Same
<1> QED
  BY <1>1, <1>2

\* Between two instructions of a block that the handlers are written for, in
\* encodings that are Plain, and when it ends, the registers and rip are those
\* of a processor that has executed the same instructions: for every such
\* block, every CPUState, every size of a byte for which masks select bits
\* (MaskAssumption), and whatever the trial runs of CompileCode did.
THEOREM InStepHolds == Spec => []InStep
<1>1. Layout /\ Checked /\ RunInv => InStep
  BY AtBoundary DEF InStep
<1> QED
  BY <1>1, RunHolds, LayoutHolds, PTL

\* The code of an instruction changes no flag that the instruction does not
\* compute, in every block, also one the handlers are not written for; and BT
\* of 32 bits leaves the bit it tests in CF.
THEOREM FlagsRightHolds == Spec => []FlagsRight
<1>1. ASSUME Layout, Checked, RunInv PROVE FlagsRight
  <2> SUFFICES ASSUME Boundary, before.inst # 0
               PROVE  LET e == block.insts[before.inst].enc
                      IN  /\ \A bit \in 0..11 \ FlagsComputed(e) :
                               FlagOf(cpu[RFLAGS], bit) = FlagOf(before.cpu[RFLAGS], bit)
                          /\ e.map = "two" /\ e.op = \hA3 =>
                               FlagOf(cpu[RFLAGS], 0) = FlagOf(before.cpu[RMOf(e)], before.cpu[RegOf(e)] % Bits(4))
    BY DEF FlagsRight
  <2>1. FlagsOK(cpu, before)
    BY <1>1, AtBoundary
  <2> QED
    BY <2>1 DEF FlagsOK, FlagsKept
<1> QED
  BY <1>1, RunHolds, LayoutHolds, PTL

============================================================================
