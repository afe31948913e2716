--------------------------- MODULE DecoderProofs ---------------------------
(***************************************************************************)
(* Proofs about Decoder, for every set of encodings: any prefixes in any   *)
(* order, any REX byte, opcode, ModRM and SIB byte.                        *)
(***************************************************************************)
EXTENDS Decoder, SequenceTheorems, TLAPS

Prefixed == Len(enc.prefixes)

\* Where the prefixes end, and the first byte after the opcode.
Start == Prefixed + (IF enc.rex = 0 THEN 0 ELSE 1)
Behind == Start + (IF enc.map = "two" THEN 2 ELSE 1)

\* What the REX byte forces.
Forced == (IF REXBit(enc, 1) \/ REXBit(enc, 4) THEN {"MODRM"} ELSE {})
            \cup (IF REXBit(enc, 2) THEN {"SIB"} ELSE {})

\* A 66 among the first n prefixes.
Narrowed(n) == \E i \in 1..n : i <= Prefixed /\ enc.prefixes[i] = \h66

Given ==
  /\ enc \in Encoding /\ slot255 \in {"kept", "second", "lost"}
  /\ pc \in {"OnceMore", "done"}
  /\ Narrowing \in BOOLEAN /\ Widening \in BOOLEAN
  /\ "OPSIZE" \in Flags <=> Narrowing

\* A pass of the loop begins with the bytes before InstructionSize done with,
\* which are prefixes.
Scanning ==
  pc = "OnceMore" =>
    /\ InstructionSize \in 0..Start
    /\ handler = FALSE
    /\ REXOptions = IF InstructionSize > Prefixed THEN Forced ELSE {}
    /\ Widening <=> InstructionSize > Prefixed /\ REXBit(enc, 8)
    /\ Narrowing <=> Narrowed(InstructionSize)

\* The entry that the opcode, and the ModRM byte of a group, stand for.
Group == BaseEntry(enc.op).type = "MODRM_TABLE_PREFIX"
LookedUp ==
  IF enc.map = "two" THEN SecondEntry(enc.op)
  ELSE IF Group THEN ModRMOps[enc.op][Reg(enc.next)]
  ELSE BaseEntry(enc.op)

\* The handler of that entry.
Handled ==
  \/ enc.map = "two" /\ HasHandler("two", enc.op, 0)
  \/ enc.map = "base" /\ Group /\ HasHandler("base", enc.op, Reg(enc.next))
  \/ enc.map = "base" /\ ~Group /\ HasHandler("base", enc.op, 0) /\ enc.op # 255

\* The loop ends at an opcode or at what it takes for an escape.
Finished ==
  pc = "done" =>
    /\ REXOptions = Forced /\ (Widening <=> REXBit(enc, 8))
    /\ Narrowing <=> Narrowed(Prefixed)
    /\ \/ handler = FALSE /\ InstructionSize \in Nat /\ InstructionSize <= Start + 3
       \/ /\ Info = LookedUp /\ (handler <=> Handled)
          /\ InstructionSize = Behind + AdditionalBytes(LookedUp, Behind)

Inv == Given /\ Scanning /\ Finished

----------------------------------------------------------------------------
\* The fields of an encoding.
LEMMA Fields ==
  ASSUME enc \in Encoding
  PROVE  /\ enc.prefixes \in Seq(LegacyPrefix) /\ Prefixed \in Nat
         /\ enc.rex \in REXPrefix \cup {0} /\ enc.map \in {"base", "two"}
         /\ enc.op \in Byte /\ enc.next \in Byte /\ enc.sib \in Byte
         /\ enc.map = "base" => enc.op \in Opcode
         /\ Start \in Nat /\ Behind \in Nat
         /\ Start = IF enc.rex = 0 THEN Prefixed ELSE Prefixed + 1
<1>1. /\ enc.prefixes \in Seq(LegacyPrefix)
      /\ enc.rex \in REXPrefix \cup {0} /\ enc.map \in {"base", "two"}
      /\ enc.op \in Byte /\ enc.next \in Byte /\ enc.sib \in Byte
      /\ enc.map = "base" => enc.op \in Opcode
  BY DEF Encoding
<1>2. Prefixed \in Nat
  BY <1>1, LenProperties DEF Prefixed
<1> QED
  BY <1>1, <1>2 DEF Start, Behind

\* The elements of a concatenation.
LEMMA ConcatAt ==
  ASSUME NEW S, NEW a \in Seq(S), NEW b \in Seq(S)
  PROVE  /\ a \o b \in Seq(S) /\ Len(a) \in Nat /\ Len(b) \in Nat
         /\ Len(a \o b) = Len(a) + Len(b)
         /\ \A i \in 1..Len(a) : (a \o b)[i] = a[i]
         /\ \A i \in 1..Len(b) : (a \o b)[Len(a) + i] = b[i]
BY ConcatProperties, LenProperties

\* The bytes at Inst.
LEMMA CodeAt ==
  ASSUME enc \in Encoding
  PROVE  /\ \A n \in 0..(Prefixed - 1) : At(n) = enc.prefixes[n + 1]
         /\ enc.rex # 0 => At(Prefixed) = enc.rex
         /\ enc.map = "base" => At(Start) = enc.op
         /\ enc.map = "two" => At(Start) = \h0F /\ At(Start + 1) = enc.op
         /\ At(Behind) = enc.next /\ At(Behind + 1) = enc.sib
<1> DEFINE p == enc.prefixes
           r == IF enc.rex = 0 THEN <<>> ELSE <<enc.rex>>
           m == IF enc.map = "two" THEN <<\h0F>> ELSE <<>>
           o == <<enc.op, enc.next, enc.sib>>
<1>1. p \in Seq(Int) /\ r \in Seq(Int) /\ m \in Seq(Int) /\ o \in Seq(Int)
  <2>1. p \in Seq(Int)
    <3>1. LegacyPrefix \subseteq Int
      BY DEF LegacyPrefix
    <3> QED
      BY <3>1, Fields, SeqMonotonic
  <2>2. enc.rex \in Int /\ enc.op \in Int /\ enc.next \in Int /\ enc.sib \in Int
    <3>1. Byte \subseteq Int /\ REXPrefix \cup {0} \subseteq Int
      BY DEF REXPrefix, Byte
    <3> QED
      BY <3>1, Fields
  <2>3. r \in Seq(Int)
    <3>1. CASE enc.rex = 0
      BY <3>1, EmptySeq
    <3>2. CASE enc.rex # 0
      BY <2>2, <3>2
    <3> QED
      BY <3>1, <3>2
  <2>4. m \in Seq(Int)
    <3>1. CASE enc.map = "two"
      BY <3>1
    <3>2. CASE enc.map # "two"
      BY <3>2, EmptySeq
    <3> QED
      BY <3>1, <3>2
  <2>5. o \in Seq(Int)
    BY <2>2
  <2> QED
    BY <2>1, <2>3, <2>4, <2>5
<1>2. /\ Len(p) = Prefixed /\ Prefixed \in Nat
      /\ Len(r) = IF enc.rex = 0 THEN 0 ELSE 1
      /\ Len(m) = IF enc.map = "two" THEN 1 ELSE 0
      /\ Len(o) = 3
  <2>1. Len(r) = IF enc.rex = 0 THEN 0 ELSE 1
    <3>1. CASE enc.rex = 0
      BY <3>1
    <3>2. CASE enc.rex # 0
      BY <3>2
    <3> QED
      BY <3>1, <3>2
  <2>2. Len(m) = IF enc.map = "two" THEN 1 ELSE 0
    <3>1. CASE enc.map = "two"
      BY <3>1
    <3>2. CASE enc.map # "two"
      BY <3>2
    <3> QED
      BY <3>1, <3>2
  <2> QED
    BY <2>1, <2>2, Fields DEF Prefixed
<1>3. /\ enc.rex # 0 => r[1] = enc.rex
      /\ enc.map = "two" => m[1] = \h0F
      /\ o[1] = enc.op /\ o[2] = enc.next /\ o[3] = enc.sib
  OBVIOUS
<1>4. \A n \in Int : At(n) = (p \o r \o m \o o)[n + 1]
  BY DEF At, Code
<1> HIDE DEF p, r, m, o
<1> DEFINE pr == p \o r
           prm == pr \o m
           all == prm \o o
<1>5. /\ pr \in Seq(Int) /\ Len(pr) = Len(p) + Len(r)
      /\ \A i \in 1..Len(p) : pr[i] = p[i]
      /\ \A i \in 1..Len(r) : pr[Len(p) + i] = r[i]
  BY <1>1, ConcatAt
<1> HIDE DEF pr
<1>6. /\ prm \in Seq(Int) /\ Len(prm) = Len(pr) + Len(m)
      /\ \A i \in 1..Len(pr) : prm[i] = pr[i]
      /\ \A i \in 1..Len(m) : prm[Len(pr) + i] = m[i]
  <2>1. pr \in Seq(Int) /\ m \in Seq(Int)
    BY <1>1, <1>5
  <2> QED
    BY <2>1, ConcatAt
<1> HIDE DEF prm
<1>7. /\ \A i \in 1..Len(prm) : all[i] = prm[i]
      /\ \A i \in 1..Len(o) : all[Len(prm) + i] = o[i]
  <2>1. prm \in Seq(Int) /\ o \in Seq(Int)
    BY <1>1, <1>6
  <2> QED
    BY <2>1, ConcatAt
<1>8. \A n \in Int : At(n) = all[n + 1]
  BY <1>4 DEF pr, prm
<1> HIDE DEF all
<1>9. Len(p) \in Nat /\ Len(r) \in Nat /\ Len(m) \in Nat
  BY <1>1, LenProperties
<1>10. ASSUME NEW n \in 0..(Prefixed - 1)
       PROVE  At(n) = enc.prefixes[n + 1]
  <2>1. n + 1 \in 1..Len(p) /\ n + 1 \in 1..Len(pr) /\ n + 1 \in 1..Len(prm) /\ n \in Int
    BY <1>2, <1>5, <1>6, <1>9
  <2> QED
    BY <1>5, <1>6, <1>7, <1>8, <2>1 DEF p
<1>11. enc.rex # 0 => At(Prefixed) = enc.rex
  <2> SUFFICES ASSUME enc.rex # 0 PROVE At(Prefixed) = enc.rex
    OBVIOUS
  <2>1. /\ 1 \in 1..Len(r) /\ Len(p) + 1 \in 1..Len(pr) /\ Len(p) + 1 \in 1..Len(prm)
        /\ Prefixed \in Int
    BY <1>2, <1>5, <1>6, <1>9
  <2>2. At(Prefixed) = all[Len(p) + 1]
    BY <1>2, <1>8, <2>1
  <2>3. all[Len(p) + 1] = pr[Len(p) + 1]
    BY <1>6, <1>7, <2>1
  <2>4. pr[Len(p) + 1] = r[1]
    BY <1>5, <2>1
  <2> QED
    BY <1>3, <2>2, <2>3, <2>4
<1>12. /\ Len(pr) = Start
       /\ enc.map = "base" => Behind = Start + 1 /\ Len(prm) = Start
       /\ enc.map = "two" => Behind = Start + 2 /\ Len(prm) = Start + 1
       /\ Len(prm) = Behind - 1 /\ Start \in Nat /\ Behind \in Nat
  BY <1>2, <1>5, <1>6, Fields DEF Start, Behind
<1>13. enc.map = "two" => At(Start) = \h0F
  <2> SUFFICES ASSUME enc.map = "two" PROVE At(Start) = \h0F
    OBVIOUS
  <2>1. 1 \in 1..Len(m) /\ Start + 1 \in 1..Len(prm) /\ Start \in Int
    BY <1>2, <1>12
  <2> QED
    BY <1>3, <1>6, <1>7, <1>8, <1>12, <2>1
<1>14. /\ At(Behind - 1) = enc.op /\ At(Behind) = enc.next /\ At(Behind + 1) = enc.sib
  <2>1. all[Len(prm) + 1] = enc.op /\ all[Len(prm) + 2] = enc.next /\ all[Len(prm) + 3] = enc.sib
    <3>1. 1 \in 1..Len(o) /\ 2 \in 1..Len(o) /\ 3 \in 1..Len(o)
      BY <1>2
    <3> QED
      BY <1>3, <1>7, <3>1
  <2>2. /\ Len(prm) + 1 = (Behind - 1) + 1 /\ Len(prm) + 2 = Behind + 1
        /\ Len(prm) + 3 = (Behind + 1) + 1
        /\ Behind - 1 \in Int /\ Behind \in Int /\ Behind + 1 \in Int
    BY <1>12
  <2> QED
    BY <1>8, <2>1, <2>2
<1>15. /\ enc.map = "base" => Behind - 1 = Start
       /\ enc.map = "two" => Behind - 1 = Start + 1
  BY <1>12
<1> QED
  BY <1>10, <1>11, <1>13, <1>14, <1>15

----------------------------------------------------------------------------
(* The loop.                                                               *)

\* A byte is a prefix, a REX byte, the escape byte or an opcode.
LEMMA ByteKinds ==
  /\ LegacyPrefix \cap REXPrefix = {}
  /\ LegacyPrefix \cap ({\h0F} \cup Opcode) = {}
  /\ REXPrefix \cap ({\h0F} \cup Opcode) = {}
  /\ \h0F \notin Opcode /\ 0 \notin REXPrefix
BY DEF LegacyPrefix, REXPrefix, Opcode, Byte

\* The byte a pass looks at tells where it is.
LEMMA Where ==
  ASSUME Given, Scanning, pc = "OnceMore"
  PROVE  /\ Op \in LegacyPrefix =>
              InstructionSize < Prefixed /\ Op = enc.prefixes[InstructionSize + 1]
         /\ Op \in REXPrefix =>
              InstructionSize = Prefixed /\ enc.rex # 0 /\ Op = enc.rex
         /\ Op \in {\h0F} \cup Opcode =>
              /\ InstructionSize = Start
              /\ enc.map = "base" => Op = enc.op
              /\ enc.map = "two" => Op = \h0F
<1>1. enc \in Encoding /\ InstructionSize \in 0..Start
  BY DEF Given, Scanning
<1>2. Prefixed \in Nat /\ Start = IF enc.rex = 0 THEN Prefixed ELSE Prefixed + 1
  BY <1>1, Fields
<1>3. CASE InstructionSize < Prefixed
  <2>1. InstructionSize \in 0..(Prefixed - 1) /\ InstructionSize + 1 \in 1..Prefixed
    BY <1>1, <1>2, <1>3
  <2>2. Op = enc.prefixes[InstructionSize + 1]
    BY <1>1, <2>1, CodeAt DEF Op
  <2>3. Op \in LegacyPrefix
    <3>1. enc.prefixes \in Seq(LegacyPrefix)
      BY <1>1, Fields
    <3> QED
      BY <2>1, <2>2, <3>1, ElementOfSeq DEF Prefixed
  <2> QED
    BY <1>3, <2>2, <2>3, ByteKinds
<1>4. CASE InstructionSize = Prefixed /\ enc.rex # 0
  <2>1. Op = enc.rex
    BY <1>1, <1>4, CodeAt DEF Op
  <2>2. Op \in REXPrefix
    BY <1>1, <1>4, <2>1, Fields
  <2> QED
    BY <1>4, <2>1, <2>2, ByteKinds
<1>5. CASE InstructionSize = Start
  <2>1. /\ enc.map = "base" => Op = enc.op
        /\ enc.map = "two" => Op = \h0F
    BY <1>1, <1>5, CodeAt DEF Op
  <2>2. Op \in {\h0F} \cup Opcode
    BY <1>1, <2>1, Fields
  <2> QED
    BY <1>5, <2>1, <2>2, ByteKinds
<1> QED
  BY <1>1, <1>2, <1>3, <1>4, <1>5

\* Nothing has been read.
LEMMA InvInit == Init => Inv
<1> SUFFICES ASSUME Init PROVE Inv
  OBVIOUS
<1>1. enc \in Encoding
  BY EncodingsAssumption DEF Init
<1>2. Prefixed \in Nat /\ Start \in Nat
  BY <1>1, Fields
<1>3. Given
  BY <1>1 DEF Init, Given
<1>4. Scanning
  BY <1>2 DEF Init, Scanning, Narrowed
<1> QED
  BY <1>3, <1>4 DEF Init, Inv, Finished

\* A prefix before REX: only 66 counts for the size.
LEMMA PrefixStep ==
  ASSUME Inv, OperandSize \/ AddressSize \/ Lock \/ OtherPrefix
  PROVE  Inv'
<1>1. /\ pc = "OnceMore" /\ UNCHANGED <<pc, enc, slot255, REXOptions, Widening>>
      /\ InstructionSize' = InstructionSize + 1
      /\ handler' = FALSE \/ handler' = handler
      /\ OperandSize => Op = \h66 /\ Narrowing' = TRUE /\ Flags' = Flags \cup {"OPSIZE"}
      /\ ~OperandSize => /\ Op # \h66 /\ UNCHANGED Narrowing
                         /\ "OPSIZE" \in Flags' <=> "OPSIZE" \in Flags
      /\ Op \in LegacyPrefix
  BY DEF OperandSize, AddressSize, Lock, OtherPrefix, Case, Again, LegacyPrefix
<1>2. InstructionSize < Prefixed /\ Op = enc.prefixes[InstructionSize + 1]
  BY <1>1, Where DEF Inv
<1>3. enc \in Encoding /\ InstructionSize \in 0..Start /\ handler = FALSE
  BY <1>1 DEF Inv, Given, Scanning
<1>4. Prefixed \in Nat /\ Start \in Nat /\ Prefixed <= Start
  BY <1>3, Fields
<1>5. Prefixed' = Prefixed /\ Start' = Start /\ Forced' = Forced
  BY <1>1 DEF Prefixed, Start, Forced
<1>6. Narrowed(InstructionSize + 1) <=> Narrowed(InstructionSize) \/ Op = \h66
  BY <1>2, <1>3, <1>4 DEF Narrowed
<1>7. Narrowing' <=> Narrowed(InstructionSize + 1)
  BY <1>1, <1>6 DEF Inv, Scanning, Given
<1>8. Narrowed(InstructionSize + 1) <=> Narrowed(InstructionSize)'
  BY <1>1, <1>5 DEF Narrowed
<1>9. Given'
  <2>1. CASE OperandSize
    BY <1>1, <2>1 DEF Inv, Given
  <2>2. CASE ~OperandSize
    BY <1>1, <2>2 DEF Inv, Given
  <2> QED
    BY <2>1, <2>2
<1>10. Scanning'
  <2>1. /\ InstructionSize' \in 0..Start /\ ~(InstructionSize' > Prefixed)
        /\ ~(InstructionSize > Prefixed)
    BY <1>1, <1>2, <1>3, <1>4
  <2>2. REXOptions' = {} /\ Widening' = FALSE
    BY <1>1, <2>1 DEF Inv, Scanning, Given
  <2> QED
    BY <1>1, <1>3, <1>5, <1>7, <1>8, <2>1, <2>2 DEF Scanning
<1>11. Finished'
  BY <1>1 DEF Finished
<1> QED
  BY <1>9, <1>10, <1>11 DEF Inv

\* The REX byte: its bits.
LEMMA REXStep ==
  ASSUME Inv, REX
  PROVE  Inv'
<1>1. /\ pc = "OnceMore" /\ UNCHANGED <<pc, enc, slot255, Narrowing>>
      /\ InstructionSize' = InstructionSize + 1 /\ handler' = FALSE
      /\ Flags' = Flags \cup {"REX"} /\ Op \in REXPrefix
  BY DEF REX, Case, Again
<1>2. InstructionSize = Prefixed /\ enc.rex # 0 /\ Op = enc.rex
  BY <1>1, Where DEF Inv
<1>3. enc \in Encoding
  BY DEF Inv, Given
<1>4. Prefixed \in Nat /\ Start = Prefixed + 1
  BY <1>2, <1>3, Fields
<1>5. REXOptions = {} /\ Widening = FALSE
  BY <1>1, <1>2, <1>4 DEF Inv, Scanning, Given
<1>6. \A n \in {1, 2, 4, 8} : (Op \div n) % 2 = 1 <=> REXBit(enc, n)
  BY <1>2 DEF REXBit
<1>7. REXOptions' = Forced
  BY <1>5, <1>6 DEF REX, Forced
<1>8. Widening' = REXBit(enc, 8) /\ Widening' \in BOOLEAN
  BY <1>5, <1>6 DEF REX, REXBit
<1>9. Prefixed' = Prefixed /\ Start' = Start /\ Forced' = Forced
      /\ (REXBit(enc, 8)' <=> REXBit(enc, 8))
  BY <1>1 DEF Prefixed, Start, Forced, REXBit
<1>10. Narrowed(InstructionSize)' <=> Narrowed(InstructionSize)
  BY <1>1, <1>2, <1>4, <1>9 DEF Narrowed
<1>11. Given'
  BY <1>1, <1>8 DEF Inv, Given
<1>12. Scanning'
  <2>1. InstructionSize' \in 0..Start /\ InstructionSize' > Prefixed
    BY <1>1, <1>2, <1>4
  <2>2. Narrowing' <=> Narrowed(InstructionSize)'
    BY <1>1, <1>10 DEF Inv, Scanning
  <2> QED
    BY <1>1, <1>7, <1>8, <1>9, <2>1, <2>2 DEF Scanning
<1>13. Finished'
  BY <1>1 DEF Finished
<1> QED
  BY <1>11, <1>12, <1>13 DEF Inv

\* What the pass that reaches the opcode starts from.
LEMMA AtOpcode ==
  ASSUME Given, Scanning, pc = "OnceMore", InstructionSize = Start
  PROVE  /\ REXOptions = Forced /\ (Widening <=> REXBit(enc, 8))
         /\ Narrowing <=> Narrowed(Prefixed)
         /\ handler = FALSE
<1>1. enc \in Encoding
  BY DEF Given
<1>2. Prefixed \in Nat /\ Start = IF enc.rex = 0 THEN Prefixed ELSE Prefixed + 1
  BY <1>1, Fields
<1>3. Narrowed(Start) <=> Narrowed(Prefixed)
  BY <1>2 DEF Narrowed
<1>4. enc.rex = 0 => Forced = {} /\ ~REXBit(enc, 8)
  BY DEF Forced, REXBit
<1>5. CASE enc.rex = 0
  BY <1>2, <1>3, <1>4, <1>5 DEF Scanning
<1>6. CASE enc.rex # 0
  BY <1>2, <1>3, <1>6 DEF Scanning
<1> QED
  BY <1>5, <1>6

\* The entry is looked up with what the encoding gives.
LEMMA Lookup ==
  ASSUME Inv, TwoByteOp \/ BaseOp \/ ModRMOp
  PROVE  pc = "OnceMore" /\ InstructionSize = Start /\ NormalOp(LookedUp, Behind, Handled)
<1>1. pc = "OnceMore" /\ Op \in {\h0F} \cup Opcode
  BY DEF TwoByteOp, BaseOp, ModRMOp, Case
<1>2. /\ InstructionSize = Start
      /\ enc.map = "base" => Op = enc.op
      /\ enc.map = "two" => Op = \h0F
  BY <1>1, Where DEF Inv
<1>3. enc \in Encoding
  BY DEF Inv, Given
<1>4. /\ enc.map \in {"base", "two"} /\ Start \in Nat
      /\ enc.map = "base" => enc.op \in Opcode
  BY <1>3, Fields
<1>5. /\ enc.map = "two" => Behind = Start + 2 /\ At(Start + 1) = enc.op
      /\ enc.map = "base" => Behind = Start + 1
      /\ At(Behind) = enc.next
  BY <1>3, <1>4, CodeAt DEF Behind
<1>6. CASE TwoByteOp
  <2>1. Op = \h0F
    BY <1>6 DEF TwoByteOp, Case
  <2>2. enc.map = "two"
    BY <1>2, <1>4, <2>1, ByteKinds
  <2>3. Start + 2 = Behind /\ (Start + 2) - 1 = Start + 1
    BY <1>4, <1>5, <2>2
  <2>4. NormalOp(SecondEntry(enc.op), Behind, HasHandler("two", enc.op, 0))
    BY <1>2, <1>5, <1>6, <2>2, <2>3 DEF TwoByteOp
  <2>5. LookedUp = SecondEntry(enc.op) /\ Handled = HasHandler("two", enc.op, 0)
    BY <2>2 DEF LookedUp, Handled, HasHandler
  <2> QED
    BY <1>1, <1>2, <2>4, <2>5 DEF NormalOp
<1>7. CASE BaseOp
  <2>1. Op \in Opcode
    BY <1>7 DEF BaseOp, Case
  <2>2. enc.map = "base" /\ Op = enc.op
    BY <1>2, <1>4, <2>1, ByteKinds
  <2>3. ~Group /\ NormalOp(BaseEntry(enc.op), Behind, HasHandler("base", enc.op, 0) /\ enc.op # 255)
    BY <1>2, <1>5, <1>7, <2>2 DEF BaseOp, Group
  <2>4. LookedUp = BaseEntry(enc.op) /\ Handled = (HasHandler("base", enc.op, 0) /\ enc.op # 255)
    BY <2>2, <2>3 DEF LookedUp, Handled, HasHandler
  <2> QED
    BY <1>1, <1>2, <2>3, <2>4 DEF NormalOp
<1>8. CASE ModRMOp
  <2>1. Op \in Opcode
    BY <1>8 DEF ModRMOp, Case
  <2>2. enc.map = "base" /\ Op = enc.op
    BY <1>2, <1>4, <2>1, ByteKinds
  <2>3. /\ Group
        /\ NormalOp(ModRMOps[enc.op][Reg(enc.next)], Behind, HasHandler("base", enc.op, Reg(enc.next)))
    BY <1>2, <1>5, <1>8, <2>2 DEF ModRMOp, Group
  <2>4. /\ LookedUp = ModRMOps[enc.op][Reg(enc.next)]
        /\ Handled = HasHandler("base", enc.op, Reg(enc.next))
    BY <2>2, <2>3 DEF LookedUp, Handled, HasHandler
  <2> QED
    BY <1>1, <1>2, <2>3, <2>4 DEF NormalOp
<1> QED
  BY <1>6, <1>7, <1>8

\* An opcode ends the loop.
LEMMA OpcodeStep ==
  ASSUME Inv, TwoByteOp \/ BaseOp \/ ModRMOp
  PROVE  Inv'
<1>1. pc = "OnceMore" /\ InstructionSize = Start /\ NormalOp(LookedUp, Behind, Handled)
  BY Lookup
<1>2. /\ REXOptions = Forced /\ (Widening <=> REXBit(enc, 8))
      /\ Narrowing <=> Narrowed(Prefixed)
  BY <1>1, AtOpcode DEF Inv
<1>3. UNCHANGED <<enc, slot255, REXOptions, Widening, Narrowing>> /\ pc' = "done"
  BY <1>1 DEF NormalOp
<1>4. /\ LookedUp' = LookedUp /\ Behind' = Behind /\ (Handled' <=> Handled)
      /\ Forced' = Forced /\ (REXBit(enc, 8)' <=> REXBit(enc, 8))
      /\ Narrowed(Prefixed)' <=> Narrowed(Prefixed)
  <2>1. Prefixed' = Prefixed /\ Start' = Start /\ Behind' = Behind
    BY <1>3 DEF Prefixed, Start, Behind
  <2>2. Forced' = Forced /\ (REXBit(enc, 8)' <=> REXBit(enc, 8))
    BY <1>3 DEF Forced, REXBit
  <2>3. Narrowed(Prefixed)' <=> Narrowed(Prefixed)
    BY <1>3, <2>1 DEF Narrowed
  <2>4. LookedUp' = LookedUp /\ (Handled' <=> Handled)
    BY <1>3 DEF LookedUp, Handled, Group, BaseEntry, SecondEntry
  <2> QED
    BY <2>1, <2>2, <2>3, <2>4
<1>5. AdditionalBytes(LookedUp, Behind)' = AdditionalBytes(LookedUp, Behind)
  BY <1>3, <1>4 DEF AdditionalBytes, HasMODRM, HasSIB, Disp, MoreBytes, At
<1>6. /\ Info' = LookedUp /\ (handler' <=> Handled)
      /\ InstructionSize' = Behind + AdditionalBytes(LookedUp, Behind)
      /\ "OPSIZE" \in Flags' <=> "OPSIZE" \in Flags
  BY <1>1 DEF NormalOp
<1>7. Given'
  BY <1>3, <1>6 DEF Inv, Given
<1>8. Scanning'
  BY <1>3 DEF Scanning
<1>9. Finished'
  BY <1>2, <1>3, <1>4, <1>5, <1>6 DEF Finished
<1> QED
  BY <1>7, <1>8, <1>9 DEF Inv

\* What the loop takes for an escape to the third tables ends it without entry.
LEMMA EscapeStep ==
  ASSUME Inv, Escape
  PROVE  Inv'
<1>1. /\ pc = "OnceMore" /\ Op = \h0F /\ pc' = "done"
      /\ UNCHANGED <<enc, slot255, handler, Flags, REXOptions, Widening, Narrowing>>
      /\ InstructionSize' = InstructionSize + 2 \/ InstructionSize' = (InstructionSize + 2) + 1
  BY DEF Escape, Case
<1>2. InstructionSize = Start
  BY <1>1, Where DEF Inv
<1>3. /\ REXOptions = Forced /\ (Widening <=> REXBit(enc, 8))
      /\ Narrowing <=> Narrowed(Prefixed)
      /\ handler = FALSE
  BY <1>1, <1>2, AtOpcode DEF Inv
<1>4. enc \in Encoding
  BY DEF Inv, Given
<1>5. Start \in Nat
  BY <1>4, Fields
<1>6. Prefixed' = Prefixed /\ Start' = Start
  BY <1>1 DEF Prefixed, Start
<1>7. /\ Forced' = Forced /\ (REXBit(enc, 8)' <=> REXBit(enc, 8))
      /\ Narrowed(Prefixed)' <=> Narrowed(Prefixed)
  BY <1>1, <1>6 DEF Forced, REXBit, Narrowed
<1>8. Given'
  BY <1>1 DEF Inv, Given
<1>9. Scanning'
  BY <1>1 DEF Scanning
<1>10. handler' = FALSE /\ InstructionSize' \in Nat /\ InstructionSize' <= Start' + 3
  BY <1>1, <1>2, <1>3, <1>5, <1>6
<1>11. Finished'
  BY <1>1, <1>3, <1>7, <1>10 DEF Finished
<1> QED
  BY <1>8, <1>9, <1>11 DEF Inv

\* Nothing else changes what the invariant speaks of.
LEMMA StutterStep ==
  ASSUME Inv, UNCHANGED vars
  PROVE  Inv'
<1>1. UNCHANGED <<enc, slot255, InstructionSize, Info, handler, Flags, REXOptions, Widening,
                  Narrowing, pc>>
  BY DEF vars
<1>2. Prefixed' = Prefixed /\ Start' = Start /\ Behind' = Behind
  BY <1>1 DEF Prefixed, Start, Behind
<1>3. Forced' = Forced /\ (REXBit(enc, 8)' <=> REXBit(enc, 8))
  BY <1>1 DEF Forced, REXBit
<1>4. /\ Narrowed(Prefixed)' <=> Narrowed(Prefixed)
      /\ Narrowed(InstructionSize)' <=> Narrowed(InstructionSize)
  BY <1>1, <1>2 DEF Narrowed
<1>5. LookedUp' = LookedUp /\ (Handled' <=> Handled)
  BY <1>1 DEF LookedUp, Handled, Group, BaseEntry, SecondEntry
<1>6. AdditionalBytes(LookedUp, Behind)' = AdditionalBytes(LookedUp, Behind)
  BY <1>1, <1>2, <1>5 DEF AdditionalBytes, HasMODRM, HasSIB, Disp, MoreBytes, At
<1>7. Given' /\ Scanning'
  BY <1>1, <1>2, <1>3, <1>4 DEF Inv, Given, Scanning
<1>8. Finished'
  BY <1>1, <1>2, <1>3, <1>4, <1>5, <1>6 DEF Inv, Finished
<1> QED
  BY <1>7, <1>8 DEF Inv

\* The loop of GetInstInfo passes every prefix and REX once and stops at the
\* opcode, with what they said, whatever the instruction.
THEOREM Invariance == Spec => []Inv
<1>1. Inv /\ [Next]_vars => Inv'
  BY PrefixStep, REXStep, OpcodeStep, EscapeStep, StutterStep DEF Next, Over
<1> QED
  BY InvInit, <1>1, PTL DEF Spec

----------------------------------------------------------------------------
(* The tables.                                                             *)

\* An entry asks for up to four bytes, and doubles them only when the register
\* is in the opcode byte.
Moderate(e) == e.more \in 0..4 /\ ("MUL_2" \in e.flags => "REX_IN_BYTE" \in e.flags)

LEMMA TablesModerate ==
  /\ Moderate(UnknownOp)
  /\ \A op \in Byte : Moderate(BaseOps[op]) /\ Moderate(SecondBaseOps[op])
  /\ \A op \in ModRMTablePrefix, reg \in 0..7 : Moderate(ModRMOps[op][reg])
<1> USE DEF Moderate, Entry, Inst, UnknownOp
<1>1. Moderate(UnknownOp)
  OBVIOUS
<1>2. ASSUME NEW op \in Byte PROVE Moderate(BaseOps[op])
  BY DEF BaseOps
<1>3. ASSUME NEW op \in Byte PROVE Moderate(SecondBaseOps[op])
  BY DEF SecondBaseOps
<1>4. ASSUME NEW op \in ModRMTablePrefix, NEW reg \in 0..7 PROVE Moderate(ModRMOps[op][reg])
  BY DEF ModRMOps, IndirectJump
<1> QED
  BY <1>1, <1>2, <1>3, <1>4

\* The register field of a byte.
LEMMA RegRange == ASSUME NEW b \in Byte PROVE Reg(b) \in 0..7
BY DEF Byte, Reg

\* A group's opcode has a table of its own.
LEMMA GroupOps ==
  ASSUME enc \in Encoding, Group
  PROVE  enc.op \in ModRMTablePrefix /\ (enc.op = 255 => slot255 # "lost")
<1>1. enc.op \in Byte
  BY Fields
<1>2. BaseEntry(enc.op).type = "MODRM_TABLE_PREFIX"
  BY DEF Group
<1>3. enc.op = 255 => slot255 # "lost"
  BY <1>2 DEF BaseEntry, UnknownOp, Entry
<1>4. BaseOps[enc.op].type = "MODRM_TABLE_PREFIX"
  BY <1>2, <1>3 DEF BaseEntry
<1>5. enc.op \in ModRMTablePrefix
  BY <1>1, <1>4 DEF BaseOps, UnknownOp, Inst, Entry
<1> QED
  BY <1>3, <1>5

LEMMA LookedUpModerate ==
  ASSUME enc \in Encoding
  PROVE  Moderate(LookedUp)
<1>1. enc.op \in Byte /\ enc.next \in Byte
  BY Fields
<1>2. CASE enc.map = "two"
  <2>1. 255 \in Byte
    BY DEF Byte
  <2> QED
    BY <1>1, <1>2, <2>1, TablesModerate DEF LookedUp, SecondEntry
<1>3. CASE enc.map # "two" /\ Group
  BY <1>1, <1>3, GroupOps, RegRange, TablesModerate DEF LookedUp
<1>4. CASE enc.map # "two" /\ ~Group
  BY <1>1, <1>4, TablesModerate DEF LookedUp, BaseEntry
<1> QED
  BY <1>2, <1>3, <1>4

\* So an opcode is followed by at most ten bytes.
LEMMA AtMostTen ==
  ASSUME enc \in Encoding
  PROVE  AdditionalBytes(LookedUp, Behind) \in 0..10
<1> DEFINE e == LookedUp
<1>1. Moderate(e)
  BY LookedUpModerate
<1> HIDE DEF e
<1>2. Disp(e, Behind) \in 0..4 /\ (~HasMODRM(e) => Disp(e, Behind) = 0)
  <2>1. ModRMDisp(At(Behind)) \in {0, 1, 4}
    BY DEF ModRMDisp
  <2> QED
    BY <2>1 DEF Disp
<1>3. MoreBytes(e) \in 0..8 /\ (HasMODRM(e) => MoreBytes(e) \in 0..4)
  BY <1>1 DEF Moderate, MoreBytes, HasMODRM
<1>4. AdditionalBytes(e, Behind) \in 0..10
  BY <1>2, <1>3 DEF AdditionalBytes
<1> QED
  BY <1>4 DEF e

\* With up to two prefixes before REX an instruction fits the 15 bytes of
\* Instruction, whatever its opcode and what REX makes of it.
THEOREM FitsBufferHolds == Spec => []FitsBuffer
<1>1. Inv => FitsBuffer
  <2> SUFFICES ASSUME Inv, Prefixed <= 2 PROVE InstructionSize <= 15
    BY DEF FitsBuffer, Prefixed
  <2>1. enc \in Encoding /\ pc \in {"OnceMore", "done"}
    BY DEF Inv, Given
  <2>2. /\ Prefixed \in Nat /\ Start \in Nat /\ Behind \in Nat
        /\ Start <= Prefixed + 1 /\ Behind <= Start + 2
    BY <2>1, Fields DEF Behind
  <2>3. CASE pc = "OnceMore"
    BY <2>2, <2>3 DEF Inv, Scanning
  <2>4. CASE pc = "done"
    <3>1. AdditionalBytes(LookedUp, Behind) \in 0..10
      BY <2>1, AtMostTen
    <3>2. \/ InstructionSize \in Nat /\ InstructionSize <= Start + 3
          \/ InstructionSize = Behind + AdditionalBytes(LookedUp, Behind)
      BY <2>4 DEF Inv, Finished
    <3> QED
      BY <2>2, <3>1, <3>2
  <2> QED
    BY <2>1, <2>3, <2>4
<1> QED
  BY Invariance, <1>1, PTL

----------------------------------------------------------------------------
(* The opcodes with a handler.                                             *)

\* The entries of the opcodes that have a handler and no table of their own.
LEMMA BaseEntries ==
  /\ BaseOps[\h01] = Inst({"HAS_MODRM", "DIV_2"}, 0)
  /\ \A op \in {\h03, \h31, \h39, \h89, \h8D} : BaseOps[op] = Inst({"HAS_MODRM"}, 0)
  /\ BaseOps[\h05] = Inst({"DIV_2"}, 4)
  /\ BaseOps[\h90] = Inst({}, 0)
  /\ BaseOps[\hC3] = Inst({"SETS_RIP", "BLOCK_END"}, 0)
  /\ \A op \in \h70..\h7F : BaseOps[op] = Inst({}, 1)
<1> USE DEF BaseOps, Byte, LegacyPrefix, REXPrefix, ModRMTablePrefix
<1>1. BaseOps[\h01] = Inst({"HAS_MODRM", "DIV_2"}, 0)
  OBVIOUS
<1>2. \A op \in {\h03, \h31, \h39, \h89, \h8D} : BaseOps[op] = Inst({"HAS_MODRM"}, 0)
  OBVIOUS
<1>3. BaseOps[\h05] = Inst({"DIV_2"}, 4)
  OBVIOUS
<1>4. BaseOps[\h90] = Inst({}, 0)
  OBVIOUS
<1>5. BaseOps[\hC3] = Inst({"SETS_RIP", "BLOCK_END"}, 0)
  OBVIOUS
<1>6. \A op \in \h70..\h7F : BaseOps[op] = Inst({}, 1)
  OBVIOUS
<1> QED
  BY <1>1, <1>2, <1>3, <1>4, <1>5, <1>6

\* The entries of the opcodes that share a table.
LEMMA GroupEntries ==
  \A op \in ModRMTablePrefix : BaseOps[op].type = "MODRM_TABLE_PREFIX"
<1>1. \A op \in {\h80, \h81, \h83, \hC0, \hC1} : BaseOps[op] = Entry("MODRM_TABLE_PREFIX", {"HAS_MODRM"}, 3)
  BY DEF BaseOps, Byte, LegacyPrefix, REXPrefix, ModRMTablePrefix
<1>2. \A op \in {\hD8, \hF6, \hF7, \hFF} : BaseOps[op] = Entry("MODRM_TABLE_PREFIX", {"HAS_MODRM"}, 3)
  BY DEF BaseOps, Byte, LegacyPrefix, REXPrefix, ModRMTablePrefix
<1>3. \A op \in \hD0..\hD3 : BaseOps[op] = Entry("MODRM_TABLE_PREFIX", {"HAS_MODRM"}, 3)
  BY DEF BaseOps, Byte, LegacyPrefix, REXPrefix, ModRMTablePrefix
<1> QED
  BY <1>1, <1>2, <1>3 DEF ModRMTablePrefix, Entry

HandledGroup == {<<\h83, 0>>, <<\hC1, 4>>, <<\hFF, 4>>}
HandledBase == {\h01, \h03, \h05, \h31, \h39, \h89, \h8D, \h90, \hC3} \cup \h70..\h7F
HandledTwo == {\h05, \h1F, \hA3}

\* Where the entry of a handled instruction is.
LEMMA HandledLookup ==
  ASSUME enc \in Encoding, Handled
  PROVE  \/ /\ enc.map = "two" /\ enc.op \in HandledTwo
            /\ LookedUp = SecondBaseOps[enc.op]
         \/ /\ enc.map = "base" /\ <<enc.op, Reg(enc.next)>> \in HandledGroup
            /\ LookedUp = ModRMOps[enc.op][Reg(enc.next)]
         \/ /\ enc.map = "base" /\ enc.op \in HandledBase
            /\ LookedUp = BaseOps[enc.op]
<1>1. CASE enc.map = "two"
  <2>1. enc.op \in HandledTwo
    BY <1>1 DEF Handled, HasHandler, HandledTwo
  <2>2. enc.op # 0
    BY <2>1 DEF HandledTwo
  <2> QED
    BY <1>1, <2>1, <2>2 DEF LookedUp, SecondEntry
<1>2. CASE enc.map # "two" /\ Group
  <2>1. enc.map = "base" /\ HasHandler("base", enc.op, Reg(enc.next))
    BY <1>2 DEF Handled
  <2>2. enc.op \notin HandledBase
    BY <1>2, GroupOps DEF ModRMTablePrefix, HandledBase
  <2>3. <<enc.op, Reg(enc.next)>> \in HandledGroup
    BY <2>1, <2>2 DEF HasHandler, HandledBase, HandledGroup
  <2> QED
    BY <1>2, <2>1, <2>3 DEF LookedUp
<1>3. CASE enc.map # "two" /\ ~Group
  <2>1. enc.map = "base" /\ HasHandler("base", enc.op, 0) /\ enc.op # 255
    BY <1>3 DEF Handled
  <2>2. BaseEntry(enc.op) = BaseOps[enc.op]
    BY <2>1 DEF BaseEntry
  <2>3. enc.op \in HandledBase
    <3>1. <<enc.op, 0>> \notin HandledGroup
      <4>1. SUFFICES ASSUME enc.op = \h83 PROVE FALSE
        BY <2>1 DEF HandledGroup
      <4>2. BaseOps[\h83].type = "MODRM_TABLE_PREFIX"
        BY DEF BaseOps, Byte, LegacyPrefix, REXPrefix, ModRMTablePrefix, Entry
      <4> QED
        BY <1>3, <2>2, <4>1, <4>2 DEF Group
    <3> QED
      BY <2>1, <3>1 DEF HasHandler, HandledBase, HandledGroup
  <2> QED
    BY <1>3, <2>1, <2>2, <2>3 DEF LookedUp
<1> QED
  BY <1>1, <1>2, <1>3

\* The entries of the instructions that leave the straight line.
LEMMA TransferEntries ==
  /\ BaseOps[\hC3] = Inst({"SETS_RIP", "BLOCK_END"}, 0)
  /\ ModRMOps[\hFF][4] = IndirectJump
  /\ SecondBaseOps[\h05] = Inst({"BLOCK_END"}, 0)
<1>1. BaseOps[\hC3] = Inst({"SETS_RIP", "BLOCK_END"}, 0)
  BY DEF BaseOps, Byte, LegacyPrefix, REXPrefix, ModRMTablePrefix
<1>2. ModRMOps[\hFF][4] = IndirectJump
  BY DEF ModRMOps, ModRMTablePrefix
<1>3. SecondBaseOps[\h05] = Inst({"BLOCK_END"}, 0)
  BY DEF SecondBaseOps, Byte
<1> QED
  BY <1>1, <1>2, <1>3

\* RET, an indirect JMP and SYSCALL end the block of CompileBlock, with the
\* flags that tell it whether rip is set, however the compiler lays out the
\* memory behind BaseOps.
THEOREM TransfersEndBlockHolds == Spec => []TransfersEndBlock
<1>1. Inv => TransfersEndBlock
  <2> SUFFICES ASSUME Inv, pc = "done", handler
               PROVE  /\ enc.map = "base" /\ (enc.op = \hC3 \/ (enc.op = \hFF /\ Reg(enc.next) = 4))
                           => {"SETS_RIP", "BLOCK_END"} \subseteq Info.flags
                      /\ enc.map = "two" /\ enc.op = \h05
                           => Info.flags \cap {"SETS_RIP", "BLOCK_END"} = {"BLOCK_END"}
    BY DEF TransfersEndBlock
  <2>1. enc \in Encoding /\ Info = LookedUp /\ Handled
    BY DEF Inv, Given, Finished
  <2>2. CASE enc.map = "base" /\ enc.op = \hC3
    <3>1. <<enc.op, Reg(enc.next)>> \notin HandledGroup
      BY <2>2 DEF HandledGroup
    <3>2. LookedUp = BaseOps[\hC3]
      BY <2>1, <2>2, <3>1, HandledLookup
    <3> QED
      BY <2>1, <2>2, <3>2, TransferEntries DEF Inst, Entry
  <2>3. CASE enc.map = "base" /\ enc.op = \hFF /\ Reg(enc.next) = 4
    <3>1. enc.op \notin HandledBase
      BY <2>3 DEF HandledBase
    <3>2. LookedUp = ModRMOps[\hFF][4]
      BY <2>1, <2>3, <3>1, HandledLookup
    <3> QED
      BY <2>1, <2>3, <3>2, TransferEntries DEF IndirectJump, Inst, Entry
  <2>4. CASE enc.map = "two" /\ enc.op = \h05
    <3>1. LookedUp = SecondBaseOps[\h05]
      BY <2>1, <2>4, HandledLookup
    <3> QED
      BY <2>1, <2>4, <3>1, TransferEntries DEF Inst, Entry
  <2> QED
    BY <2>2, <2>3, <2>4
<1> QED
  BY Invariance, <1>1, PTL

\* What the entries of handled instructions say, against the architecture.
Immediate == IF enc.map = "base" /\ enc.op \in {\h83, \hC1} \cup \h70..\h7F THEN 1
             ELSE IF enc.map = "base" /\ enc.op = \h05 THEN 4 ELSE 0

LEMMA HandledEntries ==
  ASSUME enc \in Encoding, Handled
  PROVE  /\ "HAS_MODRM" \in LookedUp.flags <=> ArchModRM(enc)
         /\ "REX_IN_BYTE" \notin LookedUp.flags /\ "MUL_2" \notin LookedUp.flags
         /\ LookedUp.more = Immediate
         /\ LookedUp.more # 0 => ("DIV_2" \in LookedUp.flags <=> LookedUp.more = 4)
<1>1. CASE enc.map = "two" /\ enc.op \in HandledTwo /\ LookedUp = SecondBaseOps[enc.op]
  <2>1. LookedUp = IF enc.op = \h05 THEN Inst({"BLOCK_END"}, 0) ELSE Inst({"HAS_MODRM"}, 0)
    BY <1>1 DEF HandledTwo, SecondBaseOps, Byte
  <2>2. /\ "HAS_MODRM" \in LookedUp.flags <=> enc.op # \h05
        /\ "REX_IN_BYTE" \notin LookedUp.flags /\ "MUL_2" \notin LookedUp.flags
        /\ LookedUp.more = 0
    BY <2>1 DEF Inst, Entry
  <2> QED
    BY <1>1, <2>2 DEF HandledTwo, ArchModRM, Immediate
<1>2. CASE /\ enc.map = "base" /\ <<enc.op, Reg(enc.next)>> \in HandledGroup
           /\ LookedUp = ModRMOps[enc.op][Reg(enc.next)]
  <2>1. \/ enc.op = \h83 /\ LookedUp = Inst({"HAS_MODRM"}, 1)
        \/ enc.op = \hC1 /\ LookedUp = Inst({"HAS_MODRM"}, 1)
        \/ enc.op = \hFF /\ LookedUp = IndirectJump
    <3>1. /\ ModRMOps[\h83][0] = Inst({"HAS_MODRM"}, 1)
          /\ ModRMOps[\hC1][4] = Inst({"HAS_MODRM"}, 1)
      BY DEF ModRMOps, ModRMTablePrefix
    <3> QED
      BY <1>2, <3>1, TransferEntries DEF HandledGroup
  <2> QED
    BY <1>2, <2>1 DEF ArchModRM, Immediate, IndirectJump, Inst, Entry
<1>3. CASE enc.map = "base" /\ enc.op \in HandledBase /\ LookedUp = BaseOps[enc.op]
  <2>1. LookedUp =
          CASE enc.op = \h01 -> Inst({"HAS_MODRM", "DIV_2"}, 0)
            [] enc.op \in {\h03, \h31, \h39, \h89, \h8D} -> Inst({"HAS_MODRM"}, 0)
            [] enc.op = \h05 -> Inst({"DIV_2"}, 4)
            [] enc.op = \h90 -> Inst({}, 0)
            [] enc.op = \hC3 -> Inst({"SETS_RIP", "BLOCK_END"}, 0)
            [] OTHER -> Inst({}, 1)
    BY <1>3, BaseEntries DEF HandledBase
  <2>2. /\ "HAS_MODRM" \in LookedUp.flags <=> enc.op \in {\h01, \h03, \h31, \h39, \h89, \h8D}
        /\ "REX_IN_BYTE" \notin LookedUp.flags /\ "MUL_2" \notin LookedUp.flags
    BY <2>1 DEF Inst, Entry
  <2>3. /\ LookedUp.more = IF enc.op \in \h70..\h7F THEN 1 ELSE IF enc.op = \h05 THEN 4 ELSE 0
        /\ LookedUp.more # 0 => ("DIV_2" \in LookedUp.flags <=> LookedUp.more = 4)
    BY <1>3, <2>1 DEF HandledBase, Inst, Entry
  <2> QED
    BY <1>3, <2>2, <2>3 DEF HandledBase, ArchModRM, Immediate
<1> QED
  BY <1>1, <1>2, <1>3, HandledLookup

\* The bytes that GetInstInfo adds are those the processor reads.
LEMMA SameBytes ==
  ASSUME Inv, pc = "done", Handled, Plain(enc)
  PROVE  /\ HasMODRM(LookedUp) <=> ArchModRM(enc)
         /\ HasSIB(LookedUp, Behind) <=> ArchSIB(enc)
         /\ Disp(LookedUp, Behind) = ArchDisp(enc)
         /\ MoreBytes(LookedUp) = ArchImm(enc)
<1>1. /\ enc \in Encoding /\ REXOptions = Forced
      /\ Narrowing <=> Narrowed(Prefixed)
      /\ "OPSIZE" \in Flags <=> Narrowing
  BY DEF Inv, Given, Finished
<1>2. At(Behind) = enc.next /\ At(Behind + 1) = enc.sib
  BY <1>1, CodeAt
<1>3. /\ "HAS_MODRM" \in LookedUp.flags <=> ArchModRM(enc)
      /\ "REX_IN_BYTE" \notin LookedUp.flags /\ "MUL_2" \notin LookedUp.flags
      /\ LookedUp.more = Immediate
      /\ LookedUp.more # 0 => ("DIV_2" \in LookedUp.flags <=> LookedUp.more = 4)
  BY <1>1, HandledEntries
<1>4. HasMODRM(LookedUp) <=> ArchModRM(enc)
  <2>1. "MODRM" \in REXOptions => ArchModRM(enc)
    BY <1>1 DEF Forced, Plain
  <2> QED
    BY <1>3, <2>1 DEF HasMODRM
<1>5. HasSIB(LookedUp, Behind) <=> ArchSIB(enc)
  <2>1. "SIB" \in REXOptions => ArchSIB(enc)
    BY <1>1 DEF Forced, Plain
  <2> QED
    BY <1>2, <1>4, <2>1 DEF HasSIB, ArchSIB
<1>6. Disp(LookedUp, Behind) = ArchDisp(enc)
  <2>1. Mod(enc.next) \in 0..3
    <3>1. enc.next \in 0..255
      BY <1>1, Fields DEF Byte
    <3> QED
      BY <3>1 DEF Mod
  <2>2. CASE ~ArchModRM(enc)
    BY <1>4, <2>2 DEF Disp, ArchDisp
  <2>3. CASE ArchModRM(enc)
    <3>1. Disp(LookedUp, Behind) = IF ArchSIB(enc) /\ RM(enc.sib) = 5 /\ ModRMDisp(enc.next) = 0
                                   THEN 4 ELSE ModRMDisp(enc.next)
      BY <1>2, <1>4, <1>5, <2>3 DEF Disp
    <3>2. ArchSIB(enc) => Mod(enc.next) # 3
      BY DEF ArchSIB
    <3>3. CASE Mod(enc.next) = 0
      BY <2>3, <3>1, <3>3 DEF ArchDisp, ModRMDisp
    <3>4. CASE Mod(enc.next) = 1
      BY <2>3, <3>1, <3>4 DEF ArchDisp, ModRMDisp
    <3>5. CASE Mod(enc.next) = 2
      BY <2>3, <3>1, <3>5 DEF ArchDisp, ModRMDisp
    <3>6. CASE Mod(enc.next) = 3
      BY <2>3, <3>1, <3>2, <3>6 DEF ArchDisp, ModRMDisp
    <3> QED
      BY <2>1, <3>3, <3>4, <3>5, <3>6
  <2> QED
    BY <2>2, <2>3
<1>7. MoreBytes(LookedUp) = ArchImm(enc)
  <2>1. MoreBytes(LookedUp) = IF Immediate = 4 /\ Narrowing THEN 2 ELSE Immediate
    <3>1. Immediate \in {0, 1, 4}
      BY DEF Immediate
    <3>2. MoreBytes(LookedUp) = IF "DIV_2" \in LookedUp.flags /\ Narrowing
                                THEN Immediate \div 2 ELSE Immediate
      BY <1>3 DEF MoreBytes
    <3>3. 0 \div 2 = 0 /\ 4 \div 2 = 2
      OBVIOUS
    <3> QED
      BY <1>3, <3>1, <3>2, <3>3
  <2>2. Narrowing <=> HasPrefix(enc, \h66)
    <3>1. DOMAIN enc.prefixes = 1..Prefixed /\ Prefixed \in Nat
      BY <1>1, Fields, LenProperties DEF Prefixed
    <3> QED
      BY <1>1, <3>1 DEF Narrowed, HasPrefix
  <2>3. Narrowing => ~REXBit(enc, 8)
    BY <2>2 DEF Plain
  <2>4. CASE enc.map = "base" /\ enc.op = \h05
    BY <2>1, <2>2, <2>3, <2>4 DEF Immediate, ArchImm
  <2>5. CASE ~(enc.map = "base" /\ enc.op = \h05)
    BY <2>1, <2>5 DEF Immediate, ArchImm
  <2> QED
    BY <2>4, <2>5
<1> QED
  BY <1>4, <1>5, <1>6, <1>7

\* An instruction that CompileBlock translates has the length the processor
\* gives it: whatever prefixes stand before it in whatever order, whatever
\* address its ModRM and SIB bytes form.
THEOREM LengthWhenTranslatedHolds == Spec => []LengthWhenTranslated
<1>1. Inv => LengthWhenTranslated
  <2> SUFFICES ASSUME Inv, pc = "done", handler, Plain(enc), Length(enc) <= 15
               PROVE  Size = Length(enc)
    BY DEF LengthWhenTranslated
  <2>1. /\ enc \in Encoding /\ Handled
        /\ InstructionSize = Behind + AdditionalBytes(LookedUp, Behind)
    BY DEF Inv, Given, Finished
  <2>2. /\ HasMODRM(LookedUp) <=> ArchModRM(enc)
        /\ HasSIB(LookedUp, Behind) <=> ArchSIB(enc)
        /\ Disp(LookedUp, Behind) = ArchDisp(enc)
        /\ MoreBytes(LookedUp) = ArchImm(enc)
    BY <2>1, SameBytes
  <2>3. Behind \in Nat /\ AdditionalBytes(LookedUp, Behind) \in 0..10
    BY <2>1, Fields, AtMostTen
  <2>4. ArchDisp(enc) \in Nat /\ ArchImm(enc) \in Nat
    BY DEF ArchDisp, ArchImm
  <2>5. InstructionSize = Length(enc)
    <3>1. Len(enc.prefixes) \in Nat
      BY <2>1, Fields DEF Prefixed
    <3>2. Behind = Len(enc.prefixes) + (IF enc.rex = 0 THEN 0 ELSE 1) + (IF enc.map = "two" THEN 2 ELSE 1)
      BY DEF Behind, Start, Prefixed
    <3> DEFINE modrm == IF ArchModRM(enc) THEN 1 ELSE 0
               sib == IF ArchSIB(enc) THEN 1 ELSE 0
    <3>3. AdditionalBytes(LookedUp, Behind) = modrm + sib + ArchDisp(enc) + ArchImm(enc)
      BY <2>2 DEF AdditionalBytes
    <3>4. Length(enc) = Behind + modrm + sib + ArchDisp(enc) + ArchImm(enc)
      BY <3>2 DEF Length
    <3>5. modrm \in Nat /\ sib \in Nat
      OBVIOUS
    <3> HIDE DEF modrm, sib
    <3> QED
      BY <2>1, <2>3, <2>4, <3>3, <3>4, <3>5
  <2>6. InstructionSize \in 0..15
    BY <2>1, <2>3, <2>5
  <2> QED
    BY <2>5, <2>6 DEF Size
<1> QED
  BY Invariance, <1>1, PTL

----------------------------------------------------------------------------
(* What the loop keeps of prefixes and REX besides the size.               *)

\* One of ps among the first n prefixes; the prefixes that leave their entry.
Among(ps, n) == \E i \in 1..n : i <= Prefixed /\ enc.prefixes[i] \in ps
Leaving == LegacyPrefix \ {\h66, \h67, \hF0}

MarksScanning ==
  pc = "OnceMore" =>
    /\ "LOCK" \in Flags <=> Among({\hF0}, InstructionSize)
    /\ "REX" \in Flags <=> InstructionSize > Prefixed
    /\ Known <=> InstructionSize > Prefixed \/ Among(Leaving, InstructionSize)
    /\ "MODRM" \notin Flags /\ "SIB" \notin Flags

MarksDone ==
  pc = "done" =>
    /\ "LOCK" \in Flags <=> LOCK(enc)
    /\ "REX" \in Flags <=> enc.rex # 0
    /\ Escaped(enc) => handler = FALSE /\ (Known <=> Found(enc))
    /\ ~Escaped(enc) =>
         /\ Info = LookedUp /\ (handler <=> Handled)
         /\ InstructionSize = Behind + AdditionalBytes(LookedUp, Behind)
         /\ "MODRM" \in Flags <=> HasMODRM(LookedUp)
         /\ "SIB" \in Flags <=> HasSIB(LookedUp, Behind)

Marks == MarksScanning /\ MarksDone

\* The entries of prefixes are known.
LEMMA PrefixEntries ==
  /\ \A op \in LegacyPrefix : BaseOps[op].type = "LEGACY_PREFIX"
  /\ \A op \in REXPrefix : BaseOps[op].type = "REX_PREFIX"
<1> USE DEF BaseOps, Byte, LegacyPrefix, REXPrefix, ModRMTablePrefix
<1>1. \A op \in {\h26, \h2E, \h36, \h3E} : BaseOps[op] = Entry("LEGACY_PREFIX", {}, 0)
  OBVIOUS
<1>2. \A op \in {\h64, \h65, \h66, \h67} : BaseOps[op] = Entry("LEGACY_PREFIX", {}, 0)
  OBVIOUS
<1>3. \A op \in {\hF0, \hF2, \hF3} : BaseOps[op] = Entry("LEGACY_PREFIX", {}, 0)
  OBVIOUS
<1>4. \A op \in \h40..\h4F : BaseOps[op] = Entry("REX_PREFIX", {}, 0)
  OBVIOUS
<1> HIDE DEF BaseOps, Byte, ModRMTablePrefix
<1> QED
  BY <1>1, <1>2, <1>3, <1>4 DEF Entry

LEMMA MarksInit == Init => Marks
<1> SUFFICES ASSUME Init PROVE Marks
  OBVIOUS
<1>1. Prefixed \in Nat
  BY EncodingsAssumption, Fields DEF Init
<1>2. ~Known /\ \A ps : ~Among(ps, InstructionSize)
  BY DEF Init, Known, NoInfo, UnknownOp, Entry, Among
<1> QED
  BY <1>1, <1>2 DEF Init, Marks, MarksScanning, MarksDone

\* A prefix before REX.
LEMMA MarksPrefix ==
  ASSUME Inv, Marks, OperandSize \/ AddressSize \/ Lock \/ OtherPrefix
  PROVE  Marks'
<1>1. /\ pc = "OnceMore" /\ UNCHANGED <<pc, enc>>
      /\ InstructionSize' = InstructionSize + 1
      /\ Op \in LegacyPrefix
      /\ "LOCK" \in Flags' <=> "LOCK" \in Flags \/ Op = \hF0
      /\ \A f \in {"REX", "MODRM", "SIB"} : f \in Flags' <=> f \in Flags
      /\ Op \in Leaving => Info' = BaseOps[Op]
      /\ Op \notin Leaving => Info' = Info
  BY DEF OperandSize, AddressSize, Lock, OtherPrefix, Case, Again, LegacyPrefix, Leaving
<1>2. InstructionSize < Prefixed /\ Op = enc.prefixes[InstructionSize + 1]
  BY <1>1, Where DEF Inv
<1>3. enc \in Encoding /\ InstructionSize \in Nat
  BY <1>1 DEF Inv, Given, Scanning
<1>4. Prefixed \in Nat
  BY <1>3, Fields
<1>5. Prefixed' = Prefixed
  BY <1>1 DEF Prefixed
<1>6. \A ps : Among(ps, InstructionSize + 1) <=> Among(ps, InstructionSize) \/ Op \in ps
  BY <1>2, <1>3, <1>4 DEF Among
<1>7. \A ps : Among(ps, InstructionSize)' <=> Among(ps, InstructionSize + 1)
  BY <1>1, <1>5 DEF Among
<1>8. Leaving' = Leaving
  BY DEF Leaving, LegacyPrefix
<1>9. Known' <=> Known \/ Op \in Leaving
  <2>1. CASE Op \in Leaving
    BY <1>1, <2>1, PrefixEntries DEF Known
  <2>2. CASE Op \notin Leaving
    BY <1>1, <2>2 DEF Known
  <2> QED
    BY <2>1, <2>2
<1>10. ~(InstructionSize > Prefixed) /\ ~(InstructionSize' > Prefixed')
  BY <1>1, <1>2, <1>3, <1>4, <1>5
<1>11. MarksScanning'
  <2>1. /\ "LOCK" \in Flags <=> Among({\hF0}, InstructionSize)
        /\ "REX" \notin Flags /\ "MODRM" \notin Flags /\ "SIB" \notin Flags
        /\ Known <=> Among(Leaving, InstructionSize)
    BY <1>1, <1>10 DEF Marks, MarksScanning
  <2>2. Among({\hF0}, InstructionSize)' <=> "LOCK" \in Flags'
    BY <1>1, <1>6, <1>7, <2>1
  <2>3. Among(Leaving, InstructionSize)' <=> Known'
    BY <1>6, <1>7, <1>8, <1>9, <2>1
  <2> QED
    BY <1>1, <1>10, <2>1, <2>2, <2>3 DEF MarksScanning
<1>12. MarksDone'
  BY <1>1 DEF MarksDone
<1> QED
  BY <1>11, <1>12 DEF Marks

\* The REX byte.
LEMMA MarksREX ==
  ASSUME Inv, Marks, REX
  PROVE  Marks'
<1>1. /\ pc = "OnceMore" /\ UNCHANGED <<pc, enc>>
      /\ InstructionSize' = InstructionSize + 1
      /\ Op \in REXPrefix /\ Info' = BaseOps[Op] /\ Flags' = Flags \cup {"REX"}
  BY DEF REX, Case, Again
<1>2. InstructionSize = Prefixed
  BY <1>1, Where DEF Inv
<1>3. enc \in Encoding
  BY DEF Inv, Given
<1>4. Prefixed \in Nat
  BY <1>3, Fields
<1>5. Prefixed' = Prefixed
  BY <1>1 DEF Prefixed
<1>6. Among({\hF0}, InstructionSize)' <=> Among({\hF0}, InstructionSize)
  BY <1>1, <1>2, <1>4, <1>5 DEF Among
<1>7. Known'
  BY <1>1, PrefixEntries DEF Known
<1>8. InstructionSize' > Prefixed'
  BY <1>1, <1>2, <1>4, <1>5
<1>9. MarksScanning'
  BY <1>1, <1>6, <1>7, <1>8 DEF Marks, MarksScanning
<1>10. MarksDone'
  BY <1>1 DEF MarksDone
<1> QED
  BY <1>9, <1>10 DEF Marks

\* What the pass that reaches the opcode starts from.
LEMMA MarksAtOpcode ==
  ASSUME Inv, Marks, pc = "OnceMore", InstructionSize = Start
  PROVE  /\ "LOCK" \in Flags <=> LOCK(enc)
         /\ "REX" \in Flags <=> enc.rex # 0
         /\ Escaped(enc) => (Known <=> Found(enc))
         /\ "MODRM" \notin Flags /\ "SIB" \notin Flags
<1>1. enc \in Encoding
  BY DEF Inv, Given
<1>2. /\ Prefixed \in Nat /\ Start = IF enc.rex = 0 THEN Prefixed ELSE Prefixed + 1
      /\ enc.prefixes \in Seq(LegacyPrefix) /\ DOMAIN enc.prefixes = 1..Prefixed
  BY <1>1, Fields, LenProperties DEF Prefixed
<1>3. \A ps : Among(ps, Start) <=> \E k \in DOMAIN enc.prefixes : enc.prefixes[k] \in ps
  BY <1>2 DEF Among
<1>4. Start > Prefixed <=> enc.rex # 0
  BY <1>2
<1>5. \A k \in DOMAIN enc.prefixes :
        enc.prefixes[k] \in Leaving <=> enc.prefixes[k] \notin {\h66, \h67, \hF0}
  <2>1. \A k \in DOMAIN enc.prefixes : enc.prefixes[k] \in LegacyPrefix
    BY <1>2, ElementOfSeq DEF Prefixed
  <2> QED
    BY <2>1 DEF Leaving
<1>6. Among({\hF0}, Start) <=> LOCK(enc)
  BY <1>3 DEF LOCK, HasPrefix
<1>7. Escaped(enc) => (Found(enc) <=> enc.rex # 0 \/ Among(Leaving, Start))
  BY <1>3, <1>5 DEF Found
<1> QED
  BY <1>4, <1>6, <1>7 DEF Marks, MarksScanning

\* An opcode, or what is taken for an escape.
LEMMA MarksOpcode ==
  ASSUME Inv, Marks, TwoByteOp \/ BaseOp \/ ModRMOp
  PROVE  Marks'
<1>1. pc = "OnceMore" /\ InstructionSize = Start /\ NormalOp(LookedUp, Behind, Handled)
  BY Lookup
<1>2. /\ "LOCK" \in Flags <=> LOCK(enc)
      /\ "REX" \in Flags <=> enc.rex # 0
      /\ "MODRM" \notin Flags /\ "SIB" \notin Flags
  BY <1>1, MarksAtOpcode
<1>3. UNCHANGED <<enc, slot255, REXOptions, Widening, Narrowing>> /\ pc' = "done"
  BY <1>1 DEF NormalOp
<1>4. /\ Info' = LookedUp /\ (handler' <=> Handled)
      /\ InstructionSize' = Behind + AdditionalBytes(LookedUp, Behind)
      /\ "LOCK" \in Flags' <=> "LOCK" \in Flags
      /\ "REX" \in Flags' <=> "REX" \in Flags
      /\ "MODRM" \in Flags' <=> HasMODRM(LookedUp)
      /\ "SIB" \in Flags' <=> HasSIB(LookedUp, Behind)
  BY <1>1, <1>2 DEF NormalOp
<1>5. LookedUp' = LookedUp /\ Behind' = Behind /\ (Handled' <=> Handled)
  BY <1>3 DEF LookedUp, Handled, Group, BaseEntry, SecondEntry, Behind, Start, Prefixed
<1>6. /\ AdditionalBytes(LookedUp, Behind)' = AdditionalBytes(LookedUp, Behind)
      /\ HasMODRM(LookedUp)' <=> HasMODRM(LookedUp)
      /\ HasSIB(LookedUp, Behind)' <=> HasSIB(LookedUp, Behind)
  BY <1>3, <1>5 DEF AdditionalBytes, HasMODRM, HasSIB, Disp, MoreBytes, At
<1>7. ~Escaped(enc)
  <2>1. At(Behind) = enc.next
    BY CodeAt DEF Inv, Given
  <2>2. CASE TwoByteOp
    <3>1. At(InstructionSize + 2) \notin {\h0F, \h38, \h3A} /\ Op = \h0F
      BY <2>2 DEF TwoByteOp, Case
    <3>2. enc.map = "two" => Behind = InstructionSize + 2
      BY <1>1 DEF Behind
    <3> QED
      BY <2>1, <3>1, <3>2 DEF Escaped
  <2>3. CASE BaseOp \/ ModRMOp
    <3>1. Op \in Opcode
      BY <2>3 DEF BaseOp, ModRMOp, Case
    <3>2. enc.map # "two"
      BY <1>1, <3>1, Where, ByteKinds DEF Inv
    <3> QED
      BY <3>2 DEF Escaped
  <2> QED
    BY <2>2, <2>3
<1>8. /\ LOCK(enc)' <=> LOCK(enc)
      /\ ~Escaped(enc)'
  BY <1>3, <1>7 DEF LOCK, HasPrefix, Escaped
<1>9. MarksScanning'
  BY <1>3 DEF MarksScanning
<1>10. MarksDone'
  BY <1>2, <1>3, <1>4, <1>5, <1>6, <1>8 DEF MarksDone
<1> QED
  BY <1>9, <1>10 DEF Marks

LEMMA MarksEscape ==
  ASSUME Inv, Marks, Escape
  PROVE  Marks'
<1>1. /\ pc = "OnceMore" /\ Op = \h0F /\ pc' = "done"
      /\ UNCHANGED <<enc, slot255, Info, handler, Flags>>
      /\ At(InstructionSize + 2) \in {\h0F, \h38, \h3A}
  BY DEF Escape, Case
<1>2. InstructionSize = Start /\ enc.map # "base"
  <2>1. InstructionSize = Start /\ (enc.map = "base" => Op = enc.op)
    BY <1>1, Where DEF Inv
  <2>2. enc.map = "base" => enc.op \in Opcode
    BY Fields DEF Inv, Given
  <2> QED
    BY <1>1, <2>1, <2>2, ByteKinds
<1>3. enc.map = "two" /\ Start \in Nat
  BY <1>2, Fields DEF Inv, Given
<1>4. Escaped(enc)
  <2>1. At(Behind) = enc.next
    BY CodeAt DEF Inv, Given
  <2>2. Behind = InstructionSize + 2
    BY <1>2, <1>3 DEF Behind
  <2> QED
    BY <1>1, <1>3, <2>1, <2>2 DEF Escaped
<1>5. /\ "LOCK" \in Flags <=> LOCK(enc)
      /\ "REX" \in Flags <=> enc.rex # 0
      /\ Known <=> Found(enc)
  BY <1>1, <1>2, <1>4, MarksAtOpcode
<1>6. handler = FALSE
  BY <1>1, <1>2, AtOpcode DEF Inv
<1>7. /\ LOCK(enc)' <=> LOCK(enc)
      /\ Escaped(enc)' <=> Escaped(enc)
      /\ Found(enc)' <=> Found(enc)
      /\ Known' <=> Known
  BY <1>1 DEF LOCK, HasPrefix, Escaped, Found, Known
<1>8. MarksScanning'
  BY <1>1 DEF MarksScanning
<1>9. MarksDone'
  BY <1>1, <1>4, <1>5, <1>6, <1>7 DEF MarksDone
<1> QED
  BY <1>8, <1>9 DEF Marks

LEMMA MarksStutter ==
  ASSUME Marks, UNCHANGED vars
  PROVE  Marks'
<1>1. UNCHANGED <<enc, slot255, InstructionSize, Info, handler, Flags, REXOptions, Widening,
                  Narrowing, pc>>
  BY DEF vars
<1>2. Prefixed' = Prefixed /\ Behind' = Behind /\ (Known' <=> Known) /\ Leaving' = Leaving
  BY <1>1 DEF Prefixed, Start, Behind, Known, Leaving, LegacyPrefix
<1>3. \A ps : Among(ps, InstructionSize)' <=> Among(ps, InstructionSize)
  BY <1>1, <1>2 DEF Among
<1>4. LookedUp' = LookedUp /\ (Handled' <=> Handled)
  BY <1>1 DEF LookedUp, Handled, Group, BaseEntry, SecondEntry
<1>5. /\ AdditionalBytes(LookedUp, Behind)' = AdditionalBytes(LookedUp, Behind)
      /\ HasMODRM(LookedUp)' <=> HasMODRM(LookedUp)
      /\ HasSIB(LookedUp, Behind)' <=> HasSIB(LookedUp, Behind)
  BY <1>1, <1>2, <1>4 DEF AdditionalBytes, HasMODRM, HasSIB, Disp, MoreBytes, At
<1>6. /\ LOCK(enc)' <=> LOCK(enc)
      /\ Escaped(enc)' <=> Escaped(enc)
      /\ Found(enc)' <=> Found(enc)
  BY <1>1 DEF LOCK, HasPrefix, Escaped, Found
<1>7. MarksScanning'
  BY <1>1, <1>2, <1>3 DEF Marks, MarksScanning
<1>8. MarksDone'
  BY <1>1, <1>2, <1>4, <1>5, <1>6 DEF Marks, MarksDone
<1> QED
  BY <1>7, <1>8 DEF Marks

\* The flags and the entry that the loop leaves, pass by pass.
THEOREM MarksHold == Spec => []Marks
<1>1. Inv /\ Marks /\ [Next]_vars => Marks'
  BY MarksPrefix, MarksREX, MarksOpcode, MarksEscape, MarksStutter DEF Next, Over
<1> QED
  BY Invariance, MarksInit, <1>1, PTL DEF Spec

\* Where the entry of an opcode with a handler is, and what it says.
LEMMA HandlerEntry ==
  ASSUME enc \in Encoding, HasHandler(enc.map, enc.op, Reg(enc.next)),
         ~(enc.map = "base" /\ enc.op = 255 /\ slot255 = "lost")
  PROVE  Handled /\ LookedUp = InstInfo(enc) /\ LookedUp.type = "INST"
<1>1. enc.map \in {"base", "two"} /\ enc.op \in Byte
  BY Fields
<1>2. CASE enc.map = "two"
  <2>1. enc.op \in HandledTwo /\ Handled
    BY <1>2 DEF HasHandler, HandledTwo, Handled
  <2>2. SecondBaseOps[enc.op].type = "INST"
    BY <2>1 DEF HandledTwo, SecondBaseOps, Byte, Inst, Entry
  <2>3. LookedUp = SecondBaseOps[enc.op] /\ InstInfo(enc) = SecondBaseOps[enc.op]
    BY <1>2, <2>1 DEF HandledTwo, LookedUp, SecondEntry, InstInfo
  <2> QED
    BY <2>1, <2>2, <2>3
<1>3. CASE enc.map = "base" /\ enc.op \in ModRMTablePrefix
  <2>1. BaseOps[enc.op].type = "MODRM_TABLE_PREFIX"
    BY <1>3, GroupEntries
  <2>2. Group
    BY <1>3, <2>1 DEF Group, BaseEntry
  <2>3. LookedUp = ModRMOps[enc.op][Reg(enc.next)] /\ InstInfo(enc) = LookedUp
    BY <1>3, <2>2 DEF LookedUp, InstInfo
  <2>4. Handled
    BY <1>3, <2>2 DEF Handled
  <2>5. <<enc.op, Reg(enc.next)>> \in HandledGroup
    BY <1>3 DEF HasHandler, HandledGroup, ModRMTablePrefix
  <2>6. LookedUp.type = "INST"
    BY <2>3, <2>5 DEF HandledGroup, ModRMOps, ModRMTablePrefix, IndirectJump, Inst, Entry
  <2> QED
    BY <2>3, <2>4, <2>6
<1>4. CASE enc.map = "base" /\ enc.op \notin ModRMTablePrefix
  <2>1. ~Group
    BY <1>4, GroupOps
  <2>2. enc.op \in HandledBase
    BY <1>4 DEF HasHandler, HandledBase, ModRMTablePrefix
  <2>3. Handled /\ enc.op # 255
    BY <1>4, <2>1, <2>2 DEF Handled, HasHandler, HandledBase
  <2>4. LookedUp = BaseOps[enc.op] /\ InstInfo(enc) = BaseOps[enc.op]
    BY <1>4, <2>1, <2>3 DEF LookedUp, BaseEntry, InstInfo
  <2>5. BaseOps[enc.op].type = "INST"
    <3>1. BaseOps[enc.op] =
            CASE enc.op = \h01 -> Inst({"HAS_MODRM", "DIV_2"}, 0)
              [] enc.op \in {\h03, \h31, \h39, \h89, \h8D} -> Inst({"HAS_MODRM"}, 0)
              [] enc.op = \h05 -> Inst({"DIV_2"}, 4)
              [] enc.op = \h90 -> Inst({}, 0)
              [] enc.op = \hC3 -> Inst({"SETS_RIP", "BLOCK_END"}, 0)
              [] OTHER -> Inst({}, 1)
      BY <2>2, BaseEntries DEF HandledBase
    <3> QED
      BY <3>1 DEF Inst, Entry
  <2> QED
    BY <2>3, <2>4, <2>5
<1> QED
  BY <1>1, <1>2, <1>3, <1>4

\* The entry of FF, when it is lost.
LEMMA LostEntry ==
  ASSUME enc.map = "base", enc.op = 255, slot255 = "lost"
  PROVE  LookedUp = UnknownOp
BY DEF LookedUp, Group, BaseEntry, UnknownOp, Entry

\* What NormalOp computes for such an entry is what the encoding says.
LEMMA SameFlags ==
  ASSUME Inv, pc = "done", Handled, LookedUp = InstInfo(enc)
  PROVE  /\ HasMODRM(LookedUp) <=> MODRM(enc)
         /\ HasSIB(LookedUp, Behind) <=> SIB(enc)
         /\ "OPSIZE" \in Flags <=> OPSIZE(enc)
         /\ Behind + AdditionalBytes(LookedUp, Behind) = SizeOf(enc)
<1>1. /\ enc \in Encoding /\ REXOptions = Forced
      /\ Narrowing <=> Narrowed(Prefixed)
      /\ "OPSIZE" \in Flags <=> Narrowing
  BY DEF Inv, Given, Finished
<1>2. At(Behind) = enc.next /\ At(Behind + 1) = enc.sib
  BY <1>1, CodeAt
<1>3. "REX_IN_BYTE" \notin LookedUp.flags /\ "MUL_2" \notin LookedUp.flags
  BY <1>1, HandledEntries
<1>4. HasMODRM(LookedUp) <=> MODRM(enc)
  BY <1>1, <1>3 DEF HasMODRM, MODRM, Forced
<1>5. HasSIB(LookedUp, Behind) <=> SIB(enc)
  BY <1>1, <1>2, <1>4 DEF HasSIB, SIB, Forced
<1>6. Narrowing <=> OPSIZE(enc)
  <2>1. DOMAIN enc.prefixes = 1..Prefixed /\ Prefixed \in Nat
    BY <1>1, Fields, LenProperties DEF Prefixed
  <2> QED
    BY <1>1, <2>1 DEF Narrowed, OPSIZE, HasPrefix
<1>7. Disp(LookedUp, Behind) = DispOf(enc)
  BY <1>2, <1>4, <1>5 DEF Disp, DispOf
<1>8. MoreBytes(LookedUp) = MoreOf(enc)
  BY <1>3, <1>6 DEF MoreBytes, MoreOf
<1>9. Behind + AdditionalBytes(LookedUp, Behind) = SizeOf(enc)
  <2> DEFINE modrm == IF MODRM(enc) THEN 1 ELSE 0
             sib == IF SIB(enc) THEN 1 ELSE 0
  <2>1. Behind = Len(enc.prefixes) + (IF enc.rex = 0 THEN 0 ELSE 1) + (IF enc.map = "two" THEN 2 ELSE 1)
    BY DEF Behind, Start, Prefixed
  <2>2. AdditionalBytes(LookedUp, Behind) = modrm + sib + DispOf(enc) + MoreOf(enc)
    BY <1>4, <1>5, <1>7, <1>8 DEF AdditionalBytes
  <2>3. SizeOf(enc) = Behind + modrm + sib + DispOf(enc) + MoreOf(enc)
    BY <2>1 DEF SizeOf
  <2>4. modrm \in Nat /\ sib \in Nat /\ Behind \in Nat
    BY <1>1, Fields
  <2>5. DispOf(enc) \in Nat
    BY DEF DispOf, ModRMDisp
  <2>6. MoreOf(enc) \in Nat
    <3>1. LookedUp.more \in {0, 1, 4}
      BY <1>1, HandledEntries DEF Immediate
    <3> QED
      BY <3>1 DEF MoreOf
  <2> HIDE DEF modrm, sib
  <2> QED
    BY <2>2, <2>3, <2>4, <2>5, <2>6
<1> QED
  BY <1>1, <1>4, <1>5, <1>6, <1>9

\* For an opcode with a handler GetInstInfo returns what X86Tables says, which
\* Translation builds on, whatever prefixes stand before it in whatever order:
\* the cases without an entry, LOCK, and the handler's entry, flags and size.
THEOREM DecodesAsHolds == Spec => []DecodesAs
<1> DEFINE lost == enc.map = "base" /\ enc.op = 255 /\ slot255 = "lost"
<1>1. Inv /\ Marks => DecodesAs
  <2> SUFFICES ASSUME Inv, Marks, pc = "done", HasHandler(enc.map, enc.op, Reg(enc.next))
               PROVE  /\ Known <=> Found(enc) /\ ~lost
                      /\ "LOCK" \in Flags <=> LOCK(enc)
                      /\ Known => (handler <=> ~Escaped(enc))
                      /\ Known /\ handler =>
                           /\ Info = InstInfo(enc) /\ InstructionSize = SizeOf(enc)
                           /\ "MODRM" \in Flags <=> MODRM(enc)
                           /\ "SIB" \in Flags <=> SIB(enc)
                           /\ "OPSIZE" \in Flags <=> OPSIZE(enc)
                           /\ "REX" \in Flags <=> enc.rex # 0
    BY DEF DecodesAs
  <2>1. enc \in Encoding
    BY DEF Inv, Given
  <2>2. /\ "LOCK" \in Flags <=> LOCK(enc)
        /\ "REX" \in Flags <=> enc.rex # 0
        /\ Escaped(enc) => handler = FALSE /\ (Known <=> Found(enc))
        /\ ~Escaped(enc) =>
             /\ Info = LookedUp /\ (handler <=> Handled)
             /\ InstructionSize = Behind + AdditionalBytes(LookedUp, Behind)
             /\ "MODRM" \in Flags <=> HasMODRM(LookedUp)
             /\ "SIB" \in Flags <=> HasSIB(LookedUp, Behind)
    BY DEF Marks, MarksDone
  <2>3. CASE Escaped(enc)
    <3>1. ~lost
      BY <2>3 DEF Escaped
    <3> QED
      BY <2>2, <2>3, <3>1
  <2>4. CASE ~Escaped(enc) /\ lost
    <3>1. ~Known
      BY <2>2, <2>4, LostEntry DEF Known, UnknownOp, Entry
    <3> QED
      BY <2>2, <2>4, <3>1
  <2>5. CASE ~Escaped(enc) /\ ~lost
    <3>1. Handled /\ LookedUp = InstInfo(enc) /\ LookedUp.type = "INST"
      BY <2>1, <2>5, HandlerEntry
    <3>2. Known /\ Found(enc)
      BY <2>2, <2>5, <3>1 DEF Known, Found
    <3>3. /\ HasMODRM(LookedUp) <=> MODRM(enc)
          /\ HasSIB(LookedUp, Behind) <=> SIB(enc)
          /\ "OPSIZE" \in Flags <=> OPSIZE(enc)
          /\ Behind + AdditionalBytes(LookedUp, Behind) = SizeOf(enc)
      BY <3>1, SameFlags
    <3> QED
      BY <2>2, <2>5, <3>1, <3>2, <3>3
  <2> QED
    BY <2>3, <2>4, <2>5
<1> QED
  BY Invariance, MarksHold, <1>1, PTL

============================================================================
