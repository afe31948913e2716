----------------------------- MODULE MCDecoder -----------------------------
(* Instances of Decoder for TLC: every opcode of both maps, with prefixes, *)
(* REX bytes, and ModRM and SIB bytes that make GetInstInfo differ.        *)
EXTENDS Decoder

\* 66, 67, FS, REP and LOCK, alone and together.
Prefixes == {<<>>, <<\h66>>, <<\hF3>>, <<\hF0>>, <<\h67, \h64>>, <<\h66, \h67, \h64>>}
REXes == {0, \h40, \h41, \h42, \h44, \h48, \h4F}

\* Every mod with and without SIB and without base, the register field of the
\* groups, and the three bytes that the code takes for escapes.
Nexts == {\h00, \h04, \h05, \h0F, \h20, \h38, \h3A, \h44, \h84, \h8C, \hC0, \hC5, \hE0, \hF4}
SIBs == {\h24, \h25}

Make(ops, prefixes, rexes) ==
  [prefixes : prefixes, rex : rexes, map : {"base", "two"}, op : ops, next : Nexts, sib : SIBs]

AllEncodings == Make(Byte, Prefixes, REXes) \cap Encoding
============================================================================
