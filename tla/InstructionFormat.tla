--------------------------- MODULE InstructionFormat ---------------------------
(***************************************************************************)
(* instruction.h and the build_* functions of encoder.c: how the fields of *)
(* an instruction are laid out in a 32-bit word, and how the processor     *)
(* reads them back.  Every field boundary of every format is one of the    *)
(* boundaries of the R format, or lies inside one of its fields, so a word *)
(* is the record of its six R-format fields; AsNumber and FieldsOfNumber   *)
(* lead to the uint32_t and back.  Immediates are int32_t values; a shift  *)
(* is a division and a mask a remainder, both rounding down as two's       *)
(* complement does.                                                        *)
(***************************************************************************)
EXTENDS Integers, Opcodes

EncodedInstruction ==
  [funct7 : 0 .. 127, rs2 : 0 .. 31, rs1 : 0 .. 31,
   funct3 : 0 .. 7, rd : 0 .. 31, opcode : 0 .. 127]

\* Mutation of Slice: the mask is forgotten.
SliceUnmasked(n, low, bits) == n \div low

\* (n >> low) & (2^bits - 1), given 2^low and 2^bits.
Slice(n, low, bits) == (n \div low) % bits

\* Mutation of SignExtend: the sign bit is cleared, the upper bits are not set.
SignCleared(n, sign) == IF n >= sign THEN n - sign ELSE n

\* Sign extension of an n below 2 * sign whose sign bit is worth sign.
SignExtend(n, sign) == IF n >= sign THEN n - 2 * sign ELSE n

\* The uint32_t: every field shifted to its place.
AsNumber(code) ==
  code.opcode + 128 * code.rd + 4096 * code.funct3 + 32768 * code.rs1
    + 1048576 * code.rs2 + 33554432 * code.funct7

\* What the getters of the fields find in a uint32_t.
FieldsOfNumber(n) ==
  [funct7 |-> Slice(n, 33554432, 128), rs2 |-> Slice(n, 1048576, 32),
   rs1 |-> Slice(n, 32768, 32), funct3 |-> Slice(n, 4096, 8),
   rd |-> Slice(n, 128, 32), opcode |-> Slice(n, 1, 128)]
------------------------------------------------------------------------------
(* The builders: encoder.c *)

build_rtype(funct7, rs2, rs1, funct3, rd, opcode) ==
  [funct7 |-> funct7, rs2 |-> rs2, rs1 |-> rs1,
   funct3 |-> funct3, rd |-> rd, opcode |-> opcode]

build_itype(imm, rs1, funct3, rd, opcode) ==
  build_rtype(Slice(imm, 32, 128), imm % 32, rs1, funct3, rd, opcode)

build_stype(imm, rs2, rs1, funct3, opcode) ==
  build_rtype(Slice(imm, 32, 128), rs2, rs1, funct3, imm % 32, opcode)

build_utype(imm, rd, opcode) ==
  build_rtype(Slice(imm, 8192, 128), Slice(imm, 256, 32), Slice(imm, 8, 32),
              imm % 8, rd, opcode)

\* imm[12|10:5] in funct7, imm[4:1|11] in rd.
build_btype(imm, rs1, rs2, funct3) ==
  build_rtype(64 * Slice(imm, 4096, 2) + Slice(imm, 32, 64), rs2, rs1, funct3,
              2 * Slice(imm, 2, 16) + Slice(imm, 2048, 2), BRANCH)

\* imm[20|10:5] in funct7, imm[4:1|11] in rs2, imm[19:15] in rs1, imm[14:12] in funct3.
build_jtype(imm, rd, opcode) ==
  build_rtype(64 * Slice(imm, 1048576, 2) + Slice(imm, 32, 64),
              2 * Slice(imm, 2, 16) + Slice(imm, 2048, 2),
              Slice(imm, 32768, 32), Slice(imm, 4096, 8), rd, opcode)

fits_imm21(imm) == -1048576 <= imm /\ imm <= 1048575 /\ imm % 2 = 0
fits_imm12(imm) == -2048 <= imm /\ imm <= 2047
fits_imm20(imm) == -524288 <= imm /\ imm <= 524287
fits_branch_offset(off) == off % 2 = 0 /\ -4096 <= off /\ off <= 4094
------------------------------------------------------------------------------
(* The getters of the immediates: instruction.h, with the fields that each   *)
(* format cuts them from.  The getters of the registers, of funct3, funct7   *)
(* and the opcode are the fields of the record.                              *)

Imm12(hi, lo) == SignExtend(32 * hi + lo, 2048)

Imm20(f7, s2, s1, f3) == SignExtend(8192 * f7 + 256 * s2 + 8 * s1 + f3, 524288)

\* Mutation of Imm13: imm10_5 is cut with the mask 0x1F.
Imm13Narrow(f7, d) ==
  SignExtend(4096 * (f7 \div 64) + 2048 * (d % 2) + 32 * (f7 % 32) + 2 * (d \div 2), 4096)

Imm13(f7, d) ==
  SignExtend(4096 * (f7 \div 64) + 2048 * (d % 2) + 32 * (f7 % 64) + 2 * (d \div 2), 4096)

Imm21(f7, s2, s1, f3) ==
  SignExtend(1048576 * (f7 \div 64) + 32768 * s1 + 4096 * f3 + 2048 * (s2 % 2)
               + 32 * (f7 % 64) + 2 * (s2 \div 2), 1048576)

itype_get_immediate(w) == Imm12(w.funct7, w.rs2)
stype_get_immediate(w) == Imm12(w.funct7, w.rd)
\* imm20 << 12 as an int32_t, whose sign is that of imm20.
utype_get_immediate(w) == 4096 * Imm20(w.funct7, w.rs2, w.rs1, w.funct3)
btype_get_imm(w)       == Imm13(w.funct7, w.rd)
jtype_get_immediate(w) == Imm21(w.funct7, w.rs2, w.rs1, w.funct3)
------------------------------------------------------------------------------
(* An instruction with its operands: what encode_instruction has parsed      *)
(* before it calls a builder, and what a cpu_execute_* function has after    *)
(* its getters.  The operands that a format lacks are 0.                     *)

Instruction ==
  [opcode : Opcode,
   funct7 : 0 .. 127, funct3 : 0 .. 7,
   rd : 0 .. 31, rs1 : 0 .. 31, rs2 : 0 .. 31, imm : Int]

HasFunct7 == Rformat
HasFunct3 == Rformat \cup Iformat \cup Sformat \cup Bformat
HasRd     == Rformat \cup Iformat \cup Uformat \cup Jformat
HasRs1    == Rformat \cup Iformat \cup Sformat \cup Bformat
HasRs2    == Rformat \cup Sformat \cup Bformat

\* The immediate passes the check of its format (build_utype gets imm / 4096).
Fits(i) ==
  \/ i.opcode \in Rformat
  \/ i.opcode \in Iformat \cup Sformat /\ fits_imm12(i.imm)
  \/ i.opcode \in Uformat /\ fits_imm20(i.imm \div 4096)
  \/ i.opcode \in Bformat /\ fits_branch_offset(i.imm)
  \/ i.opcode \in Jformat /\ fits_imm21(i.imm)

\* The checks that encode_instruction makes: lw and sw have none, and their
\* offset is cut to 12 bits.
Accepts(i) == i.opcode \in {LOAD, STORE} \/ Fits(i)

WellFormed(i) ==
  /\ i \in Instruction
  /\ i.opcode \notin HasFunct7 => i.funct7 = 0
  /\ i.opcode \notin HasFunct3 => i.funct3 = 0
  /\ i.opcode \notin HasRd  => i.rd = 0
  /\ i.opcode \notin HasRs1 => i.rs1 = 0
  /\ i.opcode \notin HasRs2 => i.rs2 = 0
  /\ i.opcode \in Rformat => i.imm = 0
  /\ i.opcode \in Uformat => i.imm % 4096 = 0

\* encode_instruction's choice of a builder.
Encode(i) ==
  CASE i.opcode \in Rformat -> build_rtype(i.funct7, i.rs2, i.rs1, i.funct3, i.rd, i.opcode)
    [] i.opcode \in Iformat -> build_itype(i.imm, i.rs1, i.funct3, i.rd, i.opcode)
    [] i.opcode \in Sformat -> build_stype(i.imm, i.rs2, i.rs1, i.funct3, i.opcode)
    [] i.opcode \in Uformat -> build_utype(i.imm \div 4096, i.rd, i.opcode)
    [] i.opcode \in Bformat -> build_btype(i.imm, i.rs1, i.rs2, i.funct3)
    [] i.opcode \in Jformat -> build_jtype(i.imm, i.rd, i.opcode)

\* The getter that cpu_execute's choice of a function leads to.
Immediate(w) ==
  CASE w.opcode \in Rformat -> 0
    [] w.opcode \in Iformat -> itype_get_immediate(w)
    [] w.opcode \in Sformat -> stype_get_immediate(w)
    [] w.opcode \in Uformat -> utype_get_immediate(w)
    [] w.opcode \in Bformat -> btype_get_imm(w)
    [] w.opcode \in Jformat -> jtype_get_immediate(w)

Decode(w) ==
  [opcode |-> w.opcode,
   funct7 |-> IF w.opcode \in HasFunct7 THEN w.funct7 ELSE 0,
   funct3 |-> IF w.opcode \in HasFunct3 THEN w.funct3 ELSE 0,
   rd     |-> IF w.opcode \in HasRd  THEN w.rd  ELSE 0,
   rs1    |-> IF w.opcode \in HasRs1 THEN w.rs1 ELSE 0,
   rs2    |-> IF w.opcode \in HasRs2 THEN w.rs2 ELSE 0,
   imm    |-> Immediate(w)]
===============================================================================
