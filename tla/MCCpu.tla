--------------------------------- MODULE MCCpu ---------------------------------
(***************************************************************************)
(* Instances of Cpu for TLC: every program of at most MaxLength            *)
(* instructions from a pool that has each kind of instruction, with        *)
(* operands that reach the corner cases, run on the ALU of module Alu.     *)
(* Words have 8 bits; instruction i of the pool is encoded as the word i.  *)
(***************************************************************************)
EXTENDS CpuAsIsa

CONSTANTS WordBits, MaxLength, Pool

AluModule == INSTANCE Alu

MCAlu(op, a, b) == AluModule!alu_execute(op, a, b)

Rtype(funct3, funct7, rd, rs1, rs2) ==
  [opcode |-> OP, funct3 |-> funct3, funct7 |-> funct7,
   rd |-> rd, rs1 |-> rs1, rs2 |-> rs2, imm |-> 0]
\* All the other formats: the fields a format lacks are never looked at.
Other(opcode, funct3, rd, rs1, rs2, imm) ==
  [opcode |-> opcode, funct3 |-> funct3, funct7 |-> 0,
   rd |-> rd, rs1 |-> rs1, rs2 |-> rs2, imm |-> imm]

WidePool ==
  << Other(OP_IMM, 0, 2, 0, 0, -4),    \* li   x2, -4
     Other(OP_IMM, 0, 1, 0, 0, 2),     \* li   ra, 2         denied
     Other(OP_IMM, 0, 2, 2, 0, 1),     \* addi x2, x2, 1
     Rtype(0, 0, 3, 2, 2),             \* add  x3, x2, x2
     Rtype(4, 1, 3, 2, 3),             \* div  x3, x2, x3    traps if x3 = 0
     Other(LOAD, 2, 3, 0, 0, 0),       \* lw   x3, 0(x0)
     Other(LOAD, 2, 1, 0, 0, -4),      \* lw   ra, -4(x0)    denied
     Other(STORE, 2, 0, 0, 2, 0),      \* sw   x2, 0(x0)
     Other(STORE, 2, 0, 2, 3, 0),      \* sw   x3, 0(x2)     the text if x2 = -4
     Other(JAL, 0, 1, 0, 0, 8),        \* jal  ra, 8
     Other(JAL, 0, 1, 0, 0, 0),        \* jal  ra, 0         loops forever
     Other(JAL, 0, 0, 0, 0, -4),       \* jal  x0, -4
     Other(JALR, 0, 0, 1, 0, 3),       \* jalr x0, 3(ra)     between two words
     Other(JALR, 0, 1, 1, 0, 0),       \* jalr ra, 0(ra)
     Other(BRANCH, 1, 0, 2, 0, -4),    \* bne  x2, x0, -4
     Other(BRANCH, 5, 0, 2, 3, 8),     \* bge  x2, x3, 8
     Other(LUI, 0, 3, 0, 0, 64),       \* lui  x3, 64
     Other(AUIPC, 0, 3, 0, 0, 0) >>    \* auipc x3, 0

\* Words that no instruction is encoded as decode to what the code rejects:
\* an opcode no case has, or an lw whose funct3 is not 2.
MCFields(w) ==
  IF w \in DOMAIN Pool THEN Pool[w]
  ELSE IF w = Len(Pool) + 1 THEN Other(LOAD, 0, 2, 0, 0, 0)
  ELSE Other(0, 0, 0, 0, 0, 0)

MCPrograms == UNION {[1 .. n -> DOMAIN Pool] : n \in 0 .. MaxLength}

MCDataSections == {<< >>, <<Len(Pool) + 1, WordMod - 1>>}
===============================================================================
