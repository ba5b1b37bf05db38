------------------------------ MODULE MCSimulator ------------------------------
(***************************************************************************)
(* Simulator for TLC: files of a few lines.  Words have 8 bits; the        *)
(* encoded instructions that the lines can become are numbered, and the    *)
(* number is the word.                                                     *)
(***************************************************************************)
EXTENDS Simulator, TLC

CONSTANTS WordBits, MaxLines

AluModule == INSTANCE Alu

MCAlu(op, a, b) == AluModule!alu_execute(op, a, b)

Plain(opcode, operands) ==
  [colon |-> FALSE, label |-> << >>, opcode |-> opcode,
   operands |-> [k \in DOMAIN operands |-> <<operands[k]>>]]
Labelled(plain) == [plain EXCEPT !.colon = TRUE, !.label = <<"a">>]

Data == {Plain(".data", << >>), Plain(".text", << >>), Plain(".word", <<"7", "-4">>)}

\* Straight lines of code, with loads of both words.
DataLines ==
  Data \cup {Plain("lw", <<"x2", "0(x0)">>), Plain("lw", <<"x3", "4(x0)">>),
             Plain("sw", <<"x2", "0(x0)">>), Plain("li", <<"x2", "-4">>),
             Plain("div", <<"x3", "x3", "x2">>), Plain("li", <<"ra", "7">>),
             Plain("add", <<"x3", "x2">>)}

\* Jumps.
JumpLines ==
  {Labelled(Plain("", << >>)), Labelled(Plain("addi", <<"x2", "x2", "1">>)),
   Plain("addi", <<"x2", "x2", "1">>), Plain("jal", <<"a">>), Plain("jal", <<"x0", "a">>),
   Plain("beq", <<"x0", "x0", "a">>), Plain("bne", <<"x2", "x0", "a">>),
   Labelled(Plain("jal", <<"a">>)), Plain("jalr", <<"x0", "0(ra)">>)}

\* A few of each, for longer files.
LongDataLines ==
  Data \cup {Plain("lw", <<"x3", "4(x0)">>), Plain("li", <<"x2", "-4">>),
             Plain("sw", <<"x2", "0(x0)">>)}

LongJumpLines ==
  {Labelled(Plain("", << >>)), Labelled(Plain("addi", <<"x2", "x2", "1">>)),
   Plain("jal", <<"a">>), Plain("bne", <<"x2", "x0", "a">>), Plain("jalr", <<"x0", "0(ra)">>)}

DataAndJumpFiles ==
  UNION {[1 .. n -> DataLines] \cup [1 .. n -> JumpLines] : n \in 0 .. MaxLines}
  \cup [1 .. MaxLines + 1 -> LongDataLines] \cup [1 .. MaxLines + 1 -> LongJumpLines]

MCXNumber == [n \in {"x0", "x2", "x3"} |-> IF n = "x0" THEN 0 ELSE IF n = "x2" THEN 2 ELSE 3]

Decimals == {-4, 0, 1, 4, 7}

MCNumbers ==
  [t \in {ToString(n) : n \in Decimals} |->
     LET n == CHOOSE d \in Decimals : ToString(d) = t
     IN  [value |-> n, whole |-> TRUE, decimal |-> n]]

MCMemories ==
  [t \in {"0(x0)", "4(x0)", "0(ra)"} |->
     [offset |-> IF t = "4(x0)" THEN "4" ELSE "0",
      base |-> IF t = "0(ra)" THEN "ra" ELSE "x0", closed |-> TRUE]]

MCLowerCase == [a \in {} |-> a]

MCLetterTexts == {"a", "ra", "x0", "x2", "x3"}
------------------------------------------------------------------------------
Format == INSTANCE InstructionFormat

Offsets == {4 * n : n \in -4 .. 4}

\* Everything that the lines above can be encoded as.
Pool ==
  {Format!build_itype(i, 0, 2, r, Format!LOAD) : i \in {0, 4}, r \in {2, 3}}
  \cup {Format!build_stype(0, 2, 0, 2, Format!STORE), Format!build_rtype(1, 2, 3, 4, 3, Format!OP),
        Format!build_itype(-4, 0, 0, 2, Format!OP_IMM), Format!build_itype(7, 0, 0, 1, Format!OP_IMM),
        Format!build_itype(1, 2, 0, 2, Format!OP_IMM), Format!build_itype(0, 1, 0, 0, Format!JALR)}
  \cup {Format!build_jtype(off, rd, Format!JAL) : off \in Offsets, rd \in {0, 1}}
  \cup {Format!build_btype(off, rs1, 0, IF rs1 = 0 THEN 0 ELSE 1) :
          off \in Offsets, rs1 \in {0, 2}}

\* The 32-bit word, without the last two bits, which are 1 in every opcode.
Bits30(c) ==
  c.opcode \div 4 + 32 * (c.rd + 32 * (c.funct3 + 8 * (c.rs1 + 32 * (c.rs2 + 32 * c.funct7))))

Numbering == [c \in Pool |-> Cardinality({d \in Pool : Bits30(d) <= Bits30(c)})]

MCWordOf(code) == Numbering[code]

NoInstruction ==
  [opcode |-> 0, funct3 |-> 0, funct7 |-> 0, rd |-> 0, rs1 |-> 0, rs2 |-> 0, imm |-> 0]

FieldsOf ==
  [w \in 1 .. Cardinality(Pool) |-> Format!Decode(CHOOSE c \in Pool : Numbering[c] = w)]

MCFields(w) == IF w \in DOMAIN FieldsOf THEN FieldsOf[w] ELSE NoInstruction
===============================================================================
