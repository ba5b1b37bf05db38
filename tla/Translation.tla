------------------------------ MODULE Translation ------------------------------
(***************************************************************************)
(* main.c, steps 1 and 3: a file is assembled, then its instructions are   *)
(* encoded one by one, and the first that is refused ends the run.         *)
(***************************************************************************)
EXTENDS Encoder, Assembler

\* 3 in the code: an instruction keeps every operand that its encoding looks at.
ASSUME OperandsAssumption == MAX_OPERANDS >= 3

\* MAX_LABEL_SIZE is 50 and MAX_OPERAND_SIZE 20: a label keeps more than an
\* operand does.
ASSUME LabelSegmentsAssumption == LabelSegments >= 2

VARIABLES
  encoded,   \* main's array enc, as far as it is filled
  refused    \* encode_instruction returned 0

translation == <<vars, encoded, refused>>

TranslationInit == Init /\ encoded = << >> /\ refused = FALSE

Assemble == Next /\ UNCHANGED <<encoded, refused>>

AssembledProgram == [instructions |-> instructions, data |-> data, symbols |-> symbols]

Code == encode_instruction(AssembledProgram, instructions[Len(encoded) + 1])

Encoding == status = "assembled" /\ ~refused /\ Len(encoded) < Len(instructions)

EncodeNext ==
  /\ Encoding /\ Code # Refused
  /\ encoded' = Append(encoded, Code)
  /\ UNCHANGED <<vars, refused>>

Refuse ==
  /\ Encoding /\ Code = Refused
  /\ refused' = TRUE
  /\ UNCHANGED <<vars, encoded>>

TranslationNext == Assemble \/ EncodeNext \/ Refuse

TranslationSpec == TranslationInit /\ [][TranslationNext]_translation
------------------------------------------------------------------------------
(* What was encoded, next to the line it comes from. *)

Read(i) == Decode(encoded[i])
Written(i) == file[instructions[i].line_number]
Goal(i) == instructions[i].address + Read(i).imm

\* The operands on the line, as far as the assembler keeps them.
Operands(i) ==
  [k \in DOMAIN Written(i).operands |-> OperandText(Written(i).operands[k])]

\* The operand that says where a branch or a jal goes.
Target(i) ==
  LET ops == Written(i).operands
  IN  IF Read(i).opcode = BRANCH THEN ops[3] ELSE IF Len(ops) = 1 THEN ops[1] ELSE ops[2]

\* The branches and jals whose target looks like a name.
NamedJumps ==
  {i \in DOMAIN encoded : /\ Read(i).opcode \in {BRANCH, JAL}
                          /\ OperandText(Target(i)) \in LetterTexts}

\* The address of the statement on line k or after it, as a reader of the file
\* counts it; the end of the text if there is none.
AddressAfter(k) == 4 * Cardinality(Statements(file, k - 1))

\* What the reader of an instruction expects the processor to find.
AluOperation ==
  [add |-> "ALU_ADD", sub |-> "ALU_SUB", mul |-> "ALU_MUL", div |-> "ALU_DIV",
   sll |-> "ALU_SLL", srl |-> "ALU_SRL", sra |-> "ALU_SRA",
   and |-> "ALU_AND", or |-> "ALU_OR", xor |-> "ALU_XOR"]

\* The number that a text begins with, 0 if it is none.
Shown(t) == IF t \in DOMAIN Numbers THEN Numbers[t].value ELSE 0

SameNumber(n, t, modulus) == (n - Shown(t)) % modulus = 0
------------------------------------------------------------------------------
(* The word w is what a reader of the mnemonic op and the operands ops       *)
(* expects, one operator per group of mnemonics.  A number is only known     *)
(* modulo 2^32, and the offset of lw and sw modulo 4096.                     *)

ArithmeticAsWritten(w, op, ops) ==
  LET r == Decode(w)
  IN  /\ r.opcode = OP /\ <<r.funct3, r.funct7, AluOperation[op]>> \in RtypeOperations
      /\ r.rd = reg_index(ops[1]) /\ r.rs1 = reg_index(ops[2]) /\ r.rs2 = reg_index(ops[3])

AddiAsWritten(w, ops) ==
  LET r == Decode(w)
  IN  /\ r.opcode = OP_IMM /\ r.rd = reg_index(ops[1]) /\ r.rs1 = reg_index(ops[2])
      /\ SameNumber(r.imm, ops[3], Int32Mod)

LiAsWritten(w, ops) ==
  LET r == Decode(w)
  IN  /\ r.opcode = OP_IMM /\ r.rd = reg_index(ops[1]) /\ r.rs1 = 0
      /\ SameNumber(r.imm, ops[2], Int32Mod)

UpperAsWritten(w, op, ops) ==
  LET r == Decode(w)
  IN  /\ r.opcode = UtypeCodes[op] /\ r.rd = reg_index(ops[1])
      /\ SameNumber(r.imm \div 4096, ops[2], Int32Mod)

AccessAsWritten(w, op, ops) ==
  LET r == Decode(w)
  IN  /\ r.opcode = IF op = "lw" THEN LOAD ELSE STORE
      /\ reg_index(ops[1]) = IF op = "lw" THEN r.rd ELSE r.rs2
      /\ r.rs1 = reg_index(Memories[ops[2]].base)
      /\ SameNumber(r.imm, Memories[ops[2]].offset, 4096)

BranchAsWritten(w, ops) ==
  LET r == Decode(w)
  IN  /\ r.opcode = BRANCH /\ r.rs1 = reg_index(ops[1]) /\ r.rs2 = reg_index(ops[2])
      /\ ops[3] \notin LetterTexts => SameNumber(r.imm, ops[3], Int32Mod)

JalAsWritten(w, ops) ==
  LET r == Decode(w)
  IN  r.opcode = JAL /\ r.rd = IF Len(ops) = 1 THEN 1 ELSE reg_index(ops[1])

JalrAsWritten(w, ops) ==
  LET r == Decode(w)
  IN  /\ r.opcode = JALR /\ r.rd = reg_index(ops[1])
      /\ IF ops[2] \in DOMAIN Memories
         THEN /\ r.rs1 = reg_index(Memories[ops[2]].base)
              /\ SameNumber(r.imm, Memories[ops[2]].offset, Int32Mod)
         ELSE /\ r.rs1 = reg_index(ops[2])
              /\ IF Len(ops) = 2 THEN r.imm = 0 ELSE SameNumber(r.imm, ops[3], Int32Mod)

AsWritten(w, op, ops) ==
  /\ op \in DOMAIN RtypeCodes  => ArithmeticAsWritten(w, op, ops)
  /\ op = "addi"               => AddiAsWritten(w, ops)
  /\ op = "li"                 => LiAsWritten(w, ops)
  /\ op \in DOMAIN UtypeCodes  => UpperAsWritten(w, op, ops)
  /\ op \in {"lw", "sw"}       => AccessAsWritten(w, op, ops)
  /\ op \in DOMAIN BranchCodes => BranchAsWritten(w, ops)
  /\ op = "jal"                => JalAsWritten(w, ops)
  /\ op = "jalr"               => JalrAsWritten(w, ops)
------------------------------------------------------------------------------
(* Properties *)

\* The processor will find the operation, the registers and the immediate that
\* the line shows: the operand positions and funct values that encoder.c writes
\* (163-713) are those that cpu.c reads (343-719).
ReadAsWritten ==
  \A i \in DOMAIN encoded :
    /\ encoded[i] \in EncodedInstruction
    /\ AsWritten(encoded[i], to_lower(Written(i).opcode), Operands(i))

\* A branch to a name that an operand has room for goes, when it is accepted, to a
\* statement of the text, and a label with that name was written on the line of
\* the statement or above it, with nothing in between but statements that have
\* labels of their own (encoder.c:114-133).  A label that was lost, replaced or
\* cut to the room for labels makes the branch fail, it never sends it elsewhere;
\* of a name that is longer than an operand, see BranchesReachTheWholeName.
BranchesReachTheirLabel ==
  \A i \in NamedJumps : Read(i).opcode = BRANCH /\ Len(Target(i)) = 1 =>
    \E k \in DOMAIN file :
      /\ Defines(file, k, Target(i))
      /\ \E j \in DOMAIN instructions :
           /\ Goal(i) = instructions[j].address /\ instructions[j].line_number >= k
           /\ \A s \in k .. instructions[j].line_number - 1 :
                IsStatement(file, s) => file[s].colon

\* A branch that is accepted goes to the statement after the label that has the
\* name on the line of the branch, the whole of it, if there is one such label
\* and a statement after it.
BranchesReachTheWholeName ==
  \A i \in NamedJumps, k \in DOMAIN file :
    /\ Read(i).opcode = BRANCH
    /\ AddressAfter(k) < 4 * Len(instructions)
    /\ {j \in DOMAIN file :
         file[j].colon /\ ~InData(file, j) /\ file[j].label = Target(i)} = {k}
    => Goal(i) = AddressAfter(k)

\* A branch and a jal whose operands hold the same text, the name or the
\* beginning of one, go to the same place, although they look for it in
\* different ways: a label of the text wins over one of the data in both
\* (encoder.c:124, 610-640).
BranchAndJalAgree ==
  \A i, j \in NamedJumps :
    /\ Read(i).opcode = BRANCH
    /\ OperandText(Target(i)) = OperandText(Target(j))
    => Goal(i) = Goal(j)

\* A jump to a name goes to an instruction of the program: at worst, when jal
\* does not find the name, to itself.  Only the labels of the data are an
\* exception, whose addresses are relative to the data (encoder.c:629-639).
JumpTargetsAreInstructions ==
  \A i \in NamedJumps :
    find_label(data, <<OperandText(Target(i))>>) = {} =>
      Goal(i) \in {instructions[j].address : j \in DOMAIN instructions}

\* A jump goes to the statement after the label that it names, or to the end of
\* the text if there is none, provided that only one line has the label and
\* that an operand has room for it: what tests/divide_by_0.asm:15-21 relies on.
JumpsReachTheirLabel ==
  \A i \in NamedJumps, k \in DOMAIN file :
    /\ Len(Target(i)) = 1
    /\ {j \in DOMAIN file : Defines(file, j, Target(i))} = {k}
    => Goal(i) = AddressAfter(k)
===============================================================================
