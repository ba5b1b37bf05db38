-------------------------------- MODULE Encoder --------------------------------
(***************************************************************************)
(* encode_instruction: from the operands of an instruction, as texts, to   *)
(* the encoded word, or to Refused, which is 0 in the code.  One operator  *)
(* per group of mnemonics.  A program is a record of the instructions, the *)
(* data and the symbols of AssemblyProgram.                                *)
(***************************************************************************)
EXTENDS InstructionFormat, Decoder, SymbolTable

CONSTANTS
  Refused,
  LetterTexts   \* the texts that begin with a letter or an underscore

ASSUME RefusedAssumption == Refused \notin EncodedInstruction

ASSUME LetterTextsAssumption == LetterTexts \cap DOMAIN Numbers = {}

\* funct7 and funct3 of the R-format mnemonics.
RtypeCodes ==
  [add |-> <<0, 0>>, sub |-> <<32, 0>>, mul |-> <<1, 0>>, div |-> <<1, 4>>,
   sll |-> <<0, 1>>, srl |-> <<0, 5>>, sra |-> <<32, 5>>,
   and |-> <<0, 7>>, or |-> <<0, 6>>, xor |-> <<0, 4>>]

UtypeCodes == [lui |-> LUI, auipc |-> AUIPC]

\* funct3 of the branches.
BranchCodes == [beq |-> 0, bne |-> 1, blt |-> 4, bge |-> 5]

encode_rtype(instr) ==
  LET ops == instr.operands
      code == RtypeCodes[instr.opcode]
  IN  IF Len(ops) >= 3 /\ \A k \in 1 .. 3 : reg_index(ops[k]) >= 0
      THEN build_rtype(code[1], reg_index(ops[3]), reg_index(ops[2]), code[2],
                       reg_index(ops[1]), OP)
      ELSE Refused

\* addi rd, rs1, imm and li rd, imm, which is addi rd, x0, imm.
encode_opimm(instr) ==
  LET ops == instr.operands
      n   == IF instr.opcode = "addi" THEN 3 ELSE 2
      rs1 == IF instr.opcode = "addi" THEN reg_index(ops[2]) ELSE 0
      imm == parse_immediate(ops[n])
  IN  IF Len(ops) >= n /\ reg_index(ops[1]) >= 0 /\ rs1 >= 0 /\ fits_imm12(imm)
      THEN build_itype(imm, rs1, 0, reg_index(ops[1]), OP_IMM)
      ELSE Refused

encode_utype(instr) ==
  LET ops == instr.operands
      imm == parse_immediate(ops[2])
  IN  IF Len(ops) >= 2 /\ reg_index(ops[1]) >= 0 /\ fits_imm20(imm)
      THEN build_utype(imm, reg_index(ops[1]), UtypeCodes[instr.opcode])
      ELSE Refused

\* Mutation of encode_access: sw takes its registers as lw does.
encode_access_alike(instr) ==
  LET ops == instr.operands
      reg == reg_index(ops[1])
      mem == parse_memory_operand(ops[2])
  IN  IF Len(ops) < 2 \/ reg < 0 \/ mem.reg < 0 THEN Refused
      ELSE IF instr.opcode = "lw"
           THEN build_itype(mem.offset, mem.reg, 2, reg, LOAD)
           ELSE build_stype(mem.offset, mem.reg, reg, 2, STORE)

\* lw and sw; the offset is masked without a test.
encode_access(instr) ==
  LET ops == instr.operands
      reg == reg_index(ops[1])
      mem == parse_memory_operand(ops[2])
  IN  IF Len(ops) < 2 \/ reg < 0 \/ mem.reg < 0 THEN Refused
      ELSE IF instr.opcode = "lw"
           THEN build_itype(mem.offset, mem.reg, 2, reg, LOAD)
           ELSE build_stype(mem.offset, reg, mem.reg, 2, STORE)

\* Mutation of parse_branch_imm_or_label: the offset is taken from the
\* instruction that follows.
parse_branch_from_next(program, instr, text) ==
  IF text \in LetterTexts
  THEN {target - (instr.address + 4) : target \in find_symbol(program.symbols, <<text>>)}
  ELSE {Int32(Numbers[t].value) : t \in {text} \cap {n \in DOMAIN Numbers : Numbers[n].whole}}

\* The offset, if there is one: the text is a label if it begins like a name,
\* and else has to be a number to its end.
parse_branch_imm_or_label(program, instr, text) ==
  IF text \in LetterTexts
  THEN {target - instr.address : target \in find_symbol(program.symbols, <<text>>)}
  ELSE {Int32(Numbers[t].value) : t \in {text} \cap {n \in DOMAIN Numbers : Numbers[n].whole}}

encode_branch(program, instr) ==
  LET ops == instr.operands
      fitting == {off \in parse_branch_imm_or_label(program, instr, ops[3]) :
                    fits_branch_offset(off)}
  IN  IF Len(ops) >= 3 /\ reg_index(ops[1]) >= 0 /\ reg_index(ops[2]) >= 0 /\ fitting # {}
      THEN build_btype(CHOOSE off \in fitting : TRUE, reg_index(ops[1]), reg_index(ops[2]),
                       BranchCodes[instr.opcode])
      ELSE Refused

\* Mutation of JalOffset: the labels of the data are looked at first.
JalOffsetDataFirst(program, instr, text) ==
  LET data    == find_label(program.data, <<text>>)
      targets == IF data # {} THEN data ELSE find_symbol(program.symbols, <<text>>)
  IN  IF targets # {}
      THEN (CHOOSE t \in targets : TRUE) - instr.address
      ELSE parse_immediate(text)

\* Mutation of JalOffset: the address of the jal is not subtracted.
JalOffsetAbsolute(program, instr, text) ==
  LET symbol  == find_symbol(program.symbols, <<text>>)
      label   == find_label(program.instructions, <<text>>)
      targets == IF symbol # {} THEN symbol
                 ELSE IF label # {} THEN label
                 ELSE find_label(program.data, <<text>>)
  IN  IF targets # {} THEN CHOOSE t \in targets : TRUE ELSE parse_immediate(text)

\* The symbols, the labels of the instructions and those of the data are
\* searched in turn; a text that is none of them is read as a number.
JalOffset(program, instr, text) ==
  LET symbol  == find_symbol(program.symbols, <<text>>)
      label   == find_label(program.instructions, <<text>>)
      targets == IF symbol # {} THEN symbol
                 ELSE IF label # {} THEN label
                 ELSE find_label(program.data, <<text>>)
  IN  IF targets # {}
      THEN (CHOOSE t \in targets : TRUE) - instr.address
      ELSE parse_immediate(text)

\* jal target is jal ra, target.
encode_jal(program, instr) ==
  LET ops == instr.operands
      rd  == IF Len(ops) = 1 THEN 1 ELSE reg_index(ops[1])
      off == JalOffset(program, instr, IF Len(ops) = 1 THEN ops[1] ELSE ops[2])
  IN  IF Len(ops) >= 1 /\ rd >= 0 /\ fits_imm21(off)
      THEN build_jtype(off, rd, JAL)
      ELSE Refused

\* jalr rd, imm(rs1), jalr rd, rs1 or jalr rd, rs1, imm.
encode_jalr(instr) ==
  LET ops == instr.operands
      mem == parse_memory_operand(ops[2])
      rs1 == IF mem.reg >= 0 THEN mem.reg ELSE reg_index(ops[2])
      imm == IF mem.reg >= 0 THEN mem.offset
             ELSE IF Len(ops) >= 3 THEN parse_immediate(ops[3]) ELSE 0
  IN  IF Len(ops) >= 2 /\ reg_index(ops[1]) >= 0 /\ rs1 >= 0 /\ fits_imm12(imm)
      THEN build_itype(imm, rs1, 0, reg_index(ops[1]), JALR)
      ELSE Refused

encode_instruction(program, instr) ==
  CASE instr.opcode \in DOMAIN RtypeCodes  -> encode_rtype(instr)
    [] instr.opcode \in {"addi", "li"}     -> encode_opimm(instr)
    [] instr.opcode \in DOMAIN UtypeCodes  -> encode_utype(instr)
    [] instr.opcode \in {"lw", "sw"}       -> encode_access(instr)
    [] instr.opcode \in DOMAIN BranchCodes -> encode_branch(program, instr)
    [] instr.opcode = "jal"                -> encode_jal(program, instr)
    [] instr.opcode = "jalr"               -> encode_jalr(instr)
    [] OTHER                               -> Refused
===============================================================================
