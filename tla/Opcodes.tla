-------------------------------- MODULE Opcodes --------------------------------
(***************************************************************************)
(* The opcodes that encoder.c emits and that cpu_decode and cpu_execute    *)
(* dispatch on, and the format that each has.                              *)
(***************************************************************************)
LOAD   == 3      \* 0x03
OP_IMM == 19     \* 0x13
AUIPC  == 23     \* 0x17
STORE  == 35     \* 0x23
OP     == 51     \* 0x33
LUI    == 55     \* 0x37
BRANCH == 99     \* 0x63
JALR   == 103    \* 0x67
JAL    == 111    \* 0x6F

Rformat == {OP}
Iformat == {LOAD, OP_IMM, JALR}
Sformat == {STORE}
Uformat == {LUI, AUIPC}
Bformat == {BRANCH}
Jformat == {JAL}

Opcode == Rformat \cup Iformat \cup Sformat \cup Uformat \cup Bformat \cup Jformat

\* cpu_execute_rtype's choice of the operation: funct3, funct7, ALUOp.
RtypeOperations ==
  {<<0, 0, "ALU_ADD">>, <<0, 1, "ALU_MUL">>, <<0, 32, "ALU_SUB">>,
   <<1, 0, "ALU_SLL">>, <<4, 0, "ALU_XOR">>, <<4, 1, "ALU_DIV">>,
   <<5, 0, "ALU_SRL">>, <<5, 32, "ALU_SRA">>, <<6, 0, "ALU_OR">>,
   <<7, 0, "ALU_AND">>}
===============================================================================
