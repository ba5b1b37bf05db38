-------------------------------- MODULE MCFormat --------------------------------
(***************************************************************************)
(* WordPath for TLC: immediates at the limits of each format and around    *)
(* powers of two, fields at their limits, a few registers.                 *)
(***************************************************************************)
EXTENDS WordPath

CONSTANTS Registers, Powers, Functs7

Functs3 == {0, 1, 6, 7}

\* One opcode of each format.
OpcodeSample == {OP, LOAD, STORE, LUI, BRANCH, JAL}

Immediates == UNION {{p, p - 1, p - 2, -p, 1 - p, 2 - p} : p \in Powers} \cup {0}

Sample(op) ==
  {i \in [opcode : {op},
          funct7 : IF op \in HasFunct7 THEN Functs7 ELSE {0},
          funct3 : IF op \in HasFunct3 THEN Functs3 ELSE {0},
          rd     : IF op \in HasRd  THEN Registers ELSE {0},
          rs1    : IF op \in HasRs1 THEN Registers ELSE {0},
          rs2    : IF op \in HasRs2 THEN Registers ELSE {0},
          imm    : IF op \in Uformat THEN {4096 * n : n \in {m \in Immediates : fits_imm20(m)}}
                                     ELSE Immediates] : WellFormed(i)}

MCSources == UNION {Sample(op) : op \in OpcodeSample}

MCStoredWords ==
  [funct7 : Functs7, rs2 : Registers, rs1 : Registers, funct3 : Functs3,
   rd : Registers, opcode : OpcodeSample]
===============================================================================
