--------------------------- MODULE SimulatorProofs ---------------------------
(***************************************************************************)
(* From the lines of a file to the words of the program, to what the       *)
(* processor does with them, and to the exit status, for all files.        *)
(***************************************************************************)
EXTENDS Simulator, AssemblerProofs

USE DEF Rformat, Iformat, Sformat, Uformat, Bformat, Jformat,
        LOAD, OP_IMM, AUIPC, STORE, OP, LUI, BRANCH, JALR, JAL

------------------------------------------------------------------------------
(* What the processor finds in the words of the builders *)

\* The instruction that the processor finds in the word w.
FindsR(w, f7, f3, rd, rs1, rs2) ==
  /\ w \in EncodedInstruction /\ Decode(w).opcode = OP
  /\ Decode(w).funct7 = f7 /\ Decode(w).funct3 = f3
  /\ Decode(w).rd = rd /\ Decode(w).rs1 = rs1 /\ Decode(w).rs2 = rs2

FindsI(w, op, rd, rs1, imm) ==
  /\ w \in EncodedInstruction /\ Decode(w).opcode = op
  /\ Decode(w).rd = rd /\ Decode(w).rs1 = rs1 /\ Decode(w).imm = imm

\* n has the low 12 bits of imm.
SameLow12(n, imm) == n \in Int /\ (n - imm) % 4096 = 0

\* lw and sw: of the offset only the low 12 bits.
FindsLoad(w, rd, rs1, imm) ==
  /\ w \in EncodedInstruction /\ Decode(w).opcode = LOAD
  /\ Decode(w).rd = rd /\ Decode(w).rs1 = rs1
  /\ SameLow12(Decode(w).imm, imm)

FindsStore(w, rs1, rs2, imm) ==
  /\ w \in EncodedInstruction /\ Decode(w).opcode = STORE
  /\ Decode(w).rs1 = rs1 /\ Decode(w).rs2 = rs2
  /\ SameLow12(Decode(w).imm, imm)

FindsU(w, op, rd, imm) ==
  /\ w \in EncodedInstruction /\ Decode(w).opcode = op
  /\ Decode(w).rd = rd /\ Decode(w).imm = 4096 * imm

FindsB(w, rs1, rs2, imm) ==
  /\ w \in EncodedInstruction /\ Decode(w).opcode = BRANCH
  /\ Decode(w).rs1 = rs1 /\ Decode(w).rs2 = rs2 /\ Decode(w).imm = imm

FindsJ(w, rd, imm) ==
  /\ w \in EncodedInstruction /\ Decode(w).opcode = JAL
  /\ Decode(w).rd = rd /\ Decode(w).imm = imm

\* R format.
LEMMA RtypeRead ==
  ASSUME NEW f7 \in 0 .. 127, NEW rs2 \in 0 .. 31, NEW rs1 \in 0 .. 31, NEW f3 \in 0 .. 7,
         NEW rd \in 0 .. 31
  PROVE  FindsR(build_rtype(f7, rs2, rs1, f3, rd, OP), f7, f3, rd, rs1, rs2)
BY SMT DEF FindsR, build_rtype, EncodedInstruction, Decode,
           HasFunct7, HasFunct3, HasRd, HasRs1, HasRs2

\* I format, for an immediate that passes the check.
LEMMA ItypeRead ==
  ASSUME NEW op \in Iformat, NEW imm \in Int, fits_imm12(imm), NEW rs1 \in 0 .. 31,
         NEW f3 \in 0 .. 7, NEW rd \in 0 .. 31
  PROVE  FindsI(build_itype(imm, rs1, f3, rd, op), op, rd, rs1, imm)
<1> DEFINE w == build_itype(imm, rs1, f3, rd, op)
           hi == Slice(imm, 32, 128)
           lo == imm % 32
<1>1. hi \in 0 .. 127 /\ lo \in 0 .. 31 /\ Imm12(hi, lo) = imm
  BY ItypeRoundTrip
<1>2. w = [funct7 |-> hi, rs2 |-> lo, rs1 |-> rs1, funct3 |-> f3, rd |-> rd, opcode |-> op]
  BY DEF build_itype, build_rtype
<1> HIDE DEF hi, lo
<1>3. /\ w \in EncodedInstruction /\ w.funct7 = hi /\ w.rs2 = lo /\ w.opcode = op
      /\ w.rd = rd /\ w.rs1 = rs1
  BY SMT, <1>1, <1>2 DEF EncodedInstruction
<1> HIDE DEF w
<1>4. Immediate(w) = imm
  BY SMT, <1>1, <1>3 DEF Immediate, itype_get_immediate
<1>5. /\ Decode(w).opcode = op /\ Decode(w).rd = rd /\ Decode(w).rs1 = rs1
      /\ Decode(w).imm = imm
  BY SMT, <1>3, <1>4 DEF Decode, HasRd, HasRs1
<1> QED BY <1>3, <1>5 DEF FindsI, w

\* S format, whatever the offset: its low 12 bits.
LEMMA StypeRead ==
  ASSUME NEW imm \in Int, NEW rs2 \in 0 .. 31, NEW rs1 \in 0 .. 31, NEW f3 \in 0 .. 7
  PROVE  FindsStore(build_stype(imm, rs2, rs1, f3, STORE), rs1, rs2, imm)
<1> DEFINE w == build_stype(imm, rs2, rs1, f3, STORE)
<1>0. PICK t \in Int : IsLow12(t, imm)
  BY LowBits
<1>1. /\ fits_imm12(t) /\ Slice(t, 32, 128) = Slice(imm, 32, 128)
      /\ t % 32 = imm % 32 /\ (t - imm) % 4096 = 0
  BY <1>0 DEF IsLow12
<1> DEFINE hi == Slice(imm, 32, 128)
           lo == imm % 32
<1>2. hi \in 0 .. 127 /\ lo \in 0 .. 31 /\ Imm12(hi, lo) = t
  BY <1>1, ItypeRoundTrip
<1>3. w = [funct7 |-> hi, rs2 |-> rs2, rs1 |-> rs1, funct3 |-> f3, rd |-> lo, opcode |-> STORE]
  BY DEF build_stype, build_rtype
<1> HIDE DEF hi, lo
<1>4. /\ w \in EncodedInstruction /\ w.funct7 = hi /\ w.rd = lo /\ w.opcode = STORE
      /\ w.rs2 = rs2 /\ w.rs1 = rs1
  BY SMT, <1>2, <1>3 DEF EncodedInstruction
<1> HIDE DEF w
<1>5. Immediate(w) = t
  BY SMT, <1>2, <1>4 DEF Immediate, stype_get_immediate
<1>6. /\ Decode(w).opcode = STORE /\ Decode(w).rs2 = rs2 /\ Decode(w).rs1 = rs1
      /\ Decode(w).imm = t
  BY SMT, <1>4, <1>5 DEF Decode, HasRs1, HasRs2
<1> QED BY <1>1, <1>4, <1>6 DEF FindsStore, SameLow12, w

\* lw has the same offset in the I format.
LEMMA LoadRead ==
  ASSUME NEW imm \in Int, NEW rs1 \in 0 .. 31, NEW f3 \in 0 .. 7, NEW rd \in 0 .. 31
  PROVE  FindsLoad(build_itype(imm, rs1, f3, rd, LOAD), rd, rs1, imm)
<1> DEFINE w == build_itype(imm, rs1, f3, rd, LOAD)
<1>0. PICK t \in Int : IsLow12(t, imm)
  BY LowBits
<1>1. /\ fits_imm12(t) /\ Slice(t, 32, 128) = Slice(imm, 32, 128)
      /\ t % 32 = imm % 32 /\ (t - imm) % 4096 = 0
  BY <1>0 DEF IsLow12
<1>f. fits_imm12(t)
  BY <1>1
<1>o. PICK op \in Iformat : op = LOAD
  OBVIOUS
<1>2. w = build_itype(t, rs1, f3, rd, op)
  BY <1>1, <1>o DEF build_itype
<1>3. FindsI(build_itype(t, rs1, f3, rd, op), op, rd, rs1, t)
  BY <1>f, ItypeRead, Zenon
<1>4. FindsI(w, LOAD, rd, rs1, t)
  BY <1>2, <1>3, <1>o
<1> QED BY <1>1, <1>4 DEF FindsI, FindsLoad, SameLow12, w

\* U format, for a 20-bit immediate.
LEMMA UtypeRead ==
  ASSUME NEW op \in Uformat, NEW imm \in Int, fits_imm20(imm), NEW rd \in 0 .. 31
  PROVE  FindsU(build_utype(imm, rd, op), op, rd, imm)
<1> DEFINE w == build_utype(imm, rd, op)
           f7 == Slice(imm, 8192, 128)
           s2 == Slice(imm, 256, 32)
           s1 == Slice(imm, 8, 32)
           f3 == imm % 8
<1>1. /\ f7 \in 0 .. 127 /\ s2 \in 0 .. 31 /\ s1 \in 0 .. 31 /\ f3 \in 0 .. 7
      /\ Imm20(f7, s2, s1, f3) = imm
  BY UtypeRoundTrip
<1>2. w = [funct7 |-> f7, rs2 |-> s2, rs1 |-> s1, funct3 |-> f3, rd |-> rd, opcode |-> op]
  BY DEF build_utype, build_rtype
<1> HIDE DEF f7, s2, s1, f3
<1>3. /\ w \in EncodedInstruction /\ w.funct7 = f7 /\ w.rs2 = s2 /\ w.rs1 = s1
      /\ w.funct3 = f3 /\ w.opcode = op /\ w.rd = rd
  BY SMT, <1>1, <1>2 DEF EncodedInstruction
<1> HIDE DEF w
<1>4. Immediate(w) = 4096 * imm
  BY SMT, <1>1, <1>3 DEF Immediate, utype_get_immediate
<1>5. Decode(w).opcode = op /\ Decode(w).rd = rd /\ Decode(w).imm = 4096 * imm
  BY SMT, <1>3, <1>4 DEF Decode, HasRd
<1> QED BY <1>3, <1>5 DEF FindsU, w

\* B format, for an offset that passes the check.
LEMMA BtypeRead ==
  ASSUME NEW imm \in Int, fits_branch_offset(imm), NEW rs1 \in 0 .. 31, NEW rs2 \in 0 .. 31,
         NEW f3 \in 0 .. 7
  PROVE  FindsB(build_btype(imm, rs1, rs2, f3), rs1, rs2, imm)
<1> DEFINE w == build_btype(imm, rs1, rs2, f3)
           f7 == 64 * Slice(imm, 4096, 2) + Slice(imm, 32, 64)
           d  == 2 * Slice(imm, 2, 16) + Slice(imm, 2048, 2)
<1>1. f7 \in Int /\ d \in Int
  BY SMT DEF Slice
<1>2. w = [funct7 |-> f7, rs2 |-> rs2, rs1 |-> rs1, funct3 |-> f3, rd |-> d, opcode |-> BRANCH]
  BY DEF build_btype, build_rtype
<1>d. f7 = 64 * Slice(imm, 4096, 2) + Slice(imm, 32, 64)
      /\ d = 2 * Slice(imm, 2, 16) + Slice(imm, 2048, 2)
  OBVIOUS
<1> HIDE DEF f7, d
<1>3. f7 \in 0 .. 127 /\ d \in 0 .. 31 /\ Imm13(f7, d) = imm
  BY SMT, <1>1, <1>d, BtypeRoundTrip
<1>4. /\ w \in EncodedInstruction /\ w.funct7 = f7 /\ w.rd = d /\ w.opcode = BRANCH
      /\ w.rs1 = rs1 /\ w.rs2 = rs2
  BY SMT, <1>2, <1>3 DEF EncodedInstruction
<1> HIDE DEF w
<1>5. Immediate(w) = imm
  BY SMT, <1>3, <1>4 DEF Immediate, btype_get_imm
<1>6. /\ Decode(w).opcode = BRANCH /\ Decode(w).rs1 = rs1 /\ Decode(w).rs2 = rs2
      /\ Decode(w).imm = imm
  BY SMT, <1>4, <1>5 DEF Decode, HasRs1, HasRs2
<1> QED BY <1>4, <1>6 DEF FindsB, w

\* J format, for an offset that passes the check.
LEMMA JtypeRead ==
  ASSUME NEW imm \in Int, fits_imm21(imm), NEW rd \in 0 .. 31
  PROVE  FindsJ(build_jtype(imm, rd, JAL), rd, imm)
<1> DEFINE w == build_jtype(imm, rd, JAL)
           f7 == 64 * Slice(imm, 1048576, 2) + Slice(imm, 32, 64)
           s2 == 2 * Slice(imm, 2, 16) + Slice(imm, 2048, 2)
           s1 == Slice(imm, 32768, 32)
           f3 == Slice(imm, 4096, 8)
<1>1. f7 \in Int /\ s2 \in Int
  BY SMT DEF Slice
<1>2. w = [funct7 |-> f7, rs2 |-> s2, rs1 |-> s1, funct3 |-> f3, rd |-> rd, opcode |-> JAL]
  BY DEF build_jtype, build_rtype
<1> HIDE DEF f7, s2, s1, f3
<1>3. /\ f7 \in 0 .. 127 /\ s2 \in 0 .. 31 /\ s1 \in 0 .. 31 /\ f3 \in 0 .. 7
      /\ Imm21(f7, s2, s1, f3) = imm
  BY SMT, <1>1, JtypeRoundTrip DEF f7, s2, s1, f3
<1>4. /\ w \in EncodedInstruction /\ w.funct7 = f7 /\ w.rs2 = s2 /\ w.rs1 = s1
      /\ w.funct3 = f3 /\ w.opcode = JAL /\ w.rd = rd
  BY SMT, <1>2, <1>3 DEF EncodedInstruction
<1> HIDE DEF w
<1>5. Immediate(w) = imm
  BY SMT, <1>3, <1>4 DEF Immediate, jtype_get_immediate
<1>6. Decode(w).opcode = JAL /\ Decode(w).rd = rd /\ Decode(w).imm = imm
  BY SMT, <1>4, <1>5 DEF Decode, HasRd
<1> QED BY <1>4, <1>6 DEF FindsJ, w
------------------------------------------------------------------------------
(* Operands *)

\* A remainder is 0 exactly for the multiples.
LEMMA Multiples ==
  ASSUME NEW m \in Int, m > 0, NEW n \in Int
  PROVE  n % m = 0 <=> \E k \in Int : n = m * k
<1> DEFINE q == n \div m
           r == n % m
<1>1. q \in Int /\ r \in Int /\ 0 <= r /\ r < m /\ n = m * q + r
  BY SMT
<1> HIDE DEF q, r
<1>2. ASSUME NEW k \in Int, n = m * k PROVE r = 0
  <2>1. r = m * (k - q)
    BY SMT, <1>1, <1>2
  <2>2. CASE k - q >= 1
    <3>1. m * (k - q) >= m
      BY SMT, <1>1, <2>2
    <3> QED BY SMT, <1>1, <2>1, <3>1
  <2>3. CASE k - q <= -1
    <3>1. m * (k - q) <= -m
      BY SMT, <1>1, <2>3
    <3> QED BY SMT, <1>1, <2>1, <3>1
  <2>4. CASE k - q = 0
    BY SMT, <2>1, <2>4
  <2> QED BY SMT, <1>1, <2>2, <2>3, <2>4
<1>3. r = 0 => \E k \in Int : n = m * k
  BY SMT, <1>1
<1> QED BY <1>2, <1>3 DEF r

\* A register number is one, or -1.
LEMMA RegisterNumber ==
  ASSUME NEW t
  PROVE  reg_index(t) \in -1 .. 31
<1>1. ASSUME NEW a \in DOMAIN reg_aliases PROVE reg_aliases[a] \in 0 .. 31
  BY <1>1 DEF reg_aliases
<1>2. CASE t \in DOMAIN XNumber
  BY <1>2 DEF reg_index
<1>3. CASE t \notin DOMAIN XNumber /\ to_lower(t) \in DOMAIN reg_aliases
  <2>1. reg_index(t) = reg_aliases[to_lower(t)]
    BY <1>3 DEF reg_index
  <2> QED BY <1>1, <1>3, <2>1
<1>4. CASE t \notin DOMAIN XNumber /\ to_lower(t) \notin DOMAIN reg_aliases
  BY <1>4 DEF reg_index
<1> QED BY <1>2, <1>3, <1>4

\* The conversion to int32_t changes a number by a multiple of 2^32.
LEMMA Int32Congruent ==
  ASSUME NEW v \in Int
  PROVE  Int32(v) \in Int /\ (Int32(v) - v) % Int32Mod = 0
<1> DEFINE h == Int32Mod \div 2
<1>1. Int32Mod \in Int /\ Int32Mod > 0 /\ h \in Int
  BY Int32Assumption
<1> HIDE DEF h
<1> DEFINE q == (v + h) \div Int32Mod
           r == (v + h) % Int32Mod
<1>2. q \in Int /\ r \in Int /\ v + h = Int32Mod * q + r
  BY SMT, <1>1
<1>3. Int32(v) = r - h
  BY DEF Int32, h
<1> HIDE DEF q, r
<1>4. -q \in Int /\ Int32(v) \in Int /\ Int32(v) - v = Int32Mod * (-q)
  BY SMT, <1>1, <1>2, <1>3
<1> DEFINE n == Int32(v) - v
<1>5. n \in Int /\ \E k \in Int : n = Int32Mod * k
  BY <1>4
<1> HIDE DEF n
<1>6. n % Int32Mod = 0
  BY <1>1, <1>5, Multiples
<1> QED BY <1>4, <1>6 DEF n

\* An immediate is the number that is shown, up to a multiple of 2^32.
LEMMA ImmediateShown ==
  ASSUME NEW t
  PROVE  parse_immediate(t) \in Int /\ Shown(t) \in Int
         /\ SameNumber(parse_immediate(t), t, Int32Mod)
<1>1. CASE t \in DOMAIN Numbers
  <2>1. Numbers[t].value \in Int
    BY <1>1, NumbersAssumption
  <2>2. parse_immediate(t) = Int32(Numbers[t].value) /\ Shown(t) = Numbers[t].value
    BY <1>1 DEF parse_immediate, Shown
  <2> QED BY <2>1, <2>2, Int32Congruent DEF SameNumber
<1>2. CASE t \notin DOMAIN Numbers
  <2>1. parse_immediate(t) = 0 /\ Shown(t) = 0
    BY <1>2 DEF parse_immediate, Shown
  <2>2. 0 % Int32Mod = 0
    BY SMT, Int32Assumption
  <2> QED BY <2>1, <2>2 DEF SameNumber
<1> QED BY <1>1, <1>2

\* And so up to a multiple of 4096.
LEMMA ImmediateLowBits ==
  ASSUME NEW t
  PROVE  \E l \in Int : parse_immediate(t) - Shown(t) = 4096 * l
<1> DEFINE d == parse_immediate(t) - Shown(t)
<1>1. d \in Int /\ d % Int32Mod = 0
  BY ImmediateShown DEF SameNumber
<1>2. Int32Mod \in Int /\ Int32Mod > 0 /\ Int32Mod % 4096 = 0
  BY Int32Assumption
<1> HIDE DEF d
<1>3. PICK k \in Int : d = Int32Mod * k
  BY <1>1, <1>2, Multiples
<1>4. PICK j \in Int : Int32Mod = 4096 * j
  BY SMT, <1>2
<1>5. j * k \in Int /\ d = 4096 * (j * k)
  BY SMT, <1>3, <1>4
<1> QED BY <1>5 DEF d

\* Of 12 bits of an offset this leaves the 12 bits of the number that is shown.
LEMMA LowBitsShown ==
  ASSUME NEW t, NEW n, SameLow12(n, parse_immediate(t))
  PROVE  SameNumber(n, t, 4096)
<1> DEFINE p == parse_immediate(t)
           s == Shown(t)
<1>1. p \in Int /\ s \in Int
  BY ImmediateShown
<1>2. PICK l \in Int : p - s = 4096 * l
  BY ImmediateLowBits
<1>3. n \in Int /\ (n - p) % 4096 = 0
  BY DEF SameLow12
<1> HIDE DEF p, s
<1>4. PICK i \in Int : n - p = 4096 * i
  BY SMT, <1>1, <1>3
<1>5. n - s = 4096 * (i + l)
  BY SMT, <1>1, <1>2, <1>3, <1>4
<1>6. (n - s) % 4096 = 0
  BY SMT, <1>5
<1> QED BY <1>6 DEF SameNumber, s

\* The two parts of a memory operand.
LEMMA MemoryOperand ==
  ASSUME NEW t
  PROVE  /\ parse_memory_operand(t).reg \in -1 .. 31 /\ parse_memory_operand(t).offset \in Int
         /\ parse_memory_operand(t).reg >= 0 =>
              /\ t \in DOMAIN Memories
              /\ parse_memory_operand(t).reg = reg_index(Memories[t].base)
              /\ parse_memory_operand(t).offset = parse_immediate(Memories[t].offset)
<1> DEFINE o == parse_immediate(Memories[t].offset)
           r == reg_index(Memories[t].base)
<1>1. o \in Int /\ r \in -1 .. 31
  BY ImmediateShown, RegisterNumber
<1> HIDE DEF o, r
<1>2. CASE t \in DOMAIN Memories /\ Memories[t].closed
  <2>1. parse_memory_operand(t) = [offset |-> o, reg |-> r]
    BY <1>2 DEF parse_memory_operand, o, r
  <2> QED BY <1>1, <1>2, <2>1 DEF o, r
<1>3. CASE ~(t \in DOMAIN Memories /\ Memories[t].closed)
  <2>1. parse_memory_operand(t) = [offset |-> 0, reg |-> -1]
    BY <1>3, Zenon DEF parse_memory_operand
  <2> QED BY <2>1
<1> QED BY <1>2, <1>3
------------------------------------------------------------------------------
(* What is accepted, and what its word says: one lemma per group of mnemonics *)

\* The funct values are in their ranges, and cpu.c knows them.
LEMMA RtypeCodesKnown ==
  ASSUME NEW op \in DOMAIN RtypeCodes
  PROVE  /\ RtypeCodes[op][1] \in 0 .. 127 /\ RtypeCodes[op][2] \in 0 .. 7
         /\ <<RtypeCodes[op][2], RtypeCodes[op][1], AluOperation[op]>> \in RtypeOperations
BY DEF RtypeCodes, AluOperation, RtypeOperations

\* A register number that is not -1.
LEMMA Register ==
  ASSUME NEW t, reg_index(t) >= 0
  PROVE  reg_index(t) \in 0 .. 31
<1> DEFINE r == reg_index(t)
<1>1. r \in -1 .. 31 /\ r >= 0
  BY RegisterNumber
<1> HIDE DEF r
<1>2. r \in 0 .. 31
  BY <1>1
<1> QED BY <1>2 DEF r

\* Three registers.
LEMMA RtypeAccepted ==
  ASSUME NEW instr, instr.opcode \in DOMAIN RtypeCodes, encode_rtype(instr) # Refused
  PROVE  /\ Len(instr.operands) >= 3 /\ encode_rtype(instr) \in EncodedInstruction
         /\ ArithmeticAsWritten(encode_rtype(instr), instr.opcode, instr.operands)
<1> DEFINE r1 == reg_index(instr.operands[1])
           r2 == reg_index(instr.operands[2])
           r3 == reg_index(instr.operands[3])
           f7 == RtypeCodes[instr.opcode][1]
           f3 == RtypeCodes[instr.opcode][2]
           w  == encode_rtype(instr)
<1>1. /\ Len(instr.operands) >= 3 /\ r1 >= 0 /\ r2 >= 0 /\ r3 >= 0
      /\ w = build_rtype(f7, r3, r2, f3, r1, OP)
  BY DEF encode_rtype
<1>2. r1 \in 0 .. 31 /\ r2 \in 0 .. 31 /\ r3 \in 0 .. 31
  BY <1>1, Register
<1>3. /\ f7 \in 0 .. 127 /\ f3 \in 0 .. 7
      /\ <<f3, f7, AluOperation[instr.opcode]>> \in RtypeOperations
  BY RtypeCodesKnown
<1> HIDE DEF r1, r2, r3, f7, f3, w
<1>4. FindsR(build_rtype(f7, r3, r2, f3, r1, OP), f7, f3, r1, r2, r3)
  BY <1>2, <1>3, RtypeRead, Zenon
<1>5. /\ w \in EncodedInstruction /\ Decode(w).opcode = OP
      /\ Decode(w).funct7 = f7 /\ Decode(w).funct3 = f3
      /\ Decode(w).rd = r1 /\ Decode(w).rs1 = r2 /\ Decode(w).rs2 = r3
  BY <1>1, <1>4 DEF FindsR
<1> HIDE DEF OP
<1>6. ArithmeticAsWritten(w, instr.opcode, instr.operands)
  BY <1>3, <1>5, Zenon DEF ArithmeticAsWritten, r1, r2, r3
<1> QED BY <1>1, <1>5, <1>6 DEF w

\* Two registers and a number of 12 bits.
LEMMA AddiAccepted ==
  ASSUME NEW instr, instr.opcode = "addi", encode_opimm(instr) # Refused
  PROVE  /\ Len(instr.operands) >= 3 /\ encode_opimm(instr) \in EncodedInstruction
         /\ AddiAsWritten(encode_opimm(instr), instr.operands)
<1> DEFINE r1  == reg_index(instr.operands[1])
           r2  == reg_index(instr.operands[2])
           imm == parse_immediate(instr.operands[3])
           w   == encode_opimm(instr)
<1>1. /\ Len(instr.operands) >= 3 /\ r1 >= 0 /\ r2 >= 0 /\ fits_imm12(imm)
      /\ w = build_itype(imm, r2, 0, r1, OP_IMM)
  BY Zenon DEF encode_opimm
<1>2. r1 \in 0 .. 31 /\ r2 \in 0 .. 31
  BY <1>1, Register
<1>3. imm \in Int /\ 0 \in 0 .. 7 /\ SameNumber(imm, instr.operands[3], Int32Mod)
  BY ImmediateShown
<1>4. PICK op \in Iformat : op = OP_IMM
  OBVIOUS
<1> HIDE DEF r1, r2, imm, w
<1>5. FindsI(build_itype(imm, r2, 0, r1, op), op, r1, r2, imm)
  BY <1>1, <1>2, <1>3, ItypeRead, Zenon
<1>6. /\ w \in EncodedInstruction /\ Decode(w).opcode = OP_IMM
      /\ Decode(w).rd = r1 /\ Decode(w).rs1 = r2 /\ Decode(w).imm = imm
  BY <1>1, <1>4, <1>5 DEF FindsI
<1> HIDE DEF OP_IMM
<1>7. AddiAsWritten(w, instr.operands)
  BY <1>3, <1>6, Zenon DEF AddiAsWritten, r1, r2
<1> QED BY <1>1, <1>6, <1>7 DEF w

\* A register and a number of 12 bits.
LEMMA LiAccepted ==
  ASSUME NEW instr, instr.opcode = "li", encode_opimm(instr) # Refused
  PROVE  /\ Len(instr.operands) >= 2 /\ encode_opimm(instr) \in EncodedInstruction
         /\ LiAsWritten(encode_opimm(instr), instr.operands)
<1> DEFINE r1  == reg_index(instr.operands[1])
           imm == parse_immediate(instr.operands[2])
           w   == encode_opimm(instr)
<1>0. instr.opcode # "addi"
  OBVIOUS
<1>1. /\ Len(instr.operands) >= 2 /\ r1 >= 0 /\ fits_imm12(imm)
      /\ w = build_itype(imm, 0, 0, r1, OP_IMM)
  BY <1>0, Zenon DEF encode_opimm
<1>2. r1 \in 0 .. 31
  BY <1>1, Register
<1>3. /\ imm \in Int /\ 0 \in 0 .. 7 /\ 0 \in 0 .. 31
      /\ SameNumber(imm, instr.operands[2], Int32Mod)
  BY ImmediateShown
<1>4. PICK op \in Iformat : op = OP_IMM
  OBVIOUS
<1> HIDE DEF r1, imm, w
<1>5. FindsI(build_itype(imm, 0, 0, r1, op), op, r1, 0, imm)
  BY <1>1, <1>2, <1>3, ItypeRead, Zenon
<1>6. /\ w \in EncodedInstruction /\ Decode(w).opcode = OP_IMM
      /\ Decode(w).rd = r1 /\ Decode(w).rs1 = 0 /\ Decode(w).imm = imm
  BY <1>1, <1>4, <1>5 DEF FindsI
<1> HIDE DEF OP_IMM
<1>7. LiAsWritten(w, instr.operands)
  BY <1>3, <1>6, Zenon DEF LiAsWritten, r1
<1> QED BY <1>1, <1>6, <1>7 DEF w

\* A register and a number of 20 bits.
LEMMA UtypeAccepted ==
  ASSUME NEW instr, instr.opcode \in DOMAIN UtypeCodes, encode_utype(instr) # Refused
  PROVE  /\ Len(instr.operands) >= 2 /\ encode_utype(instr) \in EncodedInstruction
         /\ UpperAsWritten(encode_utype(instr), instr.opcode, instr.operands)
<1> DEFINE r1  == reg_index(instr.operands[1])
           imm == parse_immediate(instr.operands[2])
           op  == UtypeCodes[instr.opcode]
           w   == encode_utype(instr)
<1>1. /\ Len(instr.operands) >= 2 /\ r1 >= 0 /\ fits_imm20(imm)
      /\ w = build_utype(imm, r1, op)
  BY Zenon DEF encode_utype
<1>2. r1 \in 0 .. 31
  BY <1>1, Register
<1>3. imm \in Int /\ SameNumber(imm, instr.operands[2], Int32Mod)
  BY ImmediateShown
<1>4. op \in Uformat
  BY DEF UtypeCodes
<1> HIDE DEF r1, imm, op, w
<1>5. FindsU(build_utype(imm, r1, op), op, r1, imm)
  BY <1>1, <1>2, <1>3, <1>4, UtypeRead, Zenon
<1>6. /\ w \in EncodedInstruction /\ Decode(w).opcode = op
      /\ Decode(w).rd = r1 /\ Decode(w).imm = 4096 * imm
  BY <1>1, <1>5 DEF FindsU
<1>7. (4096 * imm) \div 4096 = imm
  BY SMT, <1>3
<1>8. SameNumber(Decode(w).imm \div 4096, instr.operands[2], Int32Mod)
  BY <1>3, <1>6, <1>7
<1>9. UpperAsWritten(w, instr.opcode, instr.operands)
  BY <1>6, <1>8 DEF UpperAsWritten, r1, op
<1> QED BY <1>1, <1>6, <1>9 DEF w

\* A register and a memory operand with any offset.
LEMMA AccessAccepted ==
  ASSUME NEW instr, instr.opcode \in {"lw", "sw"}, Len(instr.operands) \in Nat,
         encode_access(instr) # Refused
  PROVE  /\ Len(instr.operands) >= 2 /\ encode_access(instr) \in EncodedInstruction
         /\ AccessAsWritten(encode_access(instr), instr.opcode, instr.operands)
<1> DEFINE r1   == reg_index(instr.operands[1])
           m    == parse_memory_operand(instr.operands[2])
           base == m.reg
           off  == m.offset
           w    == encode_access(instr)
<1>1. /\ ~(Len(instr.operands) < 2 \/ r1 < 0 \/ base < 0)
      /\ w = IF instr.opcode = "lw" THEN build_itype(off, base, 2, r1, LOAD)
             ELSE build_stype(off, r1, base, 2, STORE)
  BY Zenon DEF encode_access
<1>2. /\ base \in -1 .. 31 /\ off \in Int /\ r1 \in -1 .. 31
      /\ base >= 0 => /\ base = reg_index(Memories[instr.operands[2]].base)
                      /\ off = parse_immediate(Memories[instr.operands[2]].offset)
  BY MemoryOperand, RegisterNumber
<1>3. Len(instr.operands) >= 2
  BY <1>1
<1> DEFINE text == Memories[instr.operands[2]].offset
           rs1  == reg_index(Memories[instr.operands[2]].base)
<1> HIDE DEF r1, m, base, off, w, text, rs1
<1>4. base \in 0 .. 31 /\ r1 \in 0 .. 31 /\ 2 \in 0 .. 7
  BY <1>1, <1>2
<1>5. base = rs1 /\ off = parse_immediate(text)
  BY <1>2, <1>4 DEF rs1, text
<1>6. CASE instr.opcode = "lw"
  <2>1. FindsLoad(build_itype(off, base, 2, r1, LOAD), r1, base, off)
    BY <1>2, <1>4, LoadRead, Zenon
  <2>2. /\ w \in EncodedInstruction /\ Decode(w).opcode = LOAD
        /\ Decode(w).rd = r1 /\ Decode(w).rs1 = base
        /\ SameLow12(Decode(w).imm, off)
    BY <1>1, <1>6, <2>1 DEF FindsLoad
  <2>3. SameLow12(Decode(w).imm, parse_immediate(text))
    BY <1>5, <2>2
  <2>5. SameNumber(Decode(w).imm, text, 4096)
    BY <2>3, LowBitsShown
  <2> HIDE DEF LOAD, STORE
  <2>6. AccessAsWritten(w, instr.opcode, instr.operands)
    BY <1>5, <1>6, <2>2, <2>5 DEF AccessAsWritten, r1, rs1, text
  <2> QED BY <1>3, <2>2, <2>6 DEF w
<1>7. CASE instr.opcode = "sw"
  <2>0. instr.opcode # "lw"
    BY <1>7
  <2>1. FindsStore(build_stype(off, r1, base, 2, STORE), base, r1, off)
    BY <1>2, <1>4, StypeRead, Zenon
  <2>2. /\ w \in EncodedInstruction /\ Decode(w).opcode = STORE
        /\ Decode(w).rs2 = r1 /\ Decode(w).rs1 = base
        /\ SameLow12(Decode(w).imm, off)
    BY <1>1, <2>0, <2>1 DEF FindsStore
  <2>3. SameLow12(Decode(w).imm, parse_immediate(text))
    BY <1>5, <2>2
  <2>5. SameNumber(Decode(w).imm, text, 4096)
    BY <2>3, LowBitsShown
  <2> HIDE DEF LOAD, STORE
  <2>6. AccessAsWritten(w, instr.opcode, instr.operands)
    BY <1>5, <2>0, <2>2, <2>5 DEF AccessAsWritten, r1, rs1, text
  <2> QED BY <1>3, <2>2, <2>6 DEF w
<1> QED BY <1>6, <1>7

\* The three arrays of AssemblyProgram.
IsProgram(p) ==
  p.symbols \in Seq(Symbol) /\ p.instructions \in Seq(Parsed) /\ p.data \in Seq(Entry)

\* Whatever is found is an address.
LEMMA FoundAddresses ==
  ASSUME NEW p, IsProgram(p), NEW name
  PROVE  /\ find_symbol(p.symbols, name) \subseteq Nat
         /\ find_label(p.instructions, name) \subseteq Nat
         /\ find_label(p.data, name) \subseteq Nat
<1>1. ASSUME NEW t \in Seq(Symbol)
      PROVE  find_symbol(t, name) \subseteq Nat
  <2>1. \A i \in DOMAIN t : t[i] \in Symbol
    OBVIOUS
  <2>2. \A i \in DOMAIN t : t[i].address \in Nat
    BY <2>1 DEF Symbol
  <2> QED BY <2>2, Zenon DEF find_symbol
<1>2. ASSUME NEW t \in Seq(Parsed)
      PROVE  find_label(t, name) \subseteq Nat
  <2>1. \A i \in DOMAIN t : t[i] \in Parsed
    OBVIOUS
  <2>2. \A i \in DOMAIN t : t[i].address \in Nat
    BY <2>1 DEF Parsed
  <2> QED BY <2>2, Zenon DEF find_label
<1>3. ASSUME NEW t \in Seq(Entry)
      PROVE  find_label(t, name) \subseteq Nat
  <2>1. \A i \in DOMAIN t : t[i] \in Entry
    OBVIOUS
  <2>2. \A i \in DOMAIN t : t[i].address \in Nat
    BY <2>1 DEF Entry
  <2> QED BY <2>2, Zenon DEF find_label
<1> QED BY <1>1, <1>2, <1>3 DEF IsProgram

\* A register pair and an even offset of 13 bits, given or found.
LEMMA BranchAccepted ==
  ASSUME NEW p, IsProgram(p), NEW instr, instr.opcode \in DOMAIN BranchCodes,
         instr.address \in Nat, encode_branch(p, instr) # Refused
  PROVE  /\ Len(instr.operands) >= 3 /\ encode_branch(p, instr) \in EncodedInstruction
         /\ BranchAsWritten(encode_branch(p, instr), instr.operands)
         /\ Decode(encode_branch(p, instr)).imm
              \in parse_branch_imm_or_label(p, instr, instr.operands[3])
<1> DEFINE r1 == reg_index(instr.operands[1])
           r2 == reg_index(instr.operands[2])
           text == instr.operands[3]
           offsets == parse_branch_imm_or_label(p, instr, text)
           fitting == {off \in offsets : fits_branch_offset(off)}
           off == CHOOSE o \in fitting : TRUE
           f3  == BranchCodes[instr.opcode]
           w   == encode_branch(p, instr)
<1>1. /\ Len(instr.operands) >= 3 /\ r1 >= 0 /\ r2 >= 0 /\ fitting # {}
      /\ w = build_btype(off, r1, r2, f3)
  BY Zenon DEF encode_branch
<1>2. r1 \in 0 .. 31 /\ r2 \in 0 .. 31
  BY <1>1, Register
<1>3. f3 \in 0 .. 7
  BY DEF BranchCodes
<1>4. off \in offsets /\ fits_branch_offset(off)
  <2> HIDE DEF offsets
  <2> QED BY <1>1
<1>5. ASSUME text \in LetterTexts
      PROVE  off \in Int
  <2>1. find_symbol(p.symbols, <<text>>) \subseteq Nat
    BY FoundAddresses
  <2>2. off \in {t - instr.address : t \in find_symbol(p.symbols, <<text>>)}
    BY <1>4, <1>5, Zenon DEF parse_branch_imm_or_label
  <2> HIDE DEF off
  <2> QED BY <2>1, <2>2
<1>6. ASSUME text \notin LetterTexts
      PROVE  off \in Int /\ SameNumber(off, text, Int32Mod)
  <2>1. off \in {Int32(Numbers[t].value) :
                  t \in {text} \cap {n \in DOMAIN Numbers : Numbers[n].whole}}
    BY <1>4, <1>6, Zenon DEF parse_branch_imm_or_label
  <2> HIDE DEF off
  <2>2. text \in DOMAIN Numbers /\ off = Int32(Numbers[text].value)
    BY <2>1
  <2>3. off = parse_immediate(text)
    BY <2>2 DEF parse_immediate
  <2> HIDE DEF text
  <2> QED BY <2>3, ImmediateShown
<1>7. off \in Int /\ (text \notin LetterTexts => SameNumber(off, text, Int32Mod))
  BY <1>5, <1>6
<1> HIDE DEF r1, r2, text, offsets, fitting, off, f3, w
<1>8. FindsB(build_btype(off, r1, r2, f3), r1, r2, off)
  BY <1>2, <1>3, <1>4, <1>7, BtypeRead, Zenon
<1>9. /\ w \in EncodedInstruction /\ Decode(w).opcode = BRANCH
      /\ Decode(w).rs1 = r1 /\ Decode(w).rs2 = r2 /\ Decode(w).imm = off
  BY <1>1, <1>8 DEF FindsB
<1>10. BranchAsWritten(w, instr.operands)
  BY <1>7, <1>9 DEF BranchAsWritten, r1, r2, text
<1>11. Decode(w).imm \in offsets
  BY <1>4, <1>9
<1> QED BY <1>1, <1>9, <1>10, <1>11 DEF w, offsets, text

\* The operand of a jal that says where it goes.
JalText(ops) == IF Len(ops) = 1 THEN ops[1] ELSE ops[2]

\* The distance to what is found in one of the three arrays, or a number.
LEMMA JalOffsetFrom ==
  ASSUME NEW p, NEW instr, NEW text
  PROVE  \/ JalOffset(p, instr, text) = parse_immediate(text)
         \/ \E t \in find_symbol(p.symbols, <<text>>)
                   \cup (find_label(p.instructions, <<text>>) \cup find_label(p.data, <<text>>)) :
              JalOffset(p, instr, text) = t - instr.address
<1> DEFINE symbol  == find_symbol(p.symbols, <<text>>)
           label   == find_label(p.instructions, <<text>>)
           targets == IF symbol # {} THEN symbol
                      ELSE IF label # {} THEN label
                      ELSE find_label(p.data, <<text>>)
           t == CHOOSE t \in targets : TRUE
<1>1. JalOffset(p, instr, text) = IF targets # {} THEN t - instr.address ELSE parse_immediate(text)
  BY Zenon DEF JalOffset
<1>2. targets \subseteq symbol \cup (label \cup find_label(p.data, <<text>>))
  OBVIOUS
<1> HIDE DEF targets
<1>3. targets # {} => t \in targets
  OBVIOUS
<1> HIDE DEF t, symbol, label
<1> QED BY <1>1, <1>2, <1>3 DEF symbol, label

\* It is an integer.
LEMMA JalOffsetIsInt ==
  ASSUME NEW p, IsProgram(p), NEW instr, instr.address \in Nat, NEW text
  PROVE  JalOffset(p, instr, text) \in Int
<1>1. parse_immediate(text) \in Int
  BY ImmediateShown
<1>2. find_symbol(p.symbols, <<text>>)
        \cup (find_label(p.instructions, <<text>>) \cup find_label(p.data, <<text>>)) \subseteq Nat
  BY FoundAddresses
<1> QED BY <1>1, <1>2, JalOffsetFrom

\* A register, unless it is ra, and an even offset of 21 bits.
LEMMA JalAccepted ==
  ASSUME NEW p, IsProgram(p), NEW instr, instr.address \in Nat, encode_jal(p, instr) # Refused
  PROVE  /\ Len(instr.operands) >= 1 /\ encode_jal(p, instr) \in EncodedInstruction
         /\ JalAsWritten(encode_jal(p, instr), instr.operands)
         /\ Decode(encode_jal(p, instr)).imm = JalOffset(p, instr, JalText(instr.operands))
<1> DEFINE rd  == IF Len(instr.operands) = 1 THEN 1 ELSE reg_index(instr.operands[1])
           off == JalOffset(p, instr, JalText(instr.operands))
           w   == encode_jal(p, instr)
<1>1. Len(instr.operands) >= 1 /\ rd >= 0 /\ fits_imm21(off) /\ w = build_jtype(off, rd, JAL)
  BY Zenon DEF encode_jal, JalText
<1>2. rd \in 0 .. 31
  <2>1. CASE Len(instr.operands) = 1
    BY <2>1
  <2>2. CASE Len(instr.operands) # 1
    BY <1>1, <2>2, Register
  <2> QED BY <2>1, <2>2
<1>3. off \in Int
  BY JalOffsetIsInt
<1> HIDE DEF rd, off, w
<1>4. FindsJ(build_jtype(off, rd, JAL), rd, off)
  BY <1>1, <1>2, <1>3, JtypeRead, Zenon
<1>5. /\ w \in EncodedInstruction /\ Decode(w).opcode = JAL
      /\ Decode(w).rd = rd /\ Decode(w).imm = off
  BY <1>1, <1>4 DEF FindsJ
<1>6. JalAsWritten(w, instr.operands)
  BY <1>5, Zenon DEF JalAsWritten, rd
<1> QED BY <1>1, <1>5, <1>6 DEF w, off

\* A register and one of the three ways to write an address.
LEMMA JalrAccepted ==
  ASSUME NEW instr, Len(instr.operands) \in Nat, encode_jalr(instr) # Refused
  PROVE  /\ Len(instr.operands) >= 2 /\ encode_jalr(instr) \in EncodedInstruction
         /\ JalrAsWritten(encode_jalr(instr), instr.operands)
<1> DEFINE ops == instr.operands
           m   == parse_memory_operand(ops[2])
           r1  == reg_index(ops[1])
           rs1 == IF m.reg >= 0 THEN m.reg ELSE reg_index(ops[2])
           imm == IF m.reg >= 0 THEN m.offset
                  ELSE IF Len(ops) >= 3 THEN parse_immediate(ops[3]) ELSE 0
           w   == encode_jalr(instr)
<1>1. /\ Len(ops) >= 2 /\ r1 >= 0 /\ rs1 >= 0 /\ fits_imm12(imm)
      /\ w = build_itype(imm, rs1, 0, r1, JALR)
  BY Zenon DEF encode_jalr
<1>2. /\ m.reg \in -1 .. 31 /\ m.offset \in Int
      /\ m.reg >= 0 => /\ ops[2] \in DOMAIN Memories
                       /\ m.reg = reg_index(Memories[ops[2]].base)
                       /\ m.offset = parse_immediate(Memories[ops[2]].offset)
  BY MemoryOperand
<1>3. r1 \in 0 .. 31
  BY <1>1, Register
<1>4. m.reg >= 0 =>
        /\ rs1 \in 0 .. 31 /\ imm \in Int /\ ops[2] \in DOMAIN Memories
        /\ rs1 = reg_index(Memories[ops[2]].base)
        /\ SameNumber(imm, Memories[ops[2]].offset, Int32Mod)
  <2> SUFFICES ASSUME m.reg >= 0
               PROVE  /\ rs1 \in 0 .. 31 /\ imm \in Int /\ ops[2] \in DOMAIN Memories
                      /\ rs1 = reg_index(Memories[ops[2]].base)
                      /\ SameNumber(imm, Memories[ops[2]].offset, Int32Mod)
    OBVIOUS
  <2>1. rs1 = m.reg /\ imm = m.offset
    OBVIOUS
  <2> HIDE DEF m, rs1, imm, ops
  <2>2. /\ ops[2] \in DOMAIN Memories /\ rs1 \in 0 .. 31
        /\ rs1 = reg_index(Memories[ops[2]].base)
        /\ imm = parse_immediate(Memories[ops[2]].offset)
    BY <1>2, <2>1
  <2>3. SameNumber(imm, Memories[ops[2]].offset, Int32Mod) /\ imm \in Int
    BY <2>2, ImmediateShown
  <2> QED BY <2>2, <2>3
<1>5. ~(m.reg >= 0) =>
        /\ rs1 \in 0 .. 31 /\ imm \in Int /\ ops[2] \notin DOMAIN Memories
        /\ rs1 = reg_index(ops[2])
        /\ Len(ops) = 2 => imm = 0
        /\ Len(ops) # 2 => SameNumber(imm, ops[3], Int32Mod)
  <2> SUFFICES ASSUME ~(m.reg >= 0)
               PROVE  /\ rs1 \in 0 .. 31 /\ imm \in Int /\ ops[2] \notin DOMAIN Memories
                      /\ rs1 = reg_index(ops[2])
                      /\ Len(ops) = 2 => imm = 0
                      /\ Len(ops) # 2 => SameNumber(imm, ops[3], Int32Mod)
    OBVIOUS
  <2>1. rs1 = reg_index(ops[2]) /\ reg_index(ops[2]) >= 0
    BY <1>1
  <2>2. imm = IF Len(ops) >= 3 THEN parse_immediate(ops[3]) ELSE 0
    OBVIOUS
  <2>3. Len(ops) \in Nat /\ Len(ops) >= 2
    BY <1>1
  <2> HIDE DEF m, rs1, imm, ops
  <2>4. ops[2] \notin DOMAIN Memories
    BY <2>1, MemoriesAssumption
  <2>5. parse_immediate(ops[3]) \in Int /\ SameNumber(parse_immediate(ops[3]), ops[3], Int32Mod)
    BY ImmediateShown
  <2>6. rs1 \in 0 .. 31
    BY <2>1, Register
  <2>7. CASE Len(ops) = 2
    BY <2>1, <2>2, <2>4, <2>6, <2>7
  <2>8. CASE Len(ops) # 2
    <3>1. imm = parse_immediate(ops[3])
      BY <2>2, <2>3, <2>8
    <3> QED BY <2>1, <2>4, <2>5, <2>6, <2>8, <3>1
  <2> QED BY <2>7, <2>8
<1> HIDE DEF m, rs1, imm, ops
<1>6. rs1 \in 0 .. 31 /\ imm \in Int /\ 0 \in 0 .. 7
  BY <1>4, <1>5
<1>7. PICK op \in Iformat : op = JALR
  OBVIOUS
<1> HIDE DEF r1, m, rs1, imm, ops, w
<1>8. FindsI(build_itype(imm, rs1, 0, r1, op), op, r1, rs1, imm)
  BY <1>1, <1>3, <1>6, ItypeRead, Zenon
<1>9. /\ w \in EncodedInstruction /\ Decode(w).opcode = JALR
      /\ Decode(w).rd = r1 /\ Decode(w).rs1 = rs1 /\ Decode(w).imm = imm
  BY <1>1, <1>7, <1>8 DEF FindsI
<1>10. JalrAsWritten(w, ops)
  BY <1>4, <1>5, <1>9 DEF JalrAsWritten, r1
<1> QED BY <1>1, <1>9, <1>10 DEF w, ops
------------------------------------------------------------------------------
(* Every instruction that is accepted *)

\* The groups of mnemonics.
LEMMA Mnemonics ==
  /\ DOMAIN RtypeCodes = {"add", "sub", "mul", "div", "sll", "srl", "sra", "and", "or", "xor"}
  /\ DOMAIN UtypeCodes = {"lui", "auipc"}
  /\ DOMAIN BranchCodes = {"beq", "bne", "blt", "bge"}
BY DEF RtypeCodes, UtypeCodes, BranchCodes

\* The operands that the encoding of a mnemonic looks at are there.
Enough(op, ops) ==
  Len(ops) >= IF op = "jal" THEN 1
              ELSE IF op \in {"li", "lui", "auipc", "lw", "sw", "jalr"} THEN 2 ELSE 3

\* The offset of a branch or jal comes from its target.
JumpsAsFound(p, instr, w) ==
  /\ Decode(w).opcode = BRANCH =>
       /\ Len(instr.operands) >= 3
       /\ Decode(w).imm \in parse_branch_imm_or_label(p, instr, instr.operands[3])
  /\ Decode(w).opcode = JAL =>
       /\ Len(instr.operands) >= 1
       /\ Decode(w).imm = JalOffset(p, instr, JalText(instr.operands))

\* A word that is as its group is read is as its mnemonic is read.
LEMMA GroupAsWritten ==
  ASSUME NEW w, NEW ops, NEW op
  PROVE  /\ op \in DOMAIN RtypeCodes /\ ArithmeticAsWritten(w, op, ops) => AsWritten(w, op, ops)
         /\ op = "addi" /\ AddiAsWritten(w, ops) => AsWritten(w, op, ops)
         /\ op = "li" /\ LiAsWritten(w, ops) => AsWritten(w, op, ops)
         /\ op \in DOMAIN UtypeCodes /\ UpperAsWritten(w, op, ops) => AsWritten(w, op, ops)
         /\ op \in {"lw", "sw"} /\ AccessAsWritten(w, op, ops) => AsWritten(w, op, ops)
         /\ op \in DOMAIN BranchCodes /\ BranchAsWritten(w, ops) => AsWritten(w, op, ops)
         /\ op = "jal" /\ JalAsWritten(w, ops) => AsWritten(w, op, ops)
         /\ op = "jalr" /\ JalrAsWritten(w, ops) => AsWritten(w, op, ops)
BY Mnemonics DEF AsWritten

\* The mnemonics that are encoded.
LEMMA Dispatch ==
  ASSUME NEW p, NEW instr, encode_instruction(p, instr) # Refused
  PROVE  \/ /\ instr.opcode \in DOMAIN RtypeCodes
            /\ encode_instruction(p, instr) = encode_rtype(instr)
         \/ /\ instr.opcode \in {"addi", "li"}
            /\ encode_instruction(p, instr) = encode_opimm(instr)
         \/ /\ instr.opcode \in DOMAIN UtypeCodes
            /\ encode_instruction(p, instr) = encode_utype(instr)
         \/ /\ instr.opcode \in {"lw", "sw"}
            /\ encode_instruction(p, instr) = encode_access(instr)
         \/ /\ instr.opcode \in DOMAIN BranchCodes
            /\ encode_instruction(p, instr) = encode_branch(p, instr)
         \/ instr.opcode = "jal" /\ encode_instruction(p, instr) = encode_jal(p, instr)
         \/ instr.opcode = "jalr" /\ encode_instruction(p, instr) = encode_jalr(instr)
BY DEF encode_instruction

\* What is accepted is read as it is written, and jumps as far as it has to.
LEMMA EncodeAccepted ==
  ASSUME NEW p, IsProgram(p), NEW instr \in Parsed, encode_instruction(p, instr) # Refused
  PROVE  /\ encode_instruction(p, instr) \in EncodedInstruction
         /\ Enough(instr.opcode, instr.operands)
         /\ AsWritten(encode_instruction(p, instr), instr.opcode, instr.operands)
         /\ JumpsAsFound(p, instr, encode_instruction(p, instr))
<1> DEFINE w   == encode_instruction(p, instr)
           op  == instr.opcode
           ops == instr.operands
<1>1. Len(ops) \in Nat /\ instr.address \in Nat
  BY DEF Parsed
<1>2. CASE op \in DOMAIN RtypeCodes /\ w = encode_rtype(instr)
  <2>1. Len(ops) >= 3 /\ w \in EncodedInstruction /\ ArithmeticAsWritten(w, op, ops)
    BY <1>2, RtypeAccepted
  <2> HIDE DEF w, ops
  <2>2. Decode(w).opcode = OP
    BY <2>1, Zenon DEF ArithmeticAsWritten
  <2>3. AsWritten(w, op, ops)
    BY <1>2, <2>1, GroupAsWritten
  <2>4. Enough(op, ops) /\ JumpsAsFound(p, instr, w)
    BY <1>1, <1>2, <2>1, <2>2, Mnemonics DEF Enough, JumpsAsFound
  <2> QED BY <2>1, <2>3, <2>4 DEF w, ops
<1>3. CASE op \in {"addi", "li"} /\ w = encode_opimm(instr)
  <2>1. CASE op = "addi"
    <3>1. Len(ops) >= 3 /\ w \in EncodedInstruction /\ AddiAsWritten(w, ops)
      BY <1>3, <2>1, AddiAccepted
    <3> HIDE DEF w, ops
    <3>2. Decode(w).opcode = OP_IMM
      BY <3>1, Zenon DEF AddiAsWritten
    <3>3. AsWritten(w, op, ops)
      BY <2>1, <3>1, GroupAsWritten
    <3>4. Enough(op, ops) /\ JumpsAsFound(p, instr, w)
      BY <1>1, <2>1, <3>1, <3>2 DEF Enough, JumpsAsFound
    <3> QED BY <3>1, <3>3, <3>4 DEF w, ops
  <2>2. CASE op = "li"
    <3>1. Len(ops) >= 2 /\ w \in EncodedInstruction /\ LiAsWritten(w, ops)
      BY <1>3, <2>2, LiAccepted
    <3> HIDE DEF w, ops
    <3>2. Decode(w).opcode = OP_IMM
      BY <3>1, Zenon DEF LiAsWritten
    <3>3. AsWritten(w, op, ops)
      BY <2>2, <3>1, GroupAsWritten
    <3>4. Enough(op, ops) /\ JumpsAsFound(p, instr, w)
      BY <1>1, <2>2, <3>1, <3>2 DEF Enough, JumpsAsFound
    <3> QED BY <3>1, <3>3, <3>4 DEF w, ops
  <2> QED BY <1>3, <2>1, <2>2
<1>4. CASE op \in DOMAIN UtypeCodes /\ w = encode_utype(instr)
  <2>1. Len(ops) >= 2 /\ w \in EncodedInstruction /\ UpperAsWritten(w, op, ops)
    BY <1>4, UtypeAccepted
  <2> HIDE DEF w, ops
  <2>2. Decode(w).opcode = UtypeCodes[op] /\ UtypeCodes[op] \in Uformat
    BY <1>4, <2>1 DEF UpperAsWritten, UtypeCodes
  <2>3. AsWritten(w, op, ops)
    BY <1>4, <2>1, GroupAsWritten
  <2>4. Enough(op, ops) /\ JumpsAsFound(p, instr, w)
    BY <1>1, <1>4, <2>1, <2>2, Mnemonics DEF Enough, JumpsAsFound
  <2> QED BY <2>1, <2>3, <2>4 DEF w, ops
<1>5. CASE op \in {"lw", "sw"} /\ w = encode_access(instr)
  <2>1. Len(ops) >= 2 /\ w \in EncodedInstruction /\ AccessAsWritten(w, op, ops)
    BY <1>1, <1>5, AccessAccepted
  <2> HIDE DEF w, ops
  <2>2. Decode(w).opcode \in {LOAD, STORE}
    BY <2>1 DEF AccessAsWritten
  <2>3. AsWritten(w, op, ops)
    BY <1>5, <2>1, GroupAsWritten
  <2>4. Enough(op, ops) /\ JumpsAsFound(p, instr, w)
    BY <1>1, <1>5, <2>1, <2>2 DEF Enough, JumpsAsFound
  <2> QED BY <2>1, <2>3, <2>4 DEF w, ops
<1>6. CASE op \in DOMAIN BranchCodes /\ w = encode_branch(p, instr)
  <2>1. /\ Len(ops) >= 3 /\ w \in EncodedInstruction /\ BranchAsWritten(w, ops)
        /\ Decode(w).imm \in parse_branch_imm_or_label(p, instr, ops[3])
    BY <1>1, <1>6, BranchAccepted
  <2> HIDE DEF w, ops
  <2>2. Decode(w).opcode = BRANCH
    BY <2>1, Zenon DEF BranchAsWritten
  <2>3. AsWritten(w, op, ops)
    BY <1>6, <2>1, GroupAsWritten
  <2>4. Enough(op, ops) /\ JumpsAsFound(p, instr, w)
    BY <1>1, <1>6, <2>1, <2>2, Mnemonics DEF Enough, JumpsAsFound, ops
  <2> QED BY <2>1, <2>3, <2>4 DEF w, ops
<1>7. CASE op = "jal" /\ w = encode_jal(p, instr)
  <2>1. /\ Len(ops) >= 1 /\ w \in EncodedInstruction /\ JalAsWritten(w, ops)
        /\ Decode(w).imm = JalOffset(p, instr, JalText(ops))
    BY <1>1, <1>7, JalAccepted
  <2> HIDE DEF w, ops
  <2>2. Decode(w).opcode = JAL
    BY <2>1, Zenon DEF JalAsWritten
  <2>3. AsWritten(w, op, ops)
    BY <1>7, <2>1, GroupAsWritten
  <2>4. Enough(op, ops) /\ JumpsAsFound(p, instr, w)
    BY <1>1, <1>7, <2>1, <2>2 DEF Enough, JumpsAsFound, ops
  <2> QED BY <2>1, <2>3, <2>4 DEF w, ops
<1>8. CASE op = "jalr" /\ w = encode_jalr(instr)
  <2>1. Len(ops) >= 2 /\ w \in EncodedInstruction /\ JalrAsWritten(w, ops)
    BY <1>1, <1>8, JalrAccepted
  <2> HIDE DEF w, ops
  <2>2. Decode(w).opcode = JALR
    BY <2>1, Zenon DEF JalrAsWritten
  <2>3. AsWritten(w, op, ops)
    BY <1>8, <2>1, GroupAsWritten
  <2>4. Enough(op, ops) /\ JumpsAsFound(p, instr, w)
    BY <1>1, <1>8, <2>1, <2>2 DEF Enough, JumpsAsFound
  <2> QED BY <2>1, <2>3, <2>4 DEF w, ops
<1> HIDE DEF w, op, ops
<1> QED BY <1>2, <1>3, <1>4, <1>5, <1>6, <1>7, <1>8, Dispatch DEF w, op, ops
------------------------------------------------------------------------------
(* The program in memory *)

\* a has all that the encoding can see of ops.
SeenOf(a, ops) ==
  /\ Len(a) \in Nat /\ Len(ops) \in Nat
  /\ \A k \in 1 .. 3 : k <= Len(a) => a[k] = ops[k]
  /\ (Len(a) = 1 <=> Len(ops) = 1) /\ (Len(a) = 2 <=> Len(ops) = 2)

\* The operands that are kept are enough to know how the line is to be read.
LEMMA SeenAsWritten ==
  ASSUME NEW w, NEW op, NEW a, NEW ops, SeenOf(a, ops), Enough(op, a), AsWritten(w, op, a)
  PROVE  AsWritten(w, op, ops)
<1>1. /\ Len(a) >= 1 => a[1] = ops[1]
      /\ Len(a) >= 2 => a[1] = ops[1] /\ a[2] = ops[2]
      /\ Len(a) >= 3 => a[1] = ops[1] /\ a[2] = ops[2] /\ a[3] = ops[3]
  BY DEF SeenOf
<1>2. op \in DOMAIN RtypeCodes => ArithmeticAsWritten(w, op, ops)
  <2>1. op \in DOMAIN RtypeCodes => Len(a) >= 3 /\ ArithmeticAsWritten(w, op, a)
    BY Mnemonics DEF Enough, AsWritten
  <2> QED BY <1>1, <2>1, Zenon DEF ArithmeticAsWritten
<1>3. op = "addi" => AddiAsWritten(w, ops)
  <2>1. op = "addi" => Len(a) >= 3 /\ AddiAsWritten(w, a)
    BY DEF Enough, AsWritten
  <2> QED BY <1>1, <2>1, Zenon DEF AddiAsWritten
<1>4. op = "li" => LiAsWritten(w, ops)
  <2>1. op = "li" => Len(a) >= 2 /\ LiAsWritten(w, a)
    BY DEF Enough, AsWritten
  <2> QED BY <1>1, <2>1, Zenon DEF LiAsWritten
<1>5. op \in DOMAIN UtypeCodes => UpperAsWritten(w, op, ops)
  <2> SUFFICES ASSUME op \in DOMAIN UtypeCodes PROVE UpperAsWritten(w, op, ops)
    OBVIOUS
  <2>1. Len(a) >= 2 /\ UpperAsWritten(w, op, a)
    BY Mnemonics DEF Enough, AsWritten
  <2>2. a[1] = ops[1] /\ a[2] = ops[2]
    BY <1>1, <2>1
  <2> QED BY <2>1, <2>2 DEF UpperAsWritten
<1>6. op \in {"lw", "sw"} => AccessAsWritten(w, op, ops)
  <2> SUFFICES ASSUME op \in {"lw", "sw"} PROVE AccessAsWritten(w, op, ops)
    OBVIOUS
  <2>1. Len(a) >= 2 /\ AccessAsWritten(w, op, a)
    BY DEF Enough, AsWritten
  <2>2. a[1] = ops[1] /\ a[2] = ops[2]
    BY <1>1, <2>1
  <2> QED BY <2>1, <2>2 DEF AccessAsWritten
<1>7. op \in DOMAIN BranchCodes => BranchAsWritten(w, ops)
  <2>1. op \in DOMAIN BranchCodes => Len(a) >= 3 /\ BranchAsWritten(w, a)
    BY Mnemonics DEF Enough, AsWritten
  <2> QED BY <1>1, <2>1, Zenon DEF BranchAsWritten
<1>8. op = "jal" => JalAsWritten(w, ops)
  <2>1. op = "jal" => Len(a) >= 1 /\ JalAsWritten(w, a)
    BY DEF Enough, AsWritten
  <2>2. Len(a) = 1 <=> Len(ops) = 1
    BY DEF SeenOf
  <2> QED BY <1>1, <2>1, <2>2, Zenon DEF JalAsWritten
<1>9. op = "jalr" => JalrAsWritten(w, ops)
  <2> SUFFICES ASSUME op = "jalr" PROVE JalrAsWritten(w, ops)
    OBVIOUS
  <2>1. Len(a) >= 2 /\ JalrAsWritten(w, a)
    BY DEF Enough, AsWritten
  <2>2. Len(a) = 2 <=> Len(ops) = 2
    BY DEF SeenOf
  <2>3. Len(a) \in Nat
    BY DEF SeenOf
  <2>4. Len(a) # 2 => Len(a) >= 3
    <3> DEFINE n == Len(a)
    <3>1. n \in Nat /\ n >= 2
      BY <2>1, <2>3
    <3> HIDE DEF n
    <3>2. n # 2 => n >= 3
      BY <3>1
    <3> QED BY <3>2 DEF n
  <2> QED BY <1>1, <2>1, <2>2, <2>4, Zenon DEF JalrAsWritten
<1> QED BY <1>2, <1>3, <1>4, <1>5, <1>6, <1>7, <1>8, <1>9, Zenon DEF AsWritten

\* What the assembler's steps keep, as far as it is needed here.
ProgramKept ==
  /\ Typed /\ SectionsTracked /\ PendingIsLast
  /\ LabelsNameWhatFollows /\ Complete /\ LinesKept

\* The words are those of the instructions, one after the other, and none is
\* there before the program is complete.
Coded ==
  /\ encoded \in Seq(EncodedInstruction) /\ Len(encoded) <= Len(instructions)
  /\ Len(encoded) > 0 \/ refused => status = "assembled"
  /\ \A i \in DOMAIN encoded :
       /\ encode_instruction(AssembledProgram, instructions[i]) # Refused
       /\ encoded[i] = encode_instruction(AssembledProgram, instructions[i])

\* At first nothing has been read.
LEMMA TranslationInitKept == TranslationInit => ProgramKept /\ Coded
<1> SUFFICES ASSUME TranslationInit PROVE ProgramKept /\ Coded
  OBVIOUS
<1>1. Init /\ encoded = << >> /\ refused = FALSE
  BY DEF TranslationInit
<1>2. Typed /\ SectionsTracked
  BY <1>1, InitTyped, SectionsInit
<1>3. DOMAIN << >> = {} /\ Len(<< >>) = 0 /\ << >> \in Seq(EncodedInstruction)
  OBVIOUS
<1>4. PendingIsLast /\ LabelsNameWhatFollows /\ Complete /\ LinesKept
  BY <1>1, <1>3
     DEF Init, PendingIsLast, LabelsNameWhatFollows, Complete, LinesKept
<1>5. Coded
  BY <1>1, <1>3 DEF Init, Coded
<1> QED BY <1>2, <1>4, <1>5 DEF ProgramKept

\* To the assembler a step of the encoding is a stutter.
LEMMA AssemblerSteps == [TranslationNext]_translation => [Next]_vars
BY DEF TranslationNext, Assemble, EncodeNext, Refuse, translation

\* No step changes the program once it is complete.
LEMMA ProgramStep == ProgramKept /\ [TranslationNext]_translation => ProgramKept'
BY AssemblerSteps, NextTyped, SectionsStep, PendingStep, FollowsStep, CompleteStep, TakenStep
   DEF ProgramKept

\* The program of a complete assembly.
LEMMA ProgramTyped ==
  ASSUME Typed
  PROVE  IsProgram(AssembledProgram)
BY DEF Typed, IsProgram, AssembledProgram

\* The assembler only runs before the encoding.
LEMMA AssembleFirst ==
  ASSUME Next
  PROVE  status = "reading"
BY DEF Next, BlankLine, DataDirective, TextDirective, DataLine, LabelLine,
       LabelledInstruction, PlainInstruction, ReadTextLine, ReadLine, EndOfFile

\* Every step keeps the words those of the instructions.
LEMMA CodedStep == ProgramKept /\ Coded /\ [TranslationNext]_translation => Coded'
<1> SUFFICES ASSUME ProgramKept, Coded, [TranslationNext]_translation PROVE Coded'
  OBVIOUS
<1>1. Typed /\ Typed'
  BY AssemblerSteps, NextTyped DEF ProgramKept
<1>2. instructions \in Seq(Parsed) /\ encoded \in Seq(EncodedInstruction)
  BY <1>1 DEF Typed, Coded
<1>3. CASE Assemble
  <2>1. status = "reading" /\ encoded' = encoded /\ refused' = refused
    BY <1>3, AssembleFirst DEF Assemble
  <2>2. Len(encoded) = 0 /\ ~refused
    BY <1>2, <2>1 DEF Coded
  <2>3. encoded = << >> /\ DOMAIN encoded = {}
    BY <1>2, <2>2
  <2>4. instructions' \in Seq(Parsed)
    BY <1>1 DEF Typed
  <2>5. Len(instructions') \in Nat
    BY <2>4
  <2> QED BY <1>2, <2>1, <2>2, <2>3, <2>5 DEF Coded
<1>4. CASE EncodeNext
  <2>1. /\ status = "assembled" /\ Len(encoded) < Len(instructions)
        /\ Code # Refused /\ encoded' = Append(encoded, Code)
        /\ UNCHANGED vars /\ UNCHANGED refused
    BY <1>4 DEF EncodeNext, Encoding
  <2>2. instructions[Len(encoded) + 1] \in Parsed
    BY <1>2, <2>1
  <2>3. Code \in EncodedInstruction
    BY <1>1, <2>1, <2>2, ProgramTyped, EncodeAccepted DEF Code
  <2>4. /\ instructions' = instructions /\ status' = status
        /\ data' = data /\ symbols' = symbols
    BY <2>1 DEF vars
  <2>5. /\ encoded' \in Seq(EncodedInstruction) /\ Len(encoded') = Len(encoded) + 1
        /\ \A i \in DOMAIN encoded' : \/ i \in DOMAIN encoded /\ encoded'[i] = encoded[i]
                                      \/ i = Len(encoded) + 1 /\ encoded'[i] = Code
    <3>1. encoded' = Append(encoded, Code)
      BY <2>1
    <3> HIDE DEF Code
    <3> QED BY <1>2, <2>3, <3>1
  <2>6. \A i \in DOMAIN encoded' :
          /\ encode_instruction(AssembledProgram, instructions[i]) # Refused
          /\ encoded'[i] = encode_instruction(AssembledProgram, instructions[i])
    BY <2>1, <2>5 DEF Coded, Code
  <2>7. Len(encoded') <= Len(instructions')
    BY <1>2, <2>1, <2>4, <2>5
  <2>8. status' = "assembled"
    BY <2>1, <2>4
  <2> QED BY <2>4, <2>5, <2>6, <2>7, <2>8 DEF Coded, AssembledProgram
<1>5. CASE Refuse
  BY <1>5 DEF Refuse, Encoding, vars, Coded, AssembledProgram
<1>6. CASE UNCHANGED translation
  BY <1>6 DEF translation, vars, Coded, AssembledProgram
<1> QED BY <1>3, <1>4, <1>5, <1>6 DEF TranslationNext

\* What each instruction that is encoded keeps of its line.
LEMMA CodedLine ==
  ASSUME ProgramKept, Coded, NEW i \in DOMAIN encoded
  PROVE  /\ i \in DOMAIN instructions /\ instructions[i] \in Parsed
         /\ encode_instruction(AssembledProgram, instructions[i]) # Refused
         /\ encoded[i] = encode_instruction(AssembledProgram, instructions[i])
         /\ Written(i).operands \in Seq(Name)
         /\ IsTakenFrom(instructions[i], Written(i))
         /\ instructions[i].opcode = to_lower(Written(i).opcode)
         /\ SeenOf(instructions[i].operands, Operands(i))
<1>1. /\ instructions \in Seq(Parsed) /\ file \in Seq(Line)
      /\ encoded \in Seq(EncodedInstruction) /\ Len(encoded) <= Len(instructions)
  BY DEF ProgramKept, Typed, Coded
<1>2. i \in DOMAIN instructions /\ instructions[i] \in Parsed
  BY <1>1
<1>3. /\ encode_instruction(AssembledProgram, instructions[i]) # Refused
      /\ encoded[i] = encode_instruction(AssembledProgram, instructions[i])
  BY DEF Coded
<1>4. /\ instructions[i].line_number \in DOMAIN file
      /\ IsTakenFrom(instructions[i], Written(i))
  BY <1>2 DEF ProgramKept, LinesKept, Written
<1>5. Written(i) \in Line
  BY <1>1, <1>4 DEF Written
<1> DEFINE a   == instructions[i].operands
           l   == Written(i).operands
           ops == Operands(i)
<1>6. l \in Seq(Name) /\ a \in Seq(OperandTexts)
  BY <1>2, <1>5 DEF Line, Parsed
<1>7. ops = [k \in DOMAIN l |-> OperandText(l[k])]
  BY DEF Operands
<1>8. /\ Len(a) = IF Len(l) <= MAX_OPERANDS THEN Len(l) ELSE MAX_OPERANDS
      /\ \A k \in 1 .. Len(a) : a[k] = OperandText(l[k])
  BY <1>4 DEF IsTakenFrom
<1> HIDE DEF a, l, ops
<1>9. Len(ops) = Len(l) /\ \A k \in 1 .. Len(l) : ops[k] = OperandText(l[k])
  BY <1>6, <1>7
<1>10. MAX_OPERANDS \in Nat /\ MAX_OPERANDS >= 3 /\ Len(l) \in Nat /\ Len(a) \in Nat
  BY <1>6, Capacities, OperandsAssumption
<1>11. SeenOf(a, ops)
  BY <1>8, <1>9, <1>10 DEF SeenOf
<1>12. instructions[i].opcode = to_lower(Written(i).opcode)
  BY <1>4 DEF IsTakenFrom
<1> QED BY <1>2, <1>3, <1>4, <1>6, <1>11, <1>12 DEF a, l, ops

\* In every file the processor will find the operation, the registers and the
\* immediate that the line of an instruction shows: encoder.c (163-713) writes
\* them where cpu.c (343-719) reads them.
THEOREM WordsReadAsWritten == TranslationSpec => []ReadAsWritten
<1>1. ProgramKept /\ Coded => ReadAsWritten
  <2> SUFFICES ASSUME ProgramKept, Coded, NEW i \in DOMAIN encoded
               PROVE  /\ encoded[i] \in EncodedInstruction
                      /\ AsWritten(encoded[i], to_lower(Written(i).opcode), Operands(i))
    BY DEF ReadAsWritten
  <2> DEFINE p     == AssembledProgram
             instr == instructions[i]
             ops   == Operands(i)
             op    == to_lower(Written(i).opcode)
  <2>1. /\ instr \in Parsed /\ encode_instruction(p, instr) # Refused
        /\ encoded[i] = encode_instruction(p, instr)
        /\ instr.opcode = op /\ SeenOf(instr.operands, ops)
    BY CodedLine
  <2>2. IsProgram(p)
    BY ProgramTyped DEF ProgramKept
  <2> HIDE DEF p, instr, ops, op
  <2>3. /\ encoded[i] \in EncodedInstruction /\ Enough(op, instr.operands)
        /\ AsWritten(encoded[i], op, instr.operands)
    BY <2>1, <2>2, EncodeAccepted
  <2>4. AsWritten(encoded[i], op, ops)
    BY <2>1, <2>3, SeenAsWritten
  <2> QED BY <2>3, <2>4 DEF op, ops
<1> QED BY <1>1, TranslationInitKept, ProgramStep, CodedStep, PTL DEF TranslationSpec
------------------------------------------------------------------------------
(* Where jumps go *)

\* Only one address is found.
LEMMA FoundIsOne ==
  ASSUME NEW table \in Seq(Symbol), NEW name,
         NEW s \in find_symbol(table, name), NEW t \in find_symbol(table, name)
  PROVE  s = t
<1>1. PICK i \in DOMAIN table : /\ s = table[i].address /\ table[i].name = name
                               /\ \A j \in 1 .. i - 1 : table[j].name # name
  BY DEF find_symbol
<1>2. PICK k \in DOMAIN table : /\ t = table[k].address /\ table[k].name = name
                               /\ \A j \in 1 .. k - 1 : table[j].name # name
  BY DEF find_symbol
<1>3. i \in 1 .. Len(table) /\ k \in 1 .. Len(table) /\ Len(table) \in Nat
  OBVIOUS
<1>4. ~(i < k) /\ ~(k < i)
  BY <1>1, <1>2, <1>3
<1>5. i = k
  BY <1>3, <1>4
<1> QED BY <1>1, <1>2, <1>5

\* What the table has for a name is the address of an instruction with that label.
LEMMA SymbolIsInstruction ==
  ASSUME ProgramKept, status = "assembled", NEW name, NEW t \in find_symbol(symbols, name)
  PROVE  \E j \in DOMAIN instructions :
           instructions[j].label = name /\ instructions[j].address = t
<1>1. instructions \in Seq(Parsed) /\ symbols = build_symbol_table(instructions)
  BY DEF ProgramKept, Typed, Complete
<1>2. PICK k \in DOMAIN symbols : t = symbols[k].address /\ symbols[k].name = name
  BY DEF find_symbol
<1>3. PICK j \in DOMAIN instructions :
        /\ build_symbol_table(instructions)[k].name = instructions[j].label
        /\ build_symbol_table(instructions)[k].address = instructions[j].address
  BY <1>1, <1>2, SymbolsAreLabels
<1> QED BY <1>1, <1>2, <1>3

\* An operand has room for a name of one segment.
LEMMA OneSegment ==
  ASSUME NEW name \in Seq(STRING), Len(name) = 1
  PROVE  name = <<OperandText(name)>>
<1>1. name # << >> /\ name = <<name[1]>>
  OBVIOUS
<1> QED BY <1>1 DEF OperandText

\* A branch to a name goes where the symbols say, and a jal as far as JalOffset says.
LEMMA NamedJump ==
  ASSUME ProgramKept, Coded, NEW i \in NamedJumps
  PROVE  /\ status = "assembled" /\ i \in DOMAIN instructions
         /\ instructions[i].address \in Nat
         /\ OperandText(Target(i)) \in LetterTexts
         /\ Read(i).opcode = BRANCH =>
              /\ Goal(i) \in find_symbol(symbols, <<OperandText(Target(i))>>)
              /\ Target(i) \in Name
         /\ Read(i).opcode = JAL =>
              Goal(i) = instructions[i].address
                          + JalOffset(AssembledProgram, instructions[i], OperandText(Target(i)))
<1> DEFINE p     == AssembledProgram
           instr == instructions[i]
           a     == instr.operands
           l     == Written(i).operands
           text  == OperandText(Target(i))
<1>1. i \in DOMAIN encoded /\ text \in LetterTexts
  BY DEF NamedJumps
<1>2. status = "assembled"
  BY <1>1 DEF Coded
<1>3. /\ i \in DOMAIN instructions /\ instr \in Parsed
      /\ encode_instruction(p, instr) # Refused /\ encoded[i] = encode_instruction(p, instr)
      /\ l \in Seq(Name) /\ IsTakenFrom(instr, Written(i)) /\ SeenOf(a, Operands(i))
  BY <1>1, CodedLine
<1>4. IsProgram(p) /\ p.symbols = symbols
  BY ProgramTyped DEF ProgramKept, AssembledProgram
<1>5. JumpsAsFound(p, instr, encoded[i])
  <2> HIDE DEF p, instr
  <2> QED BY <1>3, <1>4, EncodeAccepted
<1>6. instr.address \in Nat /\ Len(a) \in Nat
  BY <1>3 DEF Parsed
<1>7. \A k \in 1 .. Len(a) : a[k] = OperandText(l[k])
  BY <1>3, Zenon DEF IsTakenFrom
<1>8. ASSUME Read(i).opcode = BRANCH
      PROVE  Goal(i) \in find_symbol(symbols, <<text>>) /\ Target(i) \in Name
  <2>1. Len(a) >= 3 /\ Read(i).imm \in parse_branch_imm_or_label(p, instr, a[3])
    BY <1>5, <1>8, Zenon DEF JumpsAsFound, Read
  <2>2. a[3] = text
    <3>1. Target(i) = l[3]
      BY <1>8 DEF Target
    <3> HIDE DEF a, l
    <3> QED BY <1>6, <1>7, <2>1, <3>1
  <2>3. Read(i).imm \in {t - instr.address : t \in find_symbol(symbols, <<text>>)}
    BY <1>1, <1>4, <2>1, <2>2, Zenon DEF parse_branch_imm_or_label
  <2>4. find_symbol(symbols, <<text>>) \subseteq Nat
    BY <1>4, FoundAddresses
  <2>5. Goal(i) = instr.address + Read(i).imm
    BY DEF Goal
  <2>8. Target(i) \in Name
    <3>1. Len(a) = IF Len(l) <= MAX_OPERANDS THEN Len(l) ELSE MAX_OPERANDS
      BY <1>3 DEF IsTakenFrom
    <3>2. Target(i) = l[3]
      BY <1>8 DEF Target
    <3> HIDE DEF a, l
    <3>3. Len(l) \in Nat /\ Len(l) >= 3
      BY <1>3, <1>6, <2>1, <3>1, OperandsAssumption, Capacities
    <3>4. 3 \in 1 .. Len(l)
      BY <3>3
    <3> QED BY <1>3, <3>2, <3>4
  <2> HIDE DEF instr, text, p, a
  <2>6. PICK t \in find_symbol(symbols, <<text>>) : Read(i).imm = t - instr.address
    BY <2>3
  <2>7. Goal(i) = t
    BY <1>6, <2>4, <2>5, <2>6
  <2> QED BY <2>7, <2>8
<1>9. ASSUME Read(i).opcode = JAL
      PROVE  Goal(i) = instr.address + JalOffset(p, instr, text)
  <2>1. Len(a) >= 1 /\ Read(i).imm = JalOffset(p, instr, JalText(a))
    BY <1>5, <1>9, Zenon DEF JumpsAsFound, Read
  <2>2. Len(a) = 1 <=> Len(l) = 1
    <3>1. Len(a) = 1 <=> Len(Operands(i)) = 1
      BY <1>3 DEF SeenOf
    <3>2. Len(Operands(i)) = Len(l)
      <4>1. Operands(i) = [k \in DOMAIN l |-> OperandText(l[k])]
        BY DEF Operands
      <4> HIDE DEF l
      <4> QED BY <1>3, <4>1
    <3> QED BY <3>1, <3>2
  <2>3. JalText(a) = text
    <3>1. Target(i) = IF Len(l) = 1 THEN l[1] ELSE l[2]
      BY <1>9 DEF Target
    <3> HIDE DEF a, l
    <3>2. Len(a) # 1 => Len(a) >= 2
      <4> DEFINE n == Len(a)
      <4>1. n \in Nat /\ n >= 1
        BY <1>6, <2>1
      <4> HIDE DEF n
      <4>2. n # 1 => n >= 2
        BY <4>1
      <4> QED BY <4>2 DEF n
    <3>3. CASE Len(a) = 1
      BY <1>6, <1>7, <2>2, <3>1, <3>3 DEF JalText
    <3>4. CASE Len(a) # 1
      BY <1>6, <1>7, <2>2, <3>1, <3>2, <3>4 DEF JalText
    <3> QED BY <3>3, <3>4
  <2> QED BY <2>1, <2>3 DEF Goal
<1> QED BY <1>1, <1>2, <1>3, <1>6, <1>8, <1>9

\* A branch to a name that an operand has room for goes, when it is accepted, to a
\* statement that the label stands before.
LEMMA BranchesGoToLabels == ProgramKept /\ Coded => BranchesReachTheirLabel
<1> SUFFICES ASSUME ProgramKept, Coded, NEW i \in NamedJumps, Read(i).opcode = BRANCH,
                    Len(Target(i)) = 1
             PROVE  \E k \in DOMAIN file :
                      /\ Defines(file, k, Target(i))
                      /\ \E j \in DOMAIN instructions :
                           /\ Goal(i) = instructions[j].address
                           /\ instructions[j].line_number >= k
                           /\ \A s \in k .. instructions[j].line_number - 1 :
                                IsStatement(file, s) => file[s].colon
  BY DEF BranchesReachTheirLabel
<1> DEFINE name == Target(i)
<1>0. Target(i) = <<OperandText(Target(i))>>
  BY NamedJump, OneSegment DEF Name
<1>1. status = "assembled" /\ Goal(i) \in find_symbol(symbols, name)
  BY <1>0, NamedJump
<1>2. PICK j \in DOMAIN instructions :
        instructions[j].label = name /\ instructions[j].address = Goal(i)
  BY <1>1, SymbolIsInstruction
<1> DEFINE here == instructions[j].line_number
<1>3. here \in DOMAIN file /\ file \in Seq(Line)
  BY DEF ProgramKept, LinesKept, Typed
<1>4. name # << >>
  <2>1. <<OperandText(Target(i))>> # << >>
    OBVIOUS
  <2> QED BY <1>0, <2>1
<1>5. PICK k \in 1 .. here :
        /\ Defines(file, k, name)
        /\ k < here => /\ IsLabelLine(file, k)
                       /\ \A s \in k + 1 .. here - 1 : IsStatement(file, s) => file[s].colon
  <2> HIDE DEF name
  <2>1. instructions[j].label # << >>
    BY <1>2, <1>4
  <2> QED BY <1>2, <2>1 DEF ProgramKept, LabelsNameWhatFollows
<1> HIDE DEF name, here
<1>6. here \in Nat /\ k \in Nat /\ k <= here /\ k \in DOMAIN file
  BY <1>3, <1>5
<1>7. ~IsStatement(file, k) \/ ~(k < here)
  BY <1>5 DEF IsLabelLine, IsStatement
<1>8. ASSUME NEW s \in k .. here - 1, IsStatement(file, s)
      PROVE  file[s].colon
  <2>1. k < here
    BY <1>6
  <2>2. s # k
    BY <1>7, <1>8, <2>1
  <2>3. s \in k + 1 .. here - 1
    BY <1>6, <2>2
  <2> QED BY <1>5, <1>8, <2>1, <2>3
<1>9. Goal(i) = instructions[j].address /\ here >= k
  BY <1>2, <1>6
<1> QED BY <1>5, <1>6, <1>8, <1>9 DEF name, here

\* Accepted branches to a name that an operand has room for go to a statement of the
\* text that a label with that very name stands before, whatever other labels the
\* file has: a label that was lost or replaced, or cut to what there is room for,
\* makes the branch fail (encoder.c:114-133).  Nothing is said of a longer name.
THEOREM BranchesReach == TranslationSpec => []BranchesReachTheirLabel
BY BranchesGoToLabels, TranslationInitKept, ProgramStep, CodedStep, PTL DEF TranslationSpec

\* Branches and jals with the same name as their target go to the same place.
THEOREM JumpsAgree == TranslationSpec => []BranchAndJalAgree
<1>1. ProgramKept /\ Coded => BranchAndJalAgree
  <2> SUFFICES ASSUME ProgramKept, Coded, NEW i \in NamedJumps, NEW j \in NamedJumps,
                      Read(i).opcode = BRANCH,
                      OperandText(Target(i)) = OperandText(Target(j))
               PROVE  Goal(i) = Goal(j)
    BY DEF BranchAndJalAgree
  <2> DEFINE text   == OperandText(Target(i))
             symbol == find_symbol(symbols, <<text>>)
  <2>1. Goal(i) \in symbol /\ text = OperandText(Target(j))
    BY NamedJump
  <2>2. symbols \in Seq(Symbol)
    BY DEF ProgramKept, Typed
  <2>3. Goal(j) \in symbol
    <3>1. CASE Read(j).opcode = BRANCH
      BY <2>1, <3>1, NamedJump
    <3>2. CASE Read(j).opcode = JAL
      <4> DEFINE offset == JalOffset(AssembledProgram, instructions[j], text)
                 t == CHOOSE t \in symbol : TRUE
      <4>1. Goal(j) = instructions[j].address + offset /\ instructions[j].address \in Nat
        BY <2>1, <3>2, NamedJump
      <4>2. symbol # {} /\ AssembledProgram.symbols = symbols
        BY <2>1 DEF AssembledProgram
      <4>3. offset = t - instructions[j].address
        BY <4>2, Zenon DEF JalOffset
      <4>4. t \in symbol
        BY <4>2
      <4>5. symbol \subseteq Nat
        BY <4>2, ProgramTyped, FoundAddresses DEF ProgramKept
      <4> HIDE DEF offset, t, symbol
      <4>6. Goal(j) = t
        BY <4>1, <4>3, <4>4, <4>5
      <4> QED BY <4>4, <4>6
    <3>3. Read(j).opcode \in {BRANCH, JAL}
      BY DEF NamedJumps
    <3> QED BY <3>1, <3>2, <3>3
  <2> QED BY <2>1, <2>2, <2>3, FoundIsOne
<1> QED BY <1>1, TranslationInitKept, ProgramStep, CodedStep, PTL DEF TranslationSpec

\* What is found among the instructions is the address of one.
LEMMA LabelIsInstruction ==
  ASSUME NEW name, NEW t \in find_label(instructions, name)
  PROVE  t \in {instructions[j].address : j \in DOMAIN instructions}
BY DEF find_label

\* A jump to a name goes to an instruction, itself if nothing else, unless the
\* name is that of a word of the data (encoder.c:610-640).
THEOREM JumpsGoToInstructions == TranslationSpec => []JumpTargetsAreInstructions
<1>1. ProgramKept /\ Coded => JumpTargetsAreInstructions
  <2> DEFINE Addresses == {instructions[j].address : j \in DOMAIN instructions}
  <2> SUFFICES ASSUME ProgramKept, Coded, NEW i \in NamedJumps,
                      find_label(data, <<OperandText(Target(i))>>) = {}
               PROVE  Goal(i) \in Addresses
    BY DEF JumpTargetsAreInstructions
  <2> DEFINE text   == OperandText(Target(i))
             symbol == find_symbol(symbols, <<text>>)
             label  == find_label(instructions, <<text>>)
  <2>1. /\ status = "assembled" /\ text \in LetterTexts
        /\ i \in DOMAIN instructions /\ instructions[i].address \in Nat
    BY NamedJump
  <2>2. symbol \subseteq Addresses
    BY <2>1, SymbolIsInstruction
  <2>3. label \subseteq Addresses
    BY LabelIsInstruction
  <2>4. CASE Read(i).opcode = BRANCH
    BY <2>2, <2>4, NamedJump
  <2>5. CASE Read(i).opcode = JAL
    <3> DEFINE offset == JalOffset(AssembledProgram, instructions[i], text)
    <3>1. Goal(i) = instructions[i].address + offset
      BY <2>5, NamedJump
    <3>2. \/ offset = parse_immediate(text)
          \/ \E t \in Addresses : offset = t - instructions[i].address
      <4>1. symbol \cup (label \cup find_label(data, <<text>>)) \subseteq Addresses
        BY <2>2, <2>3
      <4>2. /\ AssembledProgram.symbols = symbols /\ AssembledProgram.data = data
            /\ AssembledProgram.instructions = instructions
        BY DEF AssembledProgram
      <4> HIDE DEF text, Addresses
      <4> QED BY <4>1, <4>2, JalOffsetFrom
    <3>3. parse_immediate(text) = 0
      BY <2>1, LetterTextsAssumption DEF parse_immediate
    <3>4. Addresses \subseteq Nat
      <4>1. instructions \in Seq(Parsed)
        BY DEF ProgramKept, Typed
      <4>2. \A j \in DOMAIN instructions : instructions[j] \in Parsed
        BY <4>1
      <4> QED BY <4>2 DEF Parsed
    <3>5. instructions[i].address \in Addresses
      BY <2>1
    <3> HIDE DEF offset, Addresses
    <3>6. CASE offset = parse_immediate(text)
      <4>1. Goal(i) = instructions[i].address
        BY <2>1, <3>1, <3>3, <3>6
      <4> QED BY <3>5, <4>1
    <3>7. ASSUME NEW t \in Addresses, offset = t - instructions[i].address
          PROVE  Goal(i) \in Addresses
      <4>1. Goal(i) = t
        BY <2>1, <3>1, <3>4, <3>7
      <4> QED BY <4>1
    <3> QED BY <3>2, <3>6, <3>7
  <2>6. Read(i).opcode \in {BRANCH, JAL}
    BY DEF NamedJumps
  <2> QED BY <2>4, <2>5, <2>6
<1> QED BY <1>1, TranslationInitKept, ProgramStep, CodedStep, PTL DEF TranslationSpec
------------------------------------------------------------------------------
(* main, from the file to the exit status *)

\* Only the size and the shape of a memory matter here.
IsMemory(m) ==
  /\ m.size \in Nat /\ m = [size |-> m.size, data |-> m.data]
  /\ DOMAIN m.data = 0 .. m.size - 1

\* Whatever is written, it stays a memory of the same size.
LEMMA OverwrittenIsMemory ==
  ASSUME NEW m, IsMemory(m), NEW f, DOMAIN f = DOMAIN m.data
  PROVE  IsMemory([m EXCEPT !.data = f]) /\ [m EXCEPT !.data = f].size = m.size
<1> DEFINE n == m.size
           d == m.data
<1>1. m = [size |-> n, data |-> d] /\ n \in Nat /\ DOMAIN d = 0 .. n - 1
  BY DEF IsMemory
<1> HIDE DEF n, d
<1>2. [m EXCEPT !.data = f] = [size |-> n, data |-> f]
  BY <1>1
<1> QED BY <1>1, <1>2 DEF IsMemory, d

\* What is allocated or freed is a memory.
LEMMA FreshIsMemory ==
  /\ \A size \in Nat : IsMemory(memory_init(size)) /\ memory_init(size).size = size
  /\ \A m : IsMemory(memory_free(m)) /\ memory_free(m).size = 0
BY DEF IsMemory, memory_init, memory_free

\* What is loaded leaves one.
LEMMA LoadedIsMemory ==
  ASSUME NEW m, IsMemory(m), NEW words, NEW base
  PROVE  /\ IsMemory(LoadWords(m, base, words)) /\ LoadWords(m, base, words).size = m.size
         /\ IsMemory(load_program_into_memory(m, words, base))
         /\ load_program_into_memory(m, words, base).size = m.size
         /\ IsMemory(load_data_into_memory(m, words, base))
         /\ load_data_into_memory(m, words, base).size = m.size
<1>1. IsMemory(LoadWords(m, base, words)) /\ LoadWords(m, base, words).size = m.size
  BY OverwrittenIsMemory DEF LoadWords
<1> QED BY <1>1 DEF load_program_into_memory, load_data_into_memory

\* What a store leaves is one.
LEMMA StoredIsMemory ==
  ASSUME NEW m, IsMemory(m), NEW addr, NEW value
  PROVE  /\ IsMemory(Core!memory_write32(m, addr, value))
         /\ Core!memory_write32(m, addr, value).size = m.size
BY OverwrittenIsMemory DEF Core!memory_write32

\* What the processor's parameters are.
LEMMA Parameters ==
  /\ MemorySizes \subseteq Nat /\ MaxInstructions \in Nat \ {0}
  /\ Fields(0).opcode = 0
<1>1. WordMod \in Nat
  BY ByteBaseAssumption DEF WordMod
<1> QED BY <1>1, ProcessorAssumption
        DEF Core!MemorySizesAssumption, Core!MaxInstructionsAssumption, Core!FieldsAssumption,
            Core!WordMod, WordMod

\* What a step of cpu_run may do, as far as main can tell: it halts outside of
\* the text, retires an instruction, ends the run in the middle of one, or returns.
Halts ==
  /\ Core!Looping /\ ~Core!InProgram /\ halted' = TRUE
  /\ UNCHANGED <<memory, pc, executed, error, result>>

Retires ==
  /\ Core!InProgram /\ Core!Fetched.opcode # 0
  /\ executed' = executed + 1 /\ UNCHANGED <<halted, result>>
  /\ memory' = memory \/ \E a, v : memory' = Core!memory_write32(memory, a, v)

Stops ==
  /\ ~halted /\ result' \in {"failed", "killed"}
  /\ UNCHANGED <<memory, executed, halted>>

Returns ==
  /\ halted \/ executed >= MaxInstructions
  /\ result' = IF error THEN "failed" ELSE "ok"
  /\ UNCHANGED <<memory, pc, executed, halted, error>>

\* Nothing else is done.
LEMMA CoreStep ==
  ASSUME Core!Next, result = "running"
  PROVE  Halts \/ (Core!Looping /\ Retires) \/ Stops \/ Returns
<1>1. CASE Core!HaltStep
  BY <1>1 DEF Core!HaltStep, Halts
<1>2. CASE Core!RtypeStep \/ Core!LoadStep \/ Core!OpImmStep \/ Core!UtypeStep
           \/ Core!BranchStep \/ Core!JalStep \/ Core!JalrStep
  BY <1>2 DEF Core!RtypeStep, Core!LoadStep, Core!OpImmStep, Core!UtypeStep, Core!BranchStep,
       Core!JalStep, Core!JalrStep, Core!Stepping, Core!Retire, Retires,
       Core!LOAD, Core!OP_IMM, Core!AUIPC, Core!OP, Core!LUI, Core!BRANCH, Core!JALR, Core!JAL
<1>3. CASE Core!StoreStep
  BY <1>3 DEF Core!StoreStep, Core!Stepping, Core!Retire, Retires, Core!STORE
<1>4. CASE Core!TrapStep \/ Core!UnsupportedStep
  BY <1>4 DEF Core!TrapStep, Core!UnsupportedStep, Core!Stepping, Core!Looping, Stops
<1>5. CASE Core!RunReturns
  BY <1>5 DEF Core!RunReturns, Returns
<1>6. ~Core!Finished
  BY DEF Core!Finished
<1> QED BY <1>1, <1>2, <1>3, <1>4, <1>5, <1>6 DEF Core!Next

\* A step of the run leaves a memory of the same size.
LEMMA RunKeepsSize ==
  ASSUME IsMemory(memory), Run
  PROVE  IsMemory(memory') /\ memory'.size = memory.size
<1>1. Halts \/ Retires \/ Stops \/ Returns
  BY CoreStep DEF Run
<1>2. memory' = memory \/ \E a, v : memory' = Core!memory_write32(memory, a, v)
  BY <1>1 DEF Halts, Retires, Stops, Returns
<1> QED BY <1>2, StoredIsMemory

\* What is allocated in each phase, and when a run is over.
Allocated ==
  /\ phase \in {"open", "assemble", "allocate", "encode", "run", "exited"}
  /\ exit_status = "none" <=> phase # "exited"
  /\ IsMemory(memory)
  /\ phase \in {"open", "allocate"} => memory.size = 0 /\ heap = {}
  /\ phase = "assemble" => memory.size = 0 /\ heap = {"buffer"}
  /\ phase = "open" => status = "reading"
  /\ phase \in {"encode", "run"} =>
       heap = {"enc"} \cup (IF memory.size > 0 THEN {"m.data"} ELSE {})
  /\ "m.data" \in heap <=> memory.size > 0
  /\ phase # "exited" => ~refused
  /\ phase \notin {"run", "exited"} => result = "running"
  /\ phase = "exited" /\ exit_status # "signal" =>
       /\ "enc" \notin heap
       /\ "m.data" \in heap => ~refused /\ result = "running"
       /\ "buffer" \in heap => status = "reading"

\* At first nothing is.
LEMMA AllocatedInit == MainInit => Allocated
BY FreshIsMemory DEF MainInit, TranslationInit, Init, Allocated

\* Every step of main keeps the books.
LEMMA AllocatedStep == Allocated /\ [MainNext]_mainVars => Allocated'
<1> SUFFICES ASSUME Allocated, [MainNext]_mainVars PROVE Allocated'
  OBVIOUS
<1>1. CASE OpenFile
  BY <1>1 DEF OpenFile, Allocated, translation, vars, processor, IsMemory
<1>2. CASE OpenFails
  BY <1>2 DEF OpenFails, Exit, Allocated, translation, vars, processor, IsMemory
<1>3. CASE AssembleFile
  BY <1>3 DEF AssembleFile, Assemble, Allocated, processor, IsMemory
<1>4. CASE Allocate
  <2>1. PICK size \in Nat : /\ memory' = memory_init(size)
                           /\ heap' = heap \cup {"enc"}
                                          \cup (IF size > 0 THEN {"m.data"} ELSE {})
    BY <1>4, Parameters DEF Allocate
  <2>2. IsMemory(memory') /\ memory'.size = size
    BY <2>1, FreshIsMemory
  <2> QED BY <1>4, <2>1, <2>2 DEF Allocate, Allocated, translation, vars, processor, IsMemory
<1>5. CASE AllocateFails
  <2>1. PICK size \in Nat : /\ memory' = memory_init(size)
                           /\ heap' = heap \cup (IF size > 0 THEN {"m.data"} ELSE {})
    BY <1>5, Parameters DEF AllocateFails
  <2>2. IsMemory(memory') /\ memory'.size = size
    BY <2>1, FreshIsMemory
  <2> QED BY <1>5, <2>1, <2>2 DEF AllocateFails, Exit, Allocated, translation, vars, processor, IsMemory
<1>6. CASE EncodeOne
  BY <1>6 DEF EncodeOne, EncodeNext, Allocated, processor, IsMemory
<1>7. CASE EncodingFails
  <2>1. IsMemory(memory') /\ memory'.size = 0
    BY <1>7, FreshIsMemory DEF EncodingFails
  <2> QED BY <1>7, <2>1 DEF EncodingFails, Exit, Allocated, processor, IsMemory
<1>8. CASE Load
  <2>1. IsMemory(memory') /\ memory'.size = memory.size
    BY <1>8, LoadedIsMemory DEF Load, Allocated
  <2> QED BY <1>8, <2>1 DEF Load, Allocated, translation, vars, IsMemory
<1>9. CASE Run
  <2>1. IsMemory(memory') /\ memory'.size = memory.size
    BY <1>9, RunKeepsSize DEF Allocated
  <2> QED BY <1>9, <2>1 DEF Run, Allocated, translation, vars, IsMemory
<1>10. CASE Finish
  <2>1. IsMemory(memory') /\ memory'.size = 0
    BY <1>10, FreshIsMemory DEF Finish
  <2> QED BY <1>10, <2>1 DEF Finish, Exit, Allocated, translation, vars, processor, IsMemory
<1>11. CASE Killed
  BY <1>11 DEF Killed, Exit, Allocated, translation, vars, processor, IsMemory
<1>12. CASE UNCHANGED mainVars
  BY <1>12 DEF mainVars, Allocated, translation, vars, processor, IsMemory
<1> QED BY <1>1, <1>2, <1>3, <1>4, <1>5, <1>6, <1>7, <1>8, <1>9, <1>10, <1>11, <1>12
        DEF MainNext

\* What the returns of main leave: never the encoded words; the simulated memory,
\* which is allocated exactly while its size is not 0, only where there was no room
\* for the encoded words; the buffer only where the file was not assembled
\* (main.c:27-31, 43-47, 72-73, 119-120, 143-144; assembler.c:144-148).  Nothing is
\* said of a process that a division kills.
THEOREM LeaksAreKnown == MainSpec => []FreedAtTheEnd
<1>1. Allocated => FreedAtTheEnd
  BY DEF Allocated, FreedAtTheEnd, IsMemory
<1> QED BY <1>1, AllocatedInit, AllocatedStep, PTL DEF MainSpec
------------------------------------------------------------------------------
(* What a success means *)

\* To the assembler and the encoder the other steps of main are stutters.
LEMMA TranslationSteps == [MainNext]_mainVars => [TranslationNext]_translation
BY DEF MainNext, OpenFile, OpenFails, AssembleFile, Allocate, AllocateFails, EncodeOne,
       EncodingFails, Load, Run, Finish, Killed, mainVars, TranslationNext

\* What the steps of the translation keep, within main.
TranslationKept == ProgramKept /\ Coded /\ StatementsBecomeInstructions /\ LabelsArrive

\* At first there is nothing to keep.
LEMMA TranslationKeptInit == MainInit => TranslationKept
<1> SUFFICES ASSUME MainInit PROVE TranslationKept
  OBVIOUS
<1>1. TranslationInit /\ Init
  BY DEF MainInit, TranslationInit
<1>2. 1 .. 0 = {} /\ DOMAIN << >> = {}
  OBVIOUS
<1>3. LabelsArrive
  BY <1>1, <1>2 DEF Init, LabelsArrive, OwnLabelsKept, LastIsPending, LabelsTaken
<1> QED BY <1>1, <1>3, TranslationInitKept, StatementsInit DEF TranslationKept

\* Every step of main keeps it.
LEMMA TranslationKeptStep == TranslationKept /\ [MainNext]_mainVars => TranslationKept'
BY TranslationSteps, AssemblerSteps, ProgramStep, CodedStep, StatementsStep, ArriveStep
   DEF TranslationKept, ProgramKept

\* The program does not fit into the memory that there is.
Oversized == 4 * Len(encoded) > memory.size /\ memory.size > 0

Zeroed(m) == \A a \in DOMAIN m.data : m.data[a] = 0

\* What is known of a run, whether it goes on or is over.
RunSound ==
  /\ Len(encoded) = Len(instructions)
  /\ halted => ~Core!InProgram
  /\ executed = 0 /\ result \in {"running", "ok"} => pc = 0
  /\ result = "ok" => ~error /\ (halted \/ executed >= MaxInstructions)
  /\ Oversized => Zeroed(memory) /\ executed = 0 /\ ~halted /\ result # "ok"

\* What is known of the processor and of its memory in each phase.
Sound ==
  /\ executed \in Nat /\ executed <= MaxInstructions
  /\ phase \in {"allocate", "encode", "run"} => status = "assembled"
  /\ phase \notin {"run", "exited"} => pc = 0 /\ executed = 0 /\ ~halted
  /\ phase = "encode" => Zeroed(memory)
  /\ phase = "run" => RunSound

\* What starts the program is sound.
LEMMA SoundInit == MainInit => Sound
BY Parameters DEF MainInit, Sound

\* How long the encoded program is.
LEMMA EncodedLength ==
  ASSUME TranslationKept
  PROVE  /\ Len(encoded) \in Nat /\ Len(EncodedWords) = Len(encoded)
         /\ Core!program_end = 4 * Len(encoded)
<1>1. encoded \in Seq(EncodedInstruction)
  BY DEF TranslationKept, Coded
<1>2. Len(EncodedWords) = Len(encoded)
  BY <1>1 DEF EncodedWords
<1> QED BY <1>1, <1>2 DEF Core!program_end

\* What is read from zeroed memory is no instruction.
LEMMA NothingFetched ==
  ASSUME IsMemory(memory), Zeroed(memory), pc = 0
  PROVE  Core!Fetched.opcode = 0
<1>1. Core!memory_read32(memory, 0) = 0
  <2>1. memory.size \in Nat /\ DOMAIN memory.data = 0 .. memory.size - 1
    BY DEF IsMemory
  <2>2. CASE Core!in_bounds(memory, 0)
    <3>1. /\ 0 \in 0 .. memory.size - 1 /\ 0 + 1 \in 0 .. memory.size - 1
          /\ 0 + 2 \in 0 .. memory.size - 1 /\ 0 + 3 \in 0 .. memory.size - 1
      BY <2>1, <2>2 DEF Core!in_bounds
    <3>2. Core!BytesWord(0, 0, 0, 0) = 0
      BY ByteBaseAssumption DEF Core!BytesWord
    <3> QED BY <2>1, <2>2, <3>1, <3>2 DEF Core!memory_read32, Zeroed
  <2>3. CASE ~Core!in_bounds(memory, 0)
    BY <2>3 DEF Core!memory_read32
  <2> QED BY <2>2, <2>3
<1> QED BY <1>1, Parameters DEF Core!Fetched

\* A program that does not fit leaves the memory as it was, and so does its data.
LEMMA OversizedNotLoaded ==
  ASSUME TranslationKept, IsMemory(memory), Zeroed(memory), Len(encoded) = Len(instructions),
         Oversized, NEW words \in Seq(Word)
  PROVE  Zeroed(load_data_into_memory(load_program_into_memory(memory, EncodedWords, 0),
                                      words, 4 * Len(instructions)))
<1> DEFINE end == 4 * Len(instructions)
<1>1. /\ memory.size \in Nat /\ DOMAIN memory.data = 0 .. memory.size - 1
      /\ end \in Nat /\ end > memory.size /\ 0 + 4 * Len(EncodedWords) > memory.size
  BY EncodedLength DEF IsMemory, Oversized
<1>2. load_program_into_memory(memory, EncodedWords, 0) = memory
  BY <1>1 DEF load_program_into_memory
<1> HIDE DEF end
<1>3. \A a \in DOMAIN memory.data : a \notin end .. end + 4 * Len(words) - 1
  BY <1>1
<1>4. Zeroed(LoadWords(memory, end, words))
  <2> DEFINE f == [a \in DOMAIN memory.data |->
                     LET i == ((a - end) \div 4) + 1
                     IN  IF a \in end .. end + 4 * Len(words) - 1 /\ end + 4 * i <= memory.size
                         THEN WordBytes(words[i])[((a - end) % 4) + 1]
                         ELSE memory.data[a]]
  <2>1. DOMAIN f = DOMAIN memory.data /\ \A a \in DOMAIN f : f[a] = 0
    BY <1>3 DEF Zeroed
  <2>2. LoadWords(memory, end, words) = [memory EXCEPT !.data = f]
    BY DEF LoadWords
  <2>3. memory = [size |-> memory.size, data |-> memory.data]
    BY DEF IsMemory
  <2> HIDE DEF f
  <2>4. [memory EXCEPT !.data = f].data = f
    BY <2>3
  <2> QED BY <2>1, <2>2, <2>4 DEF Zeroed
<1> QED BY <1>2, <1>4 DEF load_data_into_memory, end

\* A step of the run keeps what is known of it.
LEMMA RunStep ==
  ASSUME TranslationKept, IsMemory(memory), RunSound, executed \in Nat,
         executed <= MaxInstructions, Run
  PROVE  RunSound' /\ executed' \in Nat /\ executed' <= MaxInstructions
<1>1. Core!Next /\ result = "running" /\ UNCHANGED <<encoded, instructions>>
  BY DEF Run, translation, vars
<1>2. Halts \/ (Core!Looping /\ Retires) \/ Stops \/ Returns
  BY <1>1, CoreStep
<1>3. /\ Len(encoded) \in Nat /\ Core!program_end = 4 * Len(encoded) /\ memory.size \in Nat
  BY EncodedLength DEF IsMemory
<1>4. Core!program_end' = Core!program_end
  BY <1>1 DEF Core!program_end, EncodedWords
<1>5. Oversized => Core!InProgram /\ Core!Fetched.opcode = 0
  BY <1>1, <1>3, NothingFetched DEF RunSound, Oversized, Core!InProgram
<1>6. CASE Halts
  <2>1. ~Oversized /\ ~Oversized'
    BY <1>1, <1>5, <1>6 DEF Halts, Oversized
  <2>2. ~Core!InProgram'
    BY <1>4, <1>6 DEF Halts, Core!InProgram
  <2> QED BY <1>1, <1>6, <2>1, <2>2 DEF Halts, RunSound
<1>7. CASE Core!Looping /\ Retires
  <2>1. memory'.size = memory.size
    BY <1>7, StoredIsMemory DEF Retires
  <2>2. ~Oversized'
    BY <1>1, <1>5, <1>7, <2>1 DEF Retires, Oversized
  <2>3. /\ ~halted /\ executed < MaxInstructions
        /\ executed' = executed + 1 /\ UNCHANGED <<halted, result>>
    BY <1>7 DEF Retires, Core!Looping
  <2>4. executed' \in Nat /\ executed' <= MaxInstructions
    BY <2>3, Parameters
  <2> QED BY <1>1, <2>2, <2>3, <2>4 DEF RunSound
<1>8. CASE Stops
  BY <1>1, <1>8 DEF Stops, RunSound, Oversized
<1>9. CASE Returns
  <2>1. ~Oversized /\ ~Oversized'
    BY <1>1, <1>9, Parameters DEF Returns, RunSound, Oversized
  <2>2. Core!InProgram' = Core!InProgram
    BY <1>4, <1>9 DEF Returns, Core!InProgram
  <2> QED BY <1>1, <1>9, <2>1, <2>2 DEF Returns, RunSound
<1> QED BY <1>2, <1>6, <1>7, <1>8, <1>9

\* Every step of main keeps what is known of the processor.
LEMMA SoundStep ==
  TranslationKept /\ Allocated /\ Sound /\ [MainNext]_mainVars => Sound'
<1> SUFFICES ASSUME TranslationKept, Allocated, Sound, [MainNext]_mainVars PROVE Sound'
  OBVIOUS
<1>1. CASE OpenFile
  BY <1>1 DEF OpenFile, Sound, translation, vars, processor
<1>2. CASE OpenFails
  BY <1>2 DEF OpenFails, Exit, Sound, translation, vars, processor
<1>3. CASE AssembleFile
  BY <1>3 DEF AssembleFile, Assemble, Sound, processor
<1>4. CASE Allocate
  <2>1. PICK size \in Nat : memory' = memory_init(size)
    BY <1>4, Parameters DEF Allocate
  <2>2. Zeroed(memory')
    BY <2>1 DEF Zeroed, memory_init
  <2> QED BY <1>4, <2>2 DEF Allocate, Sound, translation, vars, processor
<1>5. CASE AllocateFails
  BY <1>5 DEF AllocateFails, Exit, Sound, translation, vars, processor
<1>6. CASE EncodeOne
  BY <1>6 DEF EncodeOne, EncodeNext, Sound, Zeroed, vars, processor
<1>7. CASE EncodingFails
  BY <1>7 DEF EncodingFails, Exit, Sound, processor
<1>8. CASE Load
  <2>1. /\ phase = "encode" /\ Len(encoded) = Len(instructions) /\ phase' = "run"
        /\ UNCHANGED <<encoded, instructions, status, pc, executed, halted, result>>
    BY <1>8 DEF Load, translation, vars
  <2>2. memory'.size = memory.size
    BY <1>8, LoadedIsMemory DEF Load, Allocated
  <2>3. Oversized' => Oversized
    BY <2>1, <2>2 DEF Oversized
  <2>4. [k \in 1 .. Len(data) |-> Wrap(data[k].value)] \in Seq(Word)
    <3>1. data \in Seq(Entry)
      BY DEF TranslationKept, ProgramKept, Typed
    <3>2. Len(data) \in Nat /\ \A k \in 1 .. Len(data) : data[k] \in Entry
      BY <3>1
    <3>3. \A k \in 1 .. Len(data) : data[k].value \in Int
      BY <3>2 DEF Entry
    <3>4. \A k \in 1 .. Len(data) : Wrap(data[k].value) \in Word
      BY <3>3, ByteBaseAssumption DEF Wrap, Word, WordMod
    <3> QED BY <3>2, <3>4
  <2>5. Oversized => Zeroed(memory')
    BY <1>8, <2>1, <2>4, OversizedNotLoaded DEF Load, Allocated, Sound
  <2>6. pc = 0 /\ executed = 0 /\ ~halted /\ result = "running"
    BY <2>1 DEF Sound, Allocated
  <2> QED BY <2>1, <2>3, <2>5, <2>6 DEF Sound, RunSound
<1>9. CASE Run
  BY <1>9, RunStep DEF Run, Sound, Allocated, translation, vars
<1>10. CASE Finish
  BY <1>10 DEF Finish, Exit, Sound, processor
<1>11. CASE Killed
  BY <1>11 DEF Killed, Exit, Sound, processor
<1>12. CASE UNCHANGED mainVars
  <2>1. UNCHANGED <<encoded, instructions, status, memory, pc, executed, halted, error,
                    result, phase>>
    BY <1>12 DEF mainVars, translation, vars, processor
  <2>2. Core!InProgram' = Core!InProgram
    BY <2>1 DEF Core!InProgram, Core!program_end, EncodedWords
  <2> QED BY <2>1, <2>2 DEF Sound, RunSound, Oversized, Zeroed
<1> QED BY <1>1, <1>2, <1>3, <1>4, <1>5, <1>6, <1>7, <1>8, <1>9, <1>10, <1>11, <1>12
        DEF MainNext

\* An exit status of 0 means that every statement was encoded, that no write-back
\* was denied, and, if there was any memory, that the program was loaded and run
\* until pc left it or the limit was reached.  Nothing is said of the data, which
\* may not have been loaded, nor of a run without memory, which executes nothing.
THEOREM SuccessMeansSomething == MainSpec => SuccessIsEarned
<1> DEFINE Ran == /\ 4 * Len(encoded) <= memory.size
                  /\ ~Core!InProgram \/ executed = MaxInstructions
                  /\ executed = 0 => encoded = << >>
           Earned == /\ ~refused /\ Len(encoded) = Cardinality(Statements(file, Len(file)))
                     /\ ~error
                     /\ memory.size > 0 => Ran
           Succeeds == exit_status' = "success" /\ exit_status = "none"
<1>1. ASSUME TranslationKept, Allocated, Sound, [MainNext]_mainVars, Succeeds PROVE Earned
  <2>1. Finish /\ result = "ok"
    BY <1>1 DEF MainNext, OpenFile, OpenFails, AssembleFile, Allocate, AllocateFails, EncodeOne,
                EncodingFails, Load, Run, Finish, Killed, Exit, mainVars
  <2>2. phase = "run"
    BY <2>1 DEF Finish
  <2>3. RunSound /\ status = "assembled" /\ ~refused
    BY <1>1, <2>2 DEF Sound, Allocated
  <2>4. Len(encoded) = Cardinality(Statements(file, Len(file)))
    <3>1. line_number = Len(file) /\ Typed
      BY <1>1, <2>3 DEF TranslationKept, ProgramKept, Complete
    <3> QED BY <1>1, <2>3, <3>1, StatementsCounted DEF TranslationKept, RunSound
  <2>5. Len(encoded) \in Nat /\ memory.size \in Nat
    BY <1>1, EncodedLength DEF Allocated, IsMemory
  <2>6. ASSUME memory.size > 0 PROVE Ran
    <3>1. 4 * Len(encoded) <= memory.size
      BY <2>1, <2>3, <2>5, <2>6 DEF RunSound, Oversized
    <3>2. ~error /\ (halted \/ executed >= MaxInstructions) /\ executed <= MaxInstructions
      BY <1>1, <2>1, <2>2, <2>3 DEF RunSound, Sound
    <3>3. halted => ~Core!InProgram
      BY <2>3 DEF RunSound
    <3>4. executed \in Nat /\ MaxInstructions \in Nat \ {0}
      BY <1>1, Parameters DEF Sound
    <3>5. ~Core!InProgram \/ executed = MaxInstructions
      BY <3>2, <3>3, <3>4
    <3>6. ASSUME executed = 0 PROVE encoded = << >>
      <4>1. halted /\ pc = 0
        BY <2>1, <2>3, <3>2, <3>4, <3>6 DEF RunSound
      <4>2. ~(0 < 4 * Len(encoded) /\ 0 < memory.size)
        BY <1>1, <3>3, <4>1, EncodedLength DEF Core!InProgram
      <4>3. Len(encoded) = 0
        BY <2>5, <2>6, <4>2
      <4> QED BY <1>1, <4>3 DEF TranslationKept, Coded
    <3> QED BY <3>1, <3>5, <3>6
  <2>7. ~error
    BY <2>1, <2>3 DEF RunSound
  <2> QED BY <2>3, <2>4, <2>6, <2>7
<1>2. TranslationKept /\ Allocated /\ Sound /\ [MainNext]_mainVars => [Succeeds => Earned]_mainVars
  BY <1>1
<1> QED BY <1>2, TranslationKeptInit, TranslationKeptStep, AllocatedInit, AllocatedStep,
           SoundInit, SoundStep, PTL DEF MainSpec, SuccessIsEarned
------------------------------------------------------------------------------
(* Jumps, from the label on the line to the pc *)

\* Only the name itself is copied to a name of one segment.
LEMMA ShortCopy ==
  ASSUME NEW name \in Name, Len(strncpy(name, LabelSegments)) = 1
  PROVE  strncpy(name, LabelSegments) = name
<1>1. LabelSegments \in Nat /\ LabelSegments >= 2 /\ Len(name) \in Nat
  BY Capacities, LabelSegmentsAssumption DEF Name
<1>2. CASE Len(name) <= LabelSegments
  BY <1>2 DEF strncpy
<1>3. CASE ~(Len(name) <= LabelSegments)
  <2>1. strncpy(name, LabelSegments) = SubSeq(name, 1, LabelSegments)
    BY <1>3 DEF strncpy
  <2>2. Len(SubSeq(name, 1, LabelSegments)) = LabelSegments
    BY <1>1, <1>3 DEF Name
  <2> QED BY <1>1, <2>1, <2>2
<1> QED BY <1>2, <1>3

\* A line of the text without an opcode has a label.
LEMMA NoOpcodeIsLabel ==
  ASSUME NEW f, NEW j, IsLabelLine(f, j)
  PROVE  f[j].colon /\ ~InData(f, j)
BY DEF IsLabelLine, HasContent, IsBlank

\* The first statement from line k on.
NextStatement(k) ==
  CHOOSE s \in Statements(file, Len(file)) \ (1 .. k - 1) :
    \A t \in Statements(file, Len(file)) \ (1 .. k - 1) : s <= t

\* What is there, is the first.
LEMMA NextIsFirst ==
  ASSUME file \in Seq(Line), NEW k \in DOMAIN file,
         Statements(file, Len(file)) \ Statements(file, k - 1) # {}
  PROVE  /\ NextStatement(k) \in k .. Len(file) /\ IsStatement(file, NextStatement(k))
         /\ \A t \in k .. NextStatement(k) - 1 : ~IsStatement(file, t)
<1> DEFINE Rest == Statements(file, Len(file)) \ (1 .. k - 1)
<1>1. Len(file) \in Nat /\ k \in 1 .. Len(file)
  OBVIOUS
<1>2. Rest = {t \in k .. Len(file) : IsStatement(file, t)}
  BY <1>1 DEF Statements
<1>3. Rest # {} /\ Rest \in SUBSET Nat
  BY <1>1, <1>2 DEF Statements
<1>4. \E s \in Rest : \A t \in Rest : s <= t
  <2> HIDE DEF Rest
  <2> QED BY <1>3, LeastNumber
<1>5. NextStatement(k) \in Rest /\ \A t \in Rest : NextStatement(k) <= t
  BY <1>4 DEF NextStatement
<1> DEFINE next == NextStatement(k)
<1> HIDE DEF Rest
<1>6. next \in k .. Len(file) /\ IsStatement(file, next)
  BY <1>2, <1>5
<1>7. ASSUME NEW t \in k .. next - 1, IsStatement(file, t) PROVE FALSE
  <2> HIDE DEF next
  <2>1. t \in k .. Len(file) /\ ~(next <= t)
    BY <1>1, <1>6
  <2>2. t \in Rest
    BY <1>2, <1>7, <2>1
  <2> QED BY <1>5, <2>1, <2>2 DEF next
<1> QED BY <1>6, <1>7

\* A label that only one line has, and that a statement follows before any other
\* label, is found at the address that counting the statements before it gives.
LEMMA LabelledStatement ==
  ASSUME TranslationKept, status = "assembled", NEW k \in DOMAIN file, NEW name,
         Len(name) = 1, Defines(file, k, name), Unambiguous(k),
         Statements(file, Len(file)) \ Statements(file, k - 1) # {}
  PROVE  /\ find_symbol(symbols, name) = {AddressAfter(k)}
         /\ AddressAfter(k) \in 0 .. 4 * MAX_INSTRUCTIONS
<1> DEFINE next == NextStatement(k)
<1>1. /\ Typed /\ StatementsBecomeInstructions /\ SectionsTracked /\ LabelsArrive
      /\ Complete /\ LabelsNameWhatFollows /\ line_number = Len(file)
  BY DEF TranslationKept, ProgramKept, Complete
<1>2. /\ file \in Seq(Line) /\ Len(file) \in Nat /\ k \in 1 .. Len(file) /\ k \in Nat
      /\ DOMAIN file = 1 .. Len(file)
      /\ Len(instructions) \in Nat /\ DOMAIN instructions = 1 .. Len(instructions)
      /\ Len(instructions) <= MAX_INSTRUCTIONS /\ MAX_INSTRUCTIONS \in Nat
  BY <1>1, Capacities DEF Typed
<1>3. /\ next \in k .. Len(file) /\ IsStatement(file, next)
      /\ \A t \in k .. next - 1 : ~IsStatement(file, t)
  BY <1>2, NextIsFirst
<1>4. \A j \in DOMAIN file \ {k} :
        file[j].colon /\ ~InData(file, j) =>
          file[j].label # file[k].label /\ j \notin k .. next
  BY DEF Unambiguous, NextStatement
<1> HIDE DEF next
<1>5. \A j \in DOMAIN file : Defines(file, j, name) => file[j].label = name /\ file[j].colon
                                                     /\ ~InData(file, j)
  <2> SUFFICES ASSUME NEW j \in DOMAIN file, Defines(file, j, name) PROVE file[j].label = name
    BY DEF Defines
  <2>1. file[j] \in Line
    BY <1>2
  <2>2. file[j].label \in Name
    BY <2>1 DEF Line
  <2>3. strncpy(file[j].label, LabelSegments) = name
    BY DEF Defines
  <2> QED BY <2>2, <2>3, ShortCopy
<1>6. \A j \in DOMAIN file : Defines(file, j, name) => j = k
  BY <1>4, <1>5
<1>7. LabelOf(file, k) = name /\ Defines(file, k, LabelOf(file, k)) /\ name # << >>
  BY DEF Defines, LabelOf
<1>8. \A j \in k + 1 .. next : ~IsLabelLine(file, j) /\ (IsStatement(file, j) => ~file[j].colon)
  <2> SUFFICES ASSUME NEW j \in k + 1 .. next
               PROVE  ~IsLabelLine(file, j) /\ (IsStatement(file, j) => ~file[j].colon)
    OBVIOUS
  <2>1. j \in DOMAIN file \ {k} /\ j \in k .. next
    BY <1>2, <1>3
  <2>2. ~(file[j].colon /\ ~InData(file, j))
    BY <1>4, <2>1
  <2> QED BY <2>2, NoOpcodeIsLabel DEF IsStatement
<1>9. \/ IsStatement(file, k)
      \/ \E s \in k + 1 .. Len(file) :
           /\ IsStatement(file, s) /\ ~file[s].colon
           /\ \A j \in k + 1 .. s : ~IsLabelLine(file, j)
  <2>1. CASE next = k
    BY <1>3, <2>1
  <2>2. CASE next # k
    <3>1. next \in k + 1 .. Len(file) /\ next \in k + 1 .. next
      BY <1>2, <1>3, <2>2
    <3> QED BY <1>3, <1>8, <3>1
  <2> QED BY <2>1, <2>2
<1>10. PICK i \in DOMAIN instructions :
         find_symbol(symbols, name) = {instructions[i].address} /\ instructions[i].label = name
  BY <1>1, <1>7, <1>9, FoundAtTheEnd DEF LabelsAreFound, LabelOf
<1> DEFINE here == instructions[i].line_number
<1>11. here \in Statements(file, Len(file))
  BY <1>1 DEF StatementsBecomeInstructions
<1>12. here \in 1 .. Len(file) /\ IsStatement(file, here)
  BY <1>11 DEF Statements
<1>13. PICK d \in 1 .. here :
         /\ Defines(file, d, name)
         /\ d < here => IsLabelLine(file, d) /\ \A j \in d + 1 .. here - 1 :
                                                  IsStatement(file, j) => file[j].colon
  BY <1>1, <1>7, <1>10 DEF LabelsNameWhatFollows
<1> HIDE DEF here
<1>14. d = k /\ k <= here
  <2>1. d \in DOMAIN file
    BY <1>2, <1>12
  <2> QED BY <1>6, <1>12, <1>13, <2>1
<1>15. here = next
  <2>1. next <= here
    BY <1>2, <1>3, <1>12, <1>14
  <2>2. ASSUME next < here PROVE FALSE
    <3>1. k < here /\ IsLabelLine(file, k)
      BY <1>2, <1>3, <1>12, <1>13, <1>14, <2>2
    <3>2. next # k
      BY <1>3, <3>1 DEF IsLabelLine, IsStatement
    <3>3. next \in k + 1 .. here - 1 /\ next \in k + 1 .. next
      BY <1>2, <1>3, <1>12, <2>2, <3>2
    <3> QED BY <1>3, <1>8, <1>13, <1>14, <3>1, <3>3
  <2> QED BY <1>2, <1>3, <1>12, <2>1, <2>2
<1>16. Statements(file, k - 1) = {instructions[j].line_number : j \in 1 .. i - 1}
  <2>1. i \in 1 .. Len(instructions)
    BY <1>2
  <2>2. {instructions[j].line_number : j \in DOMAIN instructions} = Statements(file, Len(file))
    BY <1>1 DEF StatementsBecomeInstructions
  <2>3. \A j, l \in DOMAIN instructions :
          j < l => instructions[j].line_number < instructions[l].line_number
    BY <1>1 DEF StatementsBecomeInstructions
  <2>4. ASSUME NEW s \in Statements(file, k - 1)
        PROVE  s \in {instructions[j].line_number : j \in 1 .. i - 1}
    <3>1. s \in 1 .. k - 1 /\ IsStatement(file, s)
      BY <2>4 DEF Statements
    <3>2. s \in Statements(file, Len(file)) /\ s < here
      BY <1>2, <1>12, <1>14, <3>1 DEF Statements
    <3>3. PICK j \in DOMAIN instructions : s = instructions[j].line_number
      BY <2>2, <3>2
    <3>4. ~(i <= j)
      <4>1. CASE i = j
        BY <1>12, <3>2, <3>3, <4>1 DEF here
      <4>2. CASE i < j
        <5>1. here < s
          BY <2>3, <3>3, <4>2 DEF here
        <5> QED BY <1>12, <3>1, <3>2, <5>1
      <4> QED BY <1>2, <2>1, <4>1, <4>2
    <3>5. j \in 1 .. i - 1
      BY <1>2, <2>1, <3>4
    <3> QED BY <3>3, <3>5
  <2>5. ASSUME NEW j \in 1 .. i - 1 PROVE instructions[j].line_number \in Statements(file, k - 1)
    <3> DEFINE s == instructions[j].line_number
    <3>1. j \in DOMAIN instructions /\ j < i
      BY <1>2, <2>1
    <3>2. s < here
      BY <2>3, <3>1 DEF here
    <3>3. s \in Statements(file, Len(file))
      BY <2>2, <3>1
    <3> HIDE DEF s
    <3>4. s \in 1 .. Len(file) /\ IsStatement(file, s)
      BY <3>3 DEF Statements
    <3>5. s \notin k .. next - 1
      BY <1>3, <3>4
    <3>6. s \in 1 .. k - 1
      BY <1>2, <1>12, <1>15, <3>2, <3>4, <3>5
    <3> QED BY <3>4, <3>6 DEF Statements, s
  <2> QED BY <2>4, <2>5
<1>17. Cardinality(Statements(file, k - 1)) = i - 1
  <2>1. i - 1 \in 0 .. Len(instructions)
    BY <1>2
  <2> QED BY <1>1, <1>16, <2>1, LinesCounted
<1>18. instructions[i].address = 4 * (i - 1)
  BY <1>1 DEF Complete
<1>19. AddressAfter(k) = 4 * (i - 1)
  BY <1>17 DEF AddressAfter
<1> QED BY <1>2, <1>10, <1>18, <1>19

\* Every word that is encoded has one of the opcodes of its format.
LEMMA KnownOpcodes ==
  ASSUME ProgramKept, Coded, NEW i \in DOMAIN encoded
  PROVE  encoded[i] \in EncodedInstruction /\ encoded[i].opcode \in Opcode
<1> DEFINE instr == instructions[i]
           w     == encode_instruction(AssembledProgram, instr)
           op    == instr.opcode
           ops   == instr.operands
<1>1. instr \in Parsed /\ w # Refused /\ encoded[i] = w
  BY CodedLine
<1>2. w \in EncodedInstruction /\ AsWritten(w, op, ops)
  BY <1>1, ProgramTyped, EncodeAccepted DEF ProgramKept
<1> HIDE DEF w, op, ops
<1>3. Decode(w).opcode = w.opcode
  BY DEF Decode
<1>4. op \in DOMAIN UtypeCodes => UtypeCodes[op] \in {LUI, AUIPC}
  BY DEF UtypeCodes
<1>5. Decode(w).opcode \in {OP, OP_IMM, LUI, AUIPC, LOAD, STORE, BRANCH, JAL, JALR}
  <2>1. \/ op \in DOMAIN RtypeCodes /\ ArithmeticAsWritten(w, op, ops)
        \/ op = "addi" /\ AddiAsWritten(w, ops)
        \/ op = "li" /\ LiAsWritten(w, ops)
        \/ op \in DOMAIN UtypeCodes /\ UpperAsWritten(w, op, ops)
        \/ op \in {"lw", "sw"} /\ AccessAsWritten(w, op, ops)
        \/ op \in DOMAIN BranchCodes /\ BranchAsWritten(w, ops)
        \/ op = "jal" /\ JalAsWritten(w, ops)
        \/ op = "jalr" /\ JalrAsWritten(w, ops)
    BY <1>1, <1>2, Dispatch DEF AsWritten, w, op
  <2>2. CASE op \in DOMAIN RtypeCodes /\ ArithmeticAsWritten(w, op, ops)
    BY <2>2 DEF ArithmeticAsWritten
  <2>3. CASE AddiAsWritten(w, ops)
    BY <2>3 DEF AddiAsWritten
  <2>4. CASE LiAsWritten(w, ops)
    BY <2>4 DEF LiAsWritten
  <2>5. CASE op \in DOMAIN UtypeCodes /\ UpperAsWritten(w, op, ops)
    BY <1>4, <2>5 DEF UpperAsWritten
  <2>6. CASE AccessAsWritten(w, op, ops)
    BY <2>6 DEF AccessAsWritten
  <2>7. CASE BranchAsWritten(w, ops)
    BY <2>7 DEF BranchAsWritten
  <2>8. CASE JalAsWritten(w, ops)
    BY <2>8 DEF JalAsWritten
  <2>9. CASE JalrAsWritten(w, ops)
    BY <2>9 DEF JalrAsWritten
  <2> QED BY <2>1, <2>2, <2>3, <2>4, <2>5, <2>6, <2>7, <2>8, <2>9
<1> QED BY <1>1, <1>2, <1>3, <1>5 DEF Opcode

\* The words that main loads are words, and are read as they were encoded.
WordsAreRead ==
  \A c \in EncodedInstruction :
    c.opcode \in Opcode => WordOf(c) \in Word /\ Fields(WordOf(c)) = Decode(c)

\* So they are in the code: bytes of 8 bits, the builders' shifts, and the getters.
THEOREM WordsOf32Bits ==
  ASSUME ByteBase = 256,
         \A c \in EncodedInstruction : WordOf(c) = AsNumber(c),
         \A n \in Word :
           FieldsOfNumber(n).opcode \in Opcode => Fields(n) = Decode(FieldsOfNumber(n))
  PROVE  WordsAreRead
<1> SUFFICES ASSUME NEW c \in EncodedInstruction, c.opcode \in Opcode
             PROVE  WordOf(c) \in Word /\ Fields(WordOf(c)) = Decode(c)
  BY DEF WordsAreRead
<1>1. AsNumber(c) \in Nat /\ AsNumber(c) < 4294967296 /\ FieldsOfNumber(AsNumber(c)) = c
  BY WordsAreNumbers, SMT
<1>2. WordMod = 4294967296
  BY SMT DEF WordMod
<1>3. AsNumber(c) \in Word
  <2>1. AsNumber(c) < WordMod /\ WordMod \in Nat
    BY <1>1, <1>2, SMT
  <2> QED BY <1>1, <2>1, SMT DEF Word
<1> QED BY <1>1, <1>3, SMT

\* Both count modulo 2^32.
LEMMA SameWrap == \A n : Core!Wrap(n) = Wrap(n)
BY DEF Core!Wrap, Wrap, Core!WordMod, WordMod

\* What the processor sees when it executes an instruction as it was loaded.
LEMMA ExecutesRead ==
  ASSUME WordsAreRead, TranslationKept, Sound, NEW i \in DOMAIN encoded, Executes(i)
  PROVE  /\ Core!Fetched = Read(i) /\ Core!Looping /\ Core!InProgram
         /\ status = "assembled" /\ i \in DOMAIN instructions
         /\ pc = instructions[i].address /\ pc \in Nat
<1>1. /\ phase = "run" /\ result = "running" /\ ~halted /\ executed < MaxInstructions
      /\ pc = 4 * (i - 1) /\ pc < memory.size
      /\ memory_read32(memory, pc) = WordOf(encoded[i])
  BY DEF Executes
<1>2. /\ encoded \in Seq(EncodedInstruction) /\ encoded[i] \in EncodedInstruction
      /\ Len(encoded) \in Nat /\ i \in 1 .. Len(encoded)
  BY DEF TranslationKept, Coded
<1>3. Core!Fetched = Read(i)
  <2>1. Core!memory_read32(memory, pc) = memory_read32(memory, pc)
    BY DEF Core!memory_read32, memory_read32, Core!in_bounds, in_bounds,
           Core!BytesWord, BytesWord
  <2>2. encoded[i].opcode \in Opcode
    BY KnownOpcodes DEF TranslationKept
  <2> QED BY <1>1, <1>2, <2>1, <2>2 DEF Core!Fetched, WordsAreRead, Read
<1>4. Core!InProgram
  BY <1>1, <1>2, EncodedLength DEF Core!InProgram
<1>5. status = "assembled"
  BY <1>1 DEF Sound
<1>6. i \in DOMAIN instructions
  BY CodedLine DEF TranslationKept
<1>7. instructions[i].address = 4 * (i - 1)
  BY <1>5, <1>6 DEF TranslationKept, ProgramKept, Complete
<1> QED BY <1>1, <1>2, <1>3, <1>4, <1>5, <1>6, <1>7 DEF Core!Looping

\* A jump that is executed and taken goes to its goal.
LEMMA JumpGoes ==
  ASSUME WordsAreRead, TranslationKept, Sound, MainNext, NEW i \in DOMAIN encoded,
         Executes(i), i \in NamedJumps, Taken(i), executed' = executed + 1
  PROVE  pc' = Wrap(Goal(i))
<1>1. /\ Core!Fetched = Read(i) /\ Core!Looping /\ Core!InProgram
      /\ pc = instructions[i].address
  BY ExecutesRead
<1>2. Read(i).opcode \in {Core!BRANCH, Core!JAL}
  BY DEF NamedJumps, BRANCH, JAL, Core!BRANCH, Core!JAL
<1>3. phase = "run" /\ result = "running" /\ executed \in Nat
  BY DEF Executes, Sound
<1>4. Core!Next
  BY <1>3 DEF MainNext, OpenFile, OpenFails, AssembleFile, Allocate, AllocateFails, EncodeOne,
              EncodingFails, Load, Run, Finish, Killed
<1>5. executed' # executed
  BY <1>3
<1>6. Core!BranchStep \/ Core!JalStep
  BY <1>1, <1>2, <1>4, <1>5
     DEF Core!Next, Core!HaltStep, Core!RtypeStep, Core!TrapStep, Core!LoadStep, Core!StoreStep,
         Core!OpImmStep, Core!UtypeStep, Core!JalrStep, Core!UnsupportedStep, Core!RunReturns,
         Core!Finished, Core!vars, Core!Stepping, Core!LOAD, Core!OP_IMM, Core!AUIPC, Core!STORE,
         Core!OP, Core!LUI, Core!BRANCH, Core!JALR, Core!JAL
<1>7. pc' = Core!Wrap(pc + Read(i).imm)
  <2>1. CASE Core!BranchStep
    <3>1. Read(i).opcode = BRANCH
      BY <1>1, <2>1 DEF Core!BranchStep, Core!Stepping, BRANCH, Core!BRANCH
    <3>2. Core!BranchTaken(Read(i).funct3, regs[Read(i).rs1], regs[Read(i).rs2])
      BY <3>1 DEF Taken
    <3> QED BY <1>1, <2>1, <3>2 DEF Core!BranchStep, Core!Retire
  <2>2. CASE Core!JalStep
    BY <1>1, <2>2 DEF Core!JalStep, Core!Retire
  <2> QED BY <1>6, <2>1, <2>2
<1> QED BY <1>1, <1>7, SameWrap DEF Goal

\* In every file, and whatever the program did before: a jump to a label that
\* only one line has, and that a statement follows before any other label, goes
\* to that statement when it is executed.  The label's way goes through the
\* assembler (assembler.c:261-286), the offset (encoder.c:114-146, 606-656) and
\* the bits of the word to the processor (cpu.c:692, 716).
THEOREM JumpsLand == WordsAreRead => (MainSpec => JumpsLandAtTheirLabel)
<1> SUFFICES ASSUME WordsAreRead PROVE MainSpec => JumpsLandAtTheirLabel
  OBVIOUS
<1> DEFINE Lands ==
             \A i \in DOMAIN encoded :
               /\ Executes(i) /\ i \in NamedJumps /\ Taken(i) /\ executed' = executed + 1
               => \A k \in Named(i) : Unambiguous(k) => pc' = AddressAfter(k)
<1>1. ASSUME TranslationKept, Sound, MainNext PROVE Lands
  <2> SUFFICES ASSUME NEW i \in DOMAIN encoded, Executes(i), i \in NamedJumps, Taken(i),
                      executed' = executed + 1, NEW k \in Named(i), Unambiguous(k)
               PROVE  pc' = AddressAfter(k)
    OBVIOUS
  <2> DEFINE name == Target(i)
  <2>1. status = "assembled"
    BY <1>1, ExecutesRead
  <2>2. /\ k \in DOMAIN file /\ Defines(file, k, name) /\ Len(name) = 1
        /\ Statements(file, Len(file)) \ Statements(file, k - 1) # {}
    BY DEF Named
  <2>3. name = <<OperandText(name)>>
    <3>1. file \in Seq(Line) /\ file[k] \in Line
      BY <1>1, <2>2 DEF TranslationKept, ProgramKept, Typed
    <3>2. name \in Seq(STRING)
      BY <2>2, <3>1, CopyFits, Capacities DEF Defines, Line, Name
    <3> HIDE DEF name
    <3> QED BY <2>2, <3>2, OneSegment
  <2>4. /\ find_symbol(symbols, name) = {AddressAfter(k)}
        /\ AddressAfter(k) \in 0 .. 4 * MAX_INSTRUCTIONS
    <3> HIDE DEF name
    <3> QED BY <1>1, <2>1, <2>2, LabelledStatement
  <2>5. Goal(i) = AddressAfter(k)
    <3> DEFINE text == OperandText(name)
    <3>1. /\ Read(i).opcode = BRANCH => Goal(i) \in find_symbol(symbols, <<text>>)
          /\ Read(i).opcode = JAL =>
               Goal(i) = instructions[i].address
                           + JalOffset(AssembledProgram, instructions[i], text)
          /\ instructions[i].address \in Nat /\ Read(i).opcode \in {BRANCH, JAL}
      BY <1>1, NamedJump DEF TranslationKept, NamedJumps
    <3> HIDE DEF text, name
    <3>2. find_symbol(symbols, <<text>>) = {AddressAfter(k)}
      BY <2>3, <2>4 DEF text
    <3>3. JalOffset(AssembledProgram, instructions[i], text)
            = AddressAfter(k) - instructions[i].address
      BY <3>2 DEF JalOffset, AssembledProgram
    <3> QED BY <2>4, <3>1, <3>2, <3>3
  <2>6. pc' = Wrap(AddressAfter(k))
    BY <1>1, <2>5, JumpGoes
  <2>7. AddressAfter(k) \in 0 .. WordMod - 1 /\ WordMod \in Nat
    BY <2>4, TextAssumption, Capacities, ByteBaseAssumption DEF WordMod
  <2> QED BY <2>6, <2>7 DEF Wrap
<1>2. TranslationKept /\ Sound /\ [MainNext]_mainVars => [Lands]_mainVars
  BY <1>1
<1> QED BY <1>2, TranslationKeptInit, TranslationKeptStep, AllocatedInit, AllocatedStep,
           SoundInit, SoundStep, PTL DEF MainSpec, JumpsLandAtTheirLabel
------------------------------------------------------------------------------
(* Loads, from the word on the line to the register *)

\* Only lw and sw are encoded as a load or a store, of a whole word.
LEMMA AccessesOnly ==
  ASSUME ProgramKept, Coded, NEW i \in DOMAIN encoded, Read(i).opcode \in {LOAD, STORE}
  PROVE  Read(i).funct3 = 2 /\ (Read(i).opcode = STORE => IsStore(i))
<1> DEFINE p     == AssembledProgram
           instr == instructions[i]
           w     == encode_instruction(p, instr)
           op    == instr.opcode
           ops   == instr.operands
<1>1. /\ instr \in Parsed /\ w # Refused /\ encoded[i] = w
      /\ op = to_lower(Written(i).opcode)
  BY CodedLine
<1>2. IsProgram(p)
  BY ProgramTyped DEF ProgramKept
<1>3. AsWritten(w, op, ops)
  <2> HIDE DEF p, instr
  <2> QED BY <1>1, <1>2, EncodeAccepted
<1>4. Decode(w).opcode \in {LOAD, STORE}
  BY <1>1 DEF Read
<1>5. \/ op \in {"lw", "sw"} /\ w = encode_access(instr)
      \/ op \in DOMAIN RtypeCodes \/ op \in {"addi", "li"} \/ op \in DOMAIN UtypeCodes
      \/ op \in DOMAIN BranchCodes \/ op = "jal" \/ op = "jalr"
  <2> HIDE DEF p, instr
  <2> QED BY <1>1, Dispatch DEF w, op
<1> HIDE DEF w
<1>6. op \in {"lw", "sw"} /\ w = encode_access(instr)
  <2> HIDE DEF op, ops
  <2>1. op \notin DOMAIN RtypeCodes
    BY <1>3, <1>4 DEF AsWritten, ArithmeticAsWritten, OP, LOAD, STORE
  <2>2. op \notin {"addi", "li"}
    BY <1>3, <1>4 DEF AsWritten, AddiAsWritten, LiAsWritten, OP_IMM, LOAD, STORE
  <2>3. op \notin DOMAIN UtypeCodes
    <3>1. op \in DOMAIN UtypeCodes => UtypeCodes[op] \in {LUI, AUIPC}
      BY DEF UtypeCodes
    <3> QED BY <1>3, <1>4, <3>1 DEF AsWritten, UpperAsWritten, LUI, AUIPC, LOAD, STORE
  <2>4. op \notin DOMAIN BranchCodes
    BY <1>3, <1>4 DEF AsWritten, BranchAsWritten, BRANCH, LOAD, STORE
  <2>5. op # "jal" /\ op # "jalr"
    BY <1>3, <1>4 DEF AsWritten, JalAsWritten, JalrAsWritten, JAL, JALR, LOAD, STORE
  <2> QED BY <1>5, <2>1, <2>2, <2>3, <2>4, <2>5
<1>7. Decode(w).opcode = IF op = "lw" THEN LOAD ELSE STORE
  BY <1>3, <1>6, Zenon DEF AsWritten, AccessAsWritten
<1>8. Decode(w).funct3 = 2
  <2> DEFINE r1   == reg_index(ops[1])
             base == parse_memory_operand(ops[2]).reg
             off  == parse_memory_operand(ops[2]).offset
  <2>1. w = IF op = "lw" THEN build_itype(off, base, 2, r1, LOAD)
                         ELSE build_stype(off, r1, base, 2, STORE)
    BY <1>1, <1>6 DEF encode_access
  <2> HIDE DEF r1, base, off
  <2>2. w.funct3 = 2 /\ w.opcode \in {LOAD, STORE}
    BY <2>1 DEF build_itype, build_stype, build_rtype
  <2>3. LOAD \in HasFunct3 /\ STORE \in HasFunct3
    BY DEF HasFunct3, Iformat, Sformat
  <2> QED BY <2>2, <2>3 DEF Decode
<1>9. Read(i) = Decode(w)
  BY <1>1 DEF Read
<1>10. Read(i).opcode = STORE => IsStore(i)
  <2>1. ASSUME Decode(w).opcode = STORE PROVE op = "sw"
    BY <1>6, <1>7, <2>1 DEF LOAD, STORE
  <2> QED BY <1>1, <1>9, <2>1 DEF IsStore
<1> QED BY <1>8, <1>9, <1>10

\* 2^32 is a multiple of 4, and what is a multiple of 4 stays one modulo 2^32.
LEMMA WrapKeepsFours == ASSUME NEW n \in Int, n % 4 = 0 PROVE Wrap(n) \in Word /\ Wrap(n) % 4 = 0
<1>1. PICK b \in Nat : ByteBase = 2 * b
  <2>1. ByteBase \div 2 \in Nat /\ ByteBase = 2 * (ByteBase \div 2)
    BY ByteBaseAssumption
  <2> QED BY <2>1
<1> DEFINE h == b * (b * (ByteBase * ByteBase))
<1>2. h \in Nat /\ WordMod = 4 * h
  <2> DEFINE x == ByteBase * ByteBase
  <2>1. x \in Nat
    BY ByteBaseAssumption
  <2>2. WordMod = (2 * b) * ((2 * b) * x)
    BY <1>1 DEF WordMod
  <2> HIDE DEF x
  <2>3. b * x \in Nat /\ b * (b * x) \in Nat
    BY <2>1
  <2>4. (2 * b) * ((2 * b) * x) = 4 * (b * (b * x))
    BY <2>1
  <2> QED BY <2>2, <2>3, <2>4 DEF x
<1> HIDE DEF h
<1>3. PICK q \in Int : n = WordMod * q + Wrap(n)
  BY WrapTurns
<1>4. Wrap(n) \in Word /\ Wrap(n) \in Int
  BY WrapInWord, WordModFacts DEF Word
<1>5. h * q \in Int /\ (4 * h) * q = 4 * (h * q)
  BY <1>2
<1> DEFINE t == h * q
<1>6. t \in Int /\ n = 4 * t + Wrap(n)
  BY <1>2, <1>3, <1>5
<1> HIDE DEF t
<1> QED BY <1>4, <1>6

\* No instruction stores anything, every jump leads to a word of the text, and the
\* text fits into the memory.
Harmless ==
  /\ \A j \in DOMAIN encoded : ~IsStore(j)
  /\ JumpsToWords
  /\ 4 * Len(encoded) <= memory.size

\* The text is as it was loaded, and so are the words of the data that fitted.
Intact ==
  /\ memory \in MemoryOf(memory.size)
  /\ \A j \in DOMAIN encoded : memory_read32(memory, 4 * (j - 1)) = WordOf(encoded[j])
  /\ \A k \in DOMAIN data :
       4 * (Len(encoded) + k) <= memory.size =>
         memory_read32(memory, 4 * (Len(encoded) + k - 1)) = Wrap(data[k].value)

Registers == regs \in [0 .. RegNumber - 1 -> Word]

\* pc is at the first byte of a word, and so is what ra holds.
Placed == pc \in Word /\ pc % 4 = 0 /\ Registers /\ regs[1] % 4 = 0

\* What is known of the memory and the processor as long as the run goes on.
LoadedKept ==
  /\ DataAddressed
  /\ memory.size \in 0 .. WordMod
  /\ phase \notin {"run", "exited"} => Registers
  /\ phase = "encode" => memory \in MemoryOf(memory.size)
  /\ phase = "run" /\ result = "running" /\ Harmless => Intact /\ Placed

\* The sizes that memory_init may return are those that a uint32_t can count to.
LEMMA Sizes == MemorySizes \subseteq 0 .. WordMod /\ RegNumber \in Nat /\ RegNumber >= 2
               /\ UninitializedWords \subseteq Word /\ 0 \in Word
BY ProcessorAssumption, WordModFacts
   DEF Core!MemorySizesAssumption, Core!RegNumberAssumption, Core!UninitializedAssumption,
       Core!WordMod, WordMod, Core!Word, Word

\* At first nothing is loaded.
LEMMA LoadedInit == MainInit => LoadedKept
<1> SUFFICES ASSUME MainInit PROVE LoadedKept
  OBVIOUS
<1>1. data = << >> /\ phase = "open" /\ memory = memory_init(0)
  BY DEF MainInit, TranslationInit, Init
<1>2. memory.size = 0
  BY <1>1, FreshIsMemory
<1>3. Registers
  BY Sizes DEF MainInit, Registers
<1>4. DataAddressed
  BY <1>1 DEF DataAddressed
<1> QED BY <1>1, <1>2, <1>3, <1>4, WordModFacts DEF LoadedKept

\* What is loaded is read back, if the text fits.
LEMMA LoadingIntact ==
  ASSUME WordsAreRead, TranslationKept, LoadedKept, Load, 4 * Len(encoded) <= memory.size
  PROVE  Intact'
<1> DEFINE size   == memory.size
           words  == [k \in 1 .. Len(data) |-> Wrap(data[k].value)]
           end    == 4 * Len(encoded)
           loaded == LoadWords(memory, 0, EncodedWords)
<1>1. /\ phase = "encode" /\ Len(encoded) = Len(instructions)
      /\ UNCHANGED <<encoded, data>>
      /\ memory' = load_data_into_memory(
                     load_program_into_memory(memory, EncodedWords, 0), words, end)
  BY DEF Load, translation, vars
<1>2. size \in Nat /\ memory \in MemoryOf(size) /\ memory.size = size
  BY <1>1, WordModFacts DEF LoadedKept
<1>3. /\ encoded \in Seq(EncodedInstruction) /\ Len(encoded) \in Nat
      /\ DOMAIN encoded = 1 .. Len(encoded) /\ Len(EncodedWords) = Len(encoded)
  BY EncodedLength DEF TranslationKept, Coded
<1>4. /\ EncodedWords \in Seq(Word)
      /\ \A j \in DOMAIN encoded : EncodedWords[j] = WordOf(encoded[j])
  <2>1. \A j \in DOMAIN encoded : WordOf(encoded[j]) \in Word
    BY KnownOpcodes DEF TranslationKept, WordsAreRead
  <2> QED BY <1>3, <2>1 DEF EncodedWords
<1>5. words \in Seq(Word) /\ Len(words) = Len(data) /\ DOMAIN data = 1 .. Len(data)
  <2>1. data \in Seq(Entry)
    BY DEF TranslationKept, ProgramKept, Typed
  <2>2. Len(data) \in Nat /\ DOMAIN data = 1 .. Len(data)
        /\ \A k \in 1 .. Len(data) : data[k] \in Entry
    BY <2>1
  <2>3. \A k \in 1 .. Len(data) : data[k].value \in Int
    BY <2>2 DEF Entry
  <2>4. \A k \in 1 .. Len(data) : Wrap(data[k].value) \in Word
    BY <2>3, WrapInWord
  <2> QED BY <2>2, <2>4
<1>6. \A k \in DOMAIN data : words[k] = Wrap(data[k].value)
  BY <1>5
<1> HIDE DEF words, size, end
<1>7. load_program_into_memory(memory, EncodedWords, 0) = loaded
  BY <1>2, <1>3 DEF load_program_into_memory, end
<1>8. memory' = LoadWords(loaded, end, words)
  BY <1>1, <1>7 DEF load_data_into_memory
<1>9. loaded \in MemoryOf(size)
  BY <1>2, <1>4, LoadWordsInMemory
<1>10. end \in Nat /\ end <= size
  BY <1>3 DEF end, size
<1>11. \A j \in DOMAIN encoded : memory_read32(loaded, 4 * (j - 1)) = WordOf(encoded[j])
  <2>1. \A k \in 1 .. Len(EncodedWords) :
          0 + 4 * k <= size => memory_read32(loaded, 0 + 4 * (k - 1)) = EncodedWords[k]
    BY <1>2, <1>4, ReadLoaded
  <2> SUFFICES ASSUME NEW j \in DOMAIN encoded
               PROVE  memory_read32(loaded, 4 * (j - 1)) = WordOf(encoded[j])
    OBVIOUS
  <2>2. j \in 1 .. Len(EncodedWords) /\ j \in Nat /\ j <= Len(encoded)
    BY <1>3
  <2>3. 0 + 4 * j <= size /\ 0 + 4 * (j - 1) = 4 * (j - 1)
    BY <1>2, <1>3, <1>10, <2>2 DEF end
  <2> QED BY <1>4, <2>1, <2>2, <2>3
<1> HIDE DEF loaded
<1>12. /\ \A k \in 1 .. Len(words) :
            end + 4 * k <= size => memory_read32(memory', end + 4 * (k - 1)) = words[k]
       /\ \A addr \in Nat :
            addr + 4 <= end => memory_read32(memory', addr) = memory_read32(loaded, addr)
  BY <1>5, <1>8, <1>9, <1>10, <1>2, ReadLoaded
<1>13. memory' \in MemoryOf(size)
  BY <1>2, <1>5, <1>8, <1>9, <1>10, LoadWordsInMemory
<1>14. memory'.size = size
  BY <1>13 DEF MemoryOf
<1>15. \A j \in DOMAIN encoded : memory_read32(memory', 4 * (j - 1)) = WordOf(encoded[j])
  <2> SUFFICES ASSUME NEW j \in DOMAIN encoded
               PROVE  memory_read32(memory', 4 * (j - 1)) = WordOf(encoded[j])
    OBVIOUS
  <2>1. 4 * (j - 1) \in Nat /\ 4 * (j - 1) + 4 <= end
    BY <1>3 DEF end
  <2> QED BY <1>11, <1>12, <2>1
<1>16. ASSUME NEW k \in DOMAIN data, 4 * (Len(encoded) + k) <= size
       PROVE  memory_read32(memory', 4 * (Len(encoded) + k - 1)) = Wrap(data[k].value)
  <2>1. k \in 1 .. Len(words) /\ k \in Nat
    BY <1>5
  <2>2. end + 4 * k <= size /\ end + 4 * (k - 1) = 4 * (Len(encoded) + k - 1)
    BY <1>2, <1>3, <1>16, <2>1 DEF end
  <2> QED BY <1>6, <1>12, <2>1, <2>2
<1> QED BY <1>1, <1>13, <1>14, <1>15, <1>16 DEF Intact

\* What pc is at in a harmless program is an instruction, read as it was encoded,
\* and no store.
LEMMA PlacedFetches ==
  ASSUME WordsAreRead, TranslationKept, Harmless, Intact, Placed, Core!InProgram
  PROVE  /\ Core!Fetched \in Core!Decoded /\ Core!Fetched.opcode # STORE
         /\ Core!Fetched.opcode \in {BRANCH, JAL, JALR} => Core!Fetched.imm % 4 = 0
         /\ Core!Fetched.opcode = JALR => Core!Fetched.rs1 = 1
<1> DEFINE j == pc \div 4 + 1
<1>1. pc \in Nat /\ pc < 4 * Len(encoded) /\ Len(encoded) \in Nat
  BY EncodedLength, WordModFacts DEF Placed, Word, Core!InProgram
<1>2. j \in 1 .. Len(encoded) /\ pc = 4 * (j - 1)
  BY <1>1 DEF Placed
<1>3. encoded \in Seq(EncodedInstruction)
  BY DEF TranslationKept, Coded
<1> HIDE DEF j
<1>4. j \in DOMAIN encoded /\ encoded[j] \in EncodedInstruction
  BY <1>2, <1>3
<1>5. Core!memory_read32(memory, pc) = WordOf(encoded[j])
  <2>1. Core!memory_read32(memory, pc) = memory_read32(memory, pc)
    BY DEF Core!memory_read32, memory_read32, Core!in_bounds, in_bounds,
           Core!BytesWord, BytesWord
  <2> QED BY <1>2, <1>4, <2>1 DEF Intact
<1>6. WordOf(encoded[j]) \in Core!Word /\ Fields(WordOf(encoded[j])) = Decode(encoded[j])
  <2>1. encoded[j].opcode \in Opcode
    BY <1>4, KnownOpcodes DEF TranslationKept
  <2> QED BY <1>4, <2>1 DEF WordsAreRead, Core!Word, Word, Core!WordMod, WordMod
<1>7. Core!Fetched = Read(j) /\ Core!Fetched \in Core!Decoded
  BY <1>5, <1>6, ProcessorAssumption DEF Core!Fetched, Core!FieldsAssumption, Read
<1>8. Read(j).opcode # STORE
  BY <1>4, AccessesOnly DEF TranslationKept, Harmless
<1>9. /\ Read(j).opcode \in {BRANCH, JAL, JALR} => Read(j).imm % 4 = 0
      /\ Read(j).opcode = JALR => Read(j).rs1 = 1
  BY <1>4 DEF Harmless, JumpsToWords
<1> QED BY <1>7, <1>8, <1>9

\* A write-back of a word that writes no register ra, or a multiple of 4 into it.
LEMMA WritebackPlaced ==
  ASSUME Placed, NEW rd \in 0 .. RegNumber - 1, NEW value \in Word, NEW context,
         Core!Writeback(rd, value, context), context = 0 \/ value % 4 = 0
  PROVE  Registers' /\ (regs[1] % 4 = 0)'
<1>1. regs \in [0 .. RegNumber - 1 -> Word] /\ regs[1] % 4 = 0 /\ 1 \in 0 .. RegNumber - 1
  BY Sizes DEF Placed, Registers
<1>2. CASE Core!CanWrite(rd, context) /\ regs' = [regs EXCEPT ![rd] = value]
  <2>1. regs' \in [0 .. RegNumber - 1 -> Word]
    BY <1>1, <1>2
  <2>2. rd # 1 \/ value % 4 = 0
    BY <1>2 DEF Core!CanWrite, Core!JAL, Core!JALR
  <2>3. regs'[1] % 4 = 0
    BY <1>1, <1>2, <2>2
  <2> QED BY <2>1, <2>3 DEF Registers
<1>3. CASE UNCHANGED regs
  BY <1>1, <1>3 DEF Registers
<1> QED BY <1>2, <1>3 DEF Core!Writeback

\* A step of the run that goes on leaves the memory alone and pc at a word, if what
\* pc is at is no store and no jump between words.
LEMMA PlacedStep ==
  ASSUME Placed, NEW size \in Nat, memory \in MemoryOf(size), Core!Next, result' = "running",
         Core!InProgram =>
           /\ Core!Fetched \in Core!Decoded /\ Core!Fetched.opcode # STORE
           /\ Core!Fetched.opcode \in {BRANCH, JAL, JALR} => Core!Fetched.imm % 4 = 0
           /\ Core!Fetched.opcode = JALR => Core!Fetched.rs1 = 1
  PROVE  memory' = memory /\ Placed'
<1> DEFINE i == Core!Fetched
<1>p. pc \in Word /\ pc \in Int /\ pc % 4 = 0 /\ (pc + 4) % 4 = 0
  BY WordModFacts DEF Placed, Word
<1>r. /\ \A r \in 0 .. RegNumber - 1 : regs[r] \in Word /\ regs[r] \in Int
      /\ regs[1] % 4 = 0 /\ 1 \in 0 .. RegNumber - 1
  BY WordModFacts, Sizes DEF Placed, Registers, Word
<1>n. Core!Wrap(pc + 4) \in Word /\ Core!Wrap(pc + 4) % 4 = 0
  BY <1>p, WrapKeepsFours, SameWrap
<1>f. ASSUME Core!InProgram
      PROVE  /\ i.rd \in 0 .. RegNumber - 1 /\ i.rs1 \in 0 .. RegNumber - 1
             /\ i.rs2 \in 0 .. RegNumber - 1 /\ i.imm \in Int
  BY <1>f DEF Core!Decoded, Core!Register
<1>w. ASSUME NEW n \in Int PROVE Core!Wrap(n) \in Word
  BY WrapInWord, SameWrap
<1> HIDE DEF i
<1>k. ASSUME Core!InProgram, NEW value \in Word, NEW context, Core!Writeback(i.rd, value, context),
             context = 0 \/ value % 4 = 0, NEW next \in Word, next % 4 = 0,
             Core!Retire(next), UNCHANGED memory
      PROVE  memory' = memory /\ Placed'
  <2>1. Registers' /\ (regs[1] % 4 = 0)'
    BY <1>f, <1>k, WritebackPlaced
  <2> QED BY <1>k, <2>1 DEF Core!Retire, Placed
<1>1. CASE Core!HaltStep
  BY <1>1 DEF Core!HaltStep, Placed, Registers
<1>2. CASE Core!RtypeStep
  <2>1. Core!InProgram /\ Core!Retire(Core!Wrap(pc + 4)) /\ UNCHANGED memory
    BY <1>2 DEF Core!RtypeStep, Core!Stepping
  <2>2. PICK o \in Core!RtypeOperations :
          \E value \in Alu(o[3], regs[i.rs1], regs[i.rs2]) \ {Trap} :
            Core!Writeback(i.rd, value, 0)
    BY <1>2 DEF Core!RtypeStep, i
  <2>3. Alu(o[3], regs[i.rs1], regs[i.rs2]) \subseteq Word \cup {Trap}
    BY <1>f, <1>r, <2>1, ProcessorAssumption
       DEF Core!AluAssumption, Core!Word, Word, Core!WordMod, WordMod
  <2>4. PICK value \in Word : Core!Writeback(i.rd, value, 0)
    BY <2>2, <2>3
  <2> QED BY <1>n, <1>k, <2>1, <2>4
<1>3. CASE Core!LoadStep
  <2>1. Core!InProgram /\ Core!Retire(Core!Wrap(pc + 4)) /\ UNCHANGED memory
    BY <1>3 DEF Core!LoadStep, Core!Stepping
  <2> DEFINE a == Core!EffectiveAddress(i)
             v == Core!memory_read32(memory, a)
  <2>2. Core!Writeback(i.rd, v, 0)
    BY <1>3 DEF Core!LoadStep, i
  <2>3. a \in Word
    <3>1. Core!program_end \in Int
      BY <2>1 DEF Core!InProgram, Core!program_end
    <3>2. Core!program_end + regs[i.rs1] + i.imm \in Int
      BY <1>f, <1>r, <2>1, <3>1
    <3> QED BY <1>w, <3>2 DEF Core!EffectiveAddress
  <2> HIDE DEF a
  <2>4. v = memory_read32(memory, a)
    BY DEF Core!memory_read32, memory_read32, Core!in_bounds, in_bounds,
           Core!BytesWord, BytesWord
  <2>5. v \in Word
    BY <2>3, <2>4, ReadInWord
  <2> QED BY <1>n, <1>k, <2>1, <2>2, <2>5
<1>4. CASE Core!StoreStep
  BY <1>4 DEF Core!StoreStep, Core!Stepping, Core!STORE, STORE
<1>5. CASE Core!OpImmStep
  <2>1. /\ Core!InProgram /\ Core!Retire(Core!Wrap(pc + 4)) /\ UNCHANGED memory
        /\ Core!Writeback(i.rd, Core!Wrap(regs[i.rs1] + i.imm), 0)
    BY <1>5 DEF Core!OpImmStep, Core!Stepping, i
  <2>2. Core!Wrap(regs[i.rs1] + i.imm) \in Word
    BY <1>f, <1>r, <1>w, <2>1
  <2> QED BY <1>n, <1>k, <2>1, <2>2
<1>6. CASE Core!UtypeStep
  <2>1. /\ Core!InProgram /\ Core!Retire(Core!Wrap(pc + 4)) /\ UNCHANGED memory
        /\ \/ Core!Writeback(i.rd, Core!Wrap(i.imm), 0)
           \/ Core!Writeback(i.rd, Core!Wrap(pc + i.imm), 0)
    BY <1>6 DEF Core!UtypeStep, Core!Stepping, i
  <2>2. Core!Wrap(i.imm) \in Word /\ Core!Wrap(pc + i.imm) \in Word
    BY <1>f, <1>p, <1>w, <2>1
  <2> QED BY <1>n, <1>k, <2>1, <2>2
<1>7. CASE Core!BranchStep
  <2>1. /\ Core!InProgram /\ UNCHANGED <<memory, regs>> /\ i.opcode = BRANCH
        /\ Core!Retire(Core!Wrap(pc + i.imm)) \/ Core!Retire(Core!Wrap(pc + 4))
    BY <1>7 DEF Core!BranchStep, Core!Stepping, i, Core!BRANCH, BRANCH
  <2>2. i.imm % 4 = 0 /\ i.imm \in Int
    BY <1>f, <2>1 DEF i
  <2>3. (pc + i.imm) % 4 = 0 /\ pc + i.imm \in Int
    BY <1>p, <2>2
  <2>4. Core!Wrap(pc + i.imm) \in Word /\ Core!Wrap(pc + i.imm) % 4 = 0
    BY <2>3, WrapKeepsFours, SameWrap
  <2> QED BY <1>n, <2>1, <2>4 DEF Core!Retire, Placed, Registers
<1>8. CASE Core!JalStep
  <2>1. /\ Core!InProgram /\ UNCHANGED memory /\ i.opcode = JAL
        /\ Core!Retire(Core!Wrap(pc + i.imm))
        /\ Core!Writeback(i.rd, Core!Wrap(pc + 4), Core!JAL)
    BY <1>8 DEF Core!JalStep, Core!Stepping, i, Core!JAL, JAL
  <2>2. i.imm % 4 = 0 /\ i.imm \in Int
    BY <1>f, <2>1 DEF i
  <2>3. (pc + i.imm) % 4 = 0 /\ pc + i.imm \in Int
    BY <1>p, <2>2
  <2>4. Core!Wrap(pc + i.imm) \in Word /\ Core!Wrap(pc + i.imm) % 4 = 0
    BY <2>3, WrapKeepsFours, SameWrap
  <2> QED BY <1>n, <1>k, <2>1, <2>4
<1>9. CASE Core!JalrStep
  <2>1. /\ Core!InProgram /\ UNCHANGED memory /\ i.opcode = JALR
        /\ Core!Retire(Core!JalrTarget(i))
        /\ Core!Writeback(i.rd, Core!Wrap(pc + 4), Core!JALR)
    BY <1>9 DEF Core!JalrStep, Core!Stepping, i, Core!JALR, JALR
  <2>2. i.imm % 4 = 0 /\ i.imm \in Int /\ i.rs1 = 1
    BY <1>f, <2>1 DEF i
  <2> DEFINE t == Core!Wrap(regs[i.rs1] + i.imm)
  <2>3. (regs[i.rs1] + i.imm) % 4 = 0 /\ regs[i.rs1] + i.imm \in Int
    BY <1>r, <2>2
  <2>4. t \in Word /\ t % 4 = 0
    BY <2>3, WrapKeepsFours, SameWrap
  <2>5. Core!JalrTarget(i) = t - (t % 2)
    BY DEF Core!JalrTarget
  <2> HIDE DEF t
  <2>6. t \in Int
    BY <2>4, WordModFacts DEF Word
  <2>7. Core!JalrTarget(i) = t
    BY <2>4, <2>5, <2>6
  <2> QED BY <1>n, <1>k, <2>1, <2>4, <2>7
<1>10. CASE Core!TrapStep \/ Core!UnsupportedStep \/ Core!RunReturns \/ Core!Finished
  BY <1>10 DEF Core!TrapStep, Core!UnsupportedStep, Core!RunReturns, Core!Finished, Core!vars
<1> QED BY <1>1, <1>2, <1>3, <1>4, <1>5, <1>6, <1>7, <1>8, <1>9, <1>10 DEF Core!Next

\* Whether a program is harmless, and whether its text and data are intact, is not
\* a matter of the processor.
LEMMA HarmlessStays ==
  ASSUME UNCHANGED translation, memory'.size = memory.size
  PROVE  /\ Harmless' => Harmless
         /\ Intact /\ memory' = memory => Intact'
<1>1. UNCHANGED <<encoded, data, instructions, file>>
  BY DEF translation, vars
<1>2. Harmless' => Harmless
  BY <1>1 DEF Harmless, JumpsToWords, IsStore, Read, Written
<1>3. Intact /\ memory' = memory => Intact'
  BY <1>1 DEF Intact
<1> QED BY <1>2, <1>3

\* Every step of main keeps what was loaded.
LEMMA LoadedStep ==
  WordsAreRead =>
    (TranslationKept /\ Allocated /\ Sound /\ LoadedKept /\ [MainNext]_mainVars => LoadedKept')
<1> SUFFICES ASSUME WordsAreRead, TranslationKept, Allocated, Sound, LoadedKept,
                    [MainNext]_mainVars
             PROVE  LoadedKept'
  OBVIOUS
<1>d. DataAddressed'
  BY TranslationSteps, AssemblerSteps, DataAddressedStep
     DEF TranslationKept, ProgramKept, LoadedKept
<1>s. 0 \in 0 .. WordMod
  BY WordModFacts
<1>1. CASE OpenFile \/ AssembleFile
  BY <1>1, <1>d DEF OpenFile, AssembleFile, LoadedKept, Registers, processor, Allocated
<1>2. CASE OpenFails
  BY <1>2, <1>d DEF OpenFails, Exit, LoadedKept
<1>3. CASE Allocate
  <2>1. PICK size \in MemorySizes : memory' = memory_init(size)
    BY <1>3 DEF Allocate
  <2>2. size \in 0 .. WordMod /\ size \in Nat
    BY <2>1, Sizes, WordModFacts
  <2>3. memory'.size = size /\ memory' \in MemoryOf(size)
    BY <2>1, <2>2, FreshIsMemory, InitInMemory
  <2>4. Registers' /\ phase' = "encode"
    BY <1>3 DEF Allocate, LoadedKept, Registers, processor
  <2> QED BY <1>d, <2>2, <2>3, <2>4 DEF LoadedKept
<1>4. CASE AllocateFails
  <2>1. PICK size \in MemorySizes : memory' = memory_init(size)
    BY <1>4 DEF AllocateFails
  <2>2. size \in 0 .. WordMod /\ size \in Nat
    BY <2>1, Sizes, WordModFacts
  <2>3. memory'.size = size /\ phase' = "exited"
    BY <1>4, <2>1, <2>2, FreshIsMemory DEF AllocateFails, Exit
  <2> QED BY <1>d, <2>2, <2>3 DEF LoadedKept
<1>5. CASE EncodeOne
  BY <1>5, <1>d DEF EncodeOne, LoadedKept, Registers, processor
<1>6. CASE EncodingFails \/ Finish
  <2>1. memory'.size = 0 /\ phase' = "exited"
    BY <1>6, FreshIsMemory DEF EncodingFails, Finish, Exit
  <2> QED BY <1>d, <1>s, <2>1 DEF LoadedKept
<1>7. CASE Load
  <2>1. /\ phase' = "run" /\ phase = "encode" /\ pc' = pc /\ UNCHANGED translation
        /\ regs' = [r \in 0 .. RegNumber - 1 |-> IF r = 0 THEN regs[0] ELSE 0]
    BY <1>7 DEF Load
  <2>2. memory'.size = memory.size
    BY <1>7, LoadedIsMemory DEF Load, Allocated
  <2>3. Placed'
    <3>1. pc' = 0
      BY <2>1 DEF Sound
    <3>2. regs \in [0 .. RegNumber - 1 -> Word]
      BY <2>1 DEF LoadedKept, Registers
    <3>3. Registers' /\ (regs[1] % 4 = 0)'
      BY <2>1, <3>2, Sizes DEF Registers
    <3> QED BY <3>1, <3>3, Sizes DEF Placed
  <2>4. ASSUME Harmless' PROVE Intact'
    <3>1. 4 * Len(encoded) <= memory.size
      BY <2>1, <2>2, <2>4, HarmlessStays DEF Harmless
    <3> QED BY <1>7, <3>1, LoadingIntact
  <2> QED BY <1>d, <2>1, <2>2, <2>3, <2>4 DEF LoadedKept
<1>8. CASE Run
  <2>1. phase = "run" /\ phase' = "run" /\ result = "running" /\ UNCHANGED translation /\ Core!Next
    BY <1>8 DEF Run
  <2>2. memory'.size = memory.size /\ memory.size \in Nat
    BY <1>8, RunKeepsSize DEF Allocated, IsMemory
  <2>3. ASSUME result' = "running", Harmless' PROVE Intact' /\ Placed'
    <3>1. Harmless
      BY <2>1, <2>2, <2>3, HarmlessStays
    <3>2. Intact /\ Placed
      BY <2>1, <3>1 DEF LoadedKept
    <3>3. memory' = memory /\ Placed'
      BY <2>1, <2>2, <2>3, <3>1, <3>2, PlacedFetches, PlacedStep DEF Intact
    <3> QED BY <2>1, <2>2, <3>2, <3>3, HarmlessStays
  <2> QED BY <1>d, <2>1, <2>2, <2>3 DEF LoadedKept
<1>9. CASE Killed
  BY <1>9, <1>d DEF Killed, Exit, LoadedKept
<1>10. CASE UNCHANGED mainVars
  <2>1. UNCHANGED <<translation, memory, regs, pc, result, phase>>
    BY <1>10 DEF mainVars, processor
  <2>2. /\ Harmless' => Harmless
        /\ Intact => Intact'
    BY <2>1, HarmlessStays
  <2> QED BY <1>d, <2>1, <2>2 DEF LoadedKept, Placed, Registers
<1> QED BY <1>1, <1>2, <1>3, <1>4, <1>5, <1>6, <1>7, <1>8, <1>9, <1>10 DEF MainNext

\* Where a load at the address of a word of the data finds it.
LEMMA DataAddress ==
  ASSUME TranslationKept, LoadedKept, NEW k \in DOMAIN data, NEW x \in Int,
         Wrap(x) = data[k].address, 4 * (Len(encoded) + k) <= memory.size
  PROVE  Wrap(4 * Len(encoded) + x) = 4 * (Len(encoded) + k - 1)
<1> DEFINE a == 4 * (k - 1)
           end == 4 * Len(encoded)
<1>1. /\ Len(encoded) \in Nat /\ k \in Nat /\ k >= 1
      /\ memory.size \in Int /\ memory.size <= WordMod /\ WordMod \in Nat \ {0}
  <2>1. data \in Seq(Entry)
    BY DEF TranslationKept, ProgramKept, Typed
  <2>2. k \in 1 .. Len(data)
    BY <2>1
  <2> QED BY <2>2, EncodedLength, WordModFacts DEF LoadedKept
<1>2. Wrap(x) = a
  BY DEF LoadedKept, DataAddressed
<1>3. PICK q \in Int : x = WordMod * q + Wrap(x)
  BY WrapTurns
<1>4. end \in Nat /\ a \in Nat /\ end + a \in 0 .. WordMod - 1
      /\ end + a = 4 * (Len(encoded) + k - 1)
  BY <1>1
<1> HIDE DEF a, end
<1>5. end + x \in Int /\ end + x = WordMod * q + (end + a)
  BY <1>1, <1>2, <1>3, <1>4
<1> DEFINE n == end + x
           r == end + a
<1>6. n \in Int /\ r \in 0 .. WordMod - 1 /\ n = WordMod * q + r
  BY <1>4, <1>5
<1> HIDE DEF n, r
<1>7. n % WordMod = r
  BY <1>1, <1>6, RemainderIsUnique
<1> QED BY <1>4, <1>7 DEF Wrap, n, r, end

\* In every file: an lw at the address that the assembler gave to a word reads the
\* word, as long as no sw is in the program and every jump leads to a word: nothing
\* else has changed it, and the text is not in its way (main.c:86-90, cpu.c:504-505).
THEOREM LoadsRead == WordsAreRead => (MainSpec => LoadsReadTheData)
<1> SUFFICES ASSUME WordsAreRead PROVE MainSpec => LoadsReadTheData
  OBVIOUS
<1> DEFINE Reading ==
             \A i \in DOMAIN encoded, k \in DOMAIN data :
               LET d == Read(i)
               IN  /\ Executes(i) /\ d.opcode = LOAD /\ d.rd > 1
                   /\ Wrap(regs[d.rs1] + d.imm) = data[k].address
                   /\ 4 * (Len(encoded) + k) <= memory.size
                   /\ JumpsToWords /\ \A j \in DOMAIN encoded : ~IsStore(j)
                   => regs'[d.rd] = Wrap(data[k].value)
<1>1. ASSUME TranslationKept, Allocated, Sound, LoadedKept, MainNext PROVE Reading
  <2> SUFFICES ASSUME NEW i \in DOMAIN encoded, NEW k \in DOMAIN data,
                      Executes(i), Read(i).opcode = LOAD, Read(i).rd > 1,
                      Wrap(regs[Read(i).rs1] + Read(i).imm) = data[k].address,
                      4 * (Len(encoded) + k) <= memory.size,
                      JumpsToWords, \A j \in DOMAIN encoded : ~IsStore(j)
               PROVE  regs'[Read(i).rd] = Wrap(data[k].value)
    OBVIOUS
  <2> DEFINE d == Read(i)
             x == regs[d.rs1] + d.imm
  <2>1. Core!Fetched = d /\ Core!Looping /\ Core!InProgram
    BY <1>1, ExecutesRead
  <2>2. phase = "run" /\ result = "running"
    BY DEF Executes
  <2>3. Len(encoded) \in Nat /\ Core!program_end = 4 * Len(encoded) /\ k \in Nat
        /\ memory.size \in Int
    <3>1. data \in Seq(Entry)
      BY <1>1 DEF TranslationKept, ProgramKept, Typed
    <3>2. k \in 1 .. Len(data)
      BY <3>1
    <3> QED BY <1>1, <3>2, EncodedLength DEF Allocated, IsMemory
  <2>4. 4 * Len(encoded) <= memory.size
    BY <2>3
  <2>5. Intact /\ Placed
    BY <1>1, <2>2, <2>4 DEF LoadedKept, Harmless
  <2>6. d \in Core!Decoded
    BY <1>1, <2>1, <2>4, <2>5, PlacedFetches DEF Harmless
  <2>7. /\ d.rd \in 0 .. RegNumber - 1 /\ d.rs1 \in 0 .. RegNumber - 1 /\ d.imm \in Int
        /\ regs \in [0 .. RegNumber - 1 -> Word] /\ regs[d.rs1] \in Int
    <3>1. d.rd \in 0 .. RegNumber - 1 /\ d.rs1 \in 0 .. RegNumber - 1 /\ d.imm \in Int
      BY <2>6 DEF Core!Decoded, Core!Register
    <3> QED BY <2>5, <3>1, WordModFacts DEF Placed, Registers, Word
  <2>8. d.funct3 = 2
    BY <1>1, AccessesOnly DEF TranslationKept
  <2> HIDE DEF d
  <2>9. Core!LoadStep
    <3>1. Core!Next
      BY <1>1, <2>2 DEF MainNext, OpenFile, OpenFails, AssembleFile, Allocate, AllocateFails,
                        EncodeOne, EncodingFails, Load, Run, Finish, Killed
    <3>2. d.opcode = Core!LOAD
      BY DEF d, Core!LOAD, LOAD
    <3>3. ~Core!UnsupportedStep
      BY <2>1, <2>8, <3>2 DEF Core!UnsupportedStep, Core!Supported
    <3>4. ~Core!RunReturns
      <4>1. executed \in Nat /\ MaxInstructions \in Nat /\ executed < MaxInstructions /\ ~halted
        BY <1>1, <2>1, Parameters DEF Sound, Core!Looping
      <4> QED BY <4>1 DEF Core!RunReturns
    <3> QED BY <2>1, <2>2, <3>1, <3>2, <3>3, <3>4
            DEF Core!Next, Core!HaltStep, Core!RtypeStep, Core!TrapStep, Core!StoreStep,
                Core!OpImmStep, Core!UtypeStep, Core!BranchStep, Core!JalStep, Core!JalrStep,
                Core!Finished, Core!Stepping, Core!LOAD, Core!OP_IMM, Core!AUIPC, Core!STORE,
                Core!OP, Core!LUI, Core!BRANCH, Core!JALR, Core!JAL
  <2>10. Core!EffectiveAddress(d) = 4 * (Len(encoded) + k - 1)
    <3>1. x \in Int /\ Wrap(x) = data[k].address
      BY <2>7 DEF d
    <3>2. Wrap(4 * Len(encoded) + x) = 4 * (Len(encoded) + k - 1)
      <4> HIDE DEF x
      <4> QED BY <1>1, <3>1, DataAddress
    <3>3. Core!program_end + regs[d.rs1] + d.imm = 4 * Len(encoded) + x
      BY <2>3, <2>7
    <3> QED BY <3>2, <3>3, SameWrap DEF Core!EffectiveAddress
  <2>11. Core!memory_read32(memory, Core!EffectiveAddress(d)) = Wrap(data[k].value)
    <3>1. \A a : Core!memory_read32(memory, a) = memory_read32(memory, a)
      BY DEF Core!memory_read32, memory_read32, Core!in_bounds, in_bounds,
             Core!BytesWord, BytesWord
    <3> QED BY <2>5, <2>10, <3>1 DEF Intact
  <2>12. Core!Writeback(d.rd, Wrap(data[k].value), 0)
    BY <2>1, <2>9, <2>11 DEF Core!LoadStep
  <2>13. d.rd > 1
    BY DEF d
  <2>14. regs' = [regs EXCEPT ![d.rd] = Wrap(data[k].value)]
    BY <2>7, <2>12, <2>13 DEF Core!Writeback, Core!CanWrite
  <2> QED BY <2>7, <2>14 DEF d
<1>2. TranslationKept /\ Allocated /\ Sound /\ LoadedKept /\ [MainNext]_mainVars
        => [Reading]_mainVars
  BY <1>1
<1> QED BY <1>2, TranslationKeptInit, TranslationKeptStep, AllocatedInit, AllocatedStep,
           SoundInit, SoundStep, LoadedInit, LoadedStep, PTL DEF MainSpec, LoadsReadTheData
------------------------------------------------------------------------------
(* Why main ends.  That it does, if the thread is scheduled and no array runs     *)
(* over, is Exits; what bounds the number of its steps is a safety property.      *)

\* How many more steps cpu_run takes at most: the instructions left, the last of
\* which may be the iteration that halts, and the return.
RunLeft ==
  CASE result # "running" -> 0
    [] result = "running" /\ ~halted /\ executed < MaxInstructions ->
         MaxInstructions - executed + 1
    [] OTHER -> 1

\* How many more steps main takes at most: in each phase what is left of it, and
\* all of the phases that follow.
StepsLeft ==
  CASE phase = "open"     -> Len(file) + MAX_INSTRUCTIONS + MaxInstructions + 6
    [] phase = "assemble" -> Len(file) - line_number + MAX_INSTRUCTIONS + MaxInstructions + 5
    [] phase = "allocate" -> MAX_INSTRUCTIONS + MaxInstructions + 4
    [] phase = "encode"   -> Len(instructions) - Len(encoded) + MaxInstructions + 3
    [] phase = "run"      -> RunLeft + 1
    [] OTHER              -> 0

\* What is counted are numbers within the bounds.
LEMMA Counted ==
  ASSUME TranslationKept, Sound
  PROVE  /\ Len(file) \in Nat /\ line_number \in 0 .. Len(file)
         /\ MAX_INSTRUCTIONS \in Nat /\ MaxInstructions \in Nat \ {0}
         /\ Len(instructions) \in 0 .. MAX_INSTRUCTIONS
         /\ Len(encoded) \in 0 .. Len(instructions) /\ executed \in Nat
<1>1. Typed /\ Coded
  BY DEF TranslationKept, ProgramKept
<1>2. /\ file \in Seq(Line) /\ line_number \in 0 .. Len(file)
      /\ instructions \in Seq(Parsed) /\ Len(instructions) <= MAX_INSTRUCTIONS
  BY <1>1 DEF Typed
<1>3. encoded \in Seq(EncodedInstruction) /\ Len(encoded) <= Len(instructions)
  BY <1>1 DEF Coded
<1> QED BY <1>2, <1>3, Capacities, Parameters DEF Sound

\* Every iteration of cpu_run is counted, halts or ends the run.
LEMMA RunGoesOn ==
  ASSUME Run, executed \in Nat
  PROVE  RunLeft \in Nat /\ RunLeft' \in Nat /\ RunLeft' < RunLeft
<1>1. MaxInstructions \in Nat \ {0} /\ result = "running"
  BY Parameters DEF Run
<1>2. Halts \/ (Core!Looping /\ Retires) \/ Stops \/ Returns
  BY CoreStep DEF Run
<1>3. Core!Looping => ~halted /\ executed < MaxInstructions
  BY DEF Core!Looping
<1>4. CASE Halts
  BY <1>1, <1>3, <1>4 DEF Halts, RunLeft
<1>5. CASE Core!Looping /\ Retires
  <2>1. /\ ~halted /\ executed < MaxInstructions /\ executed' = executed + 1
        /\ halted' = halted /\ result' = result
    BY <1>3, <1>5 DEF Retires
  <2>2. RunLeft = MaxInstructions - executed + 1
    BY <1>1, <2>1 DEF RunLeft
  <2>3. RunLeft' = IF executed + 1 < MaxInstructions
                   THEN MaxInstructions - (executed + 1) + 1 ELSE 1
    BY <1>1, <2>1 DEF RunLeft
  <2> QED BY <1>1, <2>1, <2>2, <2>3
<1>6. CASE Stops
  BY <1>1, <1>6 DEF Stops, RunLeft
<1>7. CASE Returns
  BY <1>1, <1>7 DEF Returns, RunLeft
<1> QED BY <1>2, <1>4, <1>5, <1>6, <1>7

\* A run that has not begun has all of its instructions left, and no run has more.
LEMMA RunIsBounded ==
  ASSUME executed \in Nat
  PROVE  RunLeft \in 0 .. MaxInstructions + 1
<1>1. MaxInstructions \in Nat \ {0}
  BY Parameters
<1> QED BY <1>1 DEF RunLeft

\* Every line is a step of the assembler, and so is the end of the file.
LEMMA LinesGetFewer ==
  ASSUME Typed, Next
  PROVE  \/ line_number' = line_number + 1 /\ line_number < Len(file) /\ file' = file
            /\ status' # "assembled"
         \/ line_number = Len(file) /\ status' = "assembled"
<1>1. CASE EndOfFile
  BY <1>1 DEF EndOfFile
<1>2. CASE ~EndOfFile
  <2>1. ReadLine
    BY <1>2 DEF Next, BlankLine, DataDirective, TextDirective, DataLine, ReadTextLine, LabelLine,
                LabelledInstruction, PlainInstruction
  <2>2. status = "reading" /\ status' \in {status, "overflow"}
    BY <1>2, <2>1 DEF Next, BlankLine, DataDirective, TextDirective, DataLine, ReadTextLine,
                LabelLine, LabelledInstruction, PlainInstruction, AddInstruction, ReadLine
  <2> QED BY <2>1, <2>2 DEF ReadLine
<1> QED BY <1>1, <1>2

\* Every step of main leaves fewer.
LEMMA StepsGetFewer ==
  ASSUME TranslationKept, Allocated, Sound, MainNext
  PROVE  StepsLeft \in Nat /\ StepsLeft' \in Nat /\ StepsLeft' < StepsLeft
<1> DEFINE n == Len(file)
           m == Len(instructions)
           c == Len(encoded)
<1>1. /\ n \in Nat /\ line_number \in 0 .. n /\ MAX_INSTRUCTIONS \in Nat
      /\ MaxInstructions \in Nat \ {0} /\ m \in 0 .. MAX_INSTRUCTIONS /\ c \in 0 .. m
      /\ executed \in Nat
  BY Counted
<1>2. RunLeft \in 0 .. MaxInstructions + 1
  BY <1>1, RunIsBounded
<1>e. ASSUME phase \in {"open", "allocate", "encode", "run"}, phase' = "exited"
      PROVE  StepsLeft \in Nat /\ StepsLeft' \in Nat /\ StepsLeft' < StepsLeft
  <2>1. StepsLeft' = 0
    BY <1>e DEF StepsLeft
  <2>2. StepsLeft \in {n + MAX_INSTRUCTIONS + MaxInstructions + 6,
                       MAX_INSTRUCTIONS + MaxInstructions + 4,
                       m - c + MaxInstructions + 3, RunLeft + 1}
    BY <1>e DEF StepsLeft
  <2> HIDE DEF n, m, c
  <2> QED BY <1>1, <1>2, <2>1, <2>2
<1>3. CASE OpenFile
  <2>1. phase = "open" /\ phase' = "assemble" /\ UNCHANGED <<file, line_number>>
    BY <1>3 DEF OpenFile, translation, vars
  <2>2. /\ StepsLeft = n + MAX_INSTRUCTIONS + MaxInstructions + 6
        /\ StepsLeft' = n - line_number + MAX_INSTRUCTIONS + MaxInstructions + 5
    BY <2>1 DEF StepsLeft
  <2> HIDE DEF n, m, c
  <2> QED BY <1>1, <2>2
<1>4. CASE AssembleFile
  <2>1. phase = "assemble" /\ Next
    BY <1>4 DEF AssembleFile, Assemble
  <2>2. StepsLeft = n - line_number + MAX_INSTRUCTIONS + MaxInstructions + 5
    BY <2>1 DEF StepsLeft
  <2>3. CASE status' # "assembled"
    <3>1. line_number' = line_number + 1 /\ line_number < n /\ file' = file
      BY <2>1, <2>3, LinesGetFewer DEF TranslationKept, ProgramKept
    <3>2. phase' = "assemble"
      BY <1>4, <2>1, <2>3 DEF AssembleFile
    <3>3. StepsLeft' = n - (line_number + 1) + MAX_INSTRUCTIONS + MaxInstructions + 5
      BY <3>1, <3>2 DEF StepsLeft
    <3> HIDE DEF n, m, c
    <3> QED BY <1>1, <2>2, <3>1, <3>3
  <2>4. CASE status' = "assembled"
    <3>1. line_number = n
      BY <2>1, <2>4, LinesGetFewer DEF TranslationKept, ProgramKept
    <3>2. phase' = "allocate"
      BY <1>4, <2>4 DEF AssembleFile
    <3>3. StepsLeft' = MAX_INSTRUCTIONS + MaxInstructions + 4
      BY <3>2 DEF StepsLeft
    <3> HIDE DEF n, m, c
    <3> QED BY <1>1, <2>2, <3>1, <3>3
  <2> QED BY <2>3, <2>4
<1>5. CASE Allocate
  <2>1. phase = "allocate" /\ phase' = "encode" /\ UNCHANGED <<instructions, encoded>>
    BY <1>5 DEF Allocate, translation, vars
  <2>2. /\ StepsLeft = MAX_INSTRUCTIONS + MaxInstructions + 4
        /\ StepsLeft' = m - c + MaxInstructions + 3
    BY <2>1 DEF StepsLeft
  <2> HIDE DEF n, m, c
  <2> QED BY <1>1, <2>2
<1>6. CASE EncodeOne
  <2>1. /\ phase = "encode" /\ phase' = "encode" /\ instructions' = instructions /\ c < m
        /\ encoded' = Append(encoded, Code)
    BY <1>6 DEF EncodeOne, EncodeNext, Encoding, vars
  <2>2. Len(encoded') = c + 1
    BY <2>1 DEF TranslationKept, Coded
  <2>3. /\ StepsLeft = m - c + MaxInstructions + 3
        /\ StepsLeft' = m - (c + 1) + MaxInstructions + 3
    BY <2>1, <2>2 DEF StepsLeft
  <2> HIDE DEF n, m, c
  <2> QED BY <1>1, <2>1, <2>3
<1>7. CASE Load
  <2>1. /\ phase = "encode" /\ phase' = "run" /\ c = m
        /\ UNCHANGED <<executed, halted, result>>
    BY <1>7 DEF Load
  <2>2. RunLeft' = RunLeft
    BY <2>1 DEF RunLeft
  <2>3. StepsLeft = m - c + MaxInstructions + 3 /\ StepsLeft' = RunLeft + 1
    BY <2>1, <2>2 DEF StepsLeft
  <2> HIDE DEF n, m, c
  <2> QED BY <1>1, <1>2, <2>1, <2>3
<1>8. CASE Run
  <2>1. phase = "run" /\ phase' = "run"
    BY <1>8 DEF Run
  <2>2. RunLeft \in Nat /\ RunLeft' \in Nat /\ RunLeft' < RunLeft
    BY <1>1, <1>8, RunGoesOn
  <2>3. StepsLeft = RunLeft + 1 /\ StepsLeft' = RunLeft' + 1
    BY <2>1 DEF StepsLeft
  <2> DEFINE a == RunLeft
             b == RunLeft'
  <2>4. a \in Nat /\ b \in Nat /\ b < a /\ StepsLeft = a + 1 /\ StepsLeft' = b + 1
    BY <2>2, <2>3
  <2> HIDE DEF n, m, c, a, b
  <2> QED BY <2>4
<1>9. CASE OpenFails \/ AllocateFails \/ EncodingFails \/ Finish \/ Killed
  <2>1. phase \in {"open", "allocate", "encode", "run"} /\ phase' = "exited"
    BY <1>9 DEF OpenFails, AllocateFails, EncodingFails, Finish, Killed, Exit
  <2> QED BY <1>e, <2>1
<1> QED BY <1>3, <1>4, <1>5, <1>6, <1>7, <1>8, <1>9 DEF MainNext

\* For every file: each step of main brings its end closer, so there are no more
\* than the lines, the instructions that there is room for, those that cpu_run
\* executes (main.c, assembler.c:165, cpu.c:898), and six.
THEOREM MainIsBounded ==
  MainSpec => /\ [](StepsLeft \in 0 .. Len(file) + MAX_INSTRUCTIONS + MaxInstructions + 6)
              /\ [][StepsLeft' < StepsLeft]_mainVars
<1> DEFINE Kept == TranslationKept /\ Allocated /\ Sound
           Most == Len(file) + MAX_INSTRUCTIONS + MaxInstructions + 6
           Within == StepsLeft \in 0 .. Most
<1>1. MainInit => Kept
  BY TranslationKeptInit, AllocatedInit, SoundInit
<1>2. Kept /\ [MainNext]_mainVars => Kept'
  BY TranslationKeptStep, AllocatedStep, SoundStep
<1>3. Kept => Within
  <2> SUFFICES ASSUME Kept PROVE Within
    OBVIOUS
  <2> DEFINE n == Len(file)
             m == Len(instructions)
             c == Len(encoded)
  <2>1. /\ n \in Nat /\ line_number \in 0 .. n /\ MAX_INSTRUCTIONS \in Nat
        /\ MaxInstructions \in Nat \ {0} /\ m \in 0 .. MAX_INSTRUCTIONS /\ c \in 0 .. m
        /\ executed \in Nat
    BY Counted
  <2>2. RunLeft \in 0 .. MaxInstructions + 1
    BY <2>1, RunIsBounded
  <2>3. StepsLeft \in {n + MAX_INSTRUCTIONS + MaxInstructions + 6,
                       n - line_number + MAX_INSTRUCTIONS + MaxInstructions + 5,
                       MAX_INSTRUCTIONS + MaxInstructions + 4,
                       m - c + MaxInstructions + 3, RunLeft + 1, 0}
    BY DEF StepsLeft
  <2>4. Most = n + MAX_INSTRUCTIONS + MaxInstructions + 6
    OBVIOUS
  <2> HIDE DEF n, m, c, Most
  <2> QED BY <2>1, <2>2, <2>3, <2>4
<1>4. Kept /\ [MainNext]_mainVars => [StepsLeft' < StepsLeft]_mainVars
  BY StepsGetFewer
<1> HIDE DEF Kept, Within
<1>5. MainSpec => []Within /\ [][StepsLeft' < StepsLeft]_mainVars
  BY <1>1, <1>2, <1>3, <1>4, PTL DEF MainSpec
<1> QED BY <1>5 DEF Within, Most
===============================================================================
