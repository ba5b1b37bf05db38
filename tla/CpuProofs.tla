------------------------------- MODULE CpuProofs -------------------------------
(***************************************************************************)
(* The safety properties of Cpu, proved for every width of a byte, number  *)
(* of registers, instruction limit, memory size, encoding and ALU that     *)
(* meet the assumptions of Cpu.                                            *)
(***************************************************************************)
EXTENDS CpuAsIsa, WordProofs

\* The text ends below the middle of the address space.
LEMMA ProgramEnd ==
  ASSUME TypeOK
  PROVE  program \in Seq(Word) /\ program_end \in Nat /\ program_end + 4 <= WordMod \div 2
BY ProgramsAssumption, WordModFacts DEF TypeOK, program_end

\* The size of the memory does not change from one state of a type to another.
LEMMA MemoryHasSize ==
  ASSUME TypeOK
  PROVE  /\ memory.size \in MemorySizes
         /\ memory.size \in Nat
         /\ memory \in MemoryOf(memory.size)
BY MemorySizesAssumption, WordModFacts DEF TypeOK, MemoryOf

\* What is fetched is an instruction.
LEMMA FetchedInInstruction ==
  ASSUME TypeOK
  PROVE  /\ Fetched \in Decoded
         /\ Fetched.opcode \in {BRANCH, JAL} => Fetched.imm % 2 = 0
<1>1. memory_read32(memory, pc) \in Word
  BY MemoryHasSize, ReadInWord DEF TypeOK
<1> QED BY <1>1, FieldsAssumption DEF Fetched

\* A write-back of a word keeps the registers and the error flag well-typed.
LEMMA WritebackTyped ==
  ASSUME TypeOK, NEW rd \in Register, NEW value \in Word, NEW context,
         Writeback(rd, value, context)
  PROVE  regs' \in [Register -> Word] /\ error' \in BOOLEAN
BY DEF TypeOK, Writeback

\* An effective address is a word.
LEMMA EffectiveAddressInWord ==
  ASSUME TypeOK PROVE EffectiveAddress(Fetched) \in Word
<1>1. program_end + regs[Fetched.rs1] + Fetched.imm \in Int
  BY ProgramEnd, FetchedInInstruction, WordModFacts DEF TypeOK, Decoded, Word
<1> QED BY <1>1, WrapInWord DEF EffectiveAddress

\* Where a jump or branch goes is a word.
LEMMA TargetsInWord ==
  ASSUME TypeOK
  PROVE  /\ Wrap(pc + 4) \in Word
         /\ Wrap(pc + Fetched.imm) \in Word
         /\ JalrTarget(Fetched) \in Word
<1>1. pc + 4 \in Int /\ pc + Fetched.imm \in Int /\ regs[Fetched.rs1] + Fetched.imm \in Int
  BY FetchedInInstruction, WordModFacts DEF TypeOK, Decoded, Word
<1>2. \A t \in Word : t - (t % 2) \in Word
  BY WordModFacts DEF Word
<1> QED BY <1>1, <1>2, WrapInWord DEF JalrTarget
------------------------------------------------------------------------------
\* What main builds has the types: the loaders keep the memory a memory.
LEMMA InitTyped == Init => TypeOK
<1> SUFFICES ASSUME Init PROVE TypeOK
  OBVIOUS
<1>1. program \in Programs /\ program \in Seq(Word) /\ program_end \in Nat
  BY ProgramsAssumption DEF Init, program_end
<1>2. \E size \in MemorySizes : memory \in MemoryOf(size)
  <2>1. PICK size \in MemorySizes, data \in DataSections :
          memory = load_data_into_memory(
                     load_program_into_memory(memory_init(size), program, 0),
                     data, program_end)
    BY DEF Init
  <2>2. size \in Nat /\ data \in Seq(Word)
    BY MemorySizesAssumption, DataSectionsAssumption, WordModFacts
  <2>3. load_program_into_memory(memory_init(size), program, 0) \in MemoryOf(size)
    BY <1>1, <2>2, InitInMemory, ProgramInMemory
  <2> QED BY <1>1, <2>1, <2>2, <2>3, DataInMemory
<1>3. regs \in [Register -> Word]
  BY UninitializedAssumption, WordModFacts DEF Init, Word
<1>4. pc \in Word /\ executed \in 0 .. MaxInstructions
  BY WordModFacts, MaxInstructionsAssumption DEF Init, Word
<1> QED BY <1>1, <1>2, <1>3, <1>4 DEF Init, TypeOK

\* An instruction that retires at a word, with well-typed registers, error flag
\* and memory, leaves everything well-typed.
LEMMA RetireTyped ==
  ASSUME TypeOK, Looping, NEW next \in Word, Retire(next),
         regs' \in [Register -> Word], error' \in BOOLEAN,
         \E size \in MemorySizes : memory' \in MemoryOf(size)
  PROVE  TypeOK'
BY MaxInstructionsAssumption DEF TypeOK, Looping, Retire

\* Every kind of step keeps the types.
LEMMA NextTyped == TypeOK /\ [Next]_vars => TypeOK'
<1> SUFFICES ASSUME TypeOK, [Next]_vars PROVE TypeOK'
  OBVIOUS
<1>f. /\ Fetched \in Decoded /\ Fetched.rd \in Register /\ Fetched.rs1 \in Register
      /\ Fetched.rs2 \in Register /\ Fetched.imm \in Int
  BY FetchedInInstruction DEF Decoded
<1>t. /\ Wrap(pc + 4) \in Word /\ Wrap(pc + Fetched.imm) \in Word
      /\ JalrTarget(Fetched) \in Word
  BY TargetsInWord
<1>r. regs[Fetched.rs1] \in Word /\ regs[Fetched.rs2] \in Word
      /\ regs[Fetched.rs1] \in Int /\ pc \in Int
  BY <1>f, WordModFacts DEF TypeOK, Word
<1>m. UNCHANGED memory => \E size \in MemorySizes : memory' \in MemoryOf(size)
  BY DEF TypeOK
<1>1. CASE HaltStep
  BY <1>1 DEF HaltStep, TypeOK
<1>2. CASE RtypeStep
  <2>1. PICK o \in RtypeOperations :
          \E value \in Alu(o[3], regs[Fetched.rs1], regs[Fetched.rs2]) \ {Trap} :
            Writeback(Fetched.rd, value, 0)
    BY <1>2 DEF RtypeStep
  <2>2. PICK value \in Word : Writeback(Fetched.rd, value, 0)
    BY <2>1, <1>r, AluAssumption
  <2>3. regs' \in [Register -> Word] /\ error' \in BOOLEAN
    BY <2>2, <1>f, WritebackTyped
  <2> QED BY <1>2, <2>3, <1>t, <1>m, RetireTyped DEF RtypeStep, Stepping
<1>3. CASE TrapStep
  BY <1>3 DEF TrapStep, TypeOK
<1>4. CASE LoadStep
  <2>1. memory_read32(memory, EffectiveAddress(Fetched)) \in Word
    BY MemoryHasSize, EffectiveAddressInWord, ReadInWord
  <2>2. regs' \in [Register -> Word] /\ error' \in BOOLEAN
    BY <1>4, <2>1, <1>f, WritebackTyped DEF LoadStep
  <2> QED BY <1>4, <2>2, <1>t, <1>m, RetireTyped DEF LoadStep, Stepping
<1>5. CASE StoreStep
  <2>1. memory' \in MemoryOf(memory.size) /\ memory.size \in MemorySizes
    BY <1>5, <1>r, MemoryHasSize, EffectiveAddressInWord, WriteInMemory DEF StoreStep
  <2>2. regs' \in [Register -> Word] /\ error' \in BOOLEAN
    BY <1>5 DEF StoreStep, TypeOK
  <2> QED BY <1>5, <2>1, <2>2, <1>t, RetireTyped DEF StoreStep, Stepping
<1>6. CASE OpImmStep
  <2>1. Wrap(regs[Fetched.rs1] + Fetched.imm) \in Word
    BY <1>f, <1>r, WrapInWord
  <2>2. regs' \in [Register -> Word] /\ error' \in BOOLEAN
    BY <1>6, <2>1, <1>f, WritebackTyped DEF OpImmStep
  <2> QED BY <1>6, <2>2, <1>t, <1>m, RetireTyped DEF OpImmStep, Stepping
<1>7. CASE UtypeStep
  <2>1. Wrap(Fetched.imm) \in Word
    BY <1>f, WrapInWord
  <2>2. regs' \in [Register -> Word] /\ error' \in BOOLEAN
    BY <1>7, <2>1, <1>f, <1>t, WritebackTyped DEF UtypeStep
  <2> QED BY <1>7, <2>2, <1>t, <1>m, RetireTyped DEF UtypeStep, Stepping
<1>8. CASE BranchStep
  <2>1. regs' \in [Register -> Word] /\ error' \in BOOLEAN
    BY <1>8 DEF BranchStep, TypeOK
  <2> QED BY <1>8, <2>1, <1>t, <1>m, RetireTyped DEF BranchStep, Stepping
<1>9. CASE JalStep
  <2>1. regs' \in [Register -> Word] /\ error' \in BOOLEAN
    BY <1>9, <1>f, <1>t, WritebackTyped DEF JalStep
  <2> QED BY <1>9, <2>1, <1>t, <1>m, RetireTyped DEF JalStep, Stepping
<1>10. CASE JalrStep
  <2>1. regs' \in [Register -> Word] /\ error' \in BOOLEAN
    BY <1>10, <1>f, <1>t, WritebackTyped DEF JalrStep
  <2> QED BY <1>10, <2>1, <1>t, <1>m, RetireTyped DEF JalrStep, Stepping
<1>11. CASE UnsupportedStep
  BY <1>11, <1>t DEF UnsupportedStep, TypeOK
<1>12. CASE RunReturns
  BY <1>12 DEF RunReturns, TypeOK
<1>13. CASE Finished \/ UNCHANGED vars
  BY <1>13 DEF Finished, vars, TypeOK
<1> QED BY <1>1, <1>2, <1>3, <1>4, <1>5, <1>6, <1>7, <1>8, <1>9, <1>10, <1>11, <1>12, <1>13
        DEF Next

\* The variables always hold what their C types allow: no step of the processor
\* leaves the words, the registers or the bounds of the memory.
THEOREM TypeCorrect == Spec => []TypeOK
<1> QED BY InitTyped, NextTyped, PTL DEF Spec
------------------------------------------------------------------------------
\* The actions that write a register and do not link write no x1.
LEMMA PlainWriteback ==
  ASSUME TypeOK, NEW rd \in Register, NEW value, Writeback(rd, value, 0)
  PROVE  regs'[1] = regs[1]
<1>1. 0 \notin {JAL, JALR}
  BY DEF JAL, JALR
<1> QED BY <1>1, RegNumberAssumption DEF TypeOK, Writeback, CanWrite, Register

\* A link is the address after an instruction of the text.
LEMMA LinkIsReturnAddress ==
  ASSUME TypeOK, RaHoldsReturnAddress, InProgram, NEW rd \in Register, NEW context,
         Writeback(rd, Wrap(pc + 4), context)
  PROVE  regs'[1] = 0 \/ regs'[1] \in 4 .. program_end + 3
<1>1. pc \in Nat /\ pc < program_end /\ program_end \in Nat /\ program_end + 4 <= WordMod \div 2
  BY ProgramEnd, WordModFacts DEF TypeOK, Word, InProgram
<1>2. Wrap(pc + 4) = pc + 4
  BY <1>1, WordModFacts DEF Wrap
<1>3. Wrap(pc + 4) \in 4 .. program_end + 3
  BY <1>1, <1>2
<1> QED BY <1>3, RegNumberAssumption
        DEF TypeOK, Writeback, Register, RaHoldsReturnAddress

\* Every kind of step keeps ra a return address.
LEMMA RaStep ==
  TypeOK /\ RaHoldsReturnAddress /\ [Next]_vars => RaHoldsReturnAddress'
<1> SUFFICES ASSUME TypeOK, RaHoldsReturnAddress, [Next]_vars
             PROVE  RaHoldsReturnAddress'
  OBVIOUS
<1>e. UNCHANGED program => program_end' = program_end
  BY DEF program_end
<1>f. Fetched.rd \in Register
  BY FetchedInInstruction DEF Decoded
<1>1. CASE UNCHANGED <<program, regs>>
  BY <1>1, <1>e DEF RaHoldsReturnAddress
<1>2. ASSUME NEW value, Writeback(Fetched.rd, value, 0), UNCHANGED program
      PROVE  RaHoldsReturnAddress'
  BY <1>2, <1>e, <1>f, PlainWriteback DEF RaHoldsReturnAddress
<1>3. CASE RtypeStep
  BY <1>2, <1>3 DEF RtypeStep, Retire
<1>4. CASE LoadStep
  BY <1>2, <1>4 DEF LoadStep, Retire
<1>5. CASE OpImmStep
  BY <1>2, <1>5 DEF OpImmStep, Retire
<1>6. CASE UtypeStep
  BY <1>2, <1>6 DEF UtypeStep, Retire
<1>7. CASE JalStep
  BY <1>7, <1>e, <1>f, LinkIsReturnAddress
     DEF JalStep, Stepping, Retire, RaHoldsReturnAddress
<1>8. CASE JalrStep
  BY <1>8, <1>e, <1>f, LinkIsReturnAddress
     DEF JalrStep, Stepping, Retire, RaHoldsReturnAddress
<1>9. CASE HaltStep \/ TrapStep \/ StoreStep \/ BranchStep \/ UnsupportedStep
           \/ RunReturns \/ Finished \/ UNCHANGED vars
  <2>1. UNCHANGED <<program, regs>>
    BY <1>9 DEF HaltStep, TrapStep, StoreStep, BranchStep, UnsupportedStep,
                RunReturns, Finished, Retire, vars
  <2> QED BY <2>1, <1>1
<1> QED BY <1>3, <1>4, <1>5, <1>6, <1>7, <1>8, <1>9 DEF Next

\* x1 never holds anything but 0 and return addresses into the text.
THEOREM RaIsProtected == Spec => []RaHoldsReturnAddress
<1>1. Init => RaHoldsReturnAddress
  BY RegNumberAssumption DEF Init, RaHoldsReturnAddress, Register
<1> QED BY <1>1, RaStep, TypeCorrect, PTL DEF Spec
------------------------------------------------------------------------------
\* Reduction modulo the even number of words keeps a number even.
LEMMA WrapKeepsParity ==
  ASSUME NEW n \in Int, n % 2 = 0 PROVE Wrap(n) % 2 = 0
<1>1. PICK q \in Int : n = WordMod * q + Wrap(n)
  BY WrapTurns
<1>2. Wrap(n) \in Int
  BY WrapInWord, WordModFacts DEF Word
<1>3. PICK h \in Nat : WordMod = 2 * h
  <2>1. WordMod \div 2 \in Nat /\ WordMod = 2 * (WordMod \div 2)
    BY WordModFacts
  <2> QED BY <2>1
<1>4. h * q \in Int /\ (2 * h) * q = 2 * (h * q)
  BY <1>3
<1> DEFINE k == h * q
<1>5. k \in Int /\ n = 2 * k + Wrap(n)
  BY <1>1, <1>2, <1>3, <1>4
<1> HIDE DEF k
<1> QED BY <1>2, <1>5

\* Every kind of step keeps pc even.
LEMMA PcStep == TypeOK /\ PcHalfwordAligned /\ [Next]_vars => PcHalfwordAligned'
<1> SUFFICES ASSUME TypeOK, PcHalfwordAligned, [Next]_vars PROVE PcHalfwordAligned'
  OBVIOUS
<1>p. pc \in Int /\ pc % 2 = 0 /\ (pc + 4) % 2 = 0
  BY WordModFacts DEF TypeOK, Word, PcHalfwordAligned
<1>f. Fetched.imm \in Int /\ Fetched.rs1 \in Register
      /\ (Fetched.opcode \in {BRANCH, JAL} => Fetched.imm % 2 = 0)
  BY FetchedInInstruction DEF Decoded
<1>1. CASE pc' = pc
  BY <1>1 DEF PcHalfwordAligned
<1>2. CASE pc' = Wrap(pc + 4)
  <2>1. pc + 4 \in Int
    BY <1>p
  <2> QED BY <1>2, <1>p, <2>1, WrapKeepsParity DEF PcHalfwordAligned
<1>3. CASE pc' = Wrap(pc + Fetched.imm) /\ Fetched.opcode \in {BRANCH, JAL}
  <2>1. pc + Fetched.imm \in Int /\ (pc + Fetched.imm) % 2 = 0
    BY <1>3, <1>p, <1>f
  <2> QED BY <1>3, <2>1, WrapKeepsParity DEF PcHalfwordAligned
<1>4. CASE pc' = JalrTarget(Fetched)
  <2>1. \A t \in Int : (t - (t % 2)) % 2 = 0
    OBVIOUS
  <2>2. regs[Fetched.rs1] + Fetched.imm \in Int
    BY <1>f, WordModFacts DEF TypeOK, Word
  <2>3. Wrap(regs[Fetched.rs1] + Fetched.imm) \in Int
    BY <2>2, WordModFacts DEF Wrap
  <2> QED BY <1>4, <2>1, <2>3 DEF JalrTarget, PcHalfwordAligned
<1>5. CASE HaltStep \/ TrapStep \/ RunReturns \/ Finished \/ UNCHANGED vars
  BY <1>1, <1>5 DEF HaltStep, TrapStep, RunReturns, Finished, vars
<1>6. CASE RtypeStep \/ LoadStep \/ StoreStep \/ OpImmStep \/ UtypeStep \/ UnsupportedStep
  BY <1>2, <1>6 DEF RtypeStep, LoadStep, StoreStep, OpImmStep, UtypeStep,
                    UnsupportedStep, Retire
<1>7. CASE BranchStep \/ JalStep
  BY <1>2, <1>3, <1>7 DEF BranchStep, JalStep, Stepping, Retire
<1>8. CASE JalrStep
  BY <1>4, <1>8 DEF JalrStep, Retire
<1> QED BY <1>5, <1>6, <1>7, <1>8 DEF Next

\* pc stays even, whatever a program jumps to or makes of its own text.
THEOREM PcStaysAligned == Spec => []PcHalfwordAligned
<1>1. Init => PcHalfwordAligned
  BY DEF Init, PcHalfwordAligned
<1> QED BY <1>1, PcStep, TypeCorrect, PTL DEF Spec
------------------------------------------------------------------------------
\* No step changes the size of the memory or the program.
LEMMA ShapeStep ==
  ASSUME TypeOK, [Next]_vars
  PROVE  memory'.size = memory.size /\ program' = program /\ program_end' = program_end
<1>1. UNCHANGED program
  BY DEF Next, HaltStep, RtypeStep, TrapStep, LoadStep, StoreStep, OpImmStep, UtypeStep,
         BranchStep, JalStep, JalrStep, UnsupportedStep, RunReturns, Finished, Retire, vars
<1>2. CASE StoreStep
  <2>1. regs[Fetched.rs2] \in Word
    BY FetchedInInstruction DEF TypeOK, Decoded
  <2>2. memory' \in MemoryOf(memory.size)
    BY <1>2, <2>1, MemoryHasSize, EffectiveAddressInWord, WriteInMemory DEF StoreStep
  <2> QED BY <1>1, <2>2 DEF MemoryOf, program_end
<1>3. CASE ~StoreStep
  <2>1. UNCHANGED memory
    BY <1>3 DEF Next, HaltStep, RtypeStep, TrapStep, LoadStep, OpImmStep, UtypeStep,
                BranchStep, JalStep, JalrStep, UnsupportedStep, RunReturns, Finished, vars
  <2> QED BY <1>1, <2>1 DEF program_end
<1> QED BY <1>2, <1>3

\* Every step that does not return from cpu_run, halt or stand still retires an
\* instruction.
LEMMA StepKinds ==
  ASSUME [Next]_vars
  PROVE  \/ HaltStep \/ TrapStep \/ UnsupportedStep \/ RunReturns \/ UNCHANGED vars
         \/ Looping /\ \E next : Retire(next)
<1>1. CASE RtypeStep \/ LoadStep \/ StoreStep \/ OpImmStep \/ UtypeStep \/ JalStep \/ JalrStep
  BY <1>1 DEF RtypeStep, LoadStep, StoreStep, OpImmStep, UtypeStep, JalStep, JalrStep, Stepping
<1>2. CASE BranchStep
  BY <1>2 DEF BranchStep, Stepping
<1> QED BY <1>1, <1>2 DEF Next, Finished

\* Every kind of step keeps the result sound; only the last one sets it.
LEMMA ResultStep == TypeOK /\ ResultSound /\ [Next]_vars => ResultSound'
<1> SUFFICES ASSUME TypeOK, ResultSound, [Next]_vars PROVE ResultSound'
  OBVIOUS
<1>s. memory'.size = memory.size /\ program_end' = program_end
  BY ShapeStep
<1>1. CASE HaltStep
  BY <1>1, <1>s DEF HaltStep, Looping, InProgram, ResultSound
<1>2. CASE TrapStep
  BY <1>2, <1>s DEF TrapStep, InProgram, ResultSound
<1>3. CASE UnsupportedStep
  BY <1>3, <1>s DEF UnsupportedStep, Looping, InProgram, ResultSound
<1>4. CASE RunReturns
  <2>1. executed >= MaxInstructions => executed = MaxInstructions
    BY MaxInstructionsAssumption DEF TypeOK
  <2> QED BY <1>4, <1>s, <2>1 DEF RunReturns, InProgram, ResultSound, TypeOK
<1>5. CASE UNCHANGED vars
  BY <1>5 DEF vars, InProgram, ResultSound, program_end
<1>6. ASSUME Looping, NEW next, Retire(next) PROVE ResultSound'
  BY <1>6 DEF Looping, Retire, ResultSound
<1> QED BY <1>1, <1>2, <1>3, <1>4, <1>5, <1>6, StepKinds

\* The exit status of a run means what it says.
THEOREM ResultsAreSound == Spec => []ResultSound
<1>1. Init => ResultSound
  BY DEF Init, ResultSound
<1> QED BY <1>1, ResultStep, TypeCorrect, PTL DEF Spec
------------------------------------------------------------------------------
\* The loaders refuse an oversized program, and its data lies past the end: the memory is empty.
LEMMA OversizedInit == Init => OversizedProgramNeverRuns
<1> SUFFICES ASSUME Init, program_end > memory.size, memory.size > 0
             PROVE  \A a \in DOMAIN memory.data : memory.data[a] = 0
  BY DEF Init, OversizedProgramNeverRuns
<1>1. PICK size \in MemorySizes, data \in DataSections :
        memory = load_data_into_memory(
                   load_program_into_memory(memory_init(size), program, 0),
                   data, program_end)
  BY DEF Init
<1>2. size \in Nat /\ data \in Seq(Word) /\ program \in Seq(Word)
  BY MemorySizesAssumption, DataSectionsAssumption, ProgramsAssumption, WordModFacts DEF Init
<1> DEFINE empty == memory_init(size)
<1>3. empty \in MemoryOf(size)
  BY <1>2, InitInMemory
<1>4. memory \in MemoryOf(size)
  <2>1. load_program_into_memory(empty, program, 0) \in MemoryOf(size)
    BY <1>2, <1>3, ProgramInMemory
  <2> QED BY <1>1, <1>2, <2>1, DataInMemory DEF program_end
<1>5. program_end \in Nat /\ program_end > size /\ 0 + 4 * Len(program) > empty.size
  BY <1>2, <1>3, <1>4 DEF MemoryOf, program_end
<1>6. load_program_into_memory(empty, program, 0) = empty
  BY <1>5 DEF load_program_into_memory
<1>7. memory = load_data_into_memory(empty, data, program_end)
  BY <1>1, <1>6
<1>8. DOMAIN memory.data = 0 .. size - 1 /\ DOMAIN empty.data = 0 .. size - 1
  BY <1>3, <1>4 DEF MemoryOf
<1>9. \A a \in 0 .. size - 1 : a \notin program_end .. program_end + 4 * Len(data) - 1
  BY <1>2, <1>5
<1>10. \A a \in 0 .. size - 1 : memory.data[a] = empty.data[a]
  <2> HIDE DEF empty
  <2> QED BY <1>3, <1>7, <1>8, <1>9 DEF load_data_into_memory, LoadWords, MemoryOf
<1> QED BY <1>8, <1>10 DEF memory_init

\* The first step of an oversized program fails, and no other follows.
LEMMA OversizedStep ==
  TypeOK /\ OversizedProgramNeverRuns /\ [Next]_vars => OversizedProgramNeverRuns'
<1> SUFFICES ASSUME TypeOK, OversizedProgramNeverRuns, [Next]_vars,
                    program_end > memory.size, memory.size > 0
             PROVE  OversizedProgramNeverRuns'
  BY ShapeStep DEF OversizedProgramNeverRuns
<1>1. CASE result # "running"
  <2>1. UNCHANGED vars
    BY <1>1 DEF Next, HaltStep, RtypeStep, TrapStep, LoadStep, StoreStep, OpImmStep,
                UtypeStep, BranchStep, JalStep, JalrStep, UnsupportedStep, RunReturns,
                Finished, Stepping, Looping
  <2> QED BY <2>1 DEF vars, OversizedProgramNeverRuns, program_end
<1>2. CASE result = "running"
  <2>1. /\ pc = 0 /\ executed = 0 /\ halted = FALSE
        /\ \A a \in DOMAIN memory.data : memory.data[a] = 0
    BY <1>2 DEF OversizedProgramNeverRuns, TypeOK
  <2>2. memory_read32(memory, 0) = 0
    <3>1. memory.size \in Nat /\ DOMAIN memory.data = 0 .. memory.size - 1
      BY MemoryHasSize DEF MemoryOf
    <3>2. CASE in_bounds(memory, 0)
      <4>1. 0 \in 0 .. memory.size - 1 /\ 0 + 1 \in 0 .. memory.size - 1
            /\ 0 + 2 \in 0 .. memory.size - 1 /\ 0 + 3 \in 0 .. memory.size - 1
        BY <3>1, <3>2 DEF in_bounds
      <4>2. BytesWord(0, 0, 0, 0) = 0
        BY ByteBaseAssumption DEF BytesWord
      <4> QED BY <2>1, <3>1, <3>2, <4>1, <4>2 DEF memory_read32
    <3>3. CASE ~in_bounds(memory, 0)
      BY <3>3 DEF memory_read32
    <3> QED BY <3>2, <3>3
  <2>3. Fetched.opcode = 0
    BY <2>1, <2>2, FieldsAssumption DEF Fetched
  <2>4. InProgram
    BY <2>1, ProgramEnd, MemoryHasSize DEF InProgram
  <2>5. \A opcode : opcode # 0 => ~Stepping(opcode)
    BY <2>3 DEF Stepping
  <2>6. ~HaltStep /\ ~RunReturns
    BY <2>1, <2>4, MaxInstructionsAssumption DEF HaltStep, RunReturns
  <2>7. TrapStep \/ UnsupportedStep \/ UNCHANGED vars
    BY <2>5, <2>6 DEF Next, RtypeStep, LoadStep, StoreStep, OpImmStep, UtypeStep,
         BranchStep, JalStep, JalrStep, Finished,
         LOAD, OP_IMM, AUIPC, STORE, OP, LUI, BRANCH, JALR, JAL
  <2>8. CASE TrapStep
    BY <2>5, <2>8 DEF TrapStep, OP
  <2>9. CASE UnsupportedStep
    BY <2>1, <2>9 DEF UnsupportedStep, OversizedProgramNeverRuns
  <2>10. CASE UNCHANGED vars
    BY <2>10 DEF vars, OversizedProgramNeverRuns, program_end
  <2> QED BY <2>7, <2>8, <2>9, <2>10
<1> QED BY <1>1, <1>2

\* A program that was not loaded never executes an instruction.
THEOREM OversizedProgramsFail == Spec => []OversizedProgramNeverRuns
<1> QED BY OversizedInit, OversizedStep, TypeCorrect, PTL DEF Spec
------------------------------------------------------------------------------
\* A recorded error is never forgotten.
THEOREM ErrorsStay == Spec => ErrorLatched
<1>1. ASSUME TypeOK, [Next]_vars, error PROVE error'
  BY <1>1 DEF TypeOK, Next, HaltStep, RtypeStep, TrapStep, LoadStep, StoreStep, OpImmStep,
       UtypeStep, BranchStep, JalStep, JalrStep, UnsupportedStep, RunReturns, Finished,
       Writeback, vars
<1>2. TypeOK /\ [Next]_vars => [error => error']_vars
  BY <1>1
<1> QED BY <1>2, TypeCorrect, PTL DEF Spec, ErrorLatched

\* A data access at an offset that an int32_t counts from 0 up is not in the text.
LEMMA HighAddress ==
  ASSUME TypeOK, NEW offset \in Int, ~(Signed(Wrap(offset)) < 0)
  PROVE  Wrap(program_end + offset) >= program_end
<1> DEFINE t == Wrap(offset)
<1>1. t \in Word /\ t \in Nat /\ WordMod \in Nat \ {0}
  BY WordModFacts, WrapInWord DEF Word
<1>2. PICK q \in Int : offset = WordMod * q + t
  BY WrapTurns
<1>3. t < WordMod \div 2
  BY <1>1, WordModFacts DEF Signed, Word
<1> HIDE DEF t
<1>4. program_end \in Nat /\ program_end + t \in 0 .. WordMod - 1
  BY <1>1, <1>3, ProgramEnd, WordModFacts
<1>5. program_end + offset \in Int /\ program_end + offset = WordMod * q + (program_end + t)
  BY <1>1, <1>2, <1>4
<1>6. (program_end + offset) % WordMod = program_end + t
  <2> DEFINE n == program_end + offset
             r == program_end + t
  <2>1. n \in Int /\ r \in 0 .. WordMod - 1 /\ n = WordMod * q + r
    BY <1>4, <1>5
  <2> HIDE DEF n, r
  <2>2. n % WordMod = r
    BY <1>1, <2>1, RemainderIsUnique
  <2> QED BY <2>2 DEF n, r
<1> QED BY <1>1, <1>4, <1>6 DEF Wrap

\* The text is changed by nothing but a store to a negative offset.
THEOREM TextIsProtected == Spec => TextChangesOnlyByLowStore
<1> DEFINE TextChanged == \E a \in DOMAIN memory.data :
                            a < program_end /\ memory'.data[a] # memory.data[a]
           LowStore == /\ Fetched.opcode = STORE
                       /\ Signed(Wrap(regs[Fetched.rs1] + Fetched.imm)) < 0
<1>1. ASSUME TypeOK, [Next]_vars, TextChanged PROVE LowStore
  <2>1. StoreStep
    BY <1>1 DEF Next, HaltStep, RtypeStep, TrapStep, LoadStep, OpImmStep, UtypeStep,
         BranchStep, JalStep, JalrStep, UnsupportedStep, RunReturns, Finished, vars
  <2>2. PICK a \in DOMAIN memory.data : a < program_end /\ memory'.data[a] # memory.data[a]
    BY <1>1
  <2> DEFINE addr == EffectiveAddress(Fetched)
             offset == regs[Fetched.rs1] + Fetched.imm
  <2>3. addr \in Nat /\ a \in Nat /\ offset \in Int /\ program_end \in Nat
    <3>1. addr \in Nat
      <4> HIDE DEF addr
      <4> QED BY <1>1, EffectiveAddressInWord, WordModFacts DEF Word, addr
    <3>2. a \in Nat
      BY <1>1, MemoryHasSize DEF MemoryOf
    <3>3. offset \in Int
      BY <1>1, FetchedInInstruction, WordModFacts DEF TypeOK, Word, Decoded
    <3> QED BY <1>1, <3>1, <3>2, <3>3, ProgramEnd
  <2>4. a \in addr .. addr + 3
    <3> HIDE DEF addr
    <3>1. memory' = memory_write32(memory, addr, regs[Fetched.rs2])
      BY <2>1 DEF StoreStep, addr
    <3> QED BY <1>1, <2>2, <2>3, <3>1, MemoryHasSize DEF memory_write32, MemoryOf
  <2>5. addr < program_end
    BY <2>2, <2>3, <2>4
  <2>6. addr = Wrap(program_end + offset)
    <3>1. program_end + regs[Fetched.rs1] + Fetched.imm = program_end + offset
      BY <2>3, <1>1, FetchedInInstruction, WordModFacts DEF TypeOK, Word, Decoded
    <3> QED BY <3>1 DEF EffectiveAddress
  <2> HIDE DEF addr, offset
  <2>7. Signed(Wrap(offset)) < 0
    <3>1. Wrap(program_end + offset) \in Nat
      BY <2>3, <2>6
    <3> QED BY <1>1, <2>3, <2>5, <2>6, <3>1, HighAddress
  <2> QED BY <2>1, <2>7 DEF StoreStep, Stepping, offset
<1>2. TypeOK /\ [Next]_vars => [TextChanged => LowStore]_vars
  BY <1>1
<1> QED BY <1>2, TypeCorrect, PTL DEF Spec, TextChangesOnlyByLowStore
-------------------------------------------------------------------------------
(* The processor implements IsaMachine. *)

\* Both machines have the same opcodes, words and memories: the definitions of
\* module IsaMachine come from the modules that Cpu extends.
LEMMA SameOpcodes ==
  /\ Machine!LOAD = LOAD /\ Machine!OP_IMM = OP_IMM /\ Machine!AUIPC = AUIPC
  /\ Machine!STORE = STORE /\ Machine!OP = OP /\ Machine!LUI = LUI
  /\ Machine!BRANCH = BRANCH /\ Machine!JALR = JALR /\ Machine!JAL = JAL
  /\ Machine!RtypeOperations = RtypeOperations
BY DEF Machine!LOAD, LOAD, Machine!OP_IMM, OP_IMM, Machine!AUIPC, AUIPC, Machine!STORE, STORE,
       Machine!OP, OP, Machine!LUI, LUI, Machine!BRANCH, BRANCH, Machine!JALR, JALR,
       Machine!JAL, JAL, Machine!RtypeOperations, RtypeOperations

\* The arithmetic of words is the same.
LEMMA SameWords ==
  /\ Machine!WordMod = WordMod /\ Machine!Word = Word
  /\ \A n : Machine!Wrap(n) = Wrap(n) /\ Machine!Signed(n) = Signed(n)
<1>1. Machine!WordMod = WordMod
  BY DEF Machine!WordMod, WordMod
<1> QED BY <1>1 DEF Machine!Word, Word, Machine!Wrap, Wrap, Machine!Signed, Signed

\* Reading and writing a memory are the same.
LEMMA SameMemories ==
  /\ \A n : Machine!MemoryOf(n) = MemoryOf(n)
  /\ \A m, a : Machine!memory_read32(m, a) = memory_read32(m, a)
  /\ \A m, a, v : Machine!memory_write32(m, a, v) = memory_write32(m, a, v)
<1>1. \A b0, b1, b2, b3 : Machine!BytesWord(b0, b1, b2, b3) = BytesWord(b0, b1, b2, b3)
  BY DEF Machine!BytesWord, BytesWord
<1>2. \A w : Machine!WordBytes(w) = WordBytes(w)
  BY DEF Machine!WordBytes, WordBytes
<1>3. \A m, a : Machine!in_bounds(m, a) <=> in_bounds(m, a)
  BY DEF Machine!in_bounds, in_bounds
<1> QED BY <1>1, <1>2, <1>3 DEF Machine!MemoryOf, MemoryOf, Machine!Byte, Byte,
  Machine!memory_read32, memory_read32, Machine!memory_write32, memory_write32

\* What both machines compare pc with.
LEMMA TextLength ==
  ASSUME TypeOK
  PROVE  /\ Len(IsaText) = IF memory.size = 0 THEN 0 ELSE Len(program)
         /\ InProgram <=> pc < 4 * Len(IsaText) /\ pc < memory.size
         /\ DOMAIN IsaText = 1 .. Len(IsaText)
<1>1. Len(program) \in Nat /\ memory.size \in Nat /\ pc \in Nat
  BY ProgramEnd, MemoryHasSize, WordModFacts DEF TypeOK, Word
<1>2. /\ Len(IsaText) = IF memory.size = 0 THEN 0 ELSE Len(program)
      /\ DOMAIN IsaText = 1 .. Len(IsaText)
  BY <1>1 DEF IsaText
<1> HIDE DEF IsaText
<1> QED BY <1>1, <1>2 DEF InProgram, program_end

\* The words of the text are words.
LEMMA TextTyped == ASSUME TypeOK PROVE IsaText \in Seq(Word)
<1> DEFINE n == IF memory.size = 0 THEN 0 ELSE Len(program)
<1>1. n \in Nat /\ n <= Len(program) /\ Len(program) \in Nat
  BY ProgramEnd
<1>2. ASSUME NEW i \in 1 .. n PROVE memory_read32(memory, 4 * (i - 1)) \in Word
  <2>1. 4 * (i - 1) \in Word
    <3> HIDE DEF n
    <3> QED BY <1>1, ProgramEnd, WordModFacts DEF Word, program_end
  <2> QED BY <2>1, MemoryHasSize, ReadInWord
<1> HIDE DEF n
<1>3. [i \in 1 .. n |-> memory_read32(memory, 4 * (i - 1))] \in Seq(Word)
  BY <1>1, <1>2
<1> QED BY <1>3 DEF IsaText, n

\* The data is a memory of its own.
LEMMA DataTyped ==
  ASSUME TypeOK
  PROVE  DataSize \in 0 .. WordMod /\ IsaData \in MemoryOf(DataSize)
<1>1. memory.size \in 0 .. WordMod /\ memory.size \in Nat /\ program_end \in Nat
  BY MemoryHasSize, MemorySizesAssumption, ProgramEnd
<1>2. DataSize \in 0 .. WordMod /\ DataSize \in Nat
  BY <1>1, WordModFacts DEF DataSize
<1>3. ASSUME NEW a \in 0 .. DataSize - 1 PROVE memory.data[program_end + a] \in Byte
  <2>1. program_end + a \in 0 .. memory.size - 1
    BY <1>1 DEF DataSize
  <2> QED BY <2>1, MemoryHasSize DEF MemoryOf
<1> QED BY <1>2, <1>3 DEF IsaData, MemoryOf

\* At a word of the text the processor fetches the word that the machine has.
LEMMA SameInstruction ==
  ASSUME TypeOK, pc < 4 * Len(IsaText), pc % 4 = 0
  PROVE  Fetched = Machine!Current
<1> DEFINE i == (pc \div 4) + 1
<1>1. pc \in Nat /\ Len(IsaText) \in Nat
  BY TextTyped, WordModFacts DEF TypeOK, Word
<1>2. i \in 1 .. Len(IsaText) /\ 4 * (i - 1) = pc
  BY <1>1
<1>3. IsaText[i] = memory_read32(memory, 4 * (i - 1))
  <2> HIDE DEF i
  <2> QED BY <1>2, TextLength DEF IsaText
<1> QED BY <1>2, <1>3 DEF Fetched, Machine!Current
------------------------------------------------------------------------------
\* A data address that does not count as negative is where the data begins,
\* plus what the machine takes it for.
LEMMA SamePlace ==
  ASSUME TypeOK, NEW offset \in Int, Signed(Wrap(offset)) >= 0
  PROVE  /\ Signed(Wrap(offset)) \in Word
         /\ Wrap(program_end + offset) = program_end + Signed(Wrap(offset))
         /\ program_end + Signed(Wrap(offset)) \in Word
<1> DEFINE t == Wrap(offset)
<1>1. t \in Word /\ t \in Nat /\ WordMod \in Nat \ {0}
  BY WordModFacts, WrapInWord DEF Word
<1>2. PICK q \in Int : offset = WordMod * q + t
  BY WrapTurns
<1>3. t < WordMod \div 2 /\ Signed(t) = t
  BY <1>1, WordModFacts DEF Signed, Word
<1> HIDE DEF t
<1>4. program_end \in Nat /\ program_end + t \in 0 .. WordMod - 1
  BY <1>1, <1>3, ProgramEnd, WordModFacts
<1> DEFINE n == program_end + offset
           r == program_end + t
<1>5. n \in Int /\ r \in 0 .. WordMod - 1 /\ n = WordMod * q + r
  <2>1. WordMod * q \in Int
    BY <1>1
  <2> QED BY <1>1, <1>2, <1>4, <2>1
<1> HIDE DEF n, r
<1>6. n % WordMod = r
  BY <1>1, <1>5, RemainderIsUnique
<1>7. Wrap(program_end + offset) = program_end + t /\ program_end + t \in Word
  BY <1>4, <1>6 DEF Wrap, Word, n, r
<1> QED BY <1>1, <1>3, <1>7 DEF t

\* The bytes and the bounds of the data are those of the memory behind the text.
LEMMA DataIsMemory ==
  ASSUME TypeOK, NEW a \in Nat
  PROVE  /\ in_bounds(IsaData, a) <=> in_bounds(memory, program_end + a)
         /\ in_bounds(IsaData, a) =>
              \A k \in 0 .. 3 : IsaData.data[a + k] = memory.data[program_end + a + k]
<1>1. memory.size \in Nat /\ program_end \in Nat
  BY MemoryHasSize, ProgramEnd
<1>2. in_bounds(IsaData, a) <=> in_bounds(memory, program_end + a)
  BY <1>1 DEF in_bounds, IsaData, DataSize
<1>3. ASSUME in_bounds(IsaData, a), NEW k \in 0 .. 3
      PROVE  IsaData.data[a + k] = memory.data[program_end + a + k]
  <2>1. a + k \in 0 .. DataSize - 1 /\ program_end + (a + k) = program_end + a + k
    BY <1>1, <1>3 DEF in_bounds, IsaData, DataSize
  <2> HIDE DEF DataSize
  <2> QED BY <2>1 DEF IsaData
<1> QED BY <1>2, <1>3

\* Reading the data is reading the memory behind the text.
LEMMA SameRead ==
  ASSUME TypeOK, NEW a \in Nat
  PROVE  memory_read32(IsaData, a) = memory_read32(memory, program_end + a)
<1>1. program_end \in Nat
  BY ProgramEnd
<1>2. in_bounds(IsaData, a) => /\ IsaData.data[a] = memory.data[program_end + a]
                               /\ IsaData.data[a + 1] = memory.data[program_end + a + 1]
                               /\ IsaData.data[a + 2] = memory.data[program_end + a + 2]
                               /\ IsaData.data[a + 3] = memory.data[program_end + a + 3]
  <2>1. a + 0 = a /\ program_end + a + 0 = program_end + a
    BY <1>1
  <2> HIDE DEF program_end
  <2> QED BY <2>1, DataIsMemory
<1> QED BY <1>2, DataIsMemory DEF memory_read32

\* What a write that is in bounds leaves at an address.
LEMMA WrittenByte ==
  ASSUME NEW size \in Nat, NEW m \in MemoryOf(size), NEW addr, NEW value,
         in_bounds(m, addr), NEW b \in DOMAIN m.data
  PROVE  memory_write32(m, addr, value).data[b]
           = IF b \in addr .. addr + 3 THEN WordBytes(value)[b - addr + 1] ELSE m.data[b]
<1> HIDE DEF in_bounds
<1> QED BY DEF memory_write32, MemoryOf

\* Writing the data is writing the memory behind the text.
LEMMA SameWrite ==
  ASSUME TypeOK, NEW a \in Nat, NEW value \in Word, UNCHANGED program,
         memory' = memory_write32(memory, program_end + a, value)
  PROVE  IsaData' = memory_write32(IsaData, a, value)
<1>1. /\ memory.size \in Nat /\ program_end \in Nat /\ program_end' = program_end
      /\ DOMAIN memory.data = 0 .. memory.size - 1
  BY MemoryHasSize, ProgramEnd DEF MemoryOf, program_end
<1>2. memory'.size = memory.size
  BY MemoryHasSize DEF memory_write32, MemoryOf
<1>3. DataSize' = DataSize /\ DataSize \in Nat
  BY <1>1, <1>2 DEF DataSize
<1>4. CASE ~in_bounds(IsaData, a)
  <2>1. memory' = memory
    BY <1>4, DataIsMemory DEF memory_write32
  <2> QED BY <1>1, <1>3, <1>4, <2>1 DEF memory_write32, IsaData
<1>5. CASE in_bounds(IsaData, a)
  <2>1. PICK addr : addr = program_end + a
    OBVIOUS
  <2>2. in_bounds(memory, addr) /\ memory' = memory_write32(memory, addr, value)
    BY <1>5, <2>1, DataIsMemory
  <2>3. \A c \in DOMAIN memory.data :
          memory'.data[c] = IF c \in addr .. addr + 3 THEN WordBytes(value)[c - addr + 1]
                                                      ELSE memory.data[c]
    BY <2>2, MemoryHasSize, WrittenByte
  <2>4. ASSUME NEW b \in 0 .. DataSize - 1
        PROVE  memory'.data[program_end + b] = IF b \in a .. a + 3
                                               THEN WordBytes(value)[b - a + 1]
                                               ELSE memory.data[program_end + b]
    <3>1. PICK c \in DOMAIN memory.data : c = program_end + b
      BY <1>1 DEF DataSize
    <3>2. (c \in addr .. addr + 3 <=> b \in a .. a + 3) /\ c - addr + 1 = b - a + 1
      BY <1>1, <1>3, <2>1, <3>1
    <3> QED BY <2>3, <3>1, <3>2
  <2> HIDE DEF DataSize
  <2> QED BY <1>1, <1>3, <1>5, <2>4 DEF memory_write32, IsaData
<1> QED BY <1>4, <1>5

\* A write behind the text leaves the text alone.
LEMMA TextKept ==
  ASSUME TypeOK, NEW addr \in Word, NEW value \in Word, UNCHANGED program,
         memory' = memory_write32(memory, addr, value), program_end <= addr
  PROVE  UNCHANGED IsaText
<1> DEFINE n == IF memory.size = 0 THEN 0 ELSE Len(program)
<1>1. /\ n \in Nat /\ n <= Len(program) /\ Len(program) \in Nat /\ addr \in Nat
      /\ program_end + 4 <= WordMod \div 2 /\ WordMod \in Nat
  BY ProgramEnd, WordModFacts DEF Word
<1>2. memory'.size = memory.size
  BY MemoryHasSize DEF memory_write32, MemoryOf
<1>3. ASSUME NEW i \in 1 .. n
      PROVE  memory_read32(memory', 4 * (i - 1)) = memory_read32(memory, 4 * (i - 1))
  <2>1. 4 * (i - 1) \in Word /\ 4 * (i - 1) + 4 <= addr
    <3> HIDE DEF n
    <3> QED BY <1>1, WordModFacts DEF Word, program_end
  <2> QED BY <2>1, MemoryHasSize, ReadAfterDisjointWrite
<1> HIDE DEF n
<1> QED BY <1>2, <1>3 DEF IsaText, n
------------------------------------------------------------------------------
\* What is in the memory does not change unless the memory does.
LEMMA Frozen ==
  UNCHANGED <<program, memory>> => UNCHANGED <<IsaText, IsaData>>
BY DEF IsaText, IsaData, DataSize, program_end

\* The machine leaves its text exactly when the processor halts: a program that
\* is larger than the memory does not get that far.
LEMMA SameEnd ==
  ASSUME TypeOK, OversizedProgramNeverRuns, Looping
  PROVE  InProgram <=> pc < 4 * Len(IsaText)
<1>1. /\ Len(program) \in Nat /\ memory.size \in Nat /\ pc \in Nat
      /\ program_end = 4 * Len(program)
  BY ProgramEnd, MemoryHasSize, WordModFacts DEF TypeOK, Word, program_end
<1>2. program_end > memory.size /\ memory.size > 0 => pc = 0
  BY DEF OversizedProgramNeverRuns, Looping
<1> HIDE DEF program_end
<1> QED BY <1>1, <1>2, TextLength

\* Both know the same instructions.
LEMMA SameKnown == ASSUME TypeOK PROVE Supported(Fetched) <=> Machine!Known(Fetched)
<1>1. (\E o \in RtypeOperations : o[1] = Fetched.funct3 /\ o[2] = Fetched.funct7)
      <=> Machine!Operations(Fetched) # {}
  BY SameOpcodes DEF Machine!Operations
<1> QED BY <1>1, SameOpcodes DEF Supported, Machine!Known

\* Both protect the same registers.
LEMMA SameWriteback ==
  ASSUME TypeOK, NEW value, NEW context, Writeback(Fetched.rd, value, context),
         context = IF Fetched.opcode \in {JAL, JALR} THEN Fetched.opcode ELSE 0
  PROVE  /\ regs' = IF Machine!Owned(Fetched) THEN [regs EXCEPT ![Fetched.rd] = value]
                                              ELSE regs
         /\ error' = (error \/ Machine!Denied(Fetched))
<1>1. 0 \notin {JAL, JALR} /\ error \in BOOLEAN
  BY DEF JAL, JALR, TypeOK
<1>2. CanWrite(Fetched.rd, context) <=> Machine!Owned(Fetched)
  BY <1>1, SameOpcodes DEF CanWrite, Machine!Owned
<1>3. /\ Machine!Owned(Fetched) => ~Machine!Denied(Fetched)
      /\ ~Machine!Owned(Fetched) => (Machine!Denied(Fetched) <=> Fetched.rd # 0)
  BY SameOpcodes DEF Machine!Owned, Machine!Denied
<1>4. CASE Machine!Owned(Fetched)
  <2>1. regs' = [regs EXCEPT ![Fetched.rd] = value] /\ error' = error
    BY <1>2, <1>4 DEF Writeback
  <2>2. error = (error \/ Machine!Denied(Fetched))
    BY <1>1, <1>3, <1>4, Zenon
  <2> QED BY <1>4, <2>1, <2>2, Zenon
<1>5. CASE ~Machine!Owned(Fetched)
  <2>1. regs' = regs /\ error' = (error \/ Fetched.rd # 0)
    BY <1>2, <1>5 DEF Writeback
  <2>2. (error \/ Fetched.rd # 0) = (error \/ Machine!Denied(Fetched))
    BY <1>1, <1>3, <1>5, Zenon
  <2> QED BY <1>5, <2>1, <2>2, Zenon
<1> QED BY <1>4, <1>5

\* Both go on at the same address.
LEMMA SameTarget ==
  ASSUME TypeOK
  PROVE  /\ Fetched.opcode \notin {JAL, JALR, BRANCH} => Machine!Target(Fetched) = Wrap(pc + 4)
         /\ Fetched.opcode = JAL => Machine!Target(Fetched) = Wrap(pc + Fetched.imm)
         /\ Fetched.opcode = JALR => Machine!Target(Fetched) = JalrTarget(Fetched)
         /\ Fetched.opcode = BRANCH /\ Fetched.funct3 \in {0, 1, 4, 5} =>
              Machine!Target(Fetched)
                = IF BranchTaken(Fetched.funct3, regs[Fetched.rs1], regs[Fetched.rs2])
                  THEN Wrap(pc + Fetched.imm) ELSE Wrap(pc + 4)
<1>1. JAL # JALR /\ JAL # BRANCH /\ JALR # BRANCH
  BY DEF JAL, JALR, BRANCH
<1>2. JalrTarget(Fetched) = Wrap(2 * (Wrap(regs[Fetched.rs1] + Fetched.imm) \div 2))
  <2> DEFINE t == Wrap(regs[Fetched.rs1] + Fetched.imm)
  <2>1. t \in Word /\ t \in Nat
    <3>1. regs[Fetched.rs1] + Fetched.imm \in Int
      BY FetchedInInstruction, WordModFacts DEF TypeOK, Decoded, Word
    <3> QED BY <3>1, WrapInWord, WordModFacts DEF Word
  <2> HIDE DEF t
  <2>2. t - (t % 2) = 2 * (t \div 2)
    BY <2>1
  <2>3. 2 * (t \div 2) \in 0 .. WordMod - 1
    BY <2>1, <2>2, WordModFacts DEF Word
  <2>4. Wrap(2 * (t \div 2)) = 2 * (t \div 2)
    <3>1. \A m \in Nat \ {0}, n \in Nat : n \in 0 .. m - 1 => n % m = n
      OBVIOUS
    <3> QED BY <2>3, <3>1, WordModFacts DEF Wrap
  <2> QED BY <2>2, <2>4 DEF JalrTarget, t
<1>3. Fetched.funct3 \in {0, 1, 4, 5} =>
        (Machine!Compare(Fetched)
           <=> BranchTaken(Fetched.funct3, regs[Fetched.rs1], regs[Fetched.rs2]))
  <2>1. CASE Fetched.funct3 = 0
    BY <2>1 DEF Machine!Compare, BranchTaken
  <2>2. CASE Fetched.funct3 = 1
    BY <2>2 DEF Machine!Compare, BranchTaken
  <2>3. CASE Fetched.funct3 = 4
    BY <2>3, SameWords DEF Machine!Compare, BranchTaken
  <2>4. CASE Fetched.funct3 = 5
    BY <2>4, SameWords DEF Machine!Compare, BranchTaken
  <2> QED BY <2>1, <2>2, <2>3, <2>4
<1> QED BY <1>1, <1>2, <1>3, SameOpcodes, SameWords DEF Machine!Target
------------------------------------------------------------------------------
\* The condition under which the machine executes an instruction.
LEMMA Executes ==
  ASSUME TypeOK, Looping, InProgram, pc % 4 = 0
  PROVE  /\ Machine!Running /\ pc < 4 * Len(IsaText) /\ Fetched = Machine!Current
         /\ Supported(Fetched) => Machine!Executing
<1>1. Machine!Running /\ pc < 4 * Len(IsaText)
  BY TextLength DEF Looping, Machine!Running
<1>2. Fetched = Machine!Current
  BY <1>1, SameInstruction
<1> QED BY <1>1, <1>2, SameKnown DEF Machine!Executing

\* An instruction that writes a register, or might, is a computation.
LEMMA ComputeRefined ==
  ASSUME TypeOK, Looping, InProgram, pc % 4 = 0, Supported(Fetched),
         Fetched.opcode \notin {STORE, BRANCH},
         NEW value \in Machine!Values(Fetched) \ {Trap}, NEW context,
         Writeback(Fetched.rd, value, context),
         context = IF Fetched.opcode \in {JAL, JALR} THEN Fetched.opcode ELSE 0,
         Retire(Machine!Target(Fetched)), UNCHANGED memory
  PROVE  Machine!Compute
<1>1. Machine!Executing /\ Fetched = Machine!Current
  BY Executes
<1>2. UNCHANGED <<IsaText, IsaData, halted, result>>
  BY Frozen DEF Retire
<1>3. Machine!Current.opcode \notin {Machine!STORE, Machine!BRANCH}
  BY <1>1, SameOpcodes
<1>4. \E v \in Machine!Values(Machine!Current) \ {Trap} :
        regs' = IF Machine!Owned(Machine!Current)
                THEN [regs EXCEPT ![Machine!Current.rd] = v] ELSE regs
  BY <1>1, SameWriteback
<1>5. error' = (error \/ Machine!Denied(Machine!Current))
  BY <1>1, SameWriteback
<1>6. pc' = Machine!Target(Machine!Current) /\ executed' = executed + 1
  BY <1>1 DEF Retire
<1> HIDE DEF Machine!Current, Machine!Executing
<1> QED BY <1>1, <1>2, <1>3, <1>4, <1>5, <1>6 DEF Machine!Compute

\* The values that the machine has for an instruction.
LEMMA ValuesByOpcode ==
  /\ Fetched.opcode = OP => Machine!Values(Fetched)
       = UNION {Alu(op, regs[Fetched.rs1], regs[Fetched.rs2]) :
                  op \in Machine!Operations(Fetched)}
  /\ Fetched.opcode = OP_IMM => Machine!Values(Fetched) = {Wrap(regs[Fetched.rs1] + Fetched.imm)}
  /\ Fetched.opcode = LUI => Machine!Values(Fetched) = {Wrap(Fetched.imm)}
  /\ Fetched.opcode = AUIPC => Machine!Values(Fetched) = {Wrap(pc + Fetched.imm)}
<1>1. /\ OP # OP_IMM /\ OP # LUI /\ OP # AUIPC /\ OP # LOAD /\ OP_IMM # LUI /\ OP_IMM # AUIPC
      /\ OP_IMM # LOAD /\ LUI # AUIPC /\ LUI # LOAD /\ AUIPC # LOAD
  BY DEF OP, OP_IMM, LUI, AUIPC, LOAD
<1>2. CASE Fetched.opcode = OP
  BY <1>1, <1>2, SameOpcodes, Zenon DEF Machine!Values
<1>3. CASE Fetched.opcode = OP_IMM
  BY <1>1, <1>3, SameOpcodes, SameWords, Zenon DEF Machine!Values
<1>4. CASE Fetched.opcode = LUI
  BY <1>1, <1>4, SameOpcodes, SameWords, Zenon DEF Machine!Values
<1>5. CASE Fetched.opcode = AUIPC
  BY <1>1, <1>5, SameOpcodes, SameWords, Zenon DEF Machine!Values
<1> QED BY <1>2, <1>3, <1>4, <1>5, Zenon

\* What an operation may compute is among the values of the machine.
LEMMA OperationValues ==
  ASSUME Fetched.opcode = OP, NEW o \in RtypeOperations,
         o[1] = Fetched.funct3, o[2] = Fetched.funct7,
         NEW value \in Alu(o[3], regs[Fetched.rs1], regs[Fetched.rs2])
  PROVE  value \in Machine!Values(Fetched)
<1>1. o[3] \in Machine!Operations(Fetched)
  BY SameOpcodes DEF Machine!Operations
<1>2. value \in UNION {Alu(op, regs[Fetched.rs1], regs[Fetched.rs2]) :
                         op \in Machine!Operations(Fetched)}
  BY <1>1, Zenon
<1> QED BY <1>2, ValuesByOpcode, Zenon

\* An R-format operation is one of the abstract machine.
LEMMA RtypeRefined ==
  ASSUME TypeOK, pc % 4 = 0, RtypeStep PROVE Machine!Compute
<1>1. Stepping(OP) /\ Retire(Wrap(pc + 4)) /\ UNCHANGED memory
  BY DEF RtypeStep
<1>2. PICK o \in RtypeOperations :
        /\ o[1] = Fetched.funct3 /\ o[2] = Fetched.funct7
        /\ \E value \in Alu(o[3], regs[Fetched.rs1], regs[Fetched.rs2]) \ {Trap} :
             Writeback(Fetched.rd, value, 0)
  BY DEF RtypeStep
<1>3. PICK value \in Alu(o[3], regs[Fetched.rs1], regs[Fetched.rs2]) \ {Trap} :
        Writeback(Fetched.rd, value, 0)
  BY <1>2
<1>4. Supported(Fetched) /\ Fetched.opcode = OP /\ Looping /\ InProgram
  BY <1>1, <1>2 DEF Supported, Stepping
<1>5. value \in Machine!Values(Fetched) \ {Trap}
  BY <1>2, <1>4, OperationValues
<1>6. OP \notin {STORE, BRANCH, JAL, JALR}
  BY DEF OP, STORE, BRANCH, JAL, JALR
<1> QED BY <1>1, <1>3, <1>4, <1>5, <1>6, SameTarget, ComputeRefined

\* A division that kills the process kills the abstract machine.
LEMMA FaultRefined ==
  ASSUME TypeOK, pc % 4 = 0, TrapStep PROVE Machine!Fault
<1>1. /\ Stepping(OP) /\ result' = "killed"
      /\ UNCHANGED <<program, memory, regs, pc, executed, halted, error>>
  BY DEF TrapStep
<1>2. PICK o \in RtypeOperations :
        /\ o[1] = Fetched.funct3 /\ o[2] = Fetched.funct7
        /\ Trap \in Alu(o[3], regs[Fetched.rs1], regs[Fetched.rs2])
  BY DEF TrapStep
<1>3. Supported(Fetched) /\ Fetched.opcode = OP /\ Looping /\ InProgram
  BY <1>1, <1>2 DEF Supported, Stepping
<1>4. Trap \in Machine!Values(Fetched)
  BY <1>2, <1>3, OperationValues
<1>5. Machine!Executing /\ Fetched = Machine!Current
  BY <1>3, Executes
<1>6. UNCHANGED <<IsaText, IsaData>>
  BY <1>1, Frozen
<1> QED BY <1>1, <1>4, <1>5, <1>6 DEF Machine!Fault

\* The offset from which both compute where a load or a store goes.
LEMMA SameOffset ==
  ASSUME TypeOK
  PROVE  /\ regs[Fetched.rs1] + Fetched.imm \in Int
         /\ Machine!Place(Fetched) = Signed(Wrap(regs[Fetched.rs1] + Fetched.imm))
         /\ EffectiveAddress(Fetched) = Wrap(program_end + (regs[Fetched.rs1] + Fetched.imm))
<1>1. regs[Fetched.rs1] \in Int /\ Fetched.imm \in Int /\ program_end \in Int
  BY FetchedInInstruction, ProgramEnd, WordModFacts DEF TypeOK, Decoded, Word
<1>2. program_end + regs[Fetched.rs1] + Fetched.imm
        = program_end + (regs[Fetched.rs1] + Fetched.imm)
  BY <1>1
<1> QED BY <1>1, <1>2, SameWords DEF Machine!Place, EffectiveAddress

\* What a load returns: the word of the data, and any word where the program
\* breaks the contract.
LEMMA LoadRefined ==
  ASSUME TypeOK, pc % 4 = 0, LoadStep PROVE Machine!Compute
<1> DEFINE value == memory_read32(memory, EffectiveAddress(Fetched))
           offset == regs[Fetched.rs1] + Fetched.imm
<1>1. /\ Stepping(LOAD) /\ Fetched.funct3 = 2 /\ Writeback(Fetched.rd, value, 0)
      /\ Retire(Wrap(pc + 4)) /\ UNCHANGED memory
  BY DEF LoadStep
<1>2. Supported(Fetched) /\ Fetched.opcode = LOAD /\ Looping /\ InProgram
  BY <1>1 DEF Supported, Stepping
<1>3. value \in Word
  BY MemoryHasSize, EffectiveAddressInWord, ReadInWord
<1>4. /\ offset \in Int /\ Machine!Place(Fetched) = Signed(Wrap(offset))
      /\ EffectiveAddress(Fetched) = Wrap(program_end + offset)
  BY SameOffset
<1>5. Signed(Wrap(offset)) >= 0 => value = memory_read32(IsaData, Signed(Wrap(offset)))
  <2> HIDE DEF offset
  <2> SUFFICES ASSUME Signed(Wrap(offset)) >= 0
               PROVE  value = memory_read32(IsaData, Signed(Wrap(offset)))
    OBVIOUS
  <2>1. Signed(Wrap(offset)) \in Nat
    BY <1>4, SamePlace, WordModFacts DEF Word
  <2> QED BY <1>4, <2>1, SamePlace, SameRead
<1> HIDE DEF value, offset
<1>6. LOAD \notin {OP, OP_IMM, LUI, AUIPC, STORE, BRANCH, JAL, JALR}
  BY DEF LOAD, OP, OP_IMM, LUI, AUIPC, STORE, BRANCH, JAL, JALR
<1>7. value \in Machine!Values(Fetched) \ {Trap}
  BY <1>2, <1>3, <1>4, <1>5, <1>6, SameOpcodes, SameWords, SameMemories, TrapAssumption
     DEF Machine!Values, Machine!InData
<1> QED BY <1>1, <1>2, <1>6, <1>7, SameTarget, ComputeRefined

\* A store that keeps to the contract writes the data, and not the text.
LEMMA StoreRefined ==
  ASSUME TypeOK, pc % 4 = 0, StoreStep PROVE Machine!Store
<1> DEFINE offset == regs[Fetched.rs1] + Fetched.imm
<1>1. /\ Stepping(STORE) /\ Fetched.funct3 = 2
      /\ memory' = memory_write32(memory, EffectiveAddress(Fetched), regs[Fetched.rs2])
      /\ Retire(Wrap(pc + 4)) /\ UNCHANGED <<regs, error>>
  BY DEF StoreStep
<1>2. Supported(Fetched) /\ Fetched.opcode = STORE /\ Looping /\ InProgram
  BY <1>1 DEF Supported, Stepping
<1>3. Machine!Executing /\ Fetched = Machine!Current
  BY <1>2, Executes
<1>4. /\ offset \in Int /\ Machine!Place(Fetched) = Signed(Wrap(offset))
      /\ EffectiveAddress(Fetched) = Wrap(program_end + offset)
  BY SameOffset
<1>5. regs[Fetched.rs2] \in Word /\ UNCHANGED program
  BY <1>1, FetchedInInstruction DEF TypeOK, Decoded, Retire
<1> HIDE DEF offset
<1>6. ASSUME Signed(Wrap(offset)) >= 0
      PROVE  /\ IsaData' = memory_write32(IsaData, Signed(Wrap(offset)), regs[Fetched.rs2])
             /\ UNCHANGED IsaText
  <2>1. PICK place \in Nat : place = Signed(Wrap(offset))
    BY <1>4, <1>6, SamePlace, WordModFacts DEF Word
  <2>2. /\ program_end + place \in Word
        /\ memory' = memory_write32(memory, program_end + place, regs[Fetched.rs2])
    BY <1>1, <1>4, <1>6, <2>1, SamePlace
  <2>3. program_end <= program_end + place
    BY <2>1, ProgramEnd
  <2>4. IsaData' = memory_write32(IsaData, place, regs[Fetched.rs2])
    BY <1>5, <2>2, SameWrite
  <2>5. UNCHANGED IsaText
    BY <1>5, <2>2, <2>3, TextKept
  <2> QED BY <2>1, <2>4, <2>5
<1>7. Machine!InData(Fetched) =>
        /\ IsaData' = Machine!memory_write32(IsaData, Machine!Place(Fetched), regs[Fetched.rs2])
        /\ UNCHANGED IsaText
  BY <1>4, <1>6, SameMemories DEF Machine!InData
<1>8. pc' = Machine!Target(Fetched) /\ executed' = executed + 1 /\ UNCHANGED <<halted, result>>
  <2>1. STORE \notin {JAL, JALR, BRANCH}
    BY DEF STORE, JAL, JALR, BRANCH
  <2> QED BY <1>1, <1>2, <2>1, SameTarget DEF Retire
<1>9. Fetched.opcode = Machine!STORE
  BY <1>2, SameOpcodes
<1> HIDE DEF Machine!Executing, Machine!Current
<1> QED BY <1>1, <1>3, <1>7, <1>8, <1>9 DEF Machine!Store

\* An operation on an immediate is one of the abstract machine.
LEMMA ImmediateRefined ==
  ASSUME TypeOK, pc % 4 = 0, OpImmStep \/ UtypeStep PROVE Machine!Compute
<1>1. PICK value \in Word :
        /\ Writeback(Fetched.rd, value, 0)
        /\ \/ Stepping(OP_IMM) /\ Fetched.funct3 = 0
              /\ value = Wrap(regs[Fetched.rs1] + Fetched.imm)
           \/ Stepping(LUI) /\ value = Wrap(Fetched.imm)
           \/ Stepping(AUIPC) /\ value = Wrap(pc + Fetched.imm)
  <2>1. /\ Wrap(regs[Fetched.rs1] + Fetched.imm) \in Word /\ Wrap(Fetched.imm) \in Word
        /\ Wrap(pc + Fetched.imm) \in Word
    BY SameOffset, TargetsInWord, FetchedInInstruction, WrapInWord DEF Decoded
  <2> QED BY <2>1 DEF OpImmStep, UtypeStep
<1>2. Retire(Wrap(pc + 4)) /\ UNCHANGED memory
  BY DEF OpImmStep, UtypeStep
<1>3. /\ Supported(Fetched) /\ Looping /\ InProgram /\ Fetched.opcode \in {OP_IMM, LUI, AUIPC}
      /\ value = CASE Fetched.opcode = OP_IMM -> Wrap(regs[Fetched.rs1] + Fetched.imm)
                   [] Fetched.opcode = LUI    -> Wrap(Fetched.imm)
                   [] Fetched.opcode = AUIPC  -> Wrap(pc + Fetched.imm)
  BY <1>1 DEF Supported, Stepping, OP_IMM, LUI, AUIPC
<1>4. /\ {OP_IMM, LUI, AUIPC} \cap {OP, STORE, BRANCH, JAL, JALR} = {}
      /\ OP_IMM # LUI /\ OP_IMM # AUIPC /\ LUI # AUIPC
  BY DEF OP_IMM, LUI, AUIPC, OP, STORE, BRANCH, JAL, JALR
<1>5. value \in Machine!Values(Fetched) \ {Trap}
  BY <1>3, <1>4, ValuesByOpcode, TrapAssumption
<1> QED BY <1>1, <1>2, <1>3, <1>4, <1>5, SameTarget, ComputeRefined

\* A jump is one of the abstract machine.
LEMMA JumpRefined ==
  ASSUME TypeOK, pc % 4 = 0, JalStep \/ JalrStep PROVE Machine!Compute
<1> DEFINE value == Wrap(pc + 4)
<1>1. /\ \/ Stepping(JAL) /\ Retire(Wrap(pc + Fetched.imm))
         \/ Stepping(JALR) /\ Fetched.funct3 = 0 /\ Retire(JalrTarget(Fetched))
      /\ Writeback(Fetched.rd, value, Fetched.opcode) /\ UNCHANGED memory
  BY DEF JalStep, JalrStep, Stepping
<1>2. /\ Supported(Fetched) /\ Looping /\ InProgram /\ Fetched.opcode \in {JAL, JALR}
      /\ Retire(Machine!Target(Fetched))
  BY <1>1, SameTarget DEF Supported, Stepping
<1>3. JAL \notin {OP, OP_IMM, LUI, AUIPC, LOAD, STORE, BRANCH}
      /\ JALR \notin {OP, OP_IMM, LUI, AUIPC, LOAD, STORE, BRANCH}
  BY DEF OP_IMM, LUI, AUIPC, OP, LOAD, STORE, BRANCH, JAL, JALR
<1>4. value \in Word
  BY TargetsInWord
<1> HIDE DEF value
<1>5. value \in Machine!Values(Fetched) \ {Trap}
  BY <1>2, <1>3, <1>4, SameOpcodes, SameWords, TrapAssumption DEF Machine!Values, value
<1> QED BY <1>1, <1>2, <1>3, <1>5, ComputeRefined

\* A branch is one of the abstract machine.
LEMMA BranchRefined ==
  ASSUME TypeOK, pc % 4 = 0, BranchStep PROVE Machine!Branch
<1>1. /\ Stepping(BRANCH) /\ Fetched.funct3 \in {0, 1, 4, 5}
      /\ Retire(IF BranchTaken(Fetched.funct3, regs[Fetched.rs1], regs[Fetched.rs2])
                THEN Wrap(pc + Fetched.imm) ELSE Wrap(pc + 4))
      /\ UNCHANGED <<memory, regs, error>>
  BY DEF BranchStep
<1>2. /\ Supported(Fetched) /\ Looping /\ InProgram /\ Fetched.opcode = BRANCH
      /\ Retire(Machine!Target(Fetched))
  BY <1>1, SameTarget DEF Supported, Stepping
<1>3. Machine!Executing /\ Fetched = Machine!Current
  BY <1>2, Executes
<1>4. UNCHANGED <<IsaText, IsaData>>
  BY <1>1, <1>2, Frozen DEF Retire
<1> HIDE DEF Machine!Executing, Machine!Current
<1> QED BY <1>1, <1>2, <1>3, <1>4, SameOpcodes DEF Machine!Branch, Retire

\* A word without meaning stops both machines.
LEMMA RejectRefined ==
  ASSUME TypeOK, pc % 4 = 0, UnsupportedStep PROVE Machine!Reject
<1>1. /\ Looping /\ InProgram /\ ~Supported(Fetched)
      /\ pc' = Wrap(pc + 4) /\ error' = TRUE /\ result' = "failed"
      /\ UNCHANGED <<program, memory, regs, executed, halted>>
  BY DEF UnsupportedStep
<1>2. Machine!Running /\ pc < 4 * Len(IsaText) /\ Fetched = Machine!Current
  BY <1>1, Executes
<1>3. ~Machine!Known(Fetched)
  BY <1>1, SameKnown
<1>4. UNCHANGED <<IsaText, IsaData>>
  BY <1>1, Frozen
<1> HIDE DEF Machine!Running, Machine!Current
<1> QED BY <1>1, <1>2, <1>3, <1>4, SameWords DEF Machine!Reject

\* Between two instructions anything may be fetched, but the count, the error
\* and the end of the run remain what they are.
LEMMA TornRefined ==
  ASSUME TypeOK, Next, Looping, InProgram, pc % 4 # 0
  PROVE  Machine!Torn
<1>1. Machine!Running /\ pc < 4 * Len(IsaText)
  BY TextLength DEF Looping, Machine!Running
<1>2. UNCHANGED halted /\ executed' \in {executed, executed + 1}
  <2>1. CASE TrapStep \/ UnsupportedStep
    BY <2>1 DEF TrapStep, UnsupportedStep
  <2>2. CASE HaltStep \/ RunReturns \/ UNCHANGED vars
    BY <2>2, MaxInstructionsAssumption DEF HaltStep, RunReturns, vars, Looping, TypeOK
  <2>3. CASE \E next : Retire(next)
    BY <2>3 DEF Retire
  <2> QED BY <2>1, <2>2, <2>3, StepKinds
<1>3. error => error'
  BY DEF TypeOK, Next, HaltStep, RtypeStep, TrapStep, LoadStep, StoreStep, OpImmStep,
       UtypeStep, BranchStep, JalStep, JalrStep, UnsupportedStep, RunReturns, Finished,
       Writeback, vars
<1> HIDE DEF Machine!Running
<1> QED BY <1>1, <1>2, <1>3 DEF Machine!Torn

\* Leaving the text halts both machines.
LEMMA LeaveRefined ==
  ASSUME TypeOK, OversizedProgramNeverRuns, HaltStep PROVE Machine!Leave
<1>1. /\ Looping /\ ~InProgram /\ halted' = TRUE
      /\ UNCHANGED <<program, memory, regs, pc, executed, error, result>>
  BY DEF HaltStep
<1>2. Machine!Running /\ pc >= 4 * Len(IsaText)
  <2>1. pc \in Nat /\ Len(IsaText) \in Nat
    BY TextTyped, WordModFacts DEF TypeOK, Word
  <2> QED BY <1>1, <2>1, SameEnd DEF Looping, Machine!Running
<1>3. UNCHANGED <<IsaText, IsaData>>
  BY <1>1, Frozen
<1> QED BY <1>1, <1>2, <1>3 DEF Machine!Leave

\* Both machines return the same result.
LEMMA ReturnRefined == ASSUME TypeOK, RunReturns PROVE Machine!Return
<1>1. UNCHANGED <<IsaText, IsaData>>
  BY Frozen DEF RunReturns
<1>2. ~Machine!Running
  BY MaxInstructionsAssumption DEF RunReturns, Machine!Running, TypeOK
<1> QED BY <1>1, <1>2 DEF RunReturns, Machine!Return
------------------------------------------------------------------------------
\* The loaded memory is the text and data of the abstract machine.
LEMMA InitRefined == ASSUME Init, TypeOK PROVE Machine!Init
<1>1. IsaText \in Seq(Word)
  BY TextTyped
<1>2. \E size \in 0 .. WordMod : IsaData \in MemoryOf(size)
  BY DataTyped
<1>3. regs \in [0 .. RegNumber - 1 -> Word] /\ \A r \in 1 .. RegNumber - 1 : regs[r] = 0
  <2>1. regs \in [Register -> Word]
    BY DEF TypeOK
  <2>2. \A r \in 1 .. RegNumber - 1 : regs[r] = 0
    BY RegNumberAssumption DEF Init, Register
  <2> QED BY <2>1, <2>2 DEF Register
<1>4. pc = 0 /\ executed = 0 /\ ~halted /\ ~error /\ result = "running"
  BY DEF Init
<1> QED BY <1>1, <1>2, <1>3, <1>4, SameWords, SameMemories DEF Machine!Init

\* Every kind of step is one of the abstract machine, or a stutter.
LEMMA NextRefined ==
  TypeOK /\ OversizedProgramNeverRuns /\ [Next]_vars => [Machine!Next]_(Machine!vars)
<1> SUFFICES ASSUME TypeOK, OversizedProgramNeverRuns, [Next]_vars
             PROVE  [Machine!Next]_(Machine!vars)
  OBVIOUS
<1>1. CASE UNCHANGED vars \/ Finished
  BY <1>1, Frozen DEF vars, Finished, Machine!vars
<1>2. CASE HaltStep
  BY <1>2, LeaveRefined DEF Machine!Next
<1>3. CASE RunReturns
  BY <1>3, ReturnRefined DEF Machine!Next
<1>4. CASE /\ pc % 4 # 0
           /\ \/ RtypeStep \/ TrapStep \/ LoadStep \/ StoreStep \/ OpImmStep \/ UtypeStep
              \/ BranchStep \/ JalStep \/ JalrStep \/ UnsupportedStep
  <2>1. Looping /\ InProgram
    BY <1>4 DEF RtypeStep, TrapStep, LoadStep, StoreStep, OpImmStep, UtypeStep, BranchStep,
                JalStep, JalrStep, UnsupportedStep, Stepping
  <2> QED BY <1>4, <2>1, TornRefined DEF Next, Machine!Next
<1>5. CASE pc % 4 = 0 /\ (RtypeStep \/ LoadStep \/ OpImmStep \/ UtypeStep \/ JalStep \/ JalrStep)
  BY <1>5, RtypeRefined, LoadRefined, ImmediateRefined, JumpRefined DEF Machine!Next
<1>6. CASE pc % 4 = 0 /\ (TrapStep \/ StoreStep \/ BranchStep \/ UnsupportedStep)
  BY <1>6, FaultRefined, StoreRefined, BranchRefined, RejectRefined DEF Machine!Next
<1> QED BY <1>1, <1>2, <1>3, <1>4, <1>5, <1>6 DEF Next

\* Every run of the processor is a run of the machine with data of its own:
\* whatever the size of the memory and the length of the program, the text is
\* hidden from the data addresses, and a program that is larger than the memory
\* is a text of instructions that are not known.
THEOREM ImplementsIsaMachine == Spec => ActsAsIsaMachine
<1>1. Init => Machine!Init
  BY InitTyped, InitRefined
<1> QED
  BY <1>1, NextRefined, TypeCorrect, OversizedProgramsFail, PTL
  DEF Spec, ActsAsIsaMachine, Machine!Spec
------------------------------------------------------------------------------
(* Why cpu_run returns.  That it does, if the thread is scheduled, is Terminates; *)
(* what bounds the number of its steps is a safety property.                      *)

\* How many more steps cpu_run takes at most: the instructions left, the last of
\* which may be the iteration that halts, and the return.
StepsLeft ==
  CASE result # "running" -> 0
    [] result = "running" /\ halted -> 1
    [] OTHER -> MaxInstructions - executed + 1

\* Each step of cpu_run but those after its end brings the end closer: every
\* iteration of the loop is counted, halts or returns, whatever was executed.
THEOREM RunsAreBounded ==
  Spec => /\ [](StepsLeft \in 0 .. MaxInstructions + 1)
          /\ [][StepsLeft' < StepsLeft]_vars
<1>m. MaxInstructions \in Nat
  BY MaxInstructionsAssumption
<1>1. TypeOK => StepsLeft \in 0 .. MaxInstructions + 1
  BY <1>m, SMT DEF TypeOK, StepsLeft
<1>2. ASSUME TypeOK, [Next]_vars, vars' # vars
      PROVE  StepsLeft' < StepsLeft
  <2>0. executed \in 0 .. MaxInstructions /\ halted \in BOOLEAN
    BY <1>2 DEF TypeOK
  <2>1. CASE HaltStep
    BY <2>0, <2>1, <1>m DEF HaltStep, Looping, StepsLeft
  <2>2. CASE TrapStep
    BY <2>0, <2>2, <1>m DEF TrapStep, Stepping, Looping, StepsLeft
  <2>3. CASE UnsupportedStep
    BY <2>0, <2>3, <1>m DEF UnsupportedStep, Looping, StepsLeft
  <2>4. CASE RunReturns
    BY <2>0, <2>4, <1>m DEF RunReturns, StepsLeft
  <2>5. ASSUME Looping, NEW next, Retire(next) PROVE StepsLeft' < StepsLeft
    BY <2>0, <2>5, <1>m DEF Looping, Retire, StepsLeft
  <2> QED BY <1>2, <2>1, <2>2, <2>3, <2>4, <2>5, StepKinds
<1>3. TypeOK /\ [Next]_vars => [StepsLeft' < StepsLeft]_vars
  BY <1>2
<1> QED BY <1>1, <1>3, TypeCorrect, PTL DEF Spec
================================================================================
