---------------------------------- MODULE Cpu ----------------------------------
(***************************************************************************)
(* cpu.c: the processor, from the loaded memory image to the value that    *)
(* cpu_run returns.  One action per kind of instruction is one whole       *)
(* cpu_step: fetch, increment of pc, decode, execute, write-back, count.   *)
(* Programs are sequences of encoded words.  How a word is laid out is the *)
(* business of InstructionFormat, and what alu_execute computes that of    *)
(* Alu: here both are parameters.                                          *)
(***************************************************************************)
EXTENDS Memory, Opcodes

CONSTANTS
  RegNumber,           \* REG_NUMBER, how many registers there are
  MaxInstructions,     \* the limit in cpu_run's loop, 1000 in the code
  Programs,            \* the encoded programs that may be run
  DataSections,        \* the .data sections, sequences of words
  MemorySizes,         \* the sizes memory_init may return, 0 if it failed
  UninitializedWords,  \* what the stack may hold where no one has written
  Fields(_),           \* the fields of an encoded word
  Alu(_, _, _),        \* the outcomes of alu_execute
  Trap                 \* the outcome that kills the process

Register == 0 .. RegNumber - 1

Decoded == [opcode : 0 .. 127, funct3 : 0 .. 7, funct7 : 0 .. 127,
            rd : Register, rs1 : Register, rs2 : Register, imm : Int]

ASSUME RegNumberAssumption == RegNumber \in Nat /\ RegNumber >= 2

ASSUME MaxInstructionsAssumption == MaxInstructions \in Nat \ {0}

\* MAX_INSTRUCTIONS keeps a program far below the 2^31 bytes that an int32_t
\* can count.
ASSUME ProgramsAssumption ==
  \A p \in Programs : p \in Seq(Word) /\ 4 * Len(p) + 4 <= WordMod \div 2

ASSUME DataSectionsAssumption == DataSections \subseteq Seq(Word)

ASSUME MemorySizesAssumption == MemorySizes \subseteq 0 .. WordMod

ASSUME UninitializedAssumption == UninitializedWords \subseteq Word

\* A word is always some fields; branch and jump offsets have no bit 0; and
\* the opcode of the word 0 is 0, which is no instruction.
ASSUME FieldsAssumption ==
  /\ \A w \in Word : /\ Fields(w) \in Decoded
                     /\ Fields(w).opcode \in {BRANCH, JAL} => Fields(w).imm % 2 = 0
  /\ Fields(0).opcode = 0

\* alu_execute has an outcome, and it is an int32_t unless the process dies.
ASSUME AluAssumption ==
  \A o \in RtypeOperations, a, b \in Word :
    Alu(o[3], a, b) # {} /\ Alu(o[3], a, b) \subseteq Word \cup {Trap}

\* A process that dies has computed nothing.
ASSUME TrapAssumption == Trap \notin Word

VARIABLES
  program,   \* the encoded program; never changes
  memory,    \* struct Memory
  regs,      \* cpu->regs
  pc,        \* cpu->pc
  executed,  \* cpu->instructions_executed
  halted,    \* cpu->halted
  error,     \* cpu->error
  result     \* "running", what cpu_run returned ("ok" 0, "failed" -1), or "killed"

vars == <<program, memory, regs, pc, executed, halted, error, result>>

\* instruction_count * 4: the end of the text, and where the data begins.
program_end == 4 * Len(program)

(***************************************************************************)
(* main.c, steps 2 to 5: main ignores that loading failed, and             *)
(* cpu_init clears every register but x0, which keeps what was there.      *)
(***************************************************************************)
Init ==
  /\ program \in Programs
  /\ \E size \in MemorySizes, data \in DataSections :
       memory = load_data_into_memory(
                  load_program_into_memory(memory_init(size), program, 0),
                  data, program_end)
  /\ \E x0 \in UninitializedWords :
       regs = [r \in Register |-> IF r = 0 THEN x0 ELSE 0]
  /\ pc = 0
  /\ executed = 0
  /\ halted = FALSE
  /\ error = FALSE
  /\ result = "running"
------------------------------------------------------------------------------
\* Mutation of Looping: <= for < in the loop of cpu_run.
LoopingOnceMore == result = "running" /\ ~halted /\ executed <= MaxInstructions

\* The loop of cpu_run goes on, and cpu_step is not at an end of the program.
Looping == result = "running" /\ ~halted /\ executed < MaxInstructions
InProgram == pc < program_end /\ pc < memory.size

\* cpu_fetch, and the fields the decoders take from the word.
Fetched == Fields(memory_read32(memory, pc))

Stepping(opcode) == Looping /\ InProgram /\ Fetched.opcode = opcode

\* Mutation of Retire: the instruction is not counted.
RetireUncounted(next) ==
  /\ pc' = next
  /\ UNCHANGED <<program, executed, halted, result>>

\* cpu_step after a successful cpu_execute that left pc at next.
Retire(next) ==
  /\ pc' = next
  /\ executed' = executed + 1
  /\ UNCHANGED <<program, halted, result>>

\* Mutation of CanWrite: ra is a register like the others.
CanWriteAny(rd, context) == rd # 0

\* cpu_can_write_register; the context is the opcode of the instruction
\* where cpu_writeback_with_context passes it, and 0 where it is NULL.
CanWrite(rd, context) == rd # 0 /\ (rd = 1 => context \in {JAL, JALR})

\* Mutation of Writeback: error is what became of the last write-back.
WritebackForgets(rd, value, context) ==
  /\ error' = (~CanWrite(rd, context) /\ rd # 0)
  /\ regs' = IF CanWrite(rd, context) THEN [regs EXCEPT ![rd] = value] ELSE regs

\* A write to x0 is ignored; any other denied write records an error, and
\* the instruction still succeeds.
Writeback(rd, value, context) ==
  \/ /\ CanWrite(rd, context)
     /\ regs' = [regs EXCEPT ![rd] = value]
     /\ UNCHANGED error
  \/ /\ ~CanWrite(rd, context)
     /\ error' = (error \/ rd # 0)
     /\ UNCHANGED regs

\* Mutation of EffectiveAddress: data_offset is not added.
EffectiveAddressAbsolute(i) == Wrap(regs[i.rs1] + i.imm)

\* Loads and stores address the data section: offset 0 is its first byte.
EffectiveAddress(i) == Wrap(program_end + regs[i.rs1] + i.imm)
------------------------------------------------------------------------------
\* cpu_step: pc has left the text (or the memory).
HaltStep ==
  /\ Looping
  /\ ~InProgram
  /\ halted' = TRUE
  /\ UNCHANGED <<program, memory, regs, pc, executed, error, result>>

RtypeStep ==
  /\ Stepping(OP)
  /\ \E o \in RtypeOperations :
       /\ o[1] = Fetched.funct3 /\ o[2] = Fetched.funct7
       /\ \E value \in Alu(o[3], regs[Fetched.rs1], regs[Fetched.rs2]) \ {Trap} :
            Writeback(Fetched.rd, value, 0)
  /\ Retire(Wrap(pc + 4))
  /\ UNCHANGED memory

\* The division raises SIGFPE.
TrapStep ==
  /\ Stepping(OP)
  /\ \E o \in RtypeOperations :
       /\ o[1] = Fetched.funct3 /\ o[2] = Fetched.funct7
       /\ Trap \in Alu(o[3], regs[Fetched.rs1], regs[Fetched.rs2])
  /\ result' = "killed"
  /\ UNCHANGED <<program, memory, regs, pc, executed, halted, error>>

LoadStep ==
  /\ Stepping(LOAD)
  /\ Fetched.funct3 = 2
  /\ Writeback(Fetched.rd, memory_read32(memory, EffectiveAddress(Fetched)), 0)
  /\ Retire(Wrap(pc + 4))
  /\ UNCHANGED memory

StoreStep ==
  /\ Stepping(STORE)
  /\ Fetched.funct3 = 2
  /\ memory' = memory_write32(memory, EffectiveAddress(Fetched), regs[Fetched.rs2])
  /\ Retire(Wrap(pc + 4))
  /\ UNCHANGED <<regs, error>>

\* addi, and li, which is encoded as addi rd, x0, imm.
OpImmStep ==
  /\ Stepping(OP_IMM)
  /\ Fetched.funct3 = 0
  /\ Writeback(Fetched.rd, Wrap(regs[Fetched.rs1] + Fetched.imm), 0)
  /\ Retire(Wrap(pc + 4))
  /\ UNCHANGED memory

\* lui, and auipc, which adds the address of the instruction.
UtypeStep ==
  /\ \/ /\ Stepping(LUI)
        /\ Writeback(Fetched.rd, Wrap(Fetched.imm), 0)
     \/ /\ Stepping(AUIPC)
        /\ Writeback(Fetched.rd, Wrap(pc + Fetched.imm), 0)
  /\ Retire(Wrap(pc + 4))
  /\ UNCHANGED memory

BranchTaken(funct3, a, b) ==
  \/ funct3 = 0 /\ a = b
  \/ funct3 = 1 /\ a # b
  \/ funct3 = 4 /\ Signed(a) < Signed(b)
  \/ funct3 = 5 /\ Signed(a) >= Signed(b)

BranchStep ==
  /\ Stepping(BRANCH)
  /\ Fetched.funct3 \in {0, 1, 4, 5}
  /\ \/ /\ BranchTaken(Fetched.funct3, regs[Fetched.rs1], regs[Fetched.rs2])
        /\ Retire(Wrap(pc + Fetched.imm))
     \/ /\ ~BranchTaken(Fetched.funct3, regs[Fetched.rs1], regs[Fetched.rs2])
        /\ Retire(Wrap(pc + 4))
  /\ UNCHANGED <<memory, regs, error>>

\* Mutation of JalStep: the offset is added to the pc that was incremented.
JalStepFromNext ==
  /\ Stepping(JAL)
  /\ Writeback(Fetched.rd, Wrap(pc + 4), JAL)
  /\ Retire(Wrap(pc + 4 + Fetched.imm))
  /\ UNCHANGED memory

JalStep ==
  /\ Stepping(JAL)
  /\ Writeback(Fetched.rd, Wrap(pc + 4), JAL)
  /\ Retire(Wrap(pc + Fetched.imm))
  /\ UNCHANGED memory

\* Mutation of JalrTarget: bit 0 is kept.
JalrTargetOdd(i) == Wrap(regs[i.rs1] + i.imm)

\* (base + imm) & ~1U, with the base read before the link is written.
JalrTarget(i) == LET t == Wrap(regs[i.rs1] + i.imm) IN t - (t % 2)

JalrStep ==
  /\ Stepping(JALR)
  /\ Fetched.funct3 = 0
  /\ Writeback(Fetched.rd, Wrap(pc + 4), JALR)
  /\ Retire(JalrTarget(Fetched))
  /\ UNCHANGED memory

\* The opcodes, funct3 and funct7 values that some case of the code handles.
Supported(i) ==
  \/ i.opcode = OP /\ \E o \in RtypeOperations : o[1] = i.funct3 /\ o[2] = i.funct7
  \/ i.opcode \in {LOAD, STORE} /\ i.funct3 = 2
  \/ i.opcode \in {OP_IMM, JALR} /\ i.funct3 = 0
  \/ i.opcode = BRANCH /\ i.funct3 \in {0, 1, 4, 5}
  \/ i.opcode \in {LUI, AUIPC, JAL}

\* cpu_decode or cpu_execute rejects the word: cpu_run returns -1 at once,
\* with pc already incremented and the instruction not counted.
UnsupportedStep ==
  /\ Looping
  /\ InProgram
  /\ ~Supported(Fetched)
  /\ pc' = Wrap(pc + 4)
  /\ error' = TRUE
  /\ result' = "failed"
  /\ UNCHANGED <<program, memory, regs, executed, halted>>

\* Mutation of RunReturns: the error of a denied write-back is not looked at.
RunReturnsOk ==
  /\ result = "running"
  /\ halted \/ executed >= MaxInstructions
  /\ result' = "ok"
  /\ UNCHANGED <<program, memory, regs, pc, executed, halted, error>>

\* Mutation of RunReturns: reaching the limit is an error.
RunReturnsLimit ==
  /\ result = "running"
  /\ halted \/ executed >= MaxInstructions
  /\ result' = IF error \/ executed >= MaxInstructions THEN "failed" ELSE "ok"
  /\ UNCHANGED <<program, memory, regs, pc, executed, halted, error>>

\* cpu_run leaves its loop; reaching the limit is only a warning.
RunReturns ==
  /\ result = "running"
  /\ halted \/ executed >= MaxInstructions
  /\ result' = IF error THEN "failed" ELSE "ok"
  /\ UNCHANGED <<program, memory, regs, pc, executed, halted, error>>

\* The processor is never used again.
Finished == result # "running" /\ UNCHANGED vars

Next ==
  \/ HaltStep \/ RtypeStep \/ TrapStep \/ LoadStep \/ StoreStep \/ OpImmStep
  \/ UtypeStep \/ BranchStep \/ JalStep \/ JalrStep \/ UnsupportedStep
  \/ RunReturns \/ Finished

Spec == Init /\ [][Next]_vars

\* The simulator is one thread that nothing blocks.
FairSpec == Spec /\ WF_vars(Next)
------------------------------------------------------------------------------
(* Properties *)

\* The variables hold what their C types allow.
TypeOK ==
  /\ program \in Programs
  /\ \E size \in MemorySizes : memory \in MemoryOf(size)
  /\ regs \in [Register -> Word]
  /\ pc \in Word
  /\ executed \in 0 .. MaxInstructions
  /\ halted \in BOOLEAN
  /\ error \in BOOLEAN
  /\ result \in {"running", "ok", "failed", "killed"}

\* x1 only ever holds 0 or a return address: the address after an instruction
\* that was fetched from inside the text.  No load, arithmetic or immediate
\* gets there, whatever the program does to its own text
\* (cpu_can_write_register, cpu.c:774-793).
RaHoldsReturnAddress == regs[1] = 0 \/ regs[1] \in 4 .. program_end + 3

\* pc is always even, although it need not be a multiple of 4: branch and jal
\* offsets have no bit 0, and jalr clears it (cpu.c:552).
PcHalfwordAligned == pc % 2 = 0

\* What cpu_run returns can be relied on: 0 is returned only by a run in which
\* no write-back was denied and which left the text or spent its whole
\* instruction budget, and -1 only when cpu->error is set; and the processor is
\* halted only where there is nothing to execute (cpu.c:843-858, 898-922).
ResultSound ==
  /\ halted => ~InProgram
  /\ result = "ok" => ~error /\ (halted \/ executed = MaxInstructions)
  /\ result = "failed" => error

\* A program larger than the memory is not loaded, nor is its data, and main
\* goes on as if they were (memory.c:68-72, 92-96; main.c:80-98): the processor
\* meets the zeroed memory at address 0, executes nothing and does not end well.
OversizedProgramNeverRuns ==
  program_end > memory.size /\ memory.size > 0 =>
    /\ \A a \in DOMAIN memory.data : memory.data[a] = 0
    /\ executed = 0 /\ ~halted /\ result # "ok"
    /\ result = "running" => pc = 0

\* cpu->error is never cleared: an error recorded by a denied write-back, after
\* which the run goes on, survives every later instruction (cpu.c:812).
ErrorLatched == [][error => error']_vars

\* The text changes only by a store to a negative offset of the data section:
\* in_bounds (memory.c:35) knows nothing of where the text ends, and only the
\* addition of data_offset (cpu.c:593-594) keeps data accesses out of it.
TextChangesOnlyByLowStore ==
  [][(\E a \in DOMAIN memory.data :
         a < program_end /\ memory'.data[a] # memory.data[a])
     => /\ Fetched.opcode = STORE
        /\ Signed(Wrap(regs[Fetched.rs1] + Fetched.imm)) < 0]_vars

\* cpu_run returns, whatever loops the program contains, unless the process is
\* killed (the limit in cpu.c:898).
Terminates == <>(result # "running")

\* An error recorded during a run is reported by the end of it: the deferred
\* error of a denied write-back is not lost (cpu.c:812, 916).
ErrorReported == error ~> result \in {"failed", "killed"}

\* x0 reads as zero.
ZeroRegisterIsZero == regs[0] = 0
===============================================================================
