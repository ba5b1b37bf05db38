------------------------------- MODULE Simulator -------------------------------
(***************************************************************************)
(* main: the whole program, from the file to the exit status.  It composes *)
(* the assembler and the encoder (module Translation) with the memory and  *)
(* the processor (module Cpu) and adds the failures on the way, what is    *)
(* allocated, and what is freed.                                           *)
(***************************************************************************)
EXTENDS Translation, Memory

CONSTANTS
  RegNumber, MaxInstructions, MemorySizes, UninitializedWords, Fields(_), Alu(_, _, _), Trap,
              \* of Cpu
  WordOf(_)   \* an encoded instruction as a word; Fields takes it apart

VARIABLES
  memory, regs, pc, executed, halted, error, result,  \* of Cpu
  phase,        \* the step of main that comes next
  heap,         \* what is allocated and not freed
  exit_status   \* what main returned, or "none" yet, or "signal"

processor == <<regs, pc, executed, halted, error, result>>

mainVars == <<translation, memory, processor, phase, heap, exit_status>>

EncodedWords == [i \in 1 .. Len(encoded) |-> WordOf(encoded[i])]

\* The processor on the encoded program; what Cpu's Init takes from these sets
\* main computes.
Core == INSTANCE Cpu WITH program <- EncodedWords, Programs <- {}, DataSections <- {}

\* What Cpu asks of its parameters.
ASSUME ProcessorAssumption ==
  /\ Core!RegNumberAssumption /\ Core!MaxInstructionsAssumption /\ Core!MemorySizesAssumption
  /\ Core!UninitializedAssumption /\ Core!FieldsAssumption
  /\ Core!AluAssumption /\ Core!TrapAssumption

\* MAX_INSTRUCTIONS is 1024 and an address has 32 bits.
ASSUME TextAssumption == 4 * MAX_INSTRUCTIONS < WordMod

\* The arguments are right; the CPU is a variable of main that nothing clears.
MainInit ==
  /\ TranslationInit
  /\ memory = memory_init(0)
  /\ \E x0 \in UninitializedWords : regs = [r \in 0 .. RegNumber - 1 |-> x0]
  /\ pc = 0 /\ executed = 0 /\ halted = FALSE /\ error = FALSE /\ result = "running"
  /\ phase = "open" /\ heap = {} /\ exit_status = "none"
------------------------------------------------------------------------------
\* main returns; what it has not freed by then is never freed.
Exit(code) == phase' = "exited" /\ exit_status' = code

\* read_asm_file gets the contents of the file into a buffer.
OpenFile ==
  /\ phase = "open"
  /\ phase' = "assemble" /\ heap' = heap \cup {"buffer"}
  /\ UNCHANGED <<translation, memory, processor, exit_status>>

\* No file; no buffer, and the file is closed; or the file cannot be closed when
\* the buffer has been read.
OpenFails ==
  /\ phase = "open"
  /\ \E allocated \in {{}, {"buffer"}} : heap' = heap \cup allocated
  /\ Exit("failure")
  /\ UNCHANGED <<translation, memory, processor>>

\* The buffer is freed at the end of the pass.
AssembleFile ==
  /\ phase = "assemble"
  /\ Assemble
  /\ IF status' = "assembled" THEN phase' = "allocate" /\ heap' = heap \ {"buffer"}
                              ELSE UNCHANGED <<phase, heap>>
  /\ UNCHANGED <<memory, processor, exit_status>>

\* Both allocations; a failure of the first is not looked at, its memory has
\* size 0 and no data.
Allocate ==
  /\ phase = "allocate"
  /\ \E size \in MemorySizes :
       /\ memory' = memory_init(size)
       /\ heap' = heap \cup {"enc"} \cup (IF size > 0 THEN {"m.data"} ELSE {})
  /\ phase' = "encode"
  /\ UNCHANGED <<translation, processor, exit_status>>

\* malloc fails for enc; the simulated memory is not freed.
AllocateFails ==
  /\ phase = "allocate"
  /\ \E size \in MemorySizes :
       /\ memory' = memory_init(size)
       /\ heap' = heap \cup (IF size > 0 THEN {"m.data"} ELSE {})
  /\ Exit("failure")
  /\ UNCHANGED <<translation, processor>>

EncodeOne ==
  /\ phase = "encode"
  /\ EncodeNext
  /\ UNCHANGED <<memory, processor, phase, heap, exit_status>>

\* Mutation of EncodingFails: only the array is freed.
EncodingFailsLeaking ==
  /\ phase = "encode"
  /\ Refuse
  /\ heap' = heap \ {"enc"}
  /\ Exit("failure")
  /\ UNCHANGED <<memory, processor>>

\* free(enc), then memory_free(&m), which frees m.data.
EncodingFails ==
  /\ phase = "encode"
  /\ Refuse
  /\ heap' = (heap \ {"enc"}) \ {"m.data"} /\ memory' = memory_free(memory)
  /\ Exit("failure")
  /\ UNCHANGED processor

\* Steps 4 and 5.  Neither loader says whether it loaded anything.
Load ==
  /\ phase = "encode" /\ Len(encoded) = Len(instructions)
  /\ memory' = load_data_into_memory(
                 load_program_into_memory(memory, EncodedWords, 0),
                 [k \in 1 .. Len(data) |-> Wrap(data[k].value)], 4 * Len(instructions))
  /\ regs' = [r \in 0 .. RegNumber - 1 |-> IF r = 0 THEN regs[0] ELSE 0]
  /\ phase' = "run"
  /\ UNCHANGED <<translation, pc, executed, halted, error, result, heap, exit_status>>

Run ==
  /\ phase = "run" /\ result = "running"
  /\ UNCHANGED <<translation, phase, heap, exit_status>>
  /\ Core!Next

\* cpu_run has returned: in either branch enc and the memory are freed.
Finish ==
  /\ phase = "run" /\ result \in {"ok", "failed"}
  /\ heap' = (heap \ {"enc"}) \ {"m.data"} /\ memory' = memory_free(memory)
  /\ Exit(IF result = "ok" THEN "success" ELSE "failure")
  /\ UNCHANGED <<translation, processor>>

\* A division has killed the process, which frees nothing itself.
Killed ==
  /\ phase = "run" /\ result = "killed"
  /\ Exit("signal")
  /\ UNCHANGED <<translation, memory, processor, heap>>

MainNext ==
  \/ OpenFile \/ OpenFails \/ AssembleFile \/ Allocate \/ AllocateFails
  \/ EncodeOne \/ EncodingFails \/ Load \/ Run \/ Finish \/ Killed

MainSpec == MainInit /\ [][MainNext]_mainVars

\* One thread, which waits for nothing but its file.
FairMainSpec == MainSpec /\ WF_mainVars(MainNext)
------------------------------------------------------------------------------
(* The file as its author reads it. *)

\* The next step executes instruction i as it was loaded.
Executes(i) ==
  /\ phase = "run" /\ result = "running" /\ ~halted /\ executed < MaxInstructions
  /\ pc = 4 * (i - 1) /\ pc < memory.size
  /\ memory_read32(memory, pc) = WordOf(encoded[i])

\* A jump is always taken.
Taken(i) ==
  LET d == Read(i)
  IN  d.opcode = BRANCH => Core!BranchTaken(d.funct3, regs[d.rs1], regs[d.rs2])

IsStore(i) == to_lower(Written(i).opcode) = "sw"

\* Every jump leads to the first byte of a word; the only register that says
\* where a jump goes is ra.
JumpsToWords ==
  \A j \in DOMAIN encoded :
    LET d == Read(j)
    IN  d.opcode \in {BRANCH, JAL, JALR} =>
          d.imm % 4 = 0 /\ (d.opcode = JALR => d.rs1 = 1)

\* The lines that define the name that a jump has as its target, if an operand
\* has room for it, and something follows.
Named(i) ==
  {k \in DOMAIN file :
     /\ Defines(file, k, Target(i)) /\ Len(Target(i)) = 1
     /\ Statements(file, Len(file)) \ Statements(file, k - 1) # {}}

\* The line is the only one with its label, and the statement that follows has
\* no other.
Unambiguous(k) ==
  LET next == CHOOSE s \in Statements(file, Len(file)) \ (1 .. k - 1) :
                \A t \in Statements(file, Len(file)) \ (1 .. k - 1) : s <= t
  IN  \A j \in DOMAIN file \ {k} :
        file[j].colon /\ ~InData(file, j) =>
          file[j].label # file[k].label /\ j \notin k .. next
------------------------------------------------------------------------------
(* Properties *)

\* What an exit status of 0 can be relied on for, although neither the loaders
\* nor the limit of cpu_run report anything to main: every statement of the text
\* was encoded, no write-back was denied, and the program was loaded and run
\* until pc left the text or the budget was spent, unless there was no memory.
\* It says nothing of the data, which may have been dropped, and nothing at all
\* of the execution in a memory of size 0 (main.c:37, 82, 90, 112-122).
SuccessIsEarned ==
  [][exit_status' = "success" /\ exit_status = "none" =>
       /\ ~refused /\ Len(encoded) = Cardinality(Statements(file, Len(file)))
       /\ ~error
       /\ memory.size > 0 =>
            /\ 4 * Len(encoded) <= memory.size
            /\ ~Core!InProgram \/ executed = MaxInstructions
            /\ executed = 0 => encoded = << >>]_mainVars

\* What the returns of main leave allocated.  The encoded words are always freed.
\* The simulated memory, which is allocated exactly while its size lets an access
\* through, is freed by every return after encoding has begun (main.c:72-73,
\* 119-120, 143-144), but not by the one without room for the encoded words
\* (main.c:43-47).  The file's buffer is left only if the file, read, could not be
\* closed (assembler.c:144-148).
FreedAtTheEnd ==
  /\ "m.data" \in heap <=> memory.size > 0
  /\ exit_status \in {"success", "failure"} =>
       /\ "enc" \notin heap
       /\ "m.data" \in heap => ~refused /\ result = "running"
       /\ "buffer" \in heap => status = "reading"

\* A jump to a label, when it is executed, goes to the statement that its author
\* wrote the label for, whatever the program did before: the label's way goes
\* through the assembler (assembler.c:261-286), the offset (encoder.c:114-146,
\* 606-656) and the bits of the word to the processor, whose pc is already
\* that of the next instruction (cpu.c:692, 716).
JumpsLandAtTheirLabel ==
  [][\A i \in DOMAIN encoded :
       /\ Executes(i) /\ i \in NamedJumps /\ Taken(i) /\ executed' = executed + 1
       => \A k \in Named(i) : Unambiguous(k) => pc' = AddressAfter(k)]_mainVars

\* An lw at the address that the assembler gave to a word reads the word, as
\* long as no sw is in the program: nothing else has changed it, and the text
\* is not in its way (main.c:86-90, cpu.c:504-505).  A jump between two words
\* could find a store in their halves: pc need not be a multiple of 4.
LoadsReadTheData ==
  [][\A i \in DOMAIN encoded, k \in DOMAIN data :
       LET d == Read(i)
       IN  /\ Executes(i) /\ d.opcode = LOAD /\ d.rd > 1
           /\ Wrap(regs[d.rs1] + d.imm) = data[k].address
           /\ 4 * (Len(encoded) + k) <= memory.size
           /\ JumpsToWords /\ \A j \in DOMAIN encoded : ~IsStore(j)
           => regs'[d.rd] = Wrap(data[k].value)]_mainVars

\* main comes to its end, whatever loops the program has, for every file that
\* the arrays of the AssemblyProgram have room for; one that they have no room
\* for is written past the end of an array, after which C promises nothing
\* (main.c, assembler.c:165, cpu.c:898).
Exits == <>(phase = "exited" \/ status = "overflow")
===============================================================================
