# Assembly Simulator: specifications, checks and proofs

This directory holds TLA+ models of the RISC-V assembly simulator in
`src/riscv-simulator`, the configurations that check them with TLC, and proofs
that TLAPS checks. Names of definitions follow the C code where TLA+ allows it;
`PROJECT.json` maps each definition to the lines it stands for.

## The system

The simulator is one sequential process. `main` reads an assembly file, encodes
it, loads it into a simulated memory, and runs a simulated processor on it.

| Component | State it keeps | Operations | Used by |
|---|---|---|---|
| Assembler (`assembler.c`) | `AssemblyProgram`: instructions, data entries, symbols; while reading: section flags, pending label | comment removal, one pass over the lines, addresses, symbol table, `find_symbol` | `main`, encoder, memory (data), processor (`instruction_count`) |
| Operand parsing (`decoder.c`) | none | `reg_index`, `parse_immediate`, `parse_memory_operand` | encoder |
| Encoder (`encoder.c`) | none | `encode_instruction`: operands, label offsets, range checks, `build_*type` | `main` |
| Instruction format (`instruction.h`, `encoder.c:11-112`) | none | field layout, getters, sign extension | encoder writes, processor reads |
| Memory (`memory.c`) | `data`, `size` | `memory_init`, `memory_read32/write32`, the two loaders, `memory_free` | `main`, processor |
| ALU (`alu.c`) | none | `alu_execute` | processor |
| Processor (`cpu.c`) | `regs`, `pc`, `instructions_executed`, `halted`, `error` | `cpu_init`, fetch, decode, execute, checked write-back, `cpu_step`, `cpu_run` | `main` |
| Main (`main.c`) | the phase it is in, the encoded words | the phases and their early exits | - |

The components interact by plain calls and by shared structures: text and data
share one byte memory, the data begins where the text ends
(`data_offset = instruction_count * 4`), and the processor adds that offset to
every load and store address. A word is written by the encoder, or by the running program
itself, and taken apart again by the processor.

There is no concurrency, no I/O during a run and nothing persistent. What is
hard here is something else:

* failures that do not stop anything: a program that does not fit is not loaded
  and `main` goes on; out-of-bounds accesses are dropped; a failed allocation
  leaves a memory of size 0; a denied write to `ra` sets `error` and the run
  continues, and only the end of `cpu_run` looks at it;
* long sequences of legal steps: a program can overwrite its own text with a
  store to a negative address, and can jump between two words, after which
  the processor executes words that nobody encoded;
* the loop of `cpu_run`, which has to end for every program;
* boundaries: the last bytes of the memory, the ranges of the immediates and
  their permuted bits, shift amounts, the undefined divisions, an uninitialised
  register;
* in the assembler: pending and trailing labels, truncated names, unchecked
  capacities, and three passes over comments and lines that do not know of each
  other;
* agreements between distant pieces of code: the encoder puts operands where the
  processor takes them from, branches and `jal` look up a label in two ways,
  offsets are relative to a `pc` that is already incremented when they are used,
  and every early exit of `main` has to free by hand what is allocated by then.

What makes each component correct: the memory returns what was written and
nothing else changes; the ALU computes the RV32 operations; an instruction is
executed as it was written; the processor protects `x0` and `ra`, keeps `pc`
even, returns in the end, and its result can be relied on; the assembler gives
every label the address of the instruction that follows it.

## Modules

| Module | What it is |
|---|---|
| `Comments` | what `read_asm_file` does to a text before it looks at a line: `eliminate_block_comments`, extraction of lines, `eliminate_comment`, `eliminate_whitespaces` |
| `Assembler` | `read_asm_file` from those lines on: sections, labels, instructions, data, addresses, symbols, capacities |
| `Labels`, `AssemblerAsLabels` | abstract: what labels promise; and the refinement mapping under which `Assembler` implements it |
| `SymbolTable` | `find_symbol`, and the searches that `jal` makes itself |
| `Decoder` | `reg_index`, `parse_immediate`, `parse_memory_operand`, `atoi` |
| `Encoder` | `encode_instruction` |
| `InstructionFormat` | the builders and range checks of `encoder.c`, the getters of `instruction.h` |
| `Translation` | `Assembler` and `Encoder`, as `main` composes them |
| `Words` | 32-bit words as residues; bytes of a word; signed reading |
| `Memory` | `memory.c` as operators on a record `[size, data]` |
| `Alu` | `alu_execute`, as the set of possible outcomes |
| `Opcodes` | the opcodes, their formats, and the operations of the R format |
| `WordPath` | the way of one word: encoded or refused, or stored by the program; then executed |
| `Cpu` | the processor, from the loaded memory to the result of `cpu_run` |
| `IsaMachine`, `CpuAsIsa` | abstract: a machine with separate text and data; and the refinement mapping under which `Cpu` implements it |
| `Simulator` | `main`: `Translation` and `Cpu`, with the failures on the way and the exit status |
| `MCMemory`, `MCAlu`, `MCFormat`, `MCCpu`, `MCAssembler`, `MCComments`, `MCTranslation`, `MCSimulator` | instances for TLC; `MCMemory` and `MCAlu` also have the callers and the laws that memory and ALU are checked with |
| `WordProofs` | what the other proofs share: induction and recursion over the numbers, as lemmas about sets and functions; words, memories and the instruction format |
| `MCMemoryProofs`, `AluProofs`, `WordPathProofs`, `CpuProofs`, `CommentsProofs`, `AssemblerProofs`, `SimulatorProofs` | theorems; the last has those of `Encoder`, `Translation` and `Simulator` |

`Cpu` extends `Memory` and `Opcodes`. What `alu_execute` computes and how the
fields of a word are laid out are *parameters* of `Cpu`, `Alu` and
`Fields`, with assumptions: an ALU outcome is a word or `Trap`, fields are in
range, and branch and jump offsets are even. `MCCpu` gives `Alu` the operator of
module `Alu`. That the code meets both assumptions is proved, each in the module of
its component: `ServesTheProcessor` of `AluProofs` is the assumption on `Alu`, for
`alu_execute`; `FieldsServeTheProcessor` of `WordProofs` is the one on `Fields`, for
the getters and every word of 32 bits with a known opcode. (A word with any other
opcode is rejected before its fields are looked at.)

`Translation` extends `Assembler` and `Encoder` and adds the encoded words;
`Simulator` extends `Translation` and `Memory`, and instantiates `Cpu` with the
encoded words as its program. `main` itself computes what `Cpu`'s `Init` chooses
when that module is checked alone. Initial states, steps and specifications have
names of their own on each level: `TranslationInit`, `TranslationNext`,
`TranslationSpec`, then `MainInit`, `MainNext`, `MainSpec`.

### How `Cpu` corresponds to the code

`Init` is steps 2 to 5 of `main`: allocation (any of `MemorySizes`, 0 for a
failed one), both loaders, `cpu_init`. Each `...Step` action is one whole
iteration of the loop in `cpu_run`: fetch, `pc += 4`, decode, execute,
write-back, `instructions_executed++`. There is one for each kind of
instruction; `HaltStep` is the iteration that sets `halted`, `UnsupportedStep`
the one that fails, `TrapStep` one whose division kills the process.
`RunReturns` is what follows the loop. `Finished` is an idle step after
`cpu_run` returned, so that TLC's deadlock check says that the processor is
never stuck before.

`Writeback` contains the error that a denied write leaves. `pc` in the code is
already incremented when an instruction executes; the model writes `pc + 4`
instead and gives the next `pc` to `Retire`, except in `UnsupportedStep`, where
the increment is visible.

### How the assembler and `main` correspond to the code

Each action of `Assembler` but the last is one round of the loop of
`read_asm_file`, one action per way through its body: `BlankLine`,
`DataDirective`, `TextDirective`, `DataLine`, `LabelLine`,
`LabelledInstruction`, `PlainInstruction`. `EndOfFile` gives the addresses and
builds the symbol table. A write past the end of `instructions` or `data` sets
`status` to `"overflow"`, after which nothing is known and nothing is done.

In `Comments` a `RemoveBlock` is one round of the loop of
`eliminate_block_comments`, and a `ReadLine` is the head of the loop of
`read_asm_file`. Characters keep the position they have in the file, so that a
property can say which of them are left.

`Encoder` has one operator for each group of mnemonics that the code treats
alike; `Refused` is the 0 that `encode_instruction` returns for an error. In
`Translation` each instruction is a step, `EncodeNext` or `Refuse`, and `main`
has one action for each, `EncodeOne` and `EncodingFails`.

`Simulator` has one action for each way through a step of `main`. `heap` is what
is allocated at the moment: the file's buffer, the array `enc`, the simulated
memory. Each `malloc` adds one and each `free` removes one; a return by itself
changes nothing, so an exit that forgets a `free` leaves it there. `Run` is one
step of `Cpu`.

### Abstractions

* A line is a record: whether there is a colon, the label, the opcode, the
  operands. A name is a sequence of segments: its first 19 characters, the next
  30, and the rest. That is what the copies into fixed arrays distinguish, an
  operand keeping the first segment and a label the first two.
* Texts of operands are strings that are not taken apart. What `strtol`, `atoi`,
  `strchr` and `tolower` find in each is given by the tables that are constants
  of `Decoder`; all the decisions that `decoder.c` takes on what they find are
  in the model. `Int32Mod` is 2^32 in the code; the runs use a smaller power of
  two that is still above every limit of an immediate.
* `MAX_INSTRUCTIONS`, `MAX_DATA`, `MAX_SYMBOLS` are constants, small in the runs:
  `assembler_files` overflows the instructions and the data, `simulator_runs` the
  data. The limit of the symbols cannot be reached, there are never more
  symbols than instructions (`SymbolsAssumption`).
* Allocation and opening may fail wherever the code looks, and in
  `memory_init`, where `main` does not.

* Words have `ByteBase^4` values. `ByteBase` is 256 in the code and any even
  number in the proofs. TLC computes with 32-bit integers, so its instances use
  4 (8-bit words) or 2 (4-bit words). All address arithmetic, wrapping and sign
  changes happen at the same places, only earlier.
* Programs are sequences of encoded words. TLC's instances number the
  instructions of a pool and encode instruction `i` as the word `i`; unsupported
  words come only from torn fetches, stores into the text, or zeroed memory,
  as in the program, whose encoder never emits one.
* Signed overflow wraps: `+`, `-` and `*` on `int32_t` overflow in the
  interpreter of legal programs, and the supported compilers wrap. Division by
  zero and `INT_MIN / -1` are a choice between the trap of x86 and the value
  that AArch64 gives.
* An uninitialised `regs[0]` is any of `UninitializedWords`.
* The two loaders are closed forms; `MCMemory` compares them with their loops, and
  `LoadersAreLoops` proves that they agree for every memory, section and address.
* An encoded word is a record of its six R-format fields, whose boundaries
  contain those of every other format, so shifts and masks of more than 31 bits are
  never needed. `AsNumber` and `FieldsOfNumber` are the `uint32_t` and back; TLC
  never evaluates them.
* `MCSimulator` uses words of 8 bits; the encoded instructions that its files can
  have are numbered and stored as their numbers, and the processor reads the
  number with `InstructionFormat`'s getters on the instruction it stands for.
* `NULL` arguments, register roles and printing are left out.

## Runs

| Run | Instance | Shows |
|---|---|---|
| `cpu_programs` | all programs of at most 3 of 18 instructions; 4 registers; 6 executed instructions; memories of 0, 8 and 20 bytes; with and without data; `x0` 0 or 1 | the safety properties of `Cpu`, `Terminates`, `ErrorReported`, and that it implements `IsaMachine` |
| `cpu_zero_register` | as above, one instruction | **violated**: `x0` need not be 0 |
| `alu_laws` | every operation on every pair of 4-bit words | shifts, bitwise operations, division |
| `alu_or` | the same | **violated**: `or` ignores its second operand |
| `memory_words` | memories of 0, 3, 8 and 10 bytes, addresses 0 to 11, bytes of two values, sections of at most 2 words | word accesses, loaders, dump |
| `format_round_trip` | immediates within 2 of every power of two that bounds a format or a piece of it, extreme fields and registers | encoding and decoding agree |
| `assembler_files` | all files of at most 5 of 10 kinds of lines; room for 3 instructions, 3 words, 3 symbols | the pass over the lines; that it implements `Labels` |
| `translation_files` | every mnemonic with every operand text, one at a time; all files of at most 4 of 13 kinds of lines with labels and jumps | encoder and labels together |
| `translation_trailing_label` | files of at most 2 of those lines | **violated**: a jump to a label at the end does not go there |
| `translation_cut_label` | files of at most 4 lines with a long label, its beginning as a label, a statement and a branch | **violated**: a branch goes to another label than it names |
| `comments_texts` | all texts of at most 5 of 6 kinds of characters, and of 6 or 7 slashes, stars and newlines; lines of at most 4 | the passes over comments and lines |
| `simulator_runs` | all files of at most 3 lines with data or with jumps, files of 4 lines of fewer kinds; memories of 0, 8 and 17 bytes; 5 executed instructions | whole runs |

**Bounds.** Three instructions make every pair of neighbours and a loop with a
body; six executed instructions let a program compute an address, overwrite an
instruction with it and execute the result, or go round a loop of three twice.
Twenty bytes hold three instructions and two words of data, eight bytes hold
two instructions and refuse three. A 10-byte memory has two words and a half,
so that the last word that fits is not the last byte. Powers of two and their
neighbours exercise each bit of each permuted immediate and both sides of each
limit. Five lines are two labels, or a label and a directive, between statements
and after them, and more statements than there is room for. One instruction per
file is enough for operands, because `encode_instruction` looks at nothing else
except for a label; four lines make a jump, its label, and two lines in between or
around them that take the label or move it. Five characters hold a block
comment whose removal would make another one, seven hold two comments and what
is between them, and lines longer than the array. Whole runs
of three or four lines have a label, a jump to it and a statement that either
skips; the files of data have both words and an access to each of them. Seventeen
bytes are four words and one byte, eight bytes refuse a program of three
instructions and cut the data of a program of one. The proofs remove these bounds
for everything except the liveness properties. The runs marked as violated need no
more than the counterexample does: one file or program that shows it, among the
others of its kind.

**Fairness.** `FairSpec` assumes weak fairness of `Next`: the simulator is one
thread that never waits for anything, so as long as it can take a step it
takes one. No action is favoured over another, and the only choices in a step
are the outcome of an undefined division. `FairSpec` of `Comments` and
`FairMainSpec` of `Simulator` say the same of the same thread; `Simulator` chooses, besides,
whether an allocation fails.

`CHECK_DEADLOCK FALSE` appears where a model describes one call and then has
nothing to do (`MCAlu`, `MCFormat`), or a file that is read, translated or run
once, and then ends (`MCAssembler`, `MCComments`, `MCTranslation`,
`MCSimulator`).

### The properties

* `RaHoldsReturnAddress` - only `jal` and `jalr` reach `ra`, and they are only
  executed inside the text; so `ra` is 0 or 4 more than an address in the text,
  in spite of self-modified and torn instructions.
* `PcHalfwordAligned` - the alignment the code really keeps. A multiple of 4 is
  *not* an invariant: `jalr` clears only bit 0.
* `ResultSound`, `ErrorLatched`, `ErrorReported` - an error is never lost and
  never invented, whether the program leaves its text, fails, or hits the limit.
* `OversizedProgramNeverRuns` - what protects `main` when it ignores that
  loading failed is that a zero word has no opcode.
* `TextChangesOnlyByLowStore` - the text is safe from every access but a store
  to a negative data address.
* `Terminates` - the limit catches every loop.
* `ReadsWhatWasWritten`, `DisjointWordsKept`, `LoadingIsWritingWordByWord` -
  memory at its boundaries, aligned or not.
* `ShiftsMoveBits`, `SumIsXorPlusCarries`, `DivisionTruncates` - laws of the
  operations that do not repeat their definitions.
* `ExecutedAsWritten`, `ReadsEveryBit` - encoder and decoder are inverse to each
  other; the one exception, the unchecked offset of `lw` and `sw`, is off by a
  multiple of 4096.

* `DumpsShowTheMemory` - `main` dumps more words than there are (it passes a number
  of bytes); what is shown is whole words of the memory and never more.
* `StatementsBecomeInstructions`, `DataIsTheWords` - the two section flags and
  the counters do what a reader of the whole file expects, for any sequence of
  directives.
* `LabelsNameWhatFollows` - in every file, a label goes to the statement on its
  line or to the next one that has no label of its own, and a pending label is
  used once. `LabelsAreFound` - and the table finds it again, the first one if
  it was written twice.
* `LabelsNameTheNextStatement` - the refinement of `Labels`, for files in which
  the next line after a label on its own, blank ones aside, is a statement without
  one. Elsewhere the code departs from it; `LabelsNameWhatFollows` says how. A
  label may be written any number of times: the first meaning stays.
* `ReadAsWritten` - operation, registers and immediate that the processor reads
  from a word are those on the line.
* `BranchesReachTheirLabel`, `BranchAndJalAgree`, `JumpTargetsAreInstructions` -
  a branch to a name that an operand has room for goes to the label of exactly that
  name or is refused, whatever happened to the label on the way; `jal` agrees with
  branches; only labels of data lead outside the program. Longer names are
  cut, and the branch may then go to another label: `BranchesReachTheWholeName`,
  which the code violates, says what it should do.
* `BlocksAreRemovedOnce`, `LinesAreTheCode`, `EveryTextIsRead` - the removal in
  place is one pass from left to right, in the end only code is left and every
  line has it, and both loops end. `LinesAreTheCode` excludes what the passes
  really get wrong: a block comment that begins in a line comment, one that
  closes with its own star (`/*/`), and lines longer than the array; and it numbers
  lines as the code does. In the texts it excludes code may be lost.
* `ActsAsIsaMachine` - a program cannot tell that its data lies behind its text,
  as long as it stores to no negative address and `pc` is a multiple of 4.
* `SuccessIsEarned` - what exit status 0 can be relied on for: every
  statement was encoded, no write-back was denied, and, if there was any memory, the
  text was loaded and executed until `pc` left it or the limit was reached. It does not
  mean that the data was loaded, nor that anything ran when the memory could not
  be allocated, and a run that was cut by the limit is a success as well.
* `FreedAtTheEnd` - what each return of `main` leaves allocated. The encoded words are
  always freed; the simulated memory by every return after encoding has begun, but
  not by the one that finds no room for the encoded words; the file's buffer
  unless the file cannot be closed. The memory is allocated exactly while its size
  is not 0, so the accesses of a run are to memory that is there.
* `Exits` - `main` ends, unless a file overflows an array, after which nothing is
  known.
* `LoadsReadTheData`, `JumpsLandAtTheirLabel` - from the file to the execution:
  a load at the address of a word reads that word, a jump goes to the statement
  after its label. The first is about programs without stores; the attempt to prove
  it showed that this is not enough: where `pc` is no multiple of 4, the halves of
  two encoded words can be a store. So `JumpsToWords` is one of its premises.

Each property of a passing run has a mutation of the code that breaks it; these
are the definitions commented "Mutation of ..." next to what they replace.

### Disagreements found

* `cpu_init` starts its loop at register 1 and the `CPU` is an automatic
  variable: `x0` is uninitialised (`cpu.c:13`).
* `ALU_OR` is `operand1 | operand1` (`alu.c:19`).
* A label at the end of the file is forgotten (`assembler.c:272`); the `jal` to it
  jumps to itself, unlike what `tests/divide_by_0.asm` relies on.
* An operand keeps 19 characters and a label 49 (`assembler.c:78`): a branch to a
  long label goes to the label whose name is its beginning, if there is one.

What else departs from the documentation (`Assembly-Simulator.pdf`, here PDF). These
follow from a line or two of the code; no run is spent on them, and the properties
above state their premises accordingly:

* A program can write its own text by a store to a negative address (`cpu.c:594`);
  the PDF (p. 12) calls the instruction memory immutable.
* A `jal` to a label that does not exist is encoded as a jump to itself
  (`encoder.c:648`); the PDF (p. 9) says that missing labels are reported.
* The offsets of `lw` and `sw` are not checked (`encoder.c:486`), so that 2048 is
  executed as -2048, and immediates are cut to 32 bits before they are checked
  (`decoder.c:97`), so that 4294967300 is accepted as 4; the PDF (p. 19) says that both
  are validated.
* `/*` in a line comment opens a block comment and takes code with it
  (`assembler.c:13`), and the newlines in a block comment are not counted
  (`assembler.c:19`), so later messages show line numbers that are too small; the PDF
  (p. 18) promises that only comments are removed.
* `main` leaks the memory if `enc` cannot be allocated (`main.c:43`), and
  `read_asm_file` the file's buffer if `fclose` fails (`assembler.c:144`); the PDF (p. 21)
  says that everything is released before termination.
* `main` prints "[OK]" and returns 0 when data was dropped (`main.c:90`), and when
  there is no memory and nothing was executed (`memory.c:13`); the PDF (p. 22) says that
  failures at any stage are detected.

* `main.c:83` says that the program is loaded even if the loader refused it; the run
  then fails, for the reason that `OversizedProgramNeverRuns` gives.
* `li` is one `addi`, with 12 bits of immediate (`encoder.c:369`); the PDF (p. 7) has it
  expand to `lui` and `addi` where that is not enough.
* `tests/vector_like_sum.asm` calls its addresses absolute; the processor adds
  the size of the text to them (`cpu.c:505`, `:594`), as `IsaMachine` describes.
* Words of `.word` are decimal (`assembler.c:235`), immediates may be hexadecimal
  or octal (`decoder.c:97`).
* A blank between a label and its colon stays in the label (`assembler.c:264`),
  which no operand can name.

## Proofs

The constants are arbitrary within their named assumptions. For the processor:
any byte size, any set of programs below half the address space, any memory sizes,
any limit, any ALU with word outcomes, any field layout with even jump offsets.
For the rest: any files, any texts of operands and any tables of what the C library
finds in them, any capacities.

* `WordProofs`, the memory: the bytes of a word and the word of four bytes determine
  each other, from which `ReadAfterWrite` and `ReadAfterDisjointWrite` follow; every
  operation keeps a memory a memory; what is loaded is read (`ReadLoaded`).
* `WordProofs`, the format: for each format, splitting an immediate and joining it
  again is the identity, in both directions. The arithmetic is done digit by digit:
  each quotient is named and hidden before the next one is taken.
  `RoundTrip`, `TruncatedRoundTrip` and `EveryBitCounts` combine the formats.
  `WordsAreNumbers` says that the records of fields and the numbers below 2^32
  correspond one to one, and `FieldsServeTheProcessor` that the processor can use
  what the getters find. The theorems of `WordPathProofs` follow from these.
* `MCMemoryProofs`: the invariants of the calls that `MCMemory` makes, and
  `LoadersAreLoops`, by induction on the words that a loop has written.
* `AluProofs`: a word is the sum of its bits (`WordOfItsBits`), and a sum over two
  sets of positions is one over their symmetric difference and twice one over their
  intersection (`SumOfSets`), which is `SumsAgree`. `ShiftsAreExact` comes from the
  bits of a quotient, of a multiple and of a remainder by a power of two
  (`BitOfQuotient`, `BitOfMultiple`, `BitOfRemainder`), the arithmetic shift with the
  word read as signed (`BitOfSigned`). `DivisionsTruncate` splits on the signs.
  `Pow2` and the sum in `OfBits` are recursive functions, and their equations are
  proved first.
* `CpuProofs`: `TypeCorrect` comes first, and every later invariant uses it.
  `PcStaysAligned` and `RaIsProtected` are inductive together with the types: the
  next `pc` is even because `WordMod`, 4, offsets and jump targets are, and a
  link is `pc + 4` for a `pc` inside the text, which is too small to wrap
  (`ProgramsAssumption`). `ResultsAreSound` is inductive with
  `halted => ~InProgram`, because `pc` and `memory.size` do not change once the
  processor halted. `OversizedProgramsFail` needs that the memory is all zero,
  which no step changes because the first one fails. `ImplementsIsaMachine` is the
  refinement: each action has its counterpart in `IsaMachine`, where a `pc` between
  two words is its `Torn` step and an access at a negative address may give or change
  anything; every other access of the processor is one of the abstract data, shifted by
  `program_end`, and touches no word of the text.
* `CommentsProofs`: the readers of `Comments` are recursive functions, so a text has
  one reading and each role follows from the one before (`RolesRead`,
  `BlockRolesRead`); a search returns the first match or there is none
  (`SearchFinds`). Neither property is inductive.
  * `RemovalIsOnePass` needs `BlocksInv`: at each round there is a place in the
    buffer, `m`, and one in the text, `c`, such that the buffer up to `m` is the code
    before `c` (`Kept`), what follows it is the text from `c` on as it was (`Rest`), the
    reader is outside of a comment at `c` (`Fresh`), and `blockStart` is the first
    opening behind `m`. A removal joins the code before the comment to the rest of the
    text after it, so what it brings together is never searched again.
  * `LinesKeepTheCode` needs `LinesInv`, on top of `BlocksInv`: `line_ptr` is behind
    a newline, the characters before it are those of the lines read, and each line
    read is what the reader keeps of the line with that number (`LinesRead`).
    `CommentIsCut` and `BlanksAreCut` say that each pass over one line does its part,
    `LineAdvances` and `LineNumber` that counting newlines in the buffer and in the
    text agrees.
* `AssemblerProofs`: `TypeOK` is inductive once the arrays are sequences of their
  structs (`Typed`). `SectionsTracked`, the flags say what the directives up to now
  say, makes every other property one of the lines: `StatementsAreKept`,
  `WordsAreLaidOut`. `LabelsFollow` needs `PendingIsLast`: the
  pending label is that of the last label line, and no plain statement came after.
  `LabelsCanBeFound` needs the converse, `LabelsArrive`, and an induction
  over the rounds of `build_symbol_table`. `ImplementsLabels` is the refinement: for
  the files it is about, `StatementIsNext` says that a label never waits when
  another comes or the file ends, and `TableTargets` that the table says of
  each label what the instructions said.
* `SimulatorProofs`: from the lines to the exit status.
  * `WordsReadAsWritten`: `EncodeAccepted` goes through the mnemonics, and for
    each through the operand texts that are not refused; `Coded` says which word
    belongs to which instruction, `LinesKept` which line the instruction is from.
  * `BranchesReach`, `JumpsAgree`, `JumpsGoToInstructions`: what a lookup finds is
    one address (`FoundIsOne`), that of an instruction (`SymbolIsInstruction`) or of data.
    `BranchesReach` needs that the name on the branch is one segment: then the
    operand is the whole name, and a label with the same text is the whole label.
  * `LeaksAreKnown`: `Allocated` says what is on the heap in each phase, after each
    allocation and each `free`, failed ones and early returns included.
  * `SuccessMeansSomething`: `Sound` says what the processor, its memory and its count
    can be; a program that was not loaded fails with its first fetch.
  * `JumpsLand`, `LoadsRead`: from the label on a line to the `pc`, and from the word
    on a line to a register. Both have the hypothesis `WordsAreRead`: what `Fields`
    finds in the word of an encoded instruction is that instruction. It is not an
    assumption of `Simulator` because the 8-bit words that TLC needs have no
    room for all instructions. `WordsOf32Bits` shows
    that the layout of the code satisfies it: bytes of 8 bits, the builders' shifts
    (`AsNumber`) and the getters (`FieldsOfNumber`). `LoadsRead`
    rests on `LoadedKept`: without stores the text and the data stay as they were
    loaded (`Intact`), and with jumps to whole words `pc` and `ra` stay multiples of 4
    (`Placed`), so that only encoded words are executed.

**How many steps.** `RunsAreBounded` (`CpuProofs`), `RoundsAreBounded`
(`CommentsProofs`) and `MainIsBounded` (`SimulatorProofs`) are the part of termination
that needs no fairness. Each defines `StepsLeft`, a number that every step makes
smaller: for `cpu_run` the instructions left under the limit, for the comments the
characters left, for `main` what is left of the phase and all that can follow
it. So no run has more steps than its first state allows, whatever program, text or
file it is given: `cpu_run` returns after at most one step more than its limit. What
remains to TLC is that the thread keeps taking steps until the end is reached.

**Induction.** The library's induction theorems have operator parameters, which the
provers do not instantiate. `WordProofs` derives, from a well-founded ordering of
finite sets, that a set of numbers has a least element (`LeastNumber`), from that
induction in the form of sets of numbers, and that a recursive function, which is a
`CHOOSE`, satisfies its equation. `AluProofs` and `CommentsProofs` use
both, for the powers of two and for the roles of the characters.

**Assumptions.** Each is named where the constant is declared, and TLC evaluates it
in a run. Those that say something of the code: `ProgramsAssumption` and
`TextAssumption` (1024 instructions are far below the address space),
`SymbolsAssumption` (the symbol table is as large as the array of instructions),
`OperandsAssumption` (three operands), `LabelSegmentsAssumption` (a label array
is longer than an operand array), `MemoriesAssumption` (`reg_index` accepts nothing
with a parenthesis in it: `decoder.c:70` looks at the end of the number),
`LetterTextsAssumption` (no number begins with a letter or an underscore),
`Int32Assumption` (2^32 is a multiple of 4096), `TrapAssumption` (a trap is not a
value), `WordBitsAssumption` (a word of `WordBits` bits has as many values as four
bytes), `ProcessorAssumption` (those of `Cpu`), `CallsAssumption` (the callers of
`MCMemory` pass words), `TextsAssumption` and `LineSizeAssumption` (a text is a
sequence, and a line has room for something), `NoneAssumption` (an `MCAlu` that has
not executed anything has no outcome).

**Only model-checked:** the liveness properties (`Terminates`, `ErrorReported`,
`EveryTextIsRead`, `Exits`). They need fairness, and the rule from weak fairness to
progress needs `ENABLED`, which the provers do not have; the bounds above are what can
be proved of them. Every invariant, action property and refinement that a passing run
checks is a theorem. The four properties that the code violates are of course not.

## Not modelled

Every part of the program that changes state is modelled, and what its runs check
for safety is proved. Left out for good: what the C library finds in a string, which
is given by tables; a wrong number of arguments; the register roles and everything
that only prints; the make wrapper and the recorded sample output.
