------------------------------- MODULE Assembler -------------------------------
(***************************************************************************)
(* read_asm_file: one pass over the lines of a file, without its comments  *)
(* and blanks (module Comments), into instructions, data and symbols.      *)
(*                                                                         *)
(* A line is [ label: ] [ opcode [ operands ] ]; a directive is an opcode. *)
(* A name is a sequence of segments: its first 19 characters, the next 30, *)
(* and the rest.  Copies into a fixed array keep whole segments: labels    *)
(* LabelSegments of them, operands the first.                              *)
(***************************************************************************)
EXTENDS Decoder, SymbolTable, FiniteSets

CONSTANTS
  Files,              \* the files that may be read, sequences of lines
  LabelSegments,      \* the segments that MAX_LABEL_SIZE has room for, 2
  MAX_OPERANDS, MAX_INSTRUCTIONS, MAX_DATA, MAX_SYMBOLS

Name == Seq(STRING)

Line == [colon : BOOLEAN, label : Name, opcode : STRING, operands : Seq(Name)]

ASSUME FilesAssumption ==
  \A f \in Files : f \in Seq(Line) /\ \A k \in DOMAIN f : f[k].colon \/ f[k].label = << >>

ASSUME CapacityAssumption ==
  {LabelSegments, MAX_OPERANDS, MAX_INSTRUCTIONS, MAX_DATA, MAX_SYMBOLS} \subseteq Nat

\* Both are 1024 (assembler.h:8, 10): the table has room for every instruction's
\* label, and its test (assembler.c:107) never fails.
ASSUME SymbolsAssumption == MAX_INSTRUCTIONS <= MAX_SYMBOLS

VARIABLES
  file,           \* the lines; never changes
  line_number,    \* how many of them were read
  in_data, in_text,
  pending_label,  \* the label of a line without an instruction, << >> if none
  instructions,   \* program->instructions
  data,           \* program->data
  symbols,        \* program->symbols
  status          \* "reading", "assembled", or "overflow": an array was written
                  \* past its end, and nothing is known of what follows

vars == <<file, line_number, in_data, in_text, pending_label,
          instructions, data, symbols, status>>

\* Mutation of strncpy: the array is filled to one more than its size.
strncpy_over(name, n) == IF Len(name) <= n + 1 THEN name ELSE SubSeq(name, 1, n + 1)

\* strncpy into an array with room for n segments.
strncpy(name, n) == IF Len(name) <= n THEN name ELSE SubSeq(name, 1, n)

\* What is left of an operand in an array of MAX_OPERAND_SIZE characters.
OperandText(name) == IF name = << >> THEN "" ELSE name[1]

Init ==
  /\ file \in Files
  /\ line_number = 0
  /\ in_data = FALSE /\ in_text = FALSE
  /\ pending_label = << >>
  /\ instructions = << >> /\ data = << >> /\ symbols = << >>
  /\ status = "reading"
------------------------------------------------------------------------------
IsBlank(line) == ~line.colon /\ line.opcode = ""

IsDirective(line, directive) ==
  ~line.colon /\ line.opcode = directive /\ line.operands = << >>

HasContent(line) ==
  ~IsBlank(line) /\ ~IsDirective(line, ".data") /\ ~IsDirective(line, ".text")

line == file[line_number + 1]

\* The next line is taken from the buffer.
ReadLine ==
  /\ status = "reading" /\ line_number < Len(file)
  /\ line_number' = line_number + 1
  /\ UNCHANGED <<file, symbols>>

BlankLine ==
  /\ ReadLine /\ IsBlank(line)
  /\ UNCHANGED <<in_data, in_text, pending_label, instructions, data, status>>

DataDirective ==
  /\ ReadLine /\ IsDirective(line, ".data")
  /\ in_data' = TRUE /\ in_text' = FALSE
  /\ UNCHANGED <<pending_label, instructions, data, status>>

\* Mutation of TextDirective: in_data is not cleared.
TextDirectiveKeeping ==
  /\ ReadLine /\ IsDirective(line, ".text")
  /\ in_text' = TRUE
  /\ UNCHANGED <<in_data, pending_label, instructions, data, status>>

TextDirective ==
  /\ ReadLine /\ IsDirective(line, ".text")
  /\ in_text' = TRUE /\ in_data' = FALSE
  /\ UNCHANGED <<pending_label, instructions, data, status>>

\* Mutation of WordEntries: every word of a line gets the label.
WordEntriesLabelled(words) ==
  [k \in 1 .. Len(words.operands) |->
     [label   |-> strncpy(words.label, LabelSegments),
      value   |-> atoi(OperandText(words.operands[k])),
      address |-> 4 * (Len(data) + k - 1)]]

\* The entries of a .word line; its label is the label of the first.  A number
\* is one segment, whatever its length.
WordEntries(words) ==
  [k \in 1 .. Len(words.operands) |->
     [label   |-> IF k = 1 THEN strncpy(words.label, LabelSegments) ELSE << >>,
      value   |-> atoi(OperandText(words.operands[k])),
      address |-> 4 * (Len(data) + k - 1)]]

\* Anything but .word is ignored, and so is a label on a line of its own.
DataLine ==
  /\ ReadLine /\ HasContent(line) /\ in_data
  /\ \/ /\ line.opcode = ".word" /\ Len(data) + Len(line.operands) <= MAX_DATA
        /\ data' = data \o WordEntries(line)
        /\ UNCHANGED status
     \/ /\ line.opcode = ".word" /\ Len(data) + Len(line.operands) > MAX_DATA
        /\ status' = "overflow"
        /\ UNCHANGED data
     \/ /\ line.opcode # ".word"
        /\ UNCHANGED <<data, status>>
  /\ UNCHANGED <<in_data, in_text, pending_label, instructions>>

\* Outside .data everything is text, with or without .text.
ReadTextLine ==
  /\ ReadLine /\ HasContent(line) /\ ~in_data
  /\ in_text' = TRUE
  /\ UNCHANGED <<in_data, data>>

\* A label on a line of its own; it replaces a pending one.
LabelLine ==
  /\ ReadTextLine
  /\ line.opcode = ""
  /\ pending_label' = strncpy(line.label, LabelSegments)
  /\ UNCHANGED <<instructions, status>>

\* The address is filled in at the end.
NewInstruction(label) ==
  [label       |-> label,
   opcode      |-> to_lower(line.opcode),
   operands    |-> [k \in 1 .. (IF Len(line.operands) <= MAX_OPERANDS
                                THEN Len(line.operands) ELSE MAX_OPERANDS) |->
                      OperandText(line.operands[k])],
   line_number |-> line_number',
   address     |-> 0]

AddInstruction(label) ==
  \/ /\ Len(instructions) < MAX_INSTRUCTIONS
     /\ instructions' = Append(instructions, NewInstruction(label))
     /\ UNCHANGED status
  \/ /\ Len(instructions) >= MAX_INSTRUCTIONS
     /\ status' = "overflow"
     /\ UNCHANGED instructions

\* An instruction with a label of its own leaves a pending one pending.
LabelledInstruction ==
  /\ ReadTextLine
  /\ line.opcode # "" /\ line.colon
  /\ AddInstruction(strncpy(line.label, LabelSegments))
  /\ UNCHANGED pending_label

\* Mutation of PlainInstruction: the pending label is not cleared.
PlainInstructionKeeping ==
  /\ ReadTextLine
  /\ line.opcode # "" /\ ~line.colon
  /\ AddInstruction(pending_label)
  /\ UNCHANGED pending_label

PlainInstruction ==
  /\ ReadTextLine
  /\ line.opcode # "" /\ ~line.colon
  /\ AddInstruction(pending_label)
  /\ pending_label' = << >>
------------------------------------------------------------------------------
\* Mutation of build_symbol_table: the table is full one symbol too early.
build_symbol_table_short(instrs) ==
  LET table[i \in 0 .. Len(instrs)] ==
        IF i = 0 THEN << >> ELSE
        LET before == table[i - 1]
        IN  IF instrs[i].label # << >> /\ Len(before) + 1 < MAX_SYMBOLS
            THEN Append(before, [name |-> instrs[i].label, address |-> instrs[i].address])
            ELSE before
  IN  table[Len(instrs)]

\* The labels of the instructions, in their order, as far as there is room: the
\* table after each round of the loop.
build_symbol_table(instrs) ==
  LET table[i \in 0 .. Len(instrs)] ==
        IF i = 0 THEN << >> ELSE
        LET before == table[i - 1]
        IN  IF instrs[i].label # << >> /\ Len(before) < MAX_SYMBOLS
            THEN Append(before, [name |-> instrs[i].label, address |-> instrs[i].address])
            ELSE before
  IN  table[Len(instrs)]

\* Mutation of Addressed: the addresses begin with 4.
AddressedFromOne(instrs) ==
  [i \in 1 .. Len(instrs) |-> [instrs[i] EXCEPT !.address = 4 * i]]

Addressed(instrs) ==
  [i \in 1 .. Len(instrs) |-> [instrs[i] EXCEPT !.address = 4 * (i - 1)]]

\* The end of the buffer; a label that is still pending is forgotten.
EndOfFile ==
  /\ status = "reading" /\ line_number = Len(file)
  /\ instructions' = Addressed(instructions)
  /\ symbols' = build_symbol_table(Addressed(instructions))
  /\ status' = "assembled"
  /\ UNCHANGED <<file, line_number, in_data, in_text, pending_label, data>>

Next ==
  \/ BlankLine \/ DataDirective \/ TextDirective \/ DataLine
  \/ LabelLine \/ LabelledInstruction \/ PlainInstruction \/ EndOfFile

Spec == Init /\ [][Next]_vars
------------------------------------------------------------------------------
(* The lines of a file, as someone who reads the whole file sees them. *)

InData(f, k) ==
  \E j \in 1 .. k - 1 : /\ IsDirective(f[j], ".data")
                        /\ \A i \in j + 1 .. k - 1 : ~IsDirective(f[i], ".text")

IsStatement(f, k) == HasContent(f[k]) /\ ~InData(f, k) /\ f[k].opcode # ""

\* The statements up to line n.
Statements(f, n) == {k \in 1 .. n : IsStatement(f, k)}

\* Line k of the text defines the label n.
Defines(f, k, n) ==
  /\ f[k].colon /\ ~InData(f, k)
  /\ strncpy(f[k].label, LabelSegments) = n /\ n # << >>

\* The words of the data section up to line n: pairs of a line and an operand.
WordsUpTo(f, n) ==
  UNION {{<<k, w>> : w \in DOMAIN f[k].operands} :
           k \in {j \in 1 .. n : HasContent(f[j]) /\ InData(f, j) /\ f[j].opcode = ".word"}}

\* Line k is a label without a statement.
IsLabelLine(f, k) == HasContent(f[k]) /\ ~InData(f, k) /\ f[k].opcode = ""
------------------------------------------------------------------------------
(* Properties *)

\* The variables have their C types, and the counters stay within the arrays.
TypeOK ==
  /\ line_number \in 0 .. Len(file)
  /\ in_data \in BOOLEAN /\ in_text \in BOOLEAN /\ ~(in_data /\ in_text)
  /\ pending_label \in Name /\ Len(pending_label) <= LabelSegments
  /\ Len(instructions) <= MAX_INSTRUCTIONS
  /\ \A i \in DOMAIN instructions :
       /\ instructions[i].label \in Name
       /\ Len(instructions[i].label) <= LabelSegments
       /\ Len(instructions[i].operands) <= MAX_OPERANDS
       /\ instructions[i].address \in Nat
  /\ Len(data) <= MAX_DATA
  /\ Len(symbols) <= MAX_SYMBOLS
  /\ status \in {"reading", "assembled", "overflow"}

\* Every statement of the text, and nothing else, has become one instruction,
\* in the order of the lines and with the right line number: the two section
\* flags never let a line into the wrong section (assembler.c:186-206, 311).
StatementsBecomeInstructions ==
  status # "overflow" =>
    /\ {instructions[i].line_number : i \in DOMAIN instructions} = Statements(file, line_number)
    /\ \A i, j \in DOMAIN instructions :
         i < j => instructions[i].line_number < instructions[j].line_number

\* The data section is the words of the .word lines, one after the other: each
\* word is at the address that counting the words before it gives, and only the
\* first of a line has the label of the line (assembler.c:209-247).
DataIsTheWords ==
  status # "overflow" =>
    LET words == WordsUpTo(file, line_number)
        Place(k, w) == Cardinality({v \in words : v[1] < k \/ (v[1] = k /\ v[2] <= w)})
    IN  /\ Len(data) = Cardinality(words)
        /\ \A v \in words :
             LET entry == data[Place(v[1], v[2])]
             IN  /\ entry.value = atoi(OperandText(file[v[1]].operands[v[2]]))
                 /\ entry.address = 4 * (Place(v[1], v[2]) - 1)
                 /\ entry.label = IF v[2] = 1 THEN strncpy(file[v[1]].label, LabelSegments)
                                              ELSE << >>

\* A label names the instruction on its line or the next one that has no label
\* of its own: no plain statement lies between the line of the label and the
\* line of the instruction (assembler.c:261-286).  A pending label is never
\* used twice and never survives a newer one.
LabelsNameWhatFollows ==
  \A i \in DOMAIN instructions :
    LET here == instructions[i].line_number
    IN  instructions[i].label # << >> =>
          \E k \in 1 .. here :
            /\ Defines(file, k, instructions[i].label)
            /\ k < here => /\ IsLabelLine(file, k) /\ ~file[here].colon
                           /\ \A j \in k + 1 .. here - 1 :
                                /\ ~IsLabelLine(file, j)
                                /\ IsStatement(file, j) => file[j].colon

\* Every label that some plain statement follows, before any other label line,
\* can be found, and so can every label with a statement on its line: the table
\* has room for all of them (assembler.c:107-111), and find_symbol returns the
\* address of the first instruction that has the label.
LabelsAreFound ==
  status = "assembled" =>
    \A k \in DOMAIN file :
      LET n == strncpy(file[k].label, LabelSegments)
      IN  /\ Defines(file, k, n)
          /\ \/ IsStatement(file, k)
             \/ \E s \in k + 1 .. Len(file) :
                  /\ IsStatement(file, s) /\ ~file[s].colon
                  /\ \A j \in k + 1 .. s : ~IsLabelLine(file, j)
          => \E i \in DOMAIN instructions :
               /\ find_symbol(symbols, n) = {instructions[i].address}
               /\ instructions[i].label = n
               /\ \A j \in DOMAIN instructions : instructions[j].label = n => i <= j
===============================================================================
