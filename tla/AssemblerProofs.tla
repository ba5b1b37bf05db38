---------------------------- MODULE AssemblerProofs ----------------------------
(***************************************************************************)
(* The assembler's pass over the lines, for all files and all capacities.  *)
(***************************************************************************)
EXTENDS AssemblerAsLabels, WordProofs

------------------------------------------------------------------------------
(* Types *)

LowerText == {to_lower(t) : t \in STRING}

OperandTexts == {OperandText(name) : name \in Name}

Parsed == [label : Name, opcode : LowerText, operands : Seq(OperandTexts),
           line_number : Nat, address : Nat]

Entry == [label : Name, value : Int, address : Nat]

Symbol == [name : Name, address : Nat]

\* What TypeOK needs to be inductive: the arrays are sequences of their structs.
Typed ==
  /\ file \in Seq(Line) /\ \A k \in DOMAIN file : file[k].colon \/ file[k].label = << >>
  /\ line_number \in 0 .. Len(file)
  /\ in_data \in BOOLEAN /\ in_text \in BOOLEAN /\ ~(in_data /\ in_text)
  /\ pending_label \in Name /\ Len(pending_label) <= LabelSegments
  /\ instructions \in Seq(Parsed) /\ Len(instructions) <= MAX_INSTRUCTIONS
  /\ \A i \in DOMAIN instructions :
       /\ Len(instructions[i].label) <= LabelSegments
       /\ Len(instructions[i].operands) <= MAX_OPERANDS
  /\ data \in Seq(Entry) /\ Len(data) <= MAX_DATA
  /\ symbols \in Seq(Symbol) /\ Len(symbols) <= MAX_SYMBOLS
  /\ status \in {"reading", "assembled", "overflow"}

\* A copy of a name is a name that fits.
LEMMA CopyFits ==
  ASSUME NEW name \in Name, NEW n \in Nat
  PROVE  strncpy(name, n) \in Name /\ Len(strncpy(name, n)) <= n
<1>1. CASE Len(name) <= n
  BY <1>1 DEF strncpy
<1>2. CASE ~(Len(name) <= n)
  <2>1. Len(name) \in Nat /\ \A k \in 1 .. n : name[k] \in STRING
    BY <1>2 DEF Name
  <2>2. SubSeq(name, 1, n) = [k \in 1 .. n |-> name[k]]
    BY <1>2, <2>1 DEF Name
  <2>3. SubSeq(name, 1, n) \in Seq(STRING) /\ Len(SubSeq(name, 1, n)) = n
    BY <2>1, <2>2
  <2> QED BY <1>2, <2>3 DEF strncpy, Name
<1> QED BY <1>1, <1>2

\* atoi makes an integer of any text.
LEMMA NumberIsInt ==
  ASSUME NEW t
  PROVE  atoi(t) \in Int
<1>1. CASE t \in DOMAIN Numbers
  <2>1. Numbers[t].decimal \in Int
    BY <1>1, NumbersAssumption
  <2>2. Int32Mod \in Nat /\ Int32Mod > 0 /\ Int32Mod \div 2 \in Int
    BY Int32Assumption
  <2> QED BY <1>1, <2>1, <2>2 DEF atoi, Int32
<1>2. CASE t \notin DOMAIN Numbers
  BY <1>2 DEF atoi
<1> QED BY <1>1, <1>2

\* The capacities are numbers.
LEMMA Capacities ==
  /\ LabelSegments \in Nat /\ MAX_OPERANDS \in Nat /\ MAX_INSTRUCTIONS \in Nat
  /\ MAX_DATA \in Nat /\ MAX_SYMBOLS \in Nat
BY CapacityAssumption

\* The line that is read next.
LEMMA LineTyped ==
  ASSUME Typed, line_number < Len(file)
  PROVE  /\ line \in Line /\ line_number + 1 \in DOMAIN file
         /\ line.colon \/ line.label = << >>
<1>1. line_number + 1 \in 1 .. Len(file)
  BY DEF Typed
<1>2. line_number + 1 \in DOMAIN file
  BY <1>1 DEF Typed
<1> QED BY <1>2 DEF Typed, line

\* A new instruction is one.
LEMMA NewInstructionTyped ==
  ASSUME Typed, ReadLine, NEW label \in Name, Len(label) <= LabelSegments
  PROVE  /\ NewInstruction(label) \in Parsed
         /\ Len(NewInstruction(label).operands) <= MAX_OPERANDS
         /\ NewInstruction(label).label = label
         /\ NewInstruction(label).line_number = line_number + 1
<1>1. line \in Line /\ line_number + 1 \in Nat /\ line_number' = line_number + 1
  BY LineTyped DEF ReadLine, Typed
<1>2. line.opcode \in STRING /\ line.operands \in Seq(Name)
  BY <1>1 DEF Line
<1> DEFINE n == IF Len(line.operands) <= MAX_OPERANDS THEN Len(line.operands) ELSE MAX_OPERANDS
           ops == [k \in 1 .. n |-> OperandText(line.operands[k])]
<1>3. n \in Nat /\ n <= MAX_OPERANDS /\ n <= Len(line.operands)
  BY <1>2, Capacities
<1> HIDE DEF n
<1>4. \A k \in 1 .. n : OperandText(line.operands[k]) \in OperandTexts
  <2> TAKE k \in 1 .. n
  <2>1. line.operands[k] \in Name
    BY <1>2, <1>3
  <2> QED BY <2>1 DEF OperandTexts
<1>5. ops \in Seq(OperandTexts) /\ Len(ops) = n
  BY <1>3, <1>4
<1>6. to_lower(line.opcode) \in LowerText
  BY <1>2 DEF LowerText
<1>7. NewInstruction(label) =
        [label |-> label, opcode |-> to_lower(line.opcode), operands |-> ops,
         line_number |-> line_number + 1, address |-> 0]
  BY <1>1 DEF NewInstruction, n
<1> HIDE DEF ops
<1> QED BY <1>1, <1>3, <1>5, <1>6, <1>7 DEF Parsed

\* Adding an instruction keeps the array one of instructions.
LEMMA AddTyped ==
  ASSUME Typed, ReadLine, NEW label \in Name, Len(label) <= LabelSegments, AddInstruction(label)
  PROVE  /\ instructions' \in Seq(Parsed) /\ Len(instructions') <= MAX_INSTRUCTIONS
         /\ \A i \in DOMAIN instructions' :
              /\ Len(instructions'[i].label) <= LabelSegments
              /\ Len(instructions'[i].operands) <= MAX_OPERANDS
         /\ status' \in {"reading", "assembled", "overflow"}
<1> DEFINE new == NewInstruction(label)
<1>1. new \in Parsed /\ Len(new.operands) <= MAX_OPERANDS /\ new.label = label
  BY NewInstructionTyped
<1> HIDE DEF new
<1>2. CASE /\ Len(instructions) < MAX_INSTRUCTIONS
           /\ instructions' = Append(instructions, new) /\ UNCHANGED status
  BY <1>1, <1>2, Capacities DEF Typed
<1>3. CASE UNCHANGED instructions /\ status' = "overflow"
  BY <1>3 DEF Typed
<1> QED BY <1>2, <1>3 DEF AddInstruction, new

\* The words of a line are data entries.
LEMMA EntriesTyped ==
  ASSUME Typed, line_number < Len(file)
  PROVE  /\ WordEntries(line) \in Seq(Entry)
         /\ Len(WordEntries(line)) = Len(line.operands)
         /\ Len(line.operands) \in Nat
<1>1. line \in Line
  BY LineTyped
<1>2. line.label \in Name /\ line.operands \in Seq(Name) /\ Len(data) \in Nat
  BY <1>1 DEF Line, Typed
<1>3. ASSUME NEW k \in 1 .. Len(line.operands) PROVE WordEntries(line)[k] \in Entry
  <2> DEFINE label == IF k = 1 THEN strncpy(line.label, LabelSegments) ELSE << >>
             value == atoi(OperandText(line.operands[k]))
  <2>1. label \in Name
    <3>1. << >> \in Name
      BY DEF Name
    <3> QED BY <1>2, <3>1, CopyFits, Capacities
  <2>2. value \in Int
    BY NumberIsInt
  <2>3. 4 * (Len(data) + k - 1) \in Nat
    BY <1>2
  <2>4. WordEntries(line)[k] = [label |-> label, value |-> value,
                                address |-> 4 * (Len(data) + k - 1)]
    BY DEF WordEntries
  <2> HIDE DEF label, value
  <2> QED BY <2>1, <2>2, <2>3, <2>4 DEF Entry
<1>4. DOMAIN WordEntries(line) = 1 .. Len(line.operands) /\ Len(line.operands) \in Nat
  BY <1>2 DEF WordEntries
<1>5. WordEntries(line) = [k \in 1 .. Len(line.operands) |-> WordEntries(line)[k]]
  BY <1>4 DEF WordEntries
<1> QED BY <1>3, <1>4, <1>5

\* What build_symbol_table makes of the instructions: the table after each round
\* of its loop, which takes the next instruction's label if there is one and room.
LEMMA SymbolTable ==
  ASSUME NEW instrs \in Seq(Parsed)
  PROVE  \E table \in [0 .. Len(instrs) -> Seq(Symbol)] :
           /\ table[0] = << >>
           /\ \A i \in 1 .. Len(instrs) :
                table[i] = IF instrs[i].label # << >> /\ Len(table[i - 1]) < MAX_SYMBOLS
                           THEN Append(table[i - 1], [name    |-> instrs[i].label,
                                                      address |-> instrs[i].address])
                           ELSE table[i - 1]
           /\ build_symbol_table(instrs) = table[Len(instrs)]
<1> DEFINE N == Len(instrs)
           Round(i, before) ==
             IF instrs[i].label # << >> /\ Len(before) < MAX_SYMBOLS
             THEN Append(before, [name |-> instrs[i].label, address |-> instrs[i].address])
             ELSE before
           g == [r \in (1 .. N) \X Seq(Symbol) |-> Round(r[1], r[2])]
           Loop(t) == t = [i \in 0 .. N |-> IF i = 0 THEN << >> ELSE Round(i, t[i - 1])]
           table == CHOOSE t : Loop(t)
<1>1. N \in Nat /\ \A i \in 1 .. N : instrs[i] \in Parsed
  OBVIOUS
<1>2. ASSUME NEW i \in 1 .. N, NEW before \in Seq(Symbol)
      PROVE  Round(i, before) \in Seq(Symbol)
  <2>1. [name |-> instrs[i].label, address |-> instrs[i].address] \in Symbol
    BY <1>1 DEF Parsed, Symbol
  <2> QED BY <2>1
<1>3. build_symbol_table(instrs) = table[N]
  BY DEF build_symbol_table
<1> HIDE DEF Round, N
<1>4. g \in [(1 .. N) \X Seq(Symbol) -> Seq(Symbol)] /\ << >> \in Seq(Symbol)
  BY <1>2
<1>5. PICK F \in [0 .. N -> Seq(Symbol)] :
        F[0] = << >> /\ \A i \in 1 .. N : F[i] = g[<<i, F[i - 1]>>]
  <2> HIDE DEF g
  <2> DEFINE S == Seq(Symbol)  a == << >>
  <2>1. g \in [(1 .. N) \X S -> S] /\ a \in S
    BY <1>4
  <2> HIDE DEF S, a
  <2>2. PICK F : IsRecursion(F, S, N, a, g)
    BY <1>1, <2>1, RecursionHasSolution, Zenon
  <2> QED BY <2>2 DEF S, a, IsRecursion
<1>6. \A i \in 1 .. N : F[i] = Round(i, F[i - 1])
  <2> TAKE i \in 1 .. N
  <2>1. F[i - 1] \in Seq(Symbol)
    BY <1>1, <1>5
  <2> QED BY <1>5, <2>1
<1>7. Loop(F)
  <2>1. \A i \in 0 .. N : F[i] = IF i = 0 THEN << >> ELSE Round(i, F[i - 1])
    BY <1>1, <1>5, <1>6
  <2> QED BY <1>5, <2>1
<1> HIDE DEF Loop
<1>8. Loop(table)
  BY <1>7
<1> HIDE DEF table
<1>9. table[0] = << >> /\ \A i \in 1 .. N : table[i] = Round(i, table[i - 1])
  BY <1>1, <1>8 DEF Loop
<1>10. table \in [0 .. N -> Seq(Symbol)]
  <2> DEFINE T == {i \in 0 .. N : table[i] \in Seq(Symbol)}
  <2>1. 0 \in T
    <3>1. 0 \in 0 .. N
      BY <1>1
    <3> QED BY <1>4, <1>9, <3>1
  <2>2. ASSUME NEW i \in 1 .. N, i - 1 \in T PROVE i \in T
    BY <1>1, <1>2, <1>9, <2>2
  <2> HIDE DEF T
  <2>3. 0 .. N \subseteq T
    BY <1>1, <2>1, <2>2, RangeInductionOnSet
  <2>4. \A i \in 0 .. N : table[i] \in Seq(Symbol)
    BY <2>3 DEF T
  <2> QED BY <1>8, <2>4 DEF Loop
<1> USE DEF Round, N
<1> QED BY <1>3, <1>9, <1>10

\* Addresses are filled in, and nothing else of an instruction changes.
LEMMA AddressedTyped ==
  ASSUME NEW instrs \in Seq(Parsed)
  PROVE  /\ Addressed(instrs) \in Seq(Parsed) /\ Len(Addressed(instrs)) = Len(instrs)
         /\ \A i \in 1 .. Len(instrs) :
              /\ Addressed(instrs)[i].label = instrs[i].label
              /\ Addressed(instrs)[i].opcode = instrs[i].opcode
              /\ Addressed(instrs)[i].operands = instrs[i].operands
              /\ Addressed(instrs)[i].line_number = instrs[i].line_number
              /\ Addressed(instrs)[i].address = 4 * (i - 1)
<1> DEFINE new(i) == [instrs[i] EXCEPT !.address = 4 * (i - 1)]
<1>1. ASSUME NEW i \in 1 .. Len(instrs)
      PROVE  /\ new(i) \in Parsed /\ new(i).label = instrs[i].label
             /\ new(i).opcode = instrs[i].opcode
             /\ new(i).operands = instrs[i].operands
             /\ new(i).line_number = instrs[i].line_number
             /\ new(i).address = 4 * (i - 1)
  <2>1. instrs[i] \in Parsed /\ 4 * (i - 1) \in Nat
    OBVIOUS
  <2> QED BY <2>1 DEF Parsed
<1>2. Addressed(instrs) = [i \in 1 .. Len(instrs) |-> new(i)]
  BY DEF Addressed
<1> HIDE DEF new
<1> QED BY <1>1, <1>2

\* The symbol table is one, and has its capacity.
LEMMA SymbolsTyped ==
  ASSUME NEW instrs \in Seq(Parsed)
  PROVE  /\ build_symbol_table(instrs) \in Seq(Symbol)
         /\ Len(build_symbol_table(instrs)) <= MAX_SYMBOLS
<1>1. PICK table \in [0 .. Len(instrs) -> Seq(Symbol)] :
        /\ table[0] = << >>
        /\ \A i \in 1 .. Len(instrs) :
             table[i] = IF instrs[i].label # << >> /\ Len(table[i - 1]) < MAX_SYMBOLS
                        THEN Append(table[i - 1], [name    |-> instrs[i].label,
                                                   address |-> instrs[i].address])
                        ELSE table[i - 1]
        /\ build_symbol_table(instrs) = table[Len(instrs)]
  BY SymbolTable
<1> DEFINE T == {i \in 0 .. Len(instrs) : Len(table[i]) <= MAX_SYMBOLS}
<1>2. 0 \in T
  BY <1>1, Capacities
<1>3. ASSUME NEW i \in 1 .. Len(instrs), i - 1 \in T PROVE i \in T
  <2>1. table[i - 1] \in Seq(Symbol) /\ table[i] \in Seq(Symbol)
    OBVIOUS
  <2>2. CASE instrs[i].label # << >> /\ Len(table[i - 1]) < MAX_SYMBOLS
    <3> DEFINE s == [name |-> instrs[i].label, address |-> instrs[i].address]
    <3>1. table[i] = Append(table[i - 1], s)
      BY <1>1, <2>2
    <3> HIDE DEF s
    <3> QED BY <2>1, <2>2, <3>1, Capacities
  <2>3. CASE ~(instrs[i].label # << >> /\ Len(table[i - 1]) < MAX_SYMBOLS)
    <3>1. table[i] = table[i - 1]
      BY <1>1, <2>3, Zenon
    <3> QED BY <1>3, <3>1
  <2> QED BY <2>2, <2>3
<1> HIDE DEF T
<1>4. 0 .. Len(instrs) \subseteq T
  <2>1. Len(instrs) \in Nat
    OBVIOUS
  <2> QED BY <1>2, <1>3, <2>1, RangeInductionOnSet
<1>5. Len(table[Len(instrs)]) <= MAX_SYMBOLS
  BY <1>4 DEF T
<1> QED BY <1>1, <1>5

\* At first nothing has been read.
LEMMA InitTyped == Init => Typed
<1> SUFFICES ASSUME Init PROVE Typed
  OBVIOUS
<1>1. file \in Seq(Line) /\ \A k \in DOMAIN file : file[k].colon \/ file[k].label = << >>
  BY FilesAssumption DEF Init
<1>2. << >> \in Name /\ << >> \in Seq(Parsed) /\ << >> \in Seq(Entry) /\ << >> \in Seq(Symbol)
  BY DEF Name
<1>3. /\ Len(<< >>) = 0 /\ DOMAIN << >> = {} /\ 0 \in 0 .. Len(file)
      /\ \A n \in Nat : Len(<< >>) <= n
  BY <1>1
<1> QED BY <1>1, <1>2, <1>3, Capacities DEF Init, Typed

\* Every way through the loop, and what follows it, keep the types.
LEMMA NextTyped == Typed /\ [Next]_vars => Typed'
<1> SUFFICES ASSUME Typed, [Next]_vars PROVE Typed'
  OBVIOUS
<1>1. ASSUME ReadLine
      PROVE  /\ file' = file /\ symbols' = symbols
             /\ line_number < Len(file) /\ line_number' \in 0 .. Len(file)
  BY <1>1 DEF ReadLine, Typed
<1>2. CASE BlankLine
  BY <1>1, <1>2 DEF BlankLine, Typed
<1>3. CASE DataDirective
  BY <1>1, <1>3 DEF DataDirective, Typed
<1>4. CASE TextDirective
  BY <1>1, <1>4 DEF TextDirective, Typed
<1>5. CASE DataLine
  <2>1. /\ ReadLine /\ UNCHANGED <<in_data, in_text, pending_label, instructions>>
        /\ \/ Len(data) + Len(line.operands) <= MAX_DATA /\ data' = data \o WordEntries(line)
              /\ UNCHANGED status
           \/ status' \in {"overflow", status} /\ UNCHANGED data
    BY <1>5 DEF DataLine
  <2>2. data' \in Seq(Entry) /\ Len(data') <= MAX_DATA
    <3>1. WordEntries(line) \in Seq(Entry) /\ Len(WordEntries(line)) = Len(line.operands)
      BY <1>1, <2>1, EntriesTyped
    <3>2. data \in Seq(Entry) /\ Len(data) <= MAX_DATA
      BY DEF Typed
    <3>3. /\ data \o WordEntries(line) \in Seq(Entry)
          /\ Len(data \o WordEntries(line)) = Len(data) + Len(line.operands)
      BY <3>1, <3>2
    <3> QED BY <2>1, <3>2, <3>3
  <2> QED BY <1>1, <2>1, <2>2 DEF Typed
<1>6. CASE LabelLine
  <2>1. /\ ReadLine /\ in_text' = TRUE /\ ~in_data /\ UNCHANGED <<in_data, data>>
        /\ pending_label' = strncpy(line.label, LabelSegments)
        /\ UNCHANGED <<instructions, status>>
    BY <1>6 DEF LabelLine, ReadTextLine
  <2>2. line.label \in Name
    BY <1>1, <2>1, LineTyped DEF Line
  <2>3. pending_label' \in Name /\ Len(pending_label') <= LabelSegments
    BY <2>1, <2>2, CopyFits, Capacities
  <2> QED BY <1>1, <2>1, <2>3 DEF Typed
<1>7. CASE LabelledInstruction
  <2>1. /\ ReadLine /\ in_text' = TRUE /\ ~in_data /\ UNCHANGED <<in_data, data>>
        /\ AddInstruction(strncpy(line.label, LabelSegments))
        /\ UNCHANGED pending_label
    BY <1>7 DEF LabelledInstruction, ReadTextLine
  <2>2. line.label \in Name
    BY <1>1, <2>1, LineTyped DEF Line
  <2>3. strncpy(line.label, LabelSegments) \in Name
        /\ Len(strncpy(line.label, LabelSegments)) <= LabelSegments
    BY <2>2, CopyFits, Capacities
  <2>4. /\ instructions' \in Seq(Parsed) /\ Len(instructions') <= MAX_INSTRUCTIONS
        /\ \A i \in DOMAIN instructions' :
             /\ Len(instructions'[i].label) <= LabelSegments
             /\ Len(instructions'[i].operands) <= MAX_OPERANDS
        /\ status' \in {"reading", "assembled", "overflow"}
    BY <2>1, <2>3, AddTyped
  <2> QED BY <1>1, <2>1, <2>4 DEF Typed
<1>8. CASE PlainInstruction
  <2>1. /\ ReadLine /\ in_text' = TRUE /\ ~in_data /\ UNCHANGED <<in_data, data>>
        /\ AddInstruction(pending_label)
        /\ pending_label' = << >>
    BY <1>8 DEF PlainInstruction, ReadTextLine
  <2>2. pending_label \in Name /\ Len(pending_label) <= LabelSegments
    BY DEF Typed
  <2>3. /\ instructions' \in Seq(Parsed) /\ Len(instructions') <= MAX_INSTRUCTIONS
        /\ \A i \in DOMAIN instructions' :
             /\ Len(instructions'[i].label) <= LabelSegments
             /\ Len(instructions'[i].operands) <= MAX_OPERANDS
        /\ status' \in {"reading", "assembled", "overflow"}
    BY <2>1, <2>2, AddTyped
  <2>4. pending_label' \in Name /\ Len(pending_label') <= LabelSegments
    BY <2>1, Capacities DEF Name
  <2> QED BY <1>1, <2>1, <2>3, <2>4 DEF Typed
<1>9. CASE EndOfFile
  <2>1. /\ instructions' = Addressed(instructions)
        /\ symbols' = build_symbol_table(Addressed(instructions))
        /\ status' = "assembled"
        /\ UNCHANGED <<file, line_number, in_data, in_text, pending_label, data>>
    BY <1>9 DEF EndOfFile
  <2>2. instructions \in Seq(Parsed)
    BY DEF Typed
  <2>3. /\ instructions' \in Seq(Parsed) /\ Len(instructions') = Len(instructions)
        /\ \A i \in 1 .. Len(instructions) :
              /\ instructions'[i].label = instructions[i].label
              /\ instructions'[i].operands = instructions[i].operands
    BY <2>1, <2>2, AddressedTyped
  <2>4. symbols' \in Seq(Symbol) /\ Len(symbols') <= MAX_SYMBOLS
    BY <2>1, <2>3, SymbolsTyped
  <2>5. /\ Len(instructions') <= MAX_INSTRUCTIONS
        /\ \A i \in DOMAIN instructions' :
             /\ Len(instructions'[i].label) <= LabelSegments
             /\ Len(instructions'[i].operands) <= MAX_OPERANDS
    BY <2>2, <2>3 DEF Typed
  <2> QED BY <2>1, <2>3, <2>4, <2>5 DEF Typed
<1>10. CASE UNCHANGED vars
  BY <1>10 DEF vars, Typed
<1> QED BY <1>2, <1>3, <1>4, <1>5, <1>6, <1>7, <1>8, <1>9, <1>10 DEF Next

\* In every file and with every capacity the variables have their C types, and
\* none of the arrays is ever filled beyond its end without the model noticing:
\* the counters stop at the capacities (assembler.h:8-12).
THEOREM TypeCorrect == Spec => []TypeOK
<1>1. Typed => TypeOK
  <2> SUFFICES ASSUME Typed PROVE TypeOK
    OBVIOUS
  <2>1. \A i \in DOMAIN instructions : instructions[i] \in Parsed
    BY DEF Typed
  <2>2. \A i \in DOMAIN instructions :
          instructions[i].label \in Name /\ instructions[i].address \in Nat
    BY <2>1 DEF Parsed
  <2> QED BY <2>2 DEF Typed, TypeOK
<1> QED BY <1>1, InitTyped, NextTyped, PTL DEF Spec
------------------------------------------------------------------------------
(* Sections, statements and label lines *)

\* A line after the first is in the data section if the line before it begins
\* one, or was in it and does not end it.
LEMMA InDataNext ==
  ASSUME NEW f, NEW k \in Nat \ {0}
  PROVE  InData(f, k + 1) <=> \/ IsDirective(f[k], ".data")
                              \/ InData(f, k) /\ ~IsDirective(f[k], ".text")
<1> DEFINE begins(j) == IsDirective(f[j], ".data")  ends(j) == IsDirective(f[j], ".text")
<1>1. ~begins(k) \/ ~ends(k)
  BY DEF IsDirective
<1>2. InData(f, k + 1) <=> \E j \in 1 .. k : begins(j) /\ \A i \in j + 1 .. k : ~ends(i)
  BY DEF InData
<1>3. InData(f, k) <=> \E j \in 1 .. k - 1 : begins(j) /\ \A i \in j + 1 .. k - 1 : ~ends(i)
  BY DEF InData
<1> HIDE DEF begins, ends
<1>4. ASSUME begins(k)
      PROVE  \E j \in 1 .. k : begins(j) /\ \A i \in j + 1 .. k : ~ends(i)
  <2>1. k \in 1 .. k /\ k + 1 .. k = {}
    OBVIOUS
  <2> QED BY <1>4, <2>1
<1>5. ASSUME NEW j \in 1 .. k - 1, begins(j), \A i \in j + 1 .. k - 1 : ~ends(i), ~ends(k)
      PROVE  \E jj \in 1 .. k : begins(jj) /\ \A i \in jj + 1 .. k : ~ends(i)
  <2>1. j \in 1 .. k /\ \A i \in j + 1 .. k : i \in j + 1 .. k - 1 \/ i = k
    OBVIOUS
  <2> QED BY <1>5, <2>1
<1>6. ASSUME NEW j \in 1 .. k, begins(j), \A i \in j + 1 .. k : ~ends(i), ~begins(k)
      PROVE  /\ ~ends(k)
             /\ \E jj \in 1 .. k - 1 : begins(jj) /\ \A i \in jj + 1 .. k - 1 : ~ends(i)
  <2>1. j # k
    BY <1>6
  <2>2. j \in 1 .. k - 1 /\ k \in j + 1 .. k /\ j + 1 .. k - 1 \subseteq j + 1 .. k
    BY <2>1
  <2> QED BY <1>6, <2>2
<1>7. begins(k) \/ (InData(f, k) /\ ~ends(k)) => InData(f, k + 1)
  BY <1>2, <1>3, <1>4, <1>5
<1>8. InData(f, k + 1) => begins(k) \/ (InData(f, k) /\ ~ends(k))
  BY <1>2, <1>3, <1>6
<1> QED BY <1>7, <1>8 DEF begins, ends

\* The section flags are what the directives up to now say.
SectionsTracked == in_data <=> InData(file, line_number + 1)

\* The line that is read, as the property's reader of the whole file sees it.
LEMMA WhatIsRead ==
  ASSUME Typed, SectionsTracked, ReadLine
  PROVE  /\ file[line_number + 1] = line
         /\ InData(file, line_number + 1) <=> in_data
         /\ IsStatement(file, line_number + 1) <=> HasContent(line) /\ ~in_data /\ line.opcode # ""
         /\ IsLabelLine(file, line_number + 1) <=> HasContent(line) /\ ~in_data /\ line.opcode = ""
BY DEF SectionsTracked, IsStatement, IsLabelLine, line

\* At first the flags are right.
LEMMA SectionsInit == Init => SectionsTracked
<1> SUFFICES ASSUME Init PROVE ~InData(file, 1) /\ line_number + 1 = 1 /\ ~in_data
  BY DEF SectionsTracked
<1> QED BY DEF Init, InData

\* Every line keeps them right.
LEMMA SectionsStep == Typed /\ SectionsTracked /\ [Next]_vars => SectionsTracked'
<1> SUFFICES ASSUME Typed, SectionsTracked, [Next]_vars PROVE SectionsTracked'
  OBVIOUS
<1>1. ASSUME ReadLine,
             in_data' <=> \/ IsDirective(line, ".data")
                          \/ in_data /\ ~IsDirective(line, ".text")
      PROVE  SectionsTracked'
  <2>1. file' = file /\ line_number' = line_number + 1 /\ line_number + 1 \in Nat \ {0}
    BY <1>1 DEF ReadLine, Typed
  <2>2. InData(file, (line_number + 1) + 1) <=> in_data'
    BY <1>1, <2>1, InDataNext DEF SectionsTracked, line
  <2> QED BY <2>1, <2>2 DEF SectionsTracked
<1>2. CASE BlankLine
  BY <1>1, <1>2 DEF BlankLine, IsBlank, IsDirective
<1>3. CASE DataDirective
  BY <1>1, <1>3 DEF DataDirective
<1>4. CASE TextDirective
  <2>1. ~IsDirective(line, ".data")
    BY <1>4 DEF TextDirective, IsDirective
  <2> QED BY <1>1, <1>4, <2>1 DEF TextDirective
<1>5. CASE DataLine
  BY <1>1, <1>5 DEF DataLine, HasContent
<1>6. CASE LabelLine \/ LabelledInstruction \/ PlainInstruction
  <2>1. ReadTextLine
    BY <1>6 DEF LabelLine, LabelledInstruction, PlainInstruction
  <2> QED BY <1>1, <2>1 DEF ReadTextLine, HasContent
<1>7. CASE EndOfFile
  BY <1>7 DEF EndOfFile, SectionsTracked
<1>8. CASE UNCHANGED vars
  BY <1>8 DEF vars, SectionsTracked
<1> QED BY <1>2, <1>3, <1>4, <1>5, <1>6, <1>7, <1>8 DEF Next

\* What each way through the loop reads, and what it leaves alone.
LEMMA Reads ==
  ASSUME Typed, SectionsTracked, ReadLine, Next
  PROVE  LET k == line_number + 1
         IN  \/ /\ ~IsStatement(file, k) /\ ~IsLabelLine(file, k)
                /\ UNCHANGED <<pending_label, instructions>>
             \/ /\ IsLabelLine(file, k) /\ LabelLine
             \/ /\ IsStatement(file, k) /\ line.colon /\ LabelledInstruction
             \/ /\ IsStatement(file, k) /\ ~line.colon /\ PlainInstruction
<1>1. CASE BlankLine
  BY <1>1, WhatIsRead DEF BlankLine, HasContent
<1>2. CASE DataDirective
  BY <1>2, WhatIsRead DEF DataDirective, HasContent
<1>3. CASE TextDirective
  BY <1>3, WhatIsRead DEF TextDirective, HasContent
<1>4. CASE DataLine
  BY <1>4, WhatIsRead DEF DataLine
<1>5. CASE LabelLine
  BY <1>5, WhatIsRead DEF LabelLine, ReadTextLine
<1>6. CASE LabelledInstruction
  BY <1>6, WhatIsRead DEF LabelledInstruction, ReadTextLine
<1>7. CASE PlainInstruction
  BY <1>7, WhatIsRead DEF PlainInstruction, ReadTextLine
<1>8. ~EndOfFile
  BY DEF EndOfFile, ReadLine, Typed
<1> QED BY <1>1, <1>2, <1>3, <1>4, <1>5, <1>6, <1>7, <1>8 DEF Next

\* A step reads a line, or ends the pass, or changes nothing.
LEMMA StepReads ==
  ASSUME [Next]_vars
  PROVE  (ReadLine /\ Next) \/ EndOfFile \/ UNCHANGED vars
BY DEF Next, BlankLine, DataDirective, TextDirective, DataLine, LabelLine,
       LabelledInstruction, PlainInstruction, ReadTextLine

\* The end of the file gives addresses; labels and line numbers stay.
LEMMA EndKeeps ==
  ASSUME Typed, EndOfFile
  PROVE  /\ UNCHANGED <<file, line_number, pending_label, data>>
         /\ status = "reading" /\ status' = "assembled"
         /\ DOMAIN instructions' = DOMAIN instructions
         /\ \A i \in DOMAIN instructions :
              /\ instructions'[i].label = instructions[i].label
              /\ instructions'[i].line_number = instructions[i].line_number
              /\ instructions'[i].address = 4 * (i - 1)
<1>1. instructions \in Seq(Parsed)
  BY DEF Typed
<1>2. /\ Addressed(instructions) \in Seq(Parsed)
      /\ Len(Addressed(instructions)) = Len(instructions)
      /\ \A i \in 1 .. Len(instructions) :
           /\ Addressed(instructions)[i].label = instructions[i].label
           /\ Addressed(instructions)[i].line_number = instructions[i].line_number
           /\ Addressed(instructions)[i].address = 4 * (i - 1)
  BY <1>1, AddressedTyped
<1> QED BY <1>1, <1>2 DEF EndOfFile

\* An instruction is added behind the others, unless there is no room.
LEMMA Added ==
  ASSUME Typed, ReadLine, NEW label \in Name, Len(label) <= LabelSegments, AddInstruction(label)
  PROVE  \/ /\ DOMAIN instructions' = 1 .. Len(instructions) + 1
            /\ DOMAIN instructions = 1 .. Len(instructions) /\ Len(instructions) \in Nat
            /\ \A i \in 1 .. Len(instructions) : instructions'[i] = instructions[i]
            /\ instructions'[Len(instructions) + 1].label = label
            /\ instructions'[Len(instructions) + 1].line_number = line_number + 1
            /\ UNCHANGED status
         \/ UNCHANGED instructions /\ status' = "overflow"
<1> DEFINE new == NewInstruction(label)
<1>1. new \in Parsed /\ new.label = label /\ new.line_number = line_number + 1
  BY NewInstructionTyped
<1>2. instructions \in Seq(Parsed)
  BY DEF Typed
<1>3. \/ instructions' = Append(instructions, new) /\ UNCHANGED status
      \/ UNCHANGED instructions /\ status' = "overflow"
  BY DEF AddInstruction
<1> HIDE DEF new
<1> QED BY <1>1, <1>2, <1>3
------------------------------------------------------------------------------
(* Statements become instructions *)

\* One more line is at most one more statement.
LEMMA StatementsNext ==
  ASSUME NEW f, NEW n \in Nat
  PROVE  /\ Statements(f, n + 1) = IF IsStatement(f, n + 1) THEN Statements(f, n) \cup {n + 1}
                                   ELSE Statements(f, n)
         /\ \A k \in Statements(f, n) : k \in Nat /\ k <= n
<1> HIDE DEF IsStatement
<1>1. 1 .. n + 1 = (1 .. n) \cup {n + 1}
  OBVIOUS
<1> QED BY <1>1 DEF Statements

\* Every kind of step keeps the instructions those of the statements.
LEMMA StatementsStep ==
  Typed /\ SectionsTracked /\ StatementsBecomeInstructions /\ [Next]_vars
    => StatementsBecomeInstructions'
<1> DEFINE k == line_number + 1
<1> SUFFICES ASSUME Typed, SectionsTracked, StatementsBecomeInstructions, [Next]_vars,
                    status' # "overflow"
             PROVE  /\ {instructions'[i].line_number : i \in DOMAIN instructions'}
                         = Statements(file', line_number')
                    /\ \A i, j \in DOMAIN instructions' :
                         i < j => instructions'[i].line_number < instructions'[j].line_number
  BY DEF StatementsBecomeInstructions
<1>1. CASE ReadLine /\ Next
  <2>1. /\ status = "reading" /\ file' = file /\ line_number' = k /\ line_number \in Nat
        /\ {instructions[i].line_number : i \in DOMAIN instructions} = Statements(file, line_number)
        /\ \A i, j \in DOMAIN instructions :
             i < j => instructions[i].line_number < instructions[j].line_number
    BY <1>1 DEF ReadLine, Typed, StatementsBecomeInstructions
  <2>2. CASE ~IsStatement(file, k) /\ UNCHANGED instructions
    BY <2>1, <2>2, StatementsNext
  <2>3. CASE IsStatement(file, k) /\ \E label \in Name : /\ Len(label) <= LabelSegments
                                                        /\ AddInstruction(label)
    <3>1. PICK label \in Name : Len(label) <= LabelSegments /\ AddInstruction(label)
      BY <2>3
    <3>2. /\ DOMAIN instructions' = 1 .. Len(instructions) + 1
          /\ DOMAIN instructions = 1 .. Len(instructions) /\ Len(instructions) \in Nat
          /\ \A i \in 1 .. Len(instructions) : instructions'[i] = instructions[i]
          /\ instructions'[Len(instructions) + 1].line_number = k
      BY <1>1, <3>1, Added
    <3>3. Statements(file, k) = Statements(file, line_number) \cup {k}
      BY <2>1, <2>3, StatementsNext
    <3>4. \A i \in DOMAIN instructions : instructions[i].line_number < k
      <4> TAKE i \in DOMAIN instructions
      <4>1. instructions[i].line_number \in Statements(file, line_number)
        BY <2>1
      <4>2. instructions[i].line_number \in Nat /\ instructions[i].line_number <= line_number
        BY <2>1, <4>1, StatementsNext
      <4> QED BY <2>1, <4>2
    <3> DEFINE n == Len(instructions)
    <3>5. 1 .. n + 1 = (1 .. n) \cup {n + 1} /\ n \in Nat
      BY <3>2
    <3> HIDE DEF n, k
    <3>6. {instructions'[i].line_number : i \in 1 .. n + 1}
            = {instructions[i].line_number : i \in 1 .. n} \cup {k}
      BY <3>2, <3>5 DEF n
    <3>7. ASSUME NEW i \in 1 .. n + 1, NEW j \in 1 .. n + 1, i < j
          PROVE  instructions'[i].line_number < instructions'[j].line_number
      <4>1. i \in 1 .. n
        BY <3>5, <3>7
      <4>2. CASE j = n + 1
        BY <3>2, <3>4, <4>1, <4>2 DEF n
      <4>3. CASE j \in 1 .. n
        BY <2>1, <3>2, <3>7, <4>1, <4>3 DEF n
      <4> QED BY <3>5, <4>2, <4>3
    <3> QED BY <2>1, <3>2, <3>3, <3>6, <3>7 DEF n
  <2>4. ASSUME LabelLine PROVE UNCHANGED instructions
    BY <2>4 DEF LabelLine
  <2>5. ASSUME LabelledInstruction \/ PlainInstruction
        PROVE  \E label \in Name : Len(label) <= LabelSegments /\ AddInstruction(label)
    <3>1. line.label \in Name
      BY <1>1, LineTyped DEF ReadLine, Line
    <3>2. /\ strncpy(line.label, LabelSegments) \in Name
          /\ Len(strncpy(line.label, LabelSegments)) <= LabelSegments
      BY <3>1, CopyFits, Capacities
    <3> QED BY <2>5, <3>2 DEF LabelledInstruction, PlainInstruction, Typed
  <2>6. IsLabelLine(file, k) => ~IsStatement(file, k)
    BY DEF IsLabelLine, IsStatement
  <2> QED BY <1>1, <2>2, <2>3, <2>4, <2>5, <2>6, Reads
<1>2. CASE EndOfFile
  <2>1. /\ {instructions[i].line_number : i \in DOMAIN instructions} = Statements(file, line_number)
        /\ \A i, j \in DOMAIN instructions :
             i < j => instructions[i].line_number < instructions[j].line_number
    BY <1>2, EndKeeps DEF StatementsBecomeInstructions
  <2> QED BY <1>2, <2>1, EndKeeps
<1>3. CASE UNCHANGED vars
  BY <1>3 DEF vars, StatementsBecomeInstructions
<1> QED BY <1>1, <1>2, <1>3, StepReads

\* At first there are neither.
LEMMA StatementsInit == Init => StatementsBecomeInstructions
<1> SUFFICES ASSUME Init PROVE StatementsBecomeInstructions
  OBVIOUS
<1>1. Statements(file, 0) = {} /\ DOMAIN << >> = {}
  BY DEF Statements
<1> QED BY <1>1 DEF Init, StatementsBecomeInstructions

\* In every file every statement, and nothing else, becomes one instruction, in
\* order and with its line number: whatever the directives before it, the two
\* flags put each line into its section (assembler.c:186-206, 311).
THEOREM StatementsAreKept == Spec => []StatementsBecomeInstructions
BY InitTyped, NextTyped, SectionsInit, SectionsStep, StatementsInit, StatementsStep, PTL DEF Spec
------------------------------------------------------------------------------
(* Labels name what follows *)

\* A pending label is the one of the last label line, and no statement without a
\* label of its own has followed it.
PendingIsLast ==
  pending_label # << >> =>
    \E k \in 1 .. line_number :
      /\ Defines(file, k, pending_label) /\ IsLabelLine(file, k)
      /\ \A j \in k + 1 .. line_number :
           ~IsLabelLine(file, j) /\ (IsStatement(file, j) => file[j].colon)

\* A line in the text that has a label defines it.
LEMMA LineDefines ==
  ASSUME Typed, SectionsTracked, ReadLine, line.colon, ~in_data,
         strncpy(line.label, LabelSegments) # << >>
  PROVE  Defines(file, line_number + 1, strncpy(line.label, LabelSegments))
BY WhatIsRead DEF Defines

\* A label line is one with a colon.
LEMMA LabelLineHasColon == ASSUME LabelLine PROVE line.colon /\ ~in_data /\ ReadLine
BY DEF LabelLine, ReadTextLine, HasContent, IsBlank

\* Every kind of step keeps the pending label the last one.
LEMMA PendingStep ==
  Typed /\ SectionsTracked /\ PendingIsLast /\ [Next]_vars => PendingIsLast'
<1> DEFINE k == line_number + 1
<1> SUFFICES ASSUME Typed, SectionsTracked, PendingIsLast, [Next]_vars, pending_label' # << >>
             PROVE  \E l \in 1 .. line_number' :
                      /\ Defines(file', l, pending_label') /\ IsLabelLine(file', l)
                      /\ \A j \in l + 1 .. line_number' :
                           ~IsLabelLine(file', j) /\ (IsStatement(file', j) => file'[j].colon)
  BY DEF PendingIsLast
<1>1. CASE ReadLine /\ Next
  <2>1. /\ file' = file /\ line_number' = k /\ line_number \in Nat
        /\ file[k] = line
    BY <1>1 DEF ReadLine, Typed, line
  <2>2. CASE /\ UNCHANGED pending_label /\ ~IsLabelLine(file, k)
             /\ IsStatement(file, k) => file[k].colon
    <3>1. PICK l \in 1 .. line_number :
            /\ Defines(file, l, pending_label) /\ IsLabelLine(file, l)
            /\ \A j \in l + 1 .. line_number :
                 ~IsLabelLine(file, j) /\ (IsStatement(file, j) => file[j].colon)
      BY <2>2 DEF PendingIsLast
    <3>2. l \in 1 .. k /\ \A j \in l + 1 .. k : j \in l + 1 .. line_number \/ j = k
      BY <2>1
    <3> QED BY <2>1, <2>2, <3>1, <3>2
  <2>3. CASE LabelLine /\ IsLabelLine(file, k)
    <3>1. pending_label' = strncpy(line.label, LabelSegments) /\ line.colon /\ ~in_data
      BY <2>3, LabelLineHasColon DEF LabelLine
    <3>2. Defines(file, k, pending_label')
      BY <1>1, <3>1, LineDefines
    <3>3. k \in 1 .. k /\ k + 1 .. k = {}
      BY <2>1
    <3> QED BY <2>1, <2>3, <3>2, <3>3
  <2>4. ~PlainInstruction
    BY DEF PlainInstruction
  <2>5. LabelledInstruction => UNCHANGED pending_label
    BY DEF LabelledInstruction
  <2>6. IsLabelLine(file, k) => ~IsStatement(file, k)
    BY DEF IsLabelLine, IsStatement
  <2> QED BY <1>1, <2>1, <2>2, <2>3, <2>4, <2>5, <2>6, Reads
<1>2. CASE EndOfFile
  BY <1>2 DEF EndOfFile, PendingIsLast
<1>3. CASE UNCHANGED vars
  BY <1>3 DEF vars, PendingIsLast
<1> QED BY <1>1, <1>2, <1>3, StepReads

\* What LabelsNameWhatFollows says of one label and the line of its instruction.
Follows(f, here, label) ==
  label # << >> =>
    \E k \in 1 .. here :
      /\ Defines(f, k, label)
      /\ k < here => /\ IsLabelLine(f, k) /\ ~f[here].colon
                     /\ \A j \in k + 1 .. here - 1 :
                          ~IsLabelLine(f, j) /\ (IsStatement(f, j) => f[j].colon)

\* Every kind of step gives labels only to what follows them.
LEMMA FollowsStep ==
  Typed /\ SectionsTracked /\ PendingIsLast /\ LabelsNameWhatFollows /\ [Next]_vars
    => LabelsNameWhatFollows'
<1> DEFINE k == line_number + 1
<1>1. LabelsNameWhatFollows <=>
        \A i \in DOMAIN instructions :
          Follows(file, instructions[i].line_number, instructions[i].label)
  BY DEF LabelsNameWhatFollows, Follows
<1>2. LabelsNameWhatFollows' <=>
        \A i \in DOMAIN instructions' :
          Follows(file', instructions'[i].line_number, instructions'[i].label)
  BY DEF LabelsNameWhatFollows, Follows
<1> SUFFICES ASSUME Typed, SectionsTracked, PendingIsLast, [Next]_vars,
                    \A i \in DOMAIN instructions :
                      Follows(file, instructions[i].line_number, instructions[i].label)
             PROVE  \A i \in DOMAIN instructions' :
                      Follows(file', instructions'[i].line_number, instructions'[i].label)
  BY <1>1, <1>2
<1>3. CASE ReadLine /\ Next
  <2>1. file' = file /\ line_number' = k /\ line_number \in Nat /\ file[k] = line
    BY <1>3 DEF ReadLine, Typed, line
  <2>2. ASSUME NEW label \in Name, Len(label) <= LabelSegments, AddInstruction(label),
               Follows(file, k, label)
        PROVE  \A i \in DOMAIN instructions' :
                 Follows(file', instructions'[i].line_number, instructions'[i].label)
    <3>1. CASE UNCHANGED instructions
      BY <2>1, <3>1
    <3>2. CASE /\ DOMAIN instructions' = 1 .. Len(instructions) + 1
               /\ DOMAIN instructions = 1 .. Len(instructions) /\ Len(instructions) \in Nat
               /\ \A i \in 1 .. Len(instructions) : instructions'[i] = instructions[i]
               /\ instructions'[Len(instructions) + 1].label = label
               /\ instructions'[Len(instructions) + 1].line_number = k
      <4>1. SUFFICES ASSUME NEW i \in 1 .. Len(instructions) + 1
                     PROVE  Follows(file, instructions'[i].line_number, instructions'[i].label)
        BY <2>1, <3>2
      <4>2. CASE i = Len(instructions) + 1
        BY <2>2, <3>2, <4>2
      <4>3. CASE i \in 1 .. Len(instructions)
        BY <3>2, <4>3
      <4> QED BY <3>2, <4>2, <4>3
    <3> QED BY <1>3, <2>2, <3>1, <3>2, Added
  <2>3. CASE UNCHANGED instructions
    BY <2>1, <2>3
  <2>4. CASE LabelledInstruction /\ IsStatement(file, k)
    <3> DEFINE label == strncpy(line.label, LabelSegments)
    <3>1. line.label \in Name
      BY <1>3, LineTyped DEF ReadLine, Line
    <3>2. label \in Name /\ Len(label) <= LabelSegments
      BY <3>1, CopyFits, Capacities
    <3>3. label # << >> => Defines(file, k, label)
      BY <1>3, <2>4, LineDefines DEF LabelledInstruction, ReadTextLine
    <3> HIDE DEF label
    <3>4. k \in 1 .. k /\ ~(k < k)
      BY <2>1
    <3>5. Follows(file, k, label)
      BY <3>3, <3>4 DEF Follows
    <3>6. AddInstruction(label)
      BY <2>4 DEF LabelledInstruction, label
    <3> QED BY <2>2, <3>2, <3>5, <3>6
  <2>5. CASE PlainInstruction /\ IsStatement(file, k)
    <3>1. pending_label \in Name /\ Len(pending_label) <= LabelSegments
      BY DEF Typed
    <3>2. ASSUME pending_label # << >> PROVE Follows(file, k, pending_label)
      <4>1. PICK l \in 1 .. line_number :
              /\ Defines(file, l, pending_label) /\ IsLabelLine(file, l)
              /\ \A j \in l + 1 .. line_number :
                   ~IsLabelLine(file, j) /\ (IsStatement(file, j) => file[j].colon)
        BY <3>2 DEF PendingIsLast
      <4>2. l \in 1 .. k /\ k - 1 = line_number
        BY <2>1
      <4>3. ~line.colon
        BY <2>5 DEF PlainInstruction
      <4>4. ~file[k].colon
        BY <2>1, <4>3, Zenon
      <4> QED BY <4>1, <4>2, <4>4 DEF Follows
    <3>3. Follows(file, k, pending_label)
      BY <3>2 DEF Follows
    <3>4. AddInstruction(pending_label)
      BY <2>5 DEF PlainInstruction
    <3> QED BY <2>2, <3>1, <3>3, <3>4
  <2>6. LabelLine => UNCHANGED instructions
    BY DEF LabelLine
  <2> QED BY <1>3, <2>3, <2>4, <2>5, <2>6, Reads
<1>4. CASE EndOfFile
  BY <1>4, EndKeeps
<1>5. CASE UNCHANGED vars
  BY <1>5 DEF vars
<1> QED BY <1>3, <1>4, <1>5, StepReads

\* In every file a label is on the statement of its line or on the next one that
\* has no label of its own, with no plain statement in between: a pending label is
\* used once, and gives way to a newer one (assembler.c:261-286).
THEOREM LabelsFollow == Spec => []LabelsNameWhatFollows
<1>1. Init => PendingIsLast /\ LabelsNameWhatFollows
  BY DEF Init, PendingIsLast, LabelsNameWhatFollows
<1> QED BY <1>1, InitTyped, NextTyped, SectionsInit, SectionsStep, PendingStep, FollowsStep,
           PTL DEF Spec
------------------------------------------------------------------------------
(* Labels are found *)

\* Line k is a statement without a label of its own.
IsPlain(f, k) == IsStatement(f, k) /\ ~f[k].colon

\* Line k is the last label line up to line n.
LastLabelLine(f, k, n) == IsLabelLine(f, k) /\ \A j \in k + 1 .. n : ~IsLabelLine(f, j)

LabelOf(f, k) == strncpy(f[k].label, LabelSegments)

\* A statement with a label of its own has it.
OwnLabelsKept ==
  \A i \in DOMAIN instructions :
    LET here == instructions[i].line_number
    IN  file[here].colon => instructions[i].label = LabelOf(file, here)

\* The label of the last label line is pending until a plain statement takes it.
LastIsPending ==
  \A k \in 1 .. line_number :
    /\ LastLabelLine(file, k, line_number)
    /\ \A s \in k + 1 .. line_number : ~IsPlain(file, s)
    => pending_label = LabelOf(file, k)

\* A plain statement that follows a label line, before the next one, has taken
\* its label, or an earlier one has.
LabelsTaken ==
  \A k \in 1 .. line_number :
    \A s \in k + 1 .. line_number :
      LastLabelLine(file, k, s) /\ IsPlain(file, s) =>
        \E i \in DOMAIN instructions : instructions[i].label = LabelOf(file, k)

LabelsArrive == status # "overflow" => OwnLabelsKept /\ LastIsPending /\ LabelsTaken

\* What a line does to the instructions and to the pending label, if there is room.
LEMMA LineArrives ==
  ASSUME Typed, SectionsTracked, ReadLine, Next, status' # "overflow"
  PROVE  LET k == line_number + 1
             n == Len(instructions)
         IN  /\ DOMAIN instructions = 1 .. n /\ n \in Nat
             /\ \/ UNCHANGED instructions /\ ~IsStatement(file, k)
                \/ /\ IsStatement(file, k)
                   /\ DOMAIN instructions' = 1 .. n + 1
                   /\ \A i \in 1 .. n : instructions'[i] = instructions[i]
                   /\ instructions'[n + 1].line_number = k
                   /\ instructions'[n + 1].label =
                        IF file[k].colon THEN LabelOf(file, k) ELSE pending_label
             /\ IsLabelLine(file, k) => pending_label' = LabelOf(file, k)
             /\ ~IsLabelLine(file, k) /\ ~IsPlain(file, k) => UNCHANGED pending_label
<1> DEFINE k == line_number + 1
<1>1. instructions \in Seq(Parsed) /\ file[k] = line
  BY DEF Typed, line
<1>2. IsLabelLine(file, k) => ~IsStatement(file, k)
  BY DEF IsLabelLine, IsStatement
<1>3. CASE /\ ~IsStatement(file, k) /\ ~IsLabelLine(file, k)
           /\ UNCHANGED <<pending_label, instructions>>
  BY <1>1, <1>3
<1>4. CASE IsLabelLine(file, k) /\ LabelLine
  <2>1. UNCHANGED instructions /\ pending_label' = LabelOf(file, k)
    BY <1>1, <1>4 DEF LabelLine, LabelOf
  <2>2. DOMAIN instructions = 1 .. Len(instructions) /\ Len(instructions) \in Nat
    BY <1>1
  <2> QED BY <1>2, <1>4, <2>1, <2>2
<1>5. CASE IsStatement(file, k) /\ line.colon /\ LabelledInstruction
  <2> DEFINE label == strncpy(line.label, LabelSegments)
  <2>1. line.label \in Name
    BY LineTyped DEF ReadLine, Line
  <2>2. label \in Name /\ Len(label) <= LabelSegments
    BY <2>1, CopyFits, Capacities
  <2>3. AddInstruction(label) /\ UNCHANGED pending_label /\ label = LabelOf(file, k)
    BY <1>1, <1>5 DEF LabelledInstruction, LabelOf
  <2> HIDE DEF label
  <2> QED BY <1>1, <1>2, <1>5, <2>2, <2>3, Added
<1>6. CASE IsStatement(file, k) /\ ~line.colon /\ PlainInstruction
  <2>1. /\ AddInstruction(pending_label)
        /\ pending_label \in Name /\ Len(pending_label) <= LabelSegments
    BY <1>6 DEF PlainInstruction, Typed
  <2>2. IsPlain(file, k)
    BY <1>1, <1>6 DEF IsPlain
  <2> QED BY <1>1, <1>2, <1>6, <2>1, <2>2, Added
<1> QED BY <1>3, <1>4, <1>5, <1>6, Reads

\* Reading a line keeps the three of them.
LEMMA ArriveLine ==
  ASSUME Typed, SectionsTracked, ReadLine, Next, status' # "overflow",
         OwnLabelsKept, LastIsPending, LabelsTaken
  PROVE  OwnLabelsKept' /\ LastIsPending' /\ LabelsTaken'
<1> DEFINE n == Len(instructions)
<1>0. PICK k : k = line_number + 1
  OBVIOUS
<1>1. /\ file' = file /\ line_number' = k /\ line_number \in Nat
      /\ k \in Nat /\ k > 0 /\ k - 1 = line_number
  BY <1>0 DEF ReadLine, Typed
<1>2. /\ DOMAIN instructions = 1 .. n /\ n \in Nat
      /\ \/ UNCHANGED instructions /\ ~IsStatement(file, k)
         \/ /\ IsStatement(file, k)
            /\ DOMAIN instructions' = 1 .. n + 1
            /\ \A i \in 1 .. n : instructions'[i] = instructions[i]
            /\ instructions'[n + 1].line_number = k
            /\ instructions'[n + 1].label =
                 IF file[k].colon THEN LabelOf(file, k) ELSE pending_label
      /\ IsLabelLine(file, k) => pending_label' = LabelOf(file, k)
      /\ ~IsLabelLine(file, k) /\ ~IsPlain(file, k) => UNCHANGED pending_label
  BY <1>0, LineArrives
<1> HIDE DEF n
<1>3. OwnLabelsKept'
  <2>1. SUFFICES ASSUME NEW i \in DOMAIN instructions', file[instructions'[i].line_number].colon
                 PROVE  instructions'[i].label = LabelOf(file, instructions'[i].line_number)
    BY <1>1 DEF OwnLabelsKept, LabelOf
  <2>2. CASE i \in DOMAIN instructions /\ instructions'[i] = instructions[i]
    BY <2>1, <2>2 DEF OwnLabelsKept
  <2>3. CASE /\ i = n + 1 /\ instructions'[n + 1].line_number = k
             /\ instructions'[n + 1].label =
                  IF file[k].colon THEN LabelOf(file, k) ELSE pending_label
    BY <2>1, <2>3
  <2> QED BY <1>2, <2>1, <2>2, <2>3
<1>4. LastIsPending'
  <2>1. SUFFICES ASSUME NEW l \in 1 .. k, LastLabelLine(file, l, k),
                        \A s \in l + 1 .. k : ~IsPlain(file, s)
                 PROVE  pending_label' = LabelOf(file, l)
    BY <1>1 DEF LastIsPending, LastLabelLine, IsPlain, LabelOf
  <2>2. CASE l = k
    BY <1>2, <2>1, <2>2 DEF LastLabelLine
  <2>3. CASE l # k
    <3>1. l \in 1 .. line_number /\ k \in l + 1 .. k
          /\ \A j \in l + 1 .. line_number : j \in l + 1 .. k
      BY <1>1, <2>3
    <3>2. LastLabelLine(file, l, line_number) /\ ~IsLabelLine(file, k) /\ ~IsPlain(file, k)
      BY <2>1, <3>1 DEF LastLabelLine
    <3>3. pending_label = LabelOf(file, l)
      BY <2>1, <3>1, <3>2 DEF LastIsPending
    <3> QED BY <1>2, <3>2, <3>3
  <2> QED BY <2>2, <2>3
<1>5. LabelsTaken'
  <2>0. \A i \in DOMAIN instructions :
          i \in DOMAIN instructions' /\ instructions'[i].label = instructions[i].label
    BY <1>2
  <2>1. SUFFICES ASSUME NEW l \in 1 .. k, NEW s \in l + 1 .. k,
                        LastLabelLine(file, l, s), IsPlain(file, s)
                 PROVE  \E i \in DOMAIN instructions' : instructions'[i].label = LabelOf(file, l)
    BY <1>1 DEF LabelsTaken, LastLabelLine, IsPlain, LabelOf
  <2>2. l \in 1 .. line_number
    BY <1>1, <2>1
  <2>3. ASSUME NEW t \in l + 1 .. line_number, t <= s, IsPlain(file, t)
        PROVE  \E i \in DOMAIN instructions' : instructions'[i].label = LabelOf(file, l)
    <3>1. l + 1 .. t \subseteq l + 1 .. s
      BY <2>3
    <3>2. LastLabelLine(file, l, t)
      BY <2>1, <3>1 DEF LastLabelLine
    <3>3. \E i \in DOMAIN instructions : instructions[i].label = LabelOf(file, l)
      BY <2>2, <2>3, <3>2 DEF LabelsTaken
    <3> QED BY <2>0, <3>3
  <2>4. CASE s # k
    <3>1. s \in l + 1 .. line_number /\ s <= s
      BY <1>1, <2>4
    <3> QED BY <2>1, <2>3, <3>1
  <2>5. CASE s = k /\ \A t \in l + 1 .. line_number : ~IsPlain(file, t)
    <3>1. l + 1 .. line_number \subseteq l + 1 .. k
      BY <1>1
    <3>2. LastLabelLine(file, l, line_number)
      BY <2>1, <2>5, <3>1 DEF LastLabelLine
    <3>3. pending_label = LabelOf(file, l)
      BY <2>2, <2>5, <3>2 DEF LastIsPending
    <3>4. IsStatement(file, k) /\ ~file[k].colon
      BY <2>1, <2>5 DEF IsPlain
    <3>5. n + 1 \in DOMAIN instructions' /\ instructions'[n + 1].label = LabelOf(file, l)
      BY <1>2, <3>3, <3>4
    <3> QED BY <3>5
  <2>6. CASE s = k /\ \E t \in l + 1 .. line_number : IsPlain(file, t)
    <3>1. PICK t \in l + 1 .. line_number : IsPlain(file, t)
      BY <2>6
    <3>2. t <= s
      BY <1>1, <2>6
    <3> QED BY <2>3, <3>1, <3>2
  <2> QED BY <2>4, <2>5, <2>6
<1> QED BY <1>3, <1>4, <1>5

\* Every kind of step keeps the labels arriving.
LEMMA ArriveStep == Typed /\ SectionsTracked /\ LabelsArrive /\ [Next]_vars => LabelsArrive'
<1> SUFFICES ASSUME Typed, SectionsTracked, LabelsArrive, [Next]_vars PROVE LabelsArrive'
  OBVIOUS
<1>1. CASE ReadLine /\ Next
  <2>1. status # "overflow"
    BY <1>1 DEF ReadLine
  <2> QED BY <1>1, <2>1, ArriveLine DEF LabelsArrive
<1>2. CASE EndOfFile
  <2>1. OwnLabelsKept /\ LastIsPending /\ LabelsTaken
    BY <1>2, EndKeeps DEF LabelsArrive
  <2>2. /\ UNCHANGED <<file, line_number, pending_label>>
        /\ DOMAIN instructions' = DOMAIN instructions
        /\ \A i \in DOMAIN instructions :
             /\ instructions'[i].label = instructions[i].label
             /\ instructions'[i].line_number = instructions[i].line_number
    BY <1>2, EndKeeps
  <2>3. OwnLabelsKept'
    BY <2>1, <2>2 DEF OwnLabelsKept, LabelOf
  <2>4. LastIsPending'
    BY <2>1, <2>2 DEF LastIsPending, LabelOf
  <2>5. LabelsTaken'
    BY <2>1, <2>2 DEF LabelsTaken, LabelOf
  <2> QED BY <2>3, <2>4, <2>5 DEF LabelsArrive
<1>3. CASE UNCHANGED vars
  BY <1>3 DEF vars, LabelsArrive, OwnLabelsKept, LastIsPending, LabelsTaken, LabelOf
<1> QED BY <1>1, <1>2, <1>3, StepReads

\* A lookup finds what it found before an entry was appended, or else the entry.
LEMMA FindAppend ==
  ASSUME NEW t \in Seq(Symbol), NEW s \in Symbol, NEW name
  PROVE  /\ (\E p \in DOMAIN t : t[p].name = name) =>
              find_symbol(Append(t, s), name) = find_symbol(t, name)
         /\ (\A p \in DOMAIN t : t[p].name # name) /\ s.name = name =>
              find_symbol(Append(t, s), name) = {s.address}
<1> DEFINE n == Len(t)  u == Append(t, s)
           First(table, k) == table[k].name = name /\ \A j \in 1 .. k - 1 : table[j].name # name
<1>1. /\ n \in Nat /\ DOMAIN t = 1 .. n /\ DOMAIN u = 1 .. n + 1 /\ u[n + 1] = s
      /\ \A k \in 1 .. n : u[k] = t[k]
  OBVIOUS
<1>2. \A table : find_symbol(table, name) =
                   {table[k].address : k \in {i \in DOMAIN table : First(table, i)}}
  BY DEF find_symbol
<1> HIDE DEF n, u
<1>3. \A k \in 1 .. n : First(u, k) <=> First(t, k)
  <2> TAKE k \in 1 .. n
  <2>1. 1 .. k - 1 \subseteq 1 .. n
    BY <1>1
  <2> QED BY <1>1, <2>1
<1>4. (1 .. n + 1) = (1 .. n) \cup {n + 1} /\ n + 1 - 1 = n
  BY <1>1
<1>5. First(u, n + 1) <=> s.name = name /\ \A p \in 1 .. n : t[p].name # name
  BY <1>1, <1>4
<1>6. ASSUME NEW p \in 1 .. n, t[p].name = name
      PROVE  find_symbol(u, name) = find_symbol(t, name)
  <2>1. {i \in DOMAIN u : First(u, i)} = {i \in DOMAIN t : First(t, i)}
    <3> HIDE DEF First
    <3> QED BY <1>1, <1>3, <1>4, <1>5, <1>6
  <2> DEFINE D == {i \in DOMAIN t : First(t, i)}
  <2>2. \A k \in D : u[k] = t[k]
    BY <1>1
  <2> HIDE DEF D
  <2>3. {u[k].address : k \in D} = {t[k].address : k \in D}
    BY <2>2
  <2> HIDE DEF First
  <2> QED BY <1>2, <2>1, <2>3 DEF D
<1>7. ASSUME \A p \in 1 .. n : t[p].name # name, s.name = name
      PROVE  find_symbol(u, name) = {s.address}
  <2>1. \A k \in 1 .. n : ~First(t, k)
    BY <1>7
  <2>2. First(u, n + 1) /\ \A k \in 1 .. n : ~First(u, k)
    BY <1>3, <1>5, <1>7, <2>1
  <2> HIDE DEF First
  <2>3. {i \in DOMAIN u : First(u, i)} = {n + 1}
    BY <1>1, <1>4, <2>2
  <2>4. {u[k].address : k \in {n + 1}} = {s.address}
    BY <1>1
  <2> QED BY <1>2, <2>3, <2>4
<1> QED BY <1>1, <1>6, <1>7 DEF u

\* If there is room for all, the table gives for a label the address of the first
\* instruction that has it.
LEMMA FirstIsFound ==
  ASSUME NEW instrs \in Seq(Parsed), Len(instrs) <= MAX_SYMBOLS,
         NEW i \in 1 .. Len(instrs), instrs[i].label # << >>,
         \A j \in 1 .. i - 1 : instrs[j].label # instrs[i].label
  PROVE  find_symbol(build_symbol_table(instrs), instrs[i].label) = {instrs[i].address}
<1> DEFINE N == Len(instrs)  name == instrs[i].label
           entry(m) == [name |-> instrs[m].label, address |-> instrs[m].address]
<1>1. PICK table \in [0 .. N -> Seq(Symbol)] :
        /\ table[0] = << >>
        /\ \A m \in 1 .. N :
             table[m] = IF instrs[m].label # << >> /\ Len(table[m - 1]) < MAX_SYMBOLS
                        THEN Append(table[m - 1], entry(m))
                        ELSE table[m - 1]
        /\ build_symbol_table(instrs) = table[N]
  BY SymbolTable
<1> DEFINE Has(m) == \E p \in DOMAIN table[m] : table[m][p].name = name
           T == {m \in 0 .. N : /\ Len(table[m]) <= m
                                /\ Has(m) <=> i <= m
                                /\ i <= m => find_symbol(table[m], name) = {instrs[i].address}}
<1>2. N \in Nat /\ i \in Nat /\ i > 0 /\ \A m \in 1 .. N : entry(m) \in Symbol
  <2>1. N \in Nat /\ i \in Nat /\ i > 0 /\ \A m \in 1 .. N : instrs[m] \in Parsed
    OBVIOUS
  <2>2. ASSUME NEW m \in 1 .. N PROVE entry(m) \in Symbol
    <3>1. instrs[m].label \in Name /\ instrs[m].address \in Nat
      BY <2>1 DEF Parsed
    <3> QED BY <3>1 DEF Symbol
  <2> QED BY <2>1, <2>2
<1>3. 0 \in T
  <2>1. 0 \in 0 .. N /\ Len(table[0]) <= 0 /\ ~Has(0) /\ ~(i <= 0)
    BY <1>1, <1>2
  <2> QED BY <2>1
<1>4. ASSUME NEW m \in 1 .. N, m - 1 \in T PROVE m \in T
  <2> DEFINE before == table[m - 1]
  <2>1. /\ before \in Seq(Symbol) /\ Len(before) \in Nat /\ Len(before) <= m - 1
        /\ Has(m - 1) <=> i <= m - 1
        /\ i <= m - 1 => find_symbol(before, name) = {instrs[i].address}
    <3>1. m - 1 \in 0 .. N /\ table[m - 1] \in Seq(Symbol)
      BY <1>2
    <3>2. Len(before) \in Nat
      BY <3>1
    <3> HIDE DEF Has
    <3>3. /\ Len(table[m - 1]) <= m - 1
          /\ Has(m - 1) <=> i <= m - 1
          /\ i <= m - 1 => find_symbol(table[m - 1], name) = {instrs[i].address}
      BY <1>4
    <3> QED BY <3>1, <3>2, <3>3
  <2>2. Len(before) < MAX_SYMBOLS
    BY <1>2, <2>1, Capacities
  <2>3. CASE instrs[m].label = << >>
    <3>1. table[m] = before
      BY <1>1, <2>3
    <3>2. m # i
      BY <2>3
    <3> QED BY <1>2, <2>1, <3>1, <3>2
  <2>4. CASE instrs[m].label # << >>
    <3>1. table[m] = Append(before, entry(m)) /\ entry(m) \in Symbol
      BY <1>1, <1>2, <2>2, <2>4
    <3>2. /\ Len(table[m]) = Len(before) + 1
          /\ Has(m) <=> Has(m - 1) \/ instrs[m].label = name
      <4>1. entry(m).name = instrs[m].label
        OBVIOUS
      <4>2. /\ DOMAIN table[m] = 1 .. Len(before) + 1 /\ DOMAIN before = 1 .. Len(before)
            /\ table[m][Len(before) + 1] = entry(m)
            /\ \A p \in 1 .. Len(before) : table[m][p] = before[p]
            /\ Len(table[m]) = Len(before) + 1
        <5> HIDE DEF entry, before
        <5> QED BY <2>1, <3>1
      <4>3. 1 .. Len(before) + 1 = (1 .. Len(before)) \cup {Len(before) + 1}
        BY <2>1
      <4> HIDE DEF entry, name
      <4> QED BY <4>1, <4>2, <4>3
    <3>3. /\ Has(m - 1) => find_symbol(table[m], name) = find_symbol(before, name)
          /\ ~Has(m - 1) /\ instrs[m].label = name =>
               find_symbol(table[m], name) = {instrs[m].address}
      <4>1. entry(m).name = instrs[m].label /\ entry(m).address = instrs[m].address
        OBVIOUS
      <4>2. /\ Has(m - 1) => find_symbol(Append(before, entry(m)), name) = find_symbol(before, name)
            /\ ~Has(m - 1) /\ entry(m).name = name =>
                 find_symbol(Append(before, entry(m)), name) = {entry(m).address}
        <5> HIDE DEF entry, name, before
        <5>1. /\ (\E p \in DOMAIN before : before[p].name = name) =>
                   find_symbol(Append(before, entry(m)), name) = find_symbol(before, name)
              /\ (\A p \in DOMAIN before : before[p].name # name) /\ entry(m).name = name =>
                   find_symbol(Append(before, entry(m)), name) = {entry(m).address}
          BY <2>1, <3>1, FindAppend, Zenon
        <5> QED BY <5>1 DEF before
      <4> HIDE DEF Has, entry, name, before
      <4> QED BY <3>1, <4>1, <4>2
    <3>4. CASE m < i
      <4>1. instrs[m].label # name
        BY <1>2, <3>4
      <4> HIDE DEF Has, name, before
      <4> QED BY <1>2, <2>1, <3>2, <3>4, <4>1
    <3>5. CASE m = i
      <4> HIDE DEF Has, before
      <4> QED BY <1>2, <2>1, <3>2, <3>3, <3>5
    <3>6. CASE m > i
      <4> HIDE DEF Has, name, before
      <4> QED BY <1>2, <2>1, <3>2, <3>3, <3>6
    <3> QED BY <1>2, <3>4, <3>5, <3>6
  <2> QED BY <2>3, <2>4
<1> HIDE DEF T
<1>5. 0 .. N \subseteq T
  BY <1>2, <1>3, <1>4, RangeInductionOnSet
<1>6. N \in 0 .. N /\ i <= N
  BY <1>2
<1>7. find_symbol(table[N], name) = {instrs[i].address}
  BY <1>5, <1>6 DEF T
<1> QED BY <1>1, <1>7

\* After the end of the file every line has been read and the table is built.
Complete ==
  status = "assembled" =>
    /\ line_number = Len(file)
    /\ symbols = build_symbol_table(instructions)
    /\ \A i \in DOMAIN instructions : instructions[i].address = 4 * (i - 1)

\* Only the last step assembles.
LEMMA CompleteStep == Typed /\ Complete /\ [Next]_vars => Complete'
<1> SUFFICES ASSUME Typed, Complete, [Next]_vars PROVE Complete'
  OBVIOUS
<1>1. CASE ReadLine /\ Next
  <2>1. status = "reading" /\ (status' = status \/ status' = "overflow" \/ EndOfFile)
    BY <1>1 DEF ReadLine, Next, BlankLine, DataDirective, TextDirective, DataLine, LabelLine,
                LabelledInstruction, PlainInstruction, AddInstruction
  <2>2. ~EndOfFile
    BY <1>1 DEF EndOfFile, ReadLine
  <2> QED BY <2>1, <2>2 DEF Complete
<1>2. CASE EndOfFile
  <2>1. line_number = Len(file) /\ UNCHANGED <<file, line_number>>
        /\ symbols' = build_symbol_table(instructions')
    BY <1>2 DEF EndOfFile
  <2>2. build_symbol_table(instructions)' = build_symbol_table(instructions')
    BY DEF build_symbol_table
  <2>3. \A i \in DOMAIN instructions' : instructions'[i].address = 4 * (i - 1)
    BY <1>2, EndKeeps
  <2> QED BY <2>1, <2>2, <2>3 DEF Complete
<1>3. CASE UNCHANGED vars
  <2>1. build_symbol_table(instructions)' = build_symbol_table(instructions)
    BY <1>3 DEF vars, build_symbol_table
  <2> QED BY <1>3, <2>1 DEF vars, Complete
<1> QED BY <1>1, <1>2, <1>3, StepReads

\* A label that an instruction has is found, at the first one that has it.
LEMMA InstructionIsFound ==
  ASSUME Typed, Complete, status = "assembled",
         NEW name, name # << >>, NEW h \in DOMAIN instructions, instructions[h].label = name
  PROVE  \E i \in DOMAIN instructions :
           /\ find_symbol(symbols, name) = {instructions[i].address}
           /\ instructions[i].label = name
           /\ \A j \in DOMAIN instructions : instructions[j].label = name => i <= j
<1>1. /\ instructions \in Seq(Parsed) /\ Len(instructions) \in Nat
      /\ DOMAIN instructions = 1 .. Len(instructions)
      /\ Len(instructions) <= MAX_SYMBOLS
  BY Capacities, SymbolsAssumption DEF Typed
<1> DEFINE T == {i \in DOMAIN instructions : instructions[i].label = name}
<1>2. T \in SUBSET Nat /\ T # {}
  BY <1>1
<1>3. PICK i \in T : \A j \in T : i <= j
  <2> HIDE DEF T
  <2> QED BY <1>2, LeastNumber
<1>4. i \in 1 .. Len(instructions) /\ instructions[i].label = name
  BY <1>1
<1>5. \A j \in 1 .. i - 1 : instructions[j].label # instructions[i].label
  <2> SUFFICES ASSUME NEW j \in 1 .. i - 1, j \in T PROVE FALSE
    BY <1>1, <1>4
  <2> HIDE DEF T
  <2> QED BY <1>1, <1>3, <1>4
<1>6. find_symbol(symbols, name) = {instructions[i].address}
  BY <1>1, <1>4, <1>5, FirstIsFound DEF Complete
<1> QED BY <1>1, <1>3, <1>4, <1>6

\* With everything that the steps keep, each label is found at the end.
LEMMA FoundAtTheEnd ==
  Typed /\ SectionsTracked /\ StatementsBecomeInstructions /\ LabelsArrive /\ Complete
    => LabelsAreFound
<1> SUFFICES ASSUME Typed, StatementsBecomeInstructions, LabelsArrive, Complete,
                    status = "assembled", NEW k \in DOMAIN file,
                    Defines(file, k, LabelOf(file, k)),
                    \/ IsStatement(file, k)
                    \/ \E s \in k + 1 .. Len(file) :
                         /\ IsStatement(file, s) /\ ~file[s].colon
                         /\ \A j \in k + 1 .. s : ~IsLabelLine(file, j)
             PROVE  \E i \in DOMAIN instructions :
                      /\ find_symbol(symbols, LabelOf(file, k)) = {instructions[i].address}
                      /\ instructions[i].label = LabelOf(file, k)
                      /\ \A j \in DOMAIN instructions :
                           instructions[j].label = LabelOf(file, k) => i <= j
  BY DEF LabelsAreFound, LabelOf
<1>1. /\ line_number = Len(file) /\ k \in 1 .. line_number /\ line_number \in Nat
      /\ OwnLabelsKept /\ LabelsTaken
      /\ {instructions[i].line_number : i \in DOMAIN instructions} = Statements(file, line_number)
  BY DEF Typed, Complete, LabelsArrive, StatementsBecomeInstructions
<1>2. /\ file[k].colon /\ ~InData(file, k) /\ LabelOf(file, k) # << >>
  BY DEF Defines
<1>3. PICK h \in DOMAIN instructions : instructions[h].label = LabelOf(file, k)
  <2>1. CASE IsStatement(file, k)
    <3>1. k \in Statements(file, line_number)
      BY <1>1, <2>1 DEF Statements
    <3>2. PICK h \in DOMAIN instructions : instructions[h].line_number = k
      BY <1>1, <3>1
    <3> QED BY <1>1, <1>2, <3>2 DEF OwnLabelsKept
  <2>2. CASE ~IsStatement(file, k)
    <3>1. PICK s \in k + 1 .. line_number :
            /\ IsStatement(file, s) /\ ~file[s].colon
            /\ \A j \in k + 1 .. s : ~IsLabelLine(file, j)
      BY <1>1, <2>2
    <3>2. IsLabelLine(file, k)
      BY <1>2, <2>2 DEF IsLabelLine, IsStatement, HasContent, IsBlank, IsDirective
    <3>3. LastLabelLine(file, k, s) /\ IsPlain(file, s)
      BY <3>1, <3>2 DEF LastLabelLine, IsPlain
    <3> QED BY <1>1, <3>3 DEF LabelsTaken
  <2> QED BY <2>1, <2>2
<1> QED BY <1>2, <1>3, InstructionIsFound

\* In every file each label on a statement's line, and each one that a plain
\* statement follows before the next label line, is in the table, at the address
\* of the first instruction that has it (assembler.c:99-118, 261-286).
THEOREM LabelsCanBeFound == Spec => []LabelsAreFound
<1>1. Init => LabelsArrive /\ Complete
  <2> SUFFICES ASSUME Init PROVE LabelsArrive /\ Complete
    OBVIOUS
  <2>1. 1 .. 0 = {} /\ DOMAIN << >> = {}
    OBVIOUS
  <2> QED BY <2>1 DEF Init, LabelsArrive, OwnLabelsKept, LastIsPending, LabelsTaken, Complete
<1> QED BY <1>1, InitTyped, NextTyped, SectionsInit, SectionsStep, StatementsInit, StatementsStep,
           ArriveStep, CompleteStep, FoundAtTheEnd, PTL DEF Spec
------------------------------------------------------------------------------
(* The data is the words *)

\* Pairs of line k and the first n operands.
Row(k, n) == {<<k, w>> : w \in 1 .. n}

\* There are as many as operands.
LEMMA RowSize ==
  ASSUME NEW k, NEW n \in Nat
  PROVE  IsFiniteSet(Row(k, n)) /\ Cardinality(Row(k, n)) = n
<1> DEFINE T == {m \in 0 .. n : IsFiniteSet(Row(k, m)) /\ Cardinality(Row(k, m)) = m}
<1>1. 0 \in T
  <2>1. Row(k, 0) = {}
    BY DEF Row
  <2> QED BY <2>1, FS_EmptySet
<1>2. ASSUME NEW m \in 1 .. n, m - 1 \in T PROVE m \in T
  <2>1. 1 .. m = (1 .. m - 1) \cup {m} /\ m \notin 1 .. m - 1
    OBVIOUS
  <2>2. Row(k, m) = Row(k, m - 1) \cup {<<k, m>>} /\ <<k, m>> \notin Row(k, m - 1)
    BY <2>1 DEF Row
  <2>3. IsFiniteSet(Row(k, m - 1)) /\ Cardinality(Row(k, m - 1)) = m - 1
    BY <1>2
  <2>4. IsFiniteSet(Row(k, m)) /\ Cardinality(Row(k, m)) = Cardinality(Row(k, m - 1)) + 1
    BY <2>2, <2>3, FS_AddElement
  <2> QED BY <2>3, <2>4
<1> HIDE DEF T
<1>3. 0 .. n \subseteq T
  BY <1>1, <1>2, RangeInductionOnSet
<1> QED BY <1>3 DEF T

\* A set of words, and the words of a line after all of them.
LEMMA RowAdded ==
  ASSUME NEW words, IsFiniteSet(words), NEW k \in Nat, NEW n \in Nat,
         \A u \in words : u[1] \in Nat /\ u[1] < k
  PROVE  /\ IsFiniteSet(words \cup Row(k, n))
         /\ Cardinality(words \cup Row(k, n)) = Cardinality(words) + n
         /\ Cardinality(words) \in Nat
<1>1. IsFiniteSet(Row(k, n)) /\ Cardinality(Row(k, n)) = n
  BY RowSize
<1>2. words \cap Row(k, n) = {}
  <2> SUFFICES ASSUME NEW w \in 1 .. n, <<k, w>> \in words PROVE FALSE
    BY DEF Row
  <2> QED OBVIOUS
<1>3. Cardinality(words) \in Nat
  BY FS_CardinalityType
<1> HIDE DEF Row
<1>4. /\ IsFiniteSet(words \cup Row(k, n))
      /\ Cardinality(words \cup Row(k, n)) =
           Cardinality(words) + Cardinality(Row(k, n)) - Cardinality(words \cap Row(k, n))
  BY <1>1, FS_Union
<1>5. Cardinality(words \cap Row(k, n)) = 0
  BY <1>2, FS_EmptySet
<1> QED BY <1>1, <1>3, <1>4, <1>5

\* One more line is at most one more row of words.
LEMMA WordsNext ==
  ASSUME NEW f, NEW n \in Nat, NEW m \in Nat, DOMAIN f[n + 1].operands = 1 .. m
  PROVE  /\ WordsUpTo(f, n + 1) =
              IF HasContent(f[n + 1]) /\ InData(f, n + 1) /\ f[n + 1].opcode = ".word"
              THEN WordsUpTo(f, n) \cup Row(n + 1, m)
              ELSE WordsUpTo(f, n)
         /\ \A u \in WordsUpTo(f, n) : u[1] \in Nat /\ u[1] < n + 1
<1> DEFINE IsWord(j) == HasContent(f[j]) /\ InData(f, j) /\ f[j].opcode = ".word"
           Of(j) == {<<j, w>> : w \in DOMAIN f[j].operands}
<1>1. \A i \in Nat : WordsUpTo(f, i) = UNION {Of(j) : j \in {l \in 1 .. i : IsWord(l)}}
  BY DEF WordsUpTo
<1>2. 1 .. n + 1 = (1 .. n) \cup {n + 1} /\ n + 1 \in Nat
  OBVIOUS
<1>3. Of(n + 1) = Row(n + 1, m)
  BY DEF Row
<1>4. \A j \in 1 .. n : \A u \in Of(j) : u[1] \in Nat /\ u[1] < n + 1
  OBVIOUS
<1> HIDE DEF IsWord, Of
<1>5. UNION {Of(j) : j \in {l \in 1 .. n + 1 : IsWord(l)}} =
        IF IsWord(n + 1) THEN (UNION {Of(j) : j \in {l \in 1 .. n : IsWord(l)}}) \cup Of(n + 1)
        ELSE UNION {Of(j) : j \in {l \in 1 .. n : IsWord(l)}}
  BY <1>2
<1>6. WordsUpTo(f, n + 1) = IF IsWord(n + 1) THEN WordsUpTo(f, n) \cup Row(n + 1, m)
                            ELSE WordsUpTo(f, n)
  BY <1>1, <1>2, <1>3, <1>5
<1>7. \A u \in WordsUpTo(f, n) : u[1] \in Nat /\ u[1] < n + 1
  BY <1>1, <1>4
<1> QED BY <1>6, <1>7 DEF IsWord

\* The words up to v, in the order of the lines and of the operands.
UpTo(words, v) == {u \in words : u[1] < v[1] \/ (u[1] = v[1] /\ u[2] <= v[2])}

\* The entry of one word of the text.
IsEntry(f, entry, v, place) ==
  /\ entry.value = atoi(OperandText(f[v[1]].operands[v[2]]))
  /\ entry.address = 4 * (place - 1)
  /\ entry.label = IF v[2] = 1 THEN strncpy(f[v[1]].label, LabelSegments) ELSE << >>

\* What DataIsTheWords says, and that there are only finitely many words.
WordsKept ==
  status # "overflow" =>
    LET words == WordsUpTo(file, line_number)
    IN  /\ IsFiniteSet(words) /\ Len(data) = Cardinality(words)
        /\ \A v \in words : IsEntry(file, data[Cardinality(UpTo(words, v))], v,
                                    Cardinality(UpTo(words, v)))

\* It does say that.
LEMMA WordsAreData == WordsKept => DataIsTheWords
<1>1. \A words, v : UpTo(words, <<v[1], v[2]>>) = UpTo(words, v)
  BY DEF UpTo
<1> QED BY <1>1 DEF WordsKept, DataIsTheWords, UpTo, IsEntry

\* A place is one of the array's.
LEMMA PlaceInData ==
  ASSUME NEW words, IsFiniteSet(words), NEW v \in words, v[1] \in Nat, v[2] \in Nat
  PROVE  Cardinality(UpTo(words, v)) \in 1 .. Cardinality(words)
<1>1. UpTo(words, v) \in SUBSET words /\ v \in UpTo(words, v)
  BY DEF UpTo
<1> HIDE DEF UpTo
<1>2. IsFiniteSet(UpTo(words, v)) /\ Cardinality(UpTo(words, v)) <= Cardinality(words)
  BY <1>1, FS_Subset
<1>3. Cardinality(UpTo(words, v)) \in Nat /\ Cardinality(words) \in Nat
  BY <1>2, FS_CardinalityType
<1>4. Cardinality(UpTo(words, v)) # 0
  BY <1>1, <1>2, FS_EmptySet
<1> QED BY <1>2, <1>3, <1>4

\* Words are pairs of numbers.
LEMMA WordsArePairs ==
  ASSUME NEW f \in Seq(Line), NEW n \in 0 .. Len(f), NEW v \in WordsUpTo(f, n)
  PROVE  v[1] \in 1 .. n /\ v[2] \in Nat /\ v = <<v[1], v[2]>>
<1>1. PICK k \in 1 .. n : \E w \in DOMAIN f[k].operands : v = <<k, w>>
  BY DEF WordsUpTo
<1>2. f[k].operands \in Seq(Name)
  <2>1. f[k] \in Line
    OBVIOUS
  <2> QED BY <2>1 DEF Line
<1> QED BY <1>1, <1>2

\* Where the elements of two sequences are in the one they make.
LEMMA Concatenation ==
  ASSUME NEW S, NEW s \in Seq(S), NEW t \in Seq(S)
  PROVE  /\ Len(s \o t) = Len(s) + Len(t)
         /\ \A i \in 1 .. Len(s) : (s \o t)[i] = s[i]
         /\ \A i \in 1 .. Len(t) : (s \o t)[Len(s) + i] = t[i]
OBVIOUS

\* Adding the words of a line keeps the data the words.
LEMMA WordsLine ==
  ASSUME Typed, SectionsTracked, ReadLine, HasContent(line), in_data, line.opcode = ".word",
         status' # "overflow", WordsKept, data' = data \o WordEntries(line)
  PROVE  WordsKept'
<1>0. PICK k : k = line_number + 1
  OBVIOUS
<1> DEFINE words == WordsUpTo(file, line_number)
           m == Len(line.operands)
           after == words \cup Row(k, m)
<1>1. /\ file' = file /\ line_number' = k /\ line_number \in Nat /\ k \in Nat
      /\ file \in Seq(Line) /\ line_number < Len(file) /\ line_number \in 0 .. Len(file)
      /\ file[k] = line /\ line \in Line /\ InData(file, k) /\ status # "overflow"
  BY <1>0, WhatIsRead, LineTyped DEF ReadLine, Typed
<1>2. line.operands \in Seq(Name) /\ m \in Nat /\ DOMAIN line.operands = 1 .. m
  BY <1>1 DEF Line
<1>3. /\ WordsUpTo(file, k) = after
      /\ \A u \in words : u[1] \in Nat /\ u[1] < k
  BY <1>0, <1>1, <1>2, WordsNext
<1>4. /\ IsFiniteSet(words) /\ Len(data) = Cardinality(words)
      /\ \A v \in words : IsEntry(file, data[Cardinality(UpTo(words, v))], v,
                                  Cardinality(UpTo(words, v)))
  BY <1>1 DEF WordsKept
<1> HIDE DEF words
<1>5. /\ IsFiniteSet(after) /\ Cardinality(after) = Cardinality(words) + m
      /\ Cardinality(words) \in Nat
  BY <1>1, <1>2, <1>3, <1>4, RowAdded
<1>6. /\ WordEntries(line) \in Seq(Entry) /\ Len(WordEntries(line)) = m
      /\ data \in Seq(Entry)
  BY <1>1, EntriesTyped DEF Typed
<1>7. /\ Len(data') = Len(data) + m
      /\ \A i \in 1 .. Len(data) : data'[i] = data[i]
      /\ \A w \in 1 .. m : data'[Len(data) + w] = WordEntries(line)[w]
  <2>1. PICK e : e = WordEntries(line)
    OBVIOUS
  <2>2. e \in Seq(Entry) /\ Len(e) = m /\ data' = data \o e /\ m \in Nat
    BY <1>2, <1>6, <2>1
  <2> HIDE DEF m
  <2>3. /\ Len(data \o e) = Len(data) + Len(e)
        /\ \A i \in 1 .. Len(data) : (data \o e)[i] = data[i]
        /\ \A w \in 1 .. Len(e) : (data \o e)[Len(data) + w] = e[w]
    <3> HIDE DEF Entry
    <3>1. data \in Seq(Entry) /\ e \in Seq(Entry)
      BY <1>6, <2>2
    <3>2. Len(data \o e) = Len(data) + Len(e)
      BY <3>1
    <3>3. \A i \in 1 .. Len(data) : (data \o e)[i] = data[i]
      BY <3>1
    <3>4. \A w \in 1 .. Len(e) : (data \o e)[Len(data) + w] = e[w]
      BY <3>1, Concatenation
    <3> QED BY <3>2, <3>3, <3>4
  <2> QED BY <2>1, <2>2, <2>3
<1>8. ASSUME NEW v \in words
      PROVE  IsEntry(file, data'[Cardinality(UpTo(after, v))], v, Cardinality(UpTo(after, v)))
  <2>1. v[1] \in Nat /\ v[1] < k /\ v[2] \in Nat
    BY <1>1, <1>3, WordsArePairs DEF words
  <2>2. \A w \in 1 .. m : ~(k < v[1] \/ (k = v[1] /\ w <= v[2]))
    BY <1>1, <2>1
  <2>3. UpTo(after, v) = UpTo(words, v)
    BY <2>2 DEF UpTo, Row
  <2>4. Cardinality(UpTo(words, v)) \in 1 .. Len(data)
    BY <1>4, <2>1, PlaceInData
  <2> QED BY <1>4, <1>7, <2>3, <2>4
<1>9. ASSUME NEW w \in 1 .. m
      PROVE  IsEntry(file, data'[Cardinality(UpTo(after, <<k, w>>))], <<k, w>>,
                     Cardinality(UpTo(after, <<k, w>>)))
  <2>1. UpTo(after, <<k, w>>) = words \cup Row(k, w)
    <3>1. \A u \in words : u \in UpTo(after, <<k, w>>)
      BY <1>3 DEF UpTo
    <3>2. \A i \in 1 .. m : <<k, i>> \in UpTo(after, <<k, w>>) <=> i <= w
      BY <1>1, <1>2 DEF UpTo, Row
    <3>3. \A i \in 1 .. w : i \in 1 .. m /\ i <= w
      BY <1>2
    <3>4. \A i \in 1 .. m : i <= w => i \in 1 .. w
      BY <1>2
    <3>5. UpTo(after, <<k, w>>) \subseteq words \cup Row(k, m)
      BY DEF UpTo
    <3> HIDE DEF UpTo
    <3> QED BY <3>1, <3>2, <3>3, <3>4, <3>5 DEF Row
  <2>2. Cardinality(UpTo(after, <<k, w>>)) = Len(data) + w
    <3>1. w \in Nat
      BY <1>2
    <3>2. Cardinality(words \cup Row(k, w)) = Cardinality(words) + w
      BY <1>1, <1>3, <1>4, <3>1, RowAdded
    <3> QED BY <1>4, <2>1, <3>2
  <2>3. WordEntries(line)[w] =
          [label   |-> IF w = 1 THEN strncpy(line.label, LabelSegments) ELSE << >>,
           value   |-> atoi(OperandText(line.operands[w])),
           address |-> 4 * (Len(data) + w - 1)]
    BY DEF WordEntries
  <2>4. data'[Len(data) + w] = WordEntries(line)[w]
    BY <1>7
  <2>5. <<k, w>>[1] = k /\ <<k, w>>[2] = w
    OBVIOUS
  <2>6. IsEntry(file, WordEntries(line)[w], <<k, w>>, Len(data) + w)
    BY <1>1, <2>3, <2>5 DEF IsEntry
  <2> QED BY <2>2, <2>4, <2>6
<1>10. \A v \in after : v \in words \/ \E w \in 1 .. m : v = <<k, w>>
  BY DEF Row
<1>11. \A v \in after :
         IsEntry(file, data'[Cardinality(UpTo(after, v))], v, Cardinality(UpTo(after, v)))
  BY <1>8, <1>9, <1>10
<1>12. IsFiniteSet(after) /\ Len(data') = Cardinality(after)
  BY <1>4, <1>5, <1>7
<1>13. WordsUpTo(file, line_number)' = after
  BY <1>1, <1>3 DEF WordsUpTo
<1> HIDE DEF after
<1> QED BY <1>1, <1>11, <1>12, <1>13 DEF WordsKept, IsEntry, UpTo

\* Only lines of the data section change the data.
LEMMA DataChanges ==
  ASSUME ReadLine, Next
  PROVE  DataLine \/ (UNCHANGED data /\ ~(HasContent(line) /\ in_data))
<1>1. CASE BlankLine
  BY <1>1 DEF BlankLine, HasContent
<1>2. CASE DataDirective
  BY <1>2 DEF DataDirective, HasContent
<1>3. CASE TextDirective
  BY <1>3 DEF TextDirective, HasContent
<1>4. CASE LabelLine \/ LabelledInstruction \/ PlainInstruction
  BY <1>4 DEF LabelLine, LabelledInstruction, PlainInstruction, ReadTextLine
<1>5. CASE EndOfFile
  BY <1>5 DEF EndOfFile, ReadLine
<1> QED BY <1>1, <1>2, <1>3, <1>4, <1>5 DEF Next

\* Every kind of step keeps the data the words.
LEMMA WordsStep == Typed /\ SectionsTracked /\ WordsKept /\ [Next]_vars => WordsKept'
<1> SUFFICES ASSUME Typed, SectionsTracked, WordsKept, [Next]_vars, status' # "overflow"
             PROVE  WordsKept'
  BY DEF WordsKept
<1>1. CASE ReadLine /\ Next
  <2>0. PICK k : k = line_number + 1
    OBVIOUS
  <2>1. /\ file' = file /\ line_number' = k /\ line_number \in Nat /\ status = "reading"
        /\ file[k] = line /\ (InData(file, k) <=> in_data)
    <3>1. file' = file /\ line_number' = k /\ line_number \in Nat /\ status = "reading"
      BY <1>1, <2>0 DEF ReadLine, Typed
    <3>2. file[k] = line /\ (InData(file, k) <=> in_data)
      BY <1>1, <2>0, WhatIsRead
    <3> QED BY <3>1, <3>2
  <2>2. DOMAIN line.operands = 1 .. Len(line.operands) /\ Len(line.operands) \in Nat
    <3>1. line.operands \in Seq(Name)
      BY <1>1, LineTyped DEF ReadLine, Line
    <3> QED BY <3>1
  <2>3. CASE HasContent(line) /\ in_data /\ line.opcode = ".word"
    <3>1. data' = data \o WordEntries(line) \/ status' = "overflow"
      BY <1>1, <2>3, DataChanges DEF DataLine
    <3> QED BY <1>1, <2>3, <3>1, WordsLine
  <2>4. CASE ~(HasContent(line) /\ in_data /\ line.opcode = ".word")
    <3>1. UNCHANGED data
      BY <1>1, <2>4, DataChanges DEF DataLine
    <3>2. WordsUpTo(file, k) = WordsUpTo(file, line_number)
      <4>1. DOMAIN file[line_number + 1].operands = 1 .. Len(line.operands)
        BY <2>0, <2>1, <2>2
      <4>2. WordsUpTo(file, line_number + 1) = WordsUpTo(file, line_number)
        BY <2>0, <2>1, <2>2, <2>4, <4>1, WordsNext
      <4> QED BY <2>0, <4>2
    <3>3. WordsUpTo(file, line_number)' = WordsUpTo(file, line_number)
      BY <2>1, <3>2 DEF WordsUpTo
    <3> QED BY <2>1, <3>1, <3>3 DEF WordsKept, IsEntry, UpTo
  <2> QED BY <2>3, <2>4
<1>2. CASE EndOfFile
  <2>1. UNCHANGED <<file, line_number, data>> /\ status # "overflow"
    BY <1>2 DEF EndOfFile
  <2> QED BY <2>1 DEF WordsKept, IsEntry, UpTo, WordsUpTo
<1>3. CASE UNCHANGED vars
  BY <1>3 DEF vars, WordsKept, IsEntry, UpTo, WordsUpTo
<1> QED BY <1>1, <1>2, <1>3, StepReads

\* In every file the data section is the words of its .word lines, in their order
\* and without gaps, each line's label on its first word (assembler.c:209-247).
THEOREM WordsAreLaidOut == Spec => []DataIsTheWords
<1>1. Init => WordsKept
  <2> SUFFICES ASSUME Init PROVE WordsKept
    OBVIOUS
  <2>1. WordsUpTo(file, 0) = {}
    BY DEF WordsUpTo
  <2> QED BY <2>1, FS_EmptySet DEF Init, WordsKept
<1> QED BY <1>1, InitTyped, NextTyped, SectionsInit, SectionsStep, WordsStep, WordsAreData,
           PTL DEF Spec
------------------------------------------------------------------------------
(* What an instruction keeps of its line, and the table of the labels *)

\* The opcode and the operands of instr are those of the line l, as far as there
\* is room.
IsTakenFrom(instr, l) ==
  /\ instr.opcode = to_lower(l.opcode)
  /\ Len(instr.operands) = IF Len(l.operands) <= MAX_OPERANDS THEN Len(l.operands)
                                                             ELSE MAX_OPERANDS
  /\ \A k \in 1 .. Len(instr.operands) : instr.operands[k] = OperandText(l.operands[k])

LinesKept ==
  \A i \in DOMAIN instructions :
    /\ instructions[i].line_number \in DOMAIN file
    /\ IsTakenFrom(instructions[i], file[instructions[i].line_number])

\* A new instruction is taken from the line that is read.
LEMMA NewIsTaken ==
  ASSUME Typed, ReadLine, NEW label
  PROVE  IsTakenFrom(NewInstruction(label), file[line_number + 1])
<1>1. line \in Line
  BY LineTyped DEF ReadLine
<1>2. line.operands \in Seq(Name)
  BY <1>1 DEF Line
<1> DEFINE n == IF Len(line.operands) <= MAX_OPERANDS THEN Len(line.operands) ELSE MAX_OPERANDS
           new == NewInstruction(label)
<1>3. n \in Nat
  BY <1>2, Capacities
<1>4. /\ new.opcode = to_lower(line.opcode)
      /\ new.operands = [k \in 1 .. n |-> OperandText(line.operands[k])]
  BY Zenon DEF NewInstruction
<1> HIDE DEF n, new
<1>5. Len(new.operands) = n /\ \A k \in 1 .. n : new.operands[k] = OperandText(line.operands[k])
  BY <1>3, <1>4
<1> QED BY <1>4, <1>5, Zenon DEF IsTakenFrom, n, new, line

\* Adding an instruction, which is taken from its line, keeps this of all.
LEMMA TakenAdded ==
  ASSUME Typed, LinesKept, ReadLine, NEW label \in Name, Len(label) <= LabelSegments,
         AddInstruction(label)
  PROVE  LinesKept'
<1> DEFINE new == NewInstruction(label)
<1>1. /\ new.line_number = line_number + 1 /\ IsTakenFrom(new, file[line_number + 1])
      /\ line_number + 1 \in DOMAIN file /\ file' = file
  BY NewInstructionTyped, NewIsTaken, LineTyped DEF ReadLine
<1>2. \/ instructions' = Append(instructions, new)
      \/ UNCHANGED instructions
  BY DEF AddInstruction
<1>3. instructions \in Seq(Parsed)
  BY DEF Typed
<1> HIDE DEF new
<1>4. CASE instructions' = Append(instructions, new)
  <2> SUFFICES ASSUME NEW i \in DOMAIN instructions'
               PROVE  /\ instructions'[i].line_number \in DOMAIN file
                      /\ IsTakenFrom(instructions'[i], file[instructions'[i].line_number])
    BY <1>1 DEF LinesKept, IsTakenFrom
  <2>1. CASE i \in DOMAIN instructions
    <3>1. instructions'[i] = instructions[i]
      BY <1>3, <1>4, <2>1
    <3> QED BY <2>1, <3>1 DEF LinesKept
  <2>2. CASE i \notin DOMAIN instructions
    <3>1. instructions'[i] = new
      BY <1>3, <1>4, <2>2
    <3> QED BY <1>1, <3>1
  <2> QED BY <2>1, <2>2
<1>5. CASE UNCHANGED instructions
  BY <1>1, <1>5 DEF LinesKept, IsTakenFrom
<1> QED BY <1>2, <1>4, <1>5

\* No step changes what was taken.
LEMMA TakenStep == Typed /\ LinesKept /\ [Next]_vars => LinesKept'
<1> SUFFICES ASSUME Typed, LinesKept, [Next]_vars PROVE LinesKept'
  OBVIOUS
<1>1. CASE UNCHANGED <<file, instructions>>
  BY <1>1 DEF LinesKept, IsTakenFrom
<1>2. CASE LabelledInstruction
  <2>1. ReadLine /\ AddInstruction(strncpy(line.label, LabelSegments))
    BY <1>2 DEF LabelledInstruction, ReadTextLine
  <2>2. line \in Line
    BY <2>1, LineTyped DEF ReadLine
  <2>3. strncpy(line.label, LabelSegments) \in Name
        /\ Len(strncpy(line.label, LabelSegments)) <= LabelSegments
    BY <2>2, CopyFits, Capacities DEF Line
  <2> QED BY <2>1, <2>3, TakenAdded
<1>3. CASE PlainInstruction
  <2>1. ReadLine /\ AddInstruction(pending_label)
    BY <1>3 DEF PlainInstruction, ReadTextLine
  <2>2. pending_label \in Name /\ Len(pending_label) <= LabelSegments
    BY DEF Typed
  <2> QED BY <2>1, <2>2, TakenAdded
<1>4. CASE EndOfFile
  <2>1. instructions \in Seq(Parsed)
    BY DEF Typed
  <2>2. file' = file /\ instructions' = Addressed(instructions)
    BY <1>4 DEF EndOfFile
  <2>3. /\ DOMAIN instructions' = DOMAIN instructions
        /\ \A i \in DOMAIN instructions :
             /\ instructions'[i].opcode = instructions[i].opcode
             /\ instructions'[i].operands = instructions[i].operands
             /\ instructions'[i].line_number = instructions[i].line_number
    BY <2>1, <2>2, AddressedTyped
  <2> QED BY <2>2, <2>3 DEF LinesKept, IsTakenFrom
<1> QED BY <1>1, <1>2, <1>3, <1>4
        DEF Next, vars, BlankLine, DataDirective, TextDirective, DataLine, LabelLine,
            ReadTextLine, ReadLine

\* Every entry of the table is the label of an instruction, with its address.
LEMMA SymbolsAreLabels ==
  ASSUME NEW instrs \in Seq(Parsed), NEW k \in DOMAIN build_symbol_table(instrs)
  PROVE  \E i \in DOMAIN instrs :
           /\ build_symbol_table(instrs)[k].name = instrs[i].label
           /\ build_symbol_table(instrs)[k].address = instrs[i].address
           /\ instrs[i].label # << >>
<1> DEFINE N == Len(instrs)
<1>1. PICK table \in [0 .. N -> Seq(Symbol)] :
        /\ table[0] = << >>
        /\ \A i \in 1 .. N :
             table[i] = IF instrs[i].label # << >> /\ Len(table[i - 1]) < MAX_SYMBOLS
                        THEN Append(table[i - 1], [name    |-> instrs[i].label,
                                                   address |-> instrs[i].address])
                        ELSE table[i - 1]
        /\ build_symbol_table(instrs) = table[N]
  BY SymbolTable
<1> DEFINE IsLabel(s) == \E i \in DOMAIN instrs : /\ s.name = instrs[i].label
                                                /\ s.address = instrs[i].address
                                                /\ instrs[i].label # << >>
           T == {i \in 0 .. N : \A j \in DOMAIN table[i] : IsLabel(table[i][j])}
<1>2. N \in Nat /\ DOMAIN instrs = 1 .. N
  OBVIOUS
<1> HIDE DEF N
<1>3. 0 \in T
  BY <1>1, <1>2
<1>4. ASSUME NEW i \in 1 .. N, i - 1 \in T PROVE i \in T
  <2>1. table[i - 1] \in Seq(Symbol)
    BY <1>2
  <2>2. CASE table[i] = table[i - 1]
    BY <1>4, <2>2
  <2>3. CASE table[i] # table[i - 1]
    <3> DEFINE s == [name |-> instrs[i].label, address |-> instrs[i].address]
    <3>1. table[i] = Append(table[i - 1], s) /\ instrs[i].label # << >>
      BY <1>1, <2>3, Zenon
    <3>2. IsLabel(s)
      BY <1>2, <3>1
    <3> HIDE DEF s, IsLabel
    <3>3. \A j \in DOMAIN table[i] :
            \/ table[i][j] = s
            \/ j \in DOMAIN table[i - 1] /\ table[i][j] = table[i - 1][j]
      BY <2>1, <3>1
    <3> QED BY <1>4, <3>2, <3>3
  <2> QED BY <2>2, <2>3
<1> HIDE DEF T
<1>5. 0 .. N \subseteq T
  BY <1>2, <1>3, <1>4, RangeInductionOnSet
<1>6. N \in T
  BY <1>2, <1>5
<1> QED BY <1>1, <1>6 DEF T

\* The words of the data lie one after the other.
DataAddressed == \A k \in DOMAIN data : data[k].address = 4 * (k - 1)

\* Every kind of step keeps them so.
LEMMA DataAddressedStep == Typed /\ DataAddressed /\ [Next]_vars => DataAddressed'
<1> SUFFICES ASSUME Typed, DataAddressed, [Next]_vars PROVE DataAddressed'
  OBVIOUS
<1>1. data \in Seq(Entry)
  BY DEF Typed
<1>2. CASE UNCHANGED data
  BY <1>2 DEF DataAddressed
<1>3. CASE ReadLine /\ data' = data \o WordEntries(line)
  <2>1. WordEntries(line) \in Seq(Entry)
    BY <1>3, LineTyped, EntriesTyped, Capacities DEF ReadLine
  <2>2. \A w \in DOMAIN WordEntries(line) :
          WordEntries(line)[w].address = 4 * (Len(data) + w - 1)
    BY DEF WordEntries
  <2> DEFINE entries == WordEntries(line)
  <2> HIDE DEF entries
  <2>3. /\ data' = data \o entries /\ entries \in Seq(Entry)
        /\ \A w \in DOMAIN entries : entries[w].address = 4 * (Len(data) + w - 1)
    BY <1>3, <2>1, <2>2 DEF entries
  <2>4. ASSUME NEW k \in DOMAIN data'
        PROVE  data'[k].address = 4 * (k - 1)
    <3>1. CASE k \in DOMAIN data
      BY <1>1, <2>3, <3>1 DEF DataAddressed
    <3>2. CASE k \notin DOMAIN data
      <4>1. k - Len(data) \in DOMAIN entries /\ data'[k] = entries[k - Len(data)]
        BY <1>1, <2>3, <3>2
      <4> QED BY <1>1, <2>3, <4>1
    <3> QED BY <3>1, <3>2
  <2> QED BY <2>4 DEF DataAddressed
<1>4. UNCHANGED data \/ (ReadLine /\ data' = data \o WordEntries(line))
  BY DataChanges DEF Next, vars, DataLine, EndOfFile, BlankLine, DataDirective, TextDirective,
       LabelLine, LabelledInstruction, PlainInstruction, ReadTextLine
<1> QED BY <1>2, <1>3, <1>4
------------------------------------------------------------------------------
(* The labels of a whole file *)

\* The lines of the first instructions are as many as these.
LEMMA LinesCounted ==
  ASSUME Typed, StatementsBecomeInstructions, status # "overflow",
         NEW m \in 0 .. Len(instructions)
  PROVE  Cardinality({instructions[i].line_number : i \in 1 .. m}) = m
<1> DEFINE Lines == {instructions[i].line_number : i \in 1 .. m}
           count == [i \in 1 .. m |-> instructions[i].line_number]
<1>1. /\ Len(instructions) \in Nat /\ DOMAIN instructions = 1 .. Len(instructions)
      /\ \A i \in DOMAIN instructions : instructions[i].line_number \in Nat
  <2>1. instructions \in Seq(Parsed)
    BY DEF Typed
  <2>2. \A l \in Parsed : l.line_number \in Nat
    BY DEF Parsed
  <2>3. \A i \in DOMAIN instructions : instructions[i] \in Parsed
    BY <2>1
  <2> HIDE DEF Parsed
  <2> QED BY <2>1, <2>2, <2>3
<1>2. \A i, j \in 1 .. m : i < j => instructions[i].line_number < instructions[j].line_number
  BY <1>1 DEF StatementsBecomeInstructions
<1>3. \A i, j \in 1 .. m : instructions[i].line_number = instructions[j].line_number => i = j
  <2> SUFFICES ASSUME NEW i \in 1 .. m, NEW j \in 1 .. m, i # j
               PROVE  instructions[i].line_number # instructions[j].line_number
    OBVIOUS
  <2>1. instructions[i].line_number \in Nat /\ instructions[j].line_number \in Nat
    BY <1>1
  <2>2. i < j \/ j < i
    OBVIOUS
  <2> QED BY <1>2, <2>1, <2>2
<1>4. count \in Injection(1 .. m, Lines)
  BY <1>3 DEF Injection, IsInjective
<1>5. count \in Surjection(1 .. m, Lines)
  BY DEF Surjection
<1>6. ExistsBijection(1 .. m, Lines)
  BY <1>4, <1>5 DEF ExistsBijection, Bijection
<1>7. m \in Nat
  BY <1>1
<1> HIDE DEF Lines
<1>8. Cardinality(Lines) = m
  BY <1>6, <1>7, FS_CountingElements
<1> QED BY <1>8 DEF Lines

\* The instructions are as many as the statements that were read.
LEMMA StatementsCounted ==
  ASSUME Typed, StatementsBecomeInstructions, status # "overflow"
  PROVE  Cardinality(Statements(file, line_number)) = Len(instructions)
<1>1. Len(instructions) \in Nat /\ DOMAIN instructions = 1 .. Len(instructions)
  BY DEF Typed
<1>2. Statements(file, line_number) =
        {instructions[i].line_number : i \in 1 .. Len(instructions)}
  BY <1>1 DEF StatementsBecomeInstructions
<1>3. Len(instructions) \in 0 .. Len(instructions)
  BY <1>1
<1> QED BY <1>2, <1>3, LinesCounted


\* A label that waits is followed by its statement, with only blank lines between.
LEMMA StatementIsNext ==
  ASSUME Typed, PendingIsLast, WellLabelled(file), pending_label # << >>
  PROVE  /\ line_number < Len(file)
         /\ \/ IsBlank(file[line_number + 1])
            \/ IsStatement(file, line_number + 1) /\ ~file[line_number + 1].colon
<1>1. line_number \in 0 .. Len(file) /\ Len(file) \in Nat /\ DOMAIN file = 1 .. Len(file)
  BY DEF Typed
<1>2. PICK k \in 1 .. line_number :
        /\ IsLabelLine(file, k)
        /\ \A j \in k + 1 .. line_number : IsStatement(file, j) => file[j].colon
  BY DEF PendingIsLast
<1>3. k \in DOMAIN file
  BY <1>1
<1>4. PICK j \in NextLine(file, k) : IsStatement(file, j) /\ ~file[j].colon
  BY <1>2, <1>3 DEF WellLabelled
<1>5. j \in k + 1 .. Len(file) /\ \A i \in k + 1 .. j - 1 : IsBlank(file[i])
  BY DEF NextLine
<1>6. ~(j <= line_number)
  BY <1>1, <1>2, <1>4, <1>5
<1>7. line_number + 1 = j \/ line_number + 1 \in k + 1 .. j - 1
  BY <1>1, <1>5, <1>6
<1> QED BY <1>1, <1>4, <1>5, <1>6, <1>7

\* There is room for the next statement.
LEMMA RoomForNext ==
  ASSUME Typed, StatementsBecomeInstructions, WellLabelled(file), ReadLine,
         IsStatement(file, line_number + 1)
  PROVE  Len(instructions) < MAX_INSTRUCTIONS
<1> DEFINE read == Statements(file, line_number)
           all  == Statements(file, Len(file))
<1>1. /\ line_number \in Nat /\ Len(file) \in Nat /\ line_number < Len(file)
      /\ status = "reading" /\ Len(instructions) \in Nat
  BY DEF Typed, ReadLine
<1>2. Cardinality(read) = Len(instructions)
  BY <1>1, StatementsCounted
<1>3. IsFiniteSet(all) /\ IsFiniteSet(read)
  <2>1. IsFiniteSet(1 .. Len(file)) /\ IsFiniteSet(1 .. line_number)
    BY <1>1, FS_Interval
  <2>2. all \subseteq 1 .. Len(file) /\ read \subseteq 1 .. line_number
    BY DEF Statements
  <2> QED BY <2>1, <2>2, FS_Subset
<1>4. line_number + 1 \notin read /\ read \cup {line_number + 1} \subseteq all
  BY <1>1 DEF Statements
<1> HIDE DEF read, all
<1>5. Cardinality(read \cup {line_number + 1}) = Len(instructions) + 1
  BY <1>2, <1>3, <1>4, FS_AddElement
<1>6. Cardinality(read \cup {line_number + 1}) <= Cardinality(all)
  BY <1>3, <1>4, FS_Subset
<1>7. Cardinality(all) \in Nat /\ Cardinality(all) <= MAX_INSTRUCTIONS
  BY <1>3, FS_CardinalityType DEF WellLabelled, all
<1> QED BY <1>1, <1>5, <1>6, <1>7, Capacities

\* The first instruction with a label, in any sequence of instructions.
First(instrs, n) ==
  CHOOSE i \in DOMAIN instrs :
    instrs[i].label = n /\ \A j \in 1 .. i - 1 : instrs[j].label # n

\* There is just one, if the label is there at all.
LEMMA FirstIsOne ==
  ASSUME NEW instrs, NEW N \in Nat, DOMAIN instrs = 1 .. N,
         NEW n, NEW h \in 1 .. N, instrs[h].label = n
  PROVE  /\ First(instrs, n) \in 1 .. N
         /\ instrs[First(instrs, n)].label = n
         /\ \A j \in 1 .. First(instrs, n) - 1 : instrs[j].label # n
         /\ \A i \in 1 .. N :
              instrs[i].label = n /\ (\A j \in 1 .. i - 1 : instrs[j].label # n)
                => i = First(instrs, n)
<1> DEFINE IsFirst(i) == instrs[i].label = n /\ \A j \in 1 .. i - 1 : instrs[j].label # n
           T == {i \in 1 .. N : instrs[i].label = n}
<1>1. T \in SUBSET Nat /\ T # {}
  OBVIOUS
<1>2. PICK m \in T : \A i \in T : m <= i
  <2> HIDE DEF T
  <2> QED BY <1>1, LeastNumber
<1>3. m \in DOMAIN instrs /\ IsFirst(m)
  <2>1. \A j \in 1 .. m - 1 : j \notin T
    BY <1>1, <1>2
  <2> QED BY <2>1
<1>4. First(instrs, n) \in DOMAIN instrs /\ IsFirst(First(instrs, n))
  <2>1. First(instrs, n) = CHOOSE i \in DOMAIN instrs : IsFirst(i)
    BY DEF First
  <2> HIDE DEF IsFirst
  <2> QED BY <1>3, <2>1
<1>5. ASSUME NEW i \in 1 .. N, NEW k \in 1 .. N, IsFirst(i), IsFirst(k) PROVE i = k
  <2>1. ~(i < k) /\ ~(k < i)
    BY <1>5
  <2> QED BY <2>1
<1> QED BY <1>4, <1>5
\* So an instruction that is the first is found by it.
LEMMA FirstIs ==
  ASSUME NEW instrs, NEW N \in Nat, DOMAIN instrs = 1 .. N,
         NEW n, NEW k \in 1 .. N, instrs[k].label = n, \A j \in 1 .. k - 1 : instrs[j].label # n
  PROVE  First(instrs, n) = k
<1>1. \A i \in 1 .. N :
        instrs[i].label = n /\ (\A j \in 1 .. i - 1 : instrs[j].label # n) => i = First(instrs, n)
  BY FirstIsOne
<1> QED BY <1>1
------------------------------------------------------------------------------
(* The refinement of Labels *)

\* The statements that the labels of a sequence of instructions name.
TargetsOf(instrs) ==
  [n \in {instrs[i].label : i \in DOMAIN instrs} \ {<< >>} |-> First(instrs, n) - 1]

\* Until the table is built the labels are those of the instructions.
LEMMA TargetsRead ==
  /\ status # "assembled" => Targets = TargetsOf(instructions)
  /\ status' # "assembled" => Targets' = TargetsOf(instructions')
BY DEF Targets, FirstWith, First, TargetsOf

\* The targets when a label gets the number N, if it had none.
WithTarget(target, label, N) ==
  [n \in DOMAIN target \cup ({label} \ {<< >>}) |-> IF n \in DOMAIN target THEN target[n] ELSE N]

\* The targets in a table.
TargetsIn(table) ==
  [n \in {table[i].name : i \in DOMAIN table} |->
     (CHOOSE a \in find_symbol(table, n) : TRUE) \div 4]

\* One more instruction gives its label a meaning, if it had none.
LEMMA TargetsGrow ==
  ASSUME NEW instrs, NEW more, NEW N \in Nat, DOMAIN instrs = 1 .. N, DOMAIN more = 1 .. N + 1,
         \A i \in 1 .. N : more[i] = instrs[i],
         NEW label, more[N + 1].label = label
  PROVE  TargetsOf(more) = WithTarget(TargetsOf(instrs), label, N)
<1> DEFINE Old == {instrs[i].label : i \in DOMAIN instrs} \ {<< >>}
           New == {more[i].label : i \in DOMAIN more} \ {<< >>}
<1>1. 1 .. N + 1 = (1 .. N) \cup {N + 1}
  OBVIOUS
<1>2. New = Old \cup ({label} \ {<< >>})
  BY <1>1
<1>3. DOMAIN TargetsOf(instrs) = Old /\ \A n \in Old : TargetsOf(instrs)[n] = First(instrs, n) - 1
  BY DEF TargetsOf
<1>4. TargetsOf(more) = [n \in New |-> First(more, n) - 1]
  BY DEF TargetsOf
<1>5. ASSUME NEW n \in Old PROVE First(more, n) = First(instrs, n)
  <2>1. PICK h \in 1 .. N : instrs[h].label = n
    OBVIOUS
  <2> DEFINE i == First(instrs, n)
  <2>2. i \in 1 .. N /\ instrs[i].label = n /\ \A j \in 1 .. i - 1 : instrs[j].label # n
    BY <2>1, FirstIsOne
  <2> HIDE DEF i
  <2>3. i \in 1 .. N + 1 /\ more[i].label = n /\ \A j \in 1 .. i - 1 : more[j].label # n
    BY <2>2
  <2>4. N + 1 \in Nat /\ DOMAIN more = 1 .. N + 1
    OBVIOUS
  <2> HIDE DEF Old, New
  <2>5. First(more, n) = i
    BY <2>3, <2>4, FirstIs
  <2> QED BY <2>5 DEF i
<1>6. ASSUME NEW n \in New, n \notin Old PROVE First(more, n) = N + 1
  <2>1. \A j \in 1 .. N : more[j].label # n
    BY <1>6
  <2>2. N + 1 \in 1 .. N + 1 /\ more[N + 1].label = n
    BY <1>1, <1>6
  <2>3. \A j \in 1 .. (N + 1) - 1 : more[j].label # n
    BY <2>1
  <2> QED BY <2>2, <2>3, FirstIsOne
<1>7. \A n \in New : First(more, n) - 1 = IF n \in Old THEN TargetsOf(instrs)[n] ELSE N
  <2> HIDE DEF Old, New
  <2> QED BY <1>3, <1>5, <1>6
<1> HIDE DEF Old, New
<1> QED BY <1>2, <1>3, <1>4, <1>7 DEF WithTarget

\* What the table says of the labels is what the instructions say.
LEMMA TableTargets ==
  ASSUME NEW instrs \in Seq(Parsed), Len(instrs) <= MAX_SYMBOLS,
         \A i \in DOMAIN instrs : instrs[i].address = 4 * (i - 1),
         NEW table, table = build_symbol_table(instrs)
  PROVE  TargetsOf(instrs) = TargetsIn(table)
<1> DEFINE Old == {instrs[i].label : i \in DOMAIN instrs} \ {<< >>}
           New == {table[i].name : i \in DOMAIN table}
           N == Len(instrs)
<1>1. N \in Nat /\ DOMAIN instrs = 1 .. N
  OBVIOUS
<1>2. ASSUME NEW n \in Old
      PROVE  First(instrs, n) \in 1 .. N /\ find_symbol(table, n) = {4 * (First(instrs, n) - 1)}
  <2>1. PICK h \in 1 .. N : instrs[h].label = n
    BY <1>1
  <2> DEFINE i == First(instrs, n)
  <2>2. i \in 1 .. N /\ instrs[i].label = n /\ \A j \in 1 .. i - 1 : instrs[j].label # n
    BY <1>1, <2>1, FirstIsOne
  <2> HIDE DEF i
  <2>3. find_symbol(table, n) = {instrs[i].address}
    BY <2>2, FirstIsFound
  <2> QED BY <1>1, <2>2, <2>3 DEF i
<1>3. New \subseteq Old
  BY SymbolsAreLabels
<1>4. Old \subseteq New
  <2> SUFFICES ASSUME NEW n \in Old PROVE n \in New
    OBVIOUS
  <2>1. find_symbol(table, n) # {}
    BY <1>2
  <2> QED BY <2>1 DEF find_symbol
<1>5. \A n \in Old : (CHOOSE a \in find_symbol(table, n) : TRUE) \div 4 = First(instrs, n) - 1
  <2> TAKE n \in Old
  <2> DEFINE f == First(instrs, n) - 1
  <2>1. f \in Nat /\ find_symbol(table, n) = {4 * f}
    BY <1>1, <1>2
  <2> HIDE DEF f
  <2>2. (CHOOSE a \in {4 * f} : TRUE) = 4 * f
    OBVIOUS
  <2>3. (4 * f) \div 4 = f
    BY <2>1
  <2> QED BY <2>1, <2>2, <2>3 DEF f
<1> HIDE DEF Old, New
<1>6. Old = New
  BY <1>3, <1>4
<1>7. TargetsOf(instrs) = [n \in Old |-> First(instrs, n) - 1]
  BY DEF TargetsOf, Old
<1>8. TargetsOf(instrs) = [n \in New |-> (CHOOSE a \in find_symbol(table, n) : TRUE) \div 4]
  BY <1>5, <1>6, <1>7
<1> QED BY <1>8 DEF New, TargetsIn

\* The file that is read is the one that was given.
FileGiven == file \in Files

\* What the steps of the assembler keep, and their steps may rely on.
LabelsKept ==
  /\ FileGiven /\ Typed /\ SectionsTracked /\ StatementsBecomeInstructions
  /\ PendingIsLast /\ Complete

\* Reading a statement with the label that it gets is a Statement.
LEMMA StatementRefined ==
  ASSUME LabelsKept, ReadLine, WellLabelled(file), IsStatement(file, line_number + 1),
         NEW own \in SUBSET Spelled,
         NEW label \in Name, Len(label) <= LabelSegments, AddInstruction(label),
         {label} \ {<< >>} = ({pending_label} \ {<< >>}) \cup own,
         pending_label' = << >>
  PROVE  /\ status' = "reading"
         /\ Targets' = [n \in DOMAIN Targets \cup (({pending_label} \ {<< >>}) \cup own) |->
                          IF n \in DOMAIN Targets THEN Targets[n] ELSE Len(instructions)]
         /\ Len(instructions') = Len(instructions) + 1
<1>1. status = "reading" /\ Len(instructions) < MAX_INSTRUCTIONS /\ Len(instructions) \in Nat
  BY RoomForNext DEF LabelsKept, ReadLine, Typed
<1>2. ~(Len(instructions) >= MAX_INSTRUCTIONS)
  BY <1>1, Capacities
<1>3. instructions' = Append(instructions, NewInstruction(label)) /\ status' = "reading"
  BY <1>1, <1>2 DEF AddInstruction
<1>4. NewInstruction(label) \in Parsed
  BY NewInstructionTyped DEF LabelsKept
<1>5. instructions \in Seq(Parsed)
  BY DEF LabelsKept, Typed
<1>6. /\ DOMAIN instructions' = 1 .. Len(instructions) + 1
      /\ DOMAIN instructions = 1 .. Len(instructions)
      /\ \A i \in 1 .. Len(instructions) : instructions'[i] = instructions[i]
      /\ instructions'[Len(instructions) + 1].label = label
  <2>1. status' # "overflow"
    BY <1>3
  <2> QED BY <2>1, Added DEF LabelsKept
<1>7. Len(instructions') = Len(instructions) + 1
  BY <1>3, <1>4, <1>5
<1>8. Targets = TargetsOf(instructions) /\ Targets' = TargetsOf(instructions')
  BY <1>1, <1>3, TargetsRead
<1>9. TargetsOf(instructions') = WithTarget(TargetsOf(instructions), label, Len(instructions))
  BY <1>1, <1>6, TargetsGrow
<1> QED BY <1>3, <1>7, <1>8, <1>9 DEF WithTarget

\* The end of the file: no label waits, and the table says what the instructions
\* said.
LEMMA EndRefined ==
  ASSUME LabelsKept, Typed', EndOfFile, WellLabelled(file)
  PROVE  /\ pending_label = << >> /\ pending_label' = << >>
         /\ status = "reading" /\ status' = "assembled"
         /\ Len(instructions') = Len(instructions)
         /\ Targets' = [n \in DOMAIN Targets \cup {} |->
                          IF n \in DOMAIN Targets THEN Targets[n] ELSE Len(instructions)]
<1>1. /\ status = "reading" /\ status' = "assembled" /\ line_number = Len(file)
      /\ UNCHANGED pending_label
      /\ instructions' = Addressed(instructions) /\ symbols' = build_symbol_table(instructions')
  BY DEF EndOfFile
<1>2. pending_label = << >>
  <2>1. ~(line_number < Len(file))
    BY <1>1 DEF LabelsKept, Typed
  <2> QED BY <2>1, StatementIsNext DEF LabelsKept
<1>3. instructions \in Seq(Parsed) /\ Len(instructions) <= MAX_SYMBOLS
  BY Capacities, SymbolsAssumption DEF LabelsKept, Typed
<1>4. /\ instructions' \in Seq(Parsed) /\ Len(instructions') = Len(instructions)
      /\ \A i \in 1 .. Len(instructions) :
           instructions'[i].label = instructions[i].label /\ instructions'[i].address = 4 * (i - 1)
  BY <1>1, <1>3, AddressedTyped
<1>5. DOMAIN instructions = 1 .. Len(instructions) /\ DOMAIN instructions' = 1 .. Len(instructions)
      /\ Len(instructions) \in Nat
  BY <1>3, <1>4
<1>6. TargetsOf(instructions') = TargetsOf(instructions)
  <2>1. ASSUME NEW n \in {instructions[i].label : i \in DOMAIN instructions}
        PROVE  First(instructions', n) = First(instructions, n)
    <3> DEFINE k == First(instructions, n)
    <3>1. PICK h \in 1 .. Len(instructions) : instructions[h].label = n
      BY <1>5
    <3>2. /\ k \in 1 .. Len(instructions) /\ instructions[k].label = n
          /\ \A j \in 1 .. k - 1 : instructions[j].label # n
      BY <1>5, <3>1, FirstIsOne
    <3> HIDE DEF k
    <3>3. /\ k \in 1 .. Len(instructions) /\ instructions'[k].label = n
          /\ \A j \in 1 .. k - 1 : instructions'[j].label # n
      BY <1>4, <1>5, <3>2
    <3>4. First(instructions', n) = k
      BY <1>5, <3>3, FirstIs
    <3> QED BY <3>4 DEF k
  <2>2. {instructions'[i].label : i \in DOMAIN instructions'}
          = {instructions[i].label : i \in DOMAIN instructions}
    BY <1>4, <1>5
  <2> QED BY <2>1, <2>2 DEF TargetsOf
<1>7. Targets' = TargetsOf(instructions')
  <2>1. TargetsOf(instructions') = TargetsIn(symbols')
    BY <1>1, <1>3, <1>4, <1>5, TableTargets
  <2> QED BY <1>1, <2>1 DEF Targets, TargetsIn
<1>8. Targets = TargetsOf(instructions)
  BY <1>1, TargetsRead
<1>9. TargetsOf(instructions) =
        [n \in DOMAIN TargetsOf(instructions) \cup {} |->
           IF n \in DOMAIN TargetsOf(instructions) THEN TargetsOf(instructions)[n]
                                                   ELSE Len(instructions)]
  BY DEF TargetsOf
<1> QED BY <1>1, <1>2, <1>4, <1>6, <1>7, <1>8, <1>9

\* The label of a line of a file is one of the labels of the files.
LEMMA LabelSpelled ==
  ASSUME FileGiven, Typed, ReadLine
  PROVE  LET label == strncpy(line.label, LabelSegments)
         IN  /\ label \in Name /\ Len(label) <= LabelSegments
             /\ label # << >> => label \in Spelled
<1> DEFINE label == strncpy(line.label, LabelSegments)
<1>1. line \in Line /\ line = file[line_number + 1] /\ line_number + 1 \in DOMAIN file
  BY LineTyped DEF ReadLine, line
<1>2. label \in Name /\ Len(label) <= LabelSegments
  BY <1>1, CopyFits, Capacities DEF Line
<1>3. label \in {strncpy(file[k].label, LabelSegments) : k \in DOMAIN file}
  BY <1>1
<1> HIDE DEF label
<1>4. label # << >> => label \in Spelled
  BY <1>3 DEF FileGiven, Spelled
<1> QED BY <1>2, <1>4 DEF label

\* For a file of the promise, every step of the assembler is one of Labels.
LEMMA StepRefined ==
  ASSUME LabelsKept, Typed', [Next]_vars, WellLabelled(file)
  PROVE  \/ UNCHANGED <<Len(instructions), pending_label, Targets, status = "assembled">>
         \/ /\ ~(status = "assembled") /\ ~(status' = "assembled")
            /\ \E n \in Spelled :
                 {pending_label'} \ {<< >>} = ({pending_label} \ {<< >>}) \cup {n}
            /\ UNCHANGED <<Len(instructions), Targets>>
         \/ /\ ~(status = "assembled") /\ ~(status' = "assembled")
            /\ \E own \in {{}} \cup {{n} : n \in Spelled} :
                 Targets' = [n \in DOMAIN Targets \cup (({pending_label} \ {<< >>}) \cup own) |->
                               IF n \in DOMAIN Targets THEN Targets[n] ELSE Len(instructions)]
            /\ Len(instructions') = Len(instructions) + 1
            /\ {pending_label'} \ {<< >>} = {}
         \/ /\ ~(status = "assembled") /\ status' = "assembled"
            /\ Targets' = [n \in DOMAIN Targets \cup ({pending_label} \ {<< >>}) |->
                             IF n \in DOMAIN Targets THEN Targets[n] ELSE Len(instructions)]
            /\ {pending_label'} \ {<< >>} = {}
            /\ Len(instructions') = Len(instructions)
<1> DEFINE k == line_number + 1
<1>1. FileGiven /\ Typed /\ SectionsTracked /\ PendingIsLast
  BY DEF LabelsKept
<1>2. CASE ReadLine /\ Next
  <2>1. status = "reading" /\ status' # "assembled" /\ file[k] = line
    <3>1. ~EndOfFile
      BY <1>2, <1>1 DEF EndOfFile, ReadLine, Typed
    <3> QED BY <1>2, <3>1 DEF ReadLine, Next, BlankLine, DataDirective, TextDirective, DataLine,
                              LabelLine, LabelledInstruction, PlainInstruction, AddInstruction, line
  <2>2. UNCHANGED instructions => UNCHANGED Targets
    BY <2>1, TargetsRead
  <2>3. CASE UNCHANGED <<pending_label, instructions>>
    BY <2>1, <2>2, <2>3
  <2>4. IsBlank(file[k]) => ~IsLabelLine(file, k) /\ ~IsStatement(file, k)
    BY DEF IsLabelLine, IsStatement, HasContent
  <2>5. IsLabelLine(file, k) => ~IsStatement(file, k)
    BY DEF IsLabelLine, IsStatement
  <2>6. \/ IsLabelLine(file, k)
        \/ IsStatement(file, k) /\ line.colon
        => pending_label = << >>
    BY <1>1, <2>1, <2>4, <2>5, StatementIsNext
  <2> DEFINE label == strncpy(line.label, LabelSegments)
  <2>7. label \in Name /\ Len(label) <= LabelSegments /\ (label # << >> => label \in Spelled)
    BY <1>1, <1>2, LabelSpelled
  <2>8. CASE IsLabelLine(file, k) /\ LabelLine
    <3>1. UNCHANGED instructions /\ pending_label' = label /\ pending_label = << >>
      BY <2>6, <2>8 DEF LabelLine
    <3> HIDE DEF label
    <3>2. CASE label = << >>
      BY <2>3, <3>1, <3>2
    <3>3. CASE label # << >>
      <4>1. /\ label \in Spelled
            /\ {pending_label'} \ {<< >>} = ({pending_label} \ {<< >>}) \cup {label}
        BY <2>7, <3>1, <3>3
      <4> QED BY <2>1, <2>2, <3>1, <4>1
    <3> QED BY <3>2, <3>3
  <2>9. CASE IsStatement(file, k) /\ line.colon /\ LabelledInstruction
    <3>1. AddInstruction(label) /\ pending_label = << >> /\ pending_label' = << >>
      BY <2>6, <2>9 DEF LabelledInstruction
    <3> DEFINE own == {label} \ {<< >>}
    <3> HIDE DEF label
    <3>2. own \in {{}} \cup {{n} : n \in Spelled} /\ own \in SUBSET Spelled
      BY <2>7
    <3>3. {label} \ {<< >>} = ({pending_label} \ {<< >>}) \cup own
      BY <3>1
    <3> HIDE DEF own
    <3>4. /\ Targets' = [n \in DOMAIN Targets \cup (({pending_label} \ {<< >>}) \cup own) |->
                          IF n \in DOMAIN Targets THEN Targets[n] ELSE Len(instructions)]
          /\ Len(instructions') = Len(instructions) + 1
      BY <1>2, <2>7, <2>9, <3>1, <3>2, <3>3, StatementRefined
    <3>5. {pending_label'} \ {<< >>} = {}
      BY <3>1
    <3> QED BY <2>1, <3>2, <3>4, <3>5
  <2>10. CASE IsStatement(file, k) /\ ~line.colon /\ PlainInstruction
    <3>1. AddInstruction(pending_label) /\ pending_label' = << >>
      BY <2>10 DEF PlainInstruction
    <3>2. pending_label \in Name /\ Len(pending_label) <= LabelSegments
      BY <1>1 DEF Typed
    <3> DEFINE own == {}
    <3>3. own \in {{}} \cup {{n} : n \in Spelled} /\ own \in SUBSET Spelled
          /\ {pending_label} \ {<< >>} = ({pending_label} \ {<< >>}) \cup own
      OBVIOUS
    <3> HIDE DEF own
    <3>4. /\ Targets' = [n \in DOMAIN Targets \cup (({pending_label} \ {<< >>}) \cup own) |->
                          IF n \in DOMAIN Targets THEN Targets[n] ELSE Len(instructions)]
          /\ Len(instructions') = Len(instructions) + 1
      BY <1>2, <2>10, <3>1, <3>2, <3>3, StatementRefined
    <3>5. {pending_label'} \ {<< >>} = {}
      BY <3>1
    <3> QED BY <2>1, <3>3, <3>4, <3>5
  <2> QED BY <1>1, <1>2, <2>3, <2>8, <2>9, <2>10, Reads
<1>3. CASE EndOfFile
  <2>1. {pending_label} \ {<< >>} = {} /\ {pending_label'} \ {<< >>} = {}
    BY <1>3, EndRefined
  <2> QED BY <1>3, <2>1, EndRefined
<1>4. CASE UNCHANGED vars
  <2>1. UNCHANGED <<Len(instructions), pending_label, status = "assembled">>
    BY <1>4 DEF vars
  <2>2. UNCHANGED Targets
    BY <1>4 DEF vars, Targets, FirstWith, find_symbol
  <2> QED BY <2>1, <2>2
<1> QED BY <1>2, <1>3, <1>4, StepReads

\* Every step of the assembler is a step of Labels, or none for it.
LEMMA LabelsNext ==
  LabelsKept /\ Typed' /\ [Next]_vars => [Abstract!Next]_(Abstract!vars)
<1> SUFFICES ASSUME LabelsKept, Typed', [Next]_vars
             PROVE  Abstract!Next \/ UNCHANGED Abstract!vars
  OBVIOUS
<1>1. file' = file
  BY DEF Next, vars, BlankLine, DataDirective, TextDirective, DataLine, LabelLine,
         LabelledInstruction, PlainInstruction, EndOfFile, ReadTextLine, ReadLine
<1>2. WellLabelled(file') <=> WellLabelled(file)
  BY <1>1
<1>3. CASE ~WellLabelled(file)
  BY <1>2, <1>3 DEF Abstract!vars
<1>4. CASE WellLabelled(file)
  <2>1. CASE UNCHANGED <<Len(instructions), pending_label, Targets, status = "assembled">>
    BY <1>2, <1>4, <2>1 DEF Abstract!vars
  <2>2. CASE /\ ~(status = "assembled") /\ ~(status' = "assembled")
             /\ \E n \in Spelled :
                  {pending_label'} \ {<< >>} = ({pending_label} \ {<< >>}) \cup {n}
             /\ UNCHANGED <<Len(instructions), Targets>>
    <3>1. PICK n \in Spelled : {pending_label'} \ {<< >>} = ({pending_label} \ {<< >>}) \cup {n}
      BY <2>2
    <3>2. Abstract!Label(n)
      BY <1>2, <1>4, <2>2, <3>1 DEF Abstract!Label
    <3> QED BY <3>2 DEF Abstract!Next
  <2>3. CASE /\ ~(status = "assembled") /\ ~(status' = "assembled")
             /\ \E own \in {{}} \cup {{n} : n \in Spelled} :
                  Targets' = [n \in DOMAIN Targets \cup (({pending_label} \ {<< >>}) \cup own) |->
                                IF n \in DOMAIN Targets THEN Targets[n] ELSE Len(instructions)]
             /\ Len(instructions') = Len(instructions) + 1
             /\ {pending_label'} \ {<< >>} = {}
    <3>1. PICK own \in {{}} \cup {{n} : n \in Spelled} :
            Targets' = [n \in DOMAIN Targets \cup (({pending_label} \ {<< >>}) \cup own) |->
                          IF n \in DOMAIN Targets THEN Targets[n] ELSE Len(instructions)]
      BY <2>3
    <3>2. Abstract!Statement(own)
      BY <1>2, <1>4, <2>3, <3>1 DEF Abstract!Statement, Abstract!Bind
    <3> QED BY <3>2 DEF Abstract!Next
  <2>4. CASE /\ ~(status = "assembled") /\ status' = "assembled"
             /\ Targets' = [n \in DOMAIN Targets \cup ({pending_label} \ {<< >>}) |->
                              IF n \in DOMAIN Targets THEN Targets[n] ELSE Len(instructions)]
             /\ {pending_label'} \ {<< >>} = {}
             /\ Len(instructions') = Len(instructions)
    <3>1. Abstract!End
      BY <1>2, <1>4, <2>4 DEF Abstract!End, Abstract!Bind
    <3> QED BY <3>1 DEF Abstract!Next
  <2> QED BY <1>4, <2>1, <2>2, <2>3, <2>4, StepRefined
<1> QED BY <1>3, <1>4

\* At first there are no labels.
LEMMA LabelsInit == Init => LabelsKept /\ Abstract!Init
<1> SUFFICES ASSUME Init PROVE LabelsKept /\ Abstract!Init
  OBVIOUS
<1>1. LabelsKept
  BY InitTyped, SectionsInit, StatementsInit
     DEF Init, LabelsKept, FileGiven, PendingIsLast, Complete
<1>2. DOMAIN << >> = {}
  OBVIOUS
<1>3. Targets = << >>
  <2>1. {instructions[i].label : i \in DOMAIN instructions} \ {<< >>} = {}
    BY <1>2 DEF Init
  <2>2. Targets = [n \in {} |-> FirstWith(n) - 1]
    BY <2>1 DEF Init, Targets
  <2> QED BY <2>2
<1>4. Len(<< >>) = 0 /\ {<< >>} \ {<< >>} = {}
  OBVIOUS
<1> QED BY <1>1, <1>3, <1>4 DEF Init, Abstract!Init

\* For every file in which no statement can get two labels and no label is at the
\* end, each step of the assembler is one that labels may take: a label waits for
\* the next statement, keeps its first meaning, and has it in the table at the end
\* (assembler.c:99-118, 261-286, 317-321).
THEOREM ImplementsLabels == Spec => LabelsNameTheNextStatement
<1>1. FileGiven /\ [Next]_vars => FileGiven'
  BY DEF FileGiven, Next, vars, BlankLine, DataDirective, TextDirective, DataLine, LabelLine,
         LabelledInstruction, PlainInstruction, EndOfFile, ReadTextLine, ReadLine
<1>2. LabelsKept /\ [Next]_vars => LabelsKept' /\ Typed'
  BY <1>1, NextTyped, SectionsStep, StatementsStep, PendingStep, CompleteStep DEF LabelsKept
<1> QED BY <1>2, LabelsInit, LabelsNext, PTL
        DEF Spec, LabelsNameTheNextStatement, Abstract!Spec
==============================================================================
