----------------------------- MODULE MCTranslation -----------------------------
(***************************************************************************)
(* Translation for TLC: files of one instruction with every mnemonic and   *)
(* every kind of operand, and files of a few lines with labels and jumps.  *)
(***************************************************************************)
EXTENDS Translation, TLC

CONSTANT MaxLines

Plain(opcode, operands) ==
  [colon |-> FALSE, label |-> << >>, opcode |-> opcode,
   operands |-> [k \in DOMAIN operands |-> <<operands[k]>>]]
------------------------------------------------------------------------------
(* The texts of operands. *)

RegisterTexts ==
  DOMAIN reg_aliases \cup
  {"x0", "x7", "x31", "X9", "RA", "T3", "x32", "x-1", "xy", "a8", "", "7", "4(x2)"}

MCLowerCase == [RA |-> "ra", T3 |-> "t3", X9 |-> "x9", ADD |-> "add", SW |-> "sw"]

MCXNumber == [n \in {"x0", "x1", "x2", "x3", "x7", "x31", "X9", "x32", "x-1"} |->
                CASE n = "x0" -> 0 [] n = "x1" -> 1 [] n = "x2" -> 2 [] n = "x3" -> 3
                  [] n = "x7" -> 7 [] n = "x31" -> 31 [] n = "X9" -> 9
                  [] n = "x32" -> 32 [] n = "x-1" -> -1]

\* The numbers at the limits of the immediates.
Decimals ==
  {-1, 0, 1, 3, 7} \cup
  UNION {{m - 2, m - 1, m, -m, -m - 1, -m - 2} : m \in {2048, 4096, 524288, 1048576}}

\* A hexadecimal and an octal number, of which atoi reads something else, a
\* number with text after it, one of more than 32 bits, and nothing.
OddNumbers ==
  "0x10"       :> [value |-> 16, whole |-> TRUE, decimal |-> 0] @@
  "010"        :> [value |-> 8, whole |-> TRUE, decimal |-> 10] @@
  "8bytes"     :> [value |-> 8, whole |-> FALSE, decimal |-> 8] @@
  "4294967300" :> [value |-> Int32Mod + 4, whole |-> TRUE, decimal |-> Int32Mod + 4] @@
  ""           :> [value |-> 0, whole |-> TRUE, decimal |-> 0]

MCNumbers ==
  OddNumbers @@
  [t \in {ToString(n) : n \in Decimals} |->
     LET n == CHOOSE d \in Decimals : ToString(d) = t
     IN  [value |-> n, whole |-> TRUE, decimal |-> n]]

NumberTexts == DOMAIN MCNumbers \cup {"five", "-"}

\* Every number as an offset, every register as a base, and what is neither.
MCMemories ==
  [t \in {"-4(sp)", "2048(x2)", "0x10(x3)", "(RA)", "8bytes(t6)", "4(x32)", "4(", "4(x2", "4()"} |->
     CASE t = "-4(sp)"     -> [offset |-> "-4", base |-> "sp", closed |-> TRUE]
       [] t = "2048(x2)"   -> [offset |-> "2048", base |-> "x2", closed |-> TRUE]
       [] t = "0x10(x3)"   -> [offset |-> "0x10", base |-> "x3", closed |-> TRUE]
       [] t = "(RA)"       -> [offset |-> "", base |-> "RA", closed |-> TRUE]
       [] t = "8bytes(t6)" -> [offset |-> "8bytes", base |-> "t6", closed |-> TRUE]
       [] t = "4(x32)"     -> [offset |-> "4", base |-> "x32", closed |-> TRUE]
       [] t = "4(x2"       -> [offset |-> "4", base |-> "x2", closed |-> FALSE]
       [] t = "4("         -> [offset |-> "4", base |-> "", closed |-> FALSE]
       [] t = "4()"        -> [offset |-> "4", base |-> "", closed |-> TRUE]]

MCLetterTexts ==
  DOMAIN reg_aliases \cup DOMAIN MCXNumber \cup {"RA", "T3", "xy", "a8", "five", "a", "long"}
------------------------------------------------------------------------------
(* Files of one instruction: one operand at a time runs through the texts,   *)
(* and every mnemonic gets too few and too many operands.                    *)

Mnemonics ==
  DOMAIN RtypeCodes \cup DOMAIN UtypeCodes \cup DOMAIN BranchCodes
  \cup {"addi", "li", "lw", "sw", "jal", "jalr", "ADD", "SW", "nop"}

MemoryTexts == DOMAIN MCMemories \cup {"4", "x2"}

OperandLists ==
  {<< >>, <<"x1">>, <<"x1", "x2">>, <<"x1", "x2", "x3">>, <<"x1", "x2", "x3", "x7">>}
  \cup UNION {{<<r>>, <<r, "1">>, <<r, "-4(sp)">>, <<r, "x2", "x3">>, <<"x1", r, "x3">>,
               <<"x1", "x2", r>>, <<"x1", r>>, <<r, "x2", "7">>, <<"x1", r, "7">>} : r \in RegisterTexts}
  \cup UNION {{<<n>>, <<"x1", n>>, <<"x1", "x2", n>>} : n \in NumberTexts}
  \cup {<<"x1", m>> : m \in MemoryTexts}
  \cup {<<"x1", m, "7">> : m \in MemoryTexts}

OneInstruction == {<<Plain(m, o)>> : m \in Mnemonics, o \in OperandLists}
------------------------------------------------------------------------------
(* Files with labels: a has one segment, and <<"long", ...>> is longer than  *)
(* an operand.                                                               *)

Long == <<"long", "er", "1">>

Labelled(label, opcode, operands) ==
  [colon |-> TRUE, label |-> label, opcode |-> opcode, operands |-> operands]

JumpLines ==
  {Plain(".data", << >>), Plain(".text", << >>), Plain("add", <<"x0", "x0", "x0">>),
   Labelled(<<"a">>, "", << >>), Labelled(Long, "", << >>), Labelled(<<"long">>, "", << >>),
   Labelled(<<"a">>, ".word", <<<<"1">>, <<"3">>>>),
   Labelled(<<"a">>, "beq", <<<<"x0">>, <<"x0">>, <<"a">>>>),
   Plain("jal", <<"a">>), Plain("jal", <<"x0", "a">>), Plain("beq", <<"x0", "x0", "a">>),
   [Plain("jal", <<"long">>) EXCEPT !.operands = <<Long>>],
   [Plain("bne", << >>) EXCEPT !.operands = <<<<"x1">>, <<"x0">>, Long>>]}

JumpFiles == UNION {[1 .. n -> JumpLines] : n \in 1 .. MaxLines}

AllFiles == OneInstruction \cup JumpFiles

\* Files with a branch to a name that is cut, and to what it is cut to.
CutFiles ==
  LET lines == {Plain("add", <<"x0", "x0", "x0">>),
                Labelled(Long, "", << >>), Labelled(<<"long">>, "", << >>),
                [Plain("bne", << >>) EXCEPT !.operands = <<<<"x1">>, <<"x0">>, Long>>]}
  IN  UNION {[1 .. n -> lines] : n \in 1 .. MaxLines}
===============================================================================
