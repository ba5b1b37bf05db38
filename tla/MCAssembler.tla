------------------------------ MODULE MCAssembler ------------------------------
(***************************************************************************)
(* Assembler for TLC: every file of at most MaxLines lines of a few kinds. *)
(* The label a is short; <<"long", ...>> are longer than an operand, and   *)
(* the same in their first 49 characters.                                  *)
(***************************************************************************)
EXTENDS AssemblerAsLabels

CONSTANTS MaxLines, LineKinds

A == <<"a">>
Long1 == <<"long", "er", "1">>
Long2 == <<"long", "er", "2">>

Plain(opcode, operands) ==
  [colon |-> FALSE, label |-> << >>, opcode |-> opcode, operands |-> operands]
Labelled(label, opcode, operands) ==
  [colon |-> TRUE, label |-> label, opcode |-> opcode, operands |-> operands]

Blank == Plain("", << >>)
Data  == Plain(".data", << >>)
Text  == Plain(".text", << >>)
Words(label) == Labelled(label, ".word", <<<<"1">>, <<"2">>>>)
Nop   == Plain("ADD", <<<<"x0">>, <<"x0">>, <<"x0">>, <<"x0">>>>)

MixedLines ==
  {Blank, Data, Text, Words(A), Nop, Labelled(A, "", << >>), Labelled(Long2, "", << >>),
   Labelled(A, "jal", <<Long1>>), Labelled(Long1, "jal", <<Long2>>),
   Labelled(<< >>, "", << >>)}

AllFiles == UNION {[1 .. n -> LineKinds] : n \in 0 .. MaxLines}

MCLowerCase == [ADD |-> "add"]
MCXNumber == [x0 |-> 0]
MCNumbers == [n \in {"1", "2"} |->
                LET v == IF n = "1" THEN 1 ELSE 2 IN [value |-> v, whole |-> TRUE, decimal |-> v]]
MCMemories == << >>
===============================================================================
