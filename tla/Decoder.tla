-------------------------------- MODULE Decoder --------------------------------
(***************************************************************************)
(* decoder.c, and atoi: what the text of an operand means.  The texts that *)
(* a file may contain are strings that are never taken apart; what the     *)
(* library calls find in them is given by the tables below.                *)
(***************************************************************************)
EXTENDS Integers, Sequences

CONSTANTS
  LowerCase,  \* tolower: the texts that it changes
  XNumber,    \* the texts x<number>, whatever the number is
  Numbers,    \* the texts that start with a number, and "": the value that
              \* strtol reads in base 0, whether it reads the whole text, and
              \* the value that atoi reads in base 10
  Memories,   \* the texts with a '(': the text before it, the text between
              \* it and the ')', and whether there is a ')'
  Int32Mod    \* 2^32

ASSUME NumbersAssumption ==
  \A t \in DOMAIN Numbers :
    Numbers[t] \in [value : Int, whole : BOOLEAN, decimal : Int]

ASSUME Int32Assumption == Int32Mod \in Nat /\ Int32Mod > 0 /\ Int32Mod % 4096 = 0

to_lower(t) == IF t \in DOMAIN LowerCase THEN LowerCase[t] ELSE t

\* Conversion of a long to int32_t.
Int32(n) == ((n + Int32Mod \div 2) % Int32Mod) - Int32Mod \div 2

reg_aliases ==
  [zero |-> 0, ra |-> 1, sp |-> 2, gp |-> 3, tp |-> 4,
   t0 |-> 5, t1 |-> 6, t2 |-> 7, s0 |-> 8, fp |-> 8, s1 |-> 9,
   a0 |-> 10, a1 |-> 11, a2 |-> 12, a3 |-> 13, a4 |-> 14, a5 |-> 15,
   a6 |-> 16, a7 |-> 17, s2 |-> 18, s3 |-> 19, s4 |-> 20, s5 |-> 21,
   s6 |-> 22, s7 |-> 23, s8 |-> 24, s9 |-> 25, s10 |-> 26, s11 |-> 27,
   t3 |-> 28, t4 |-> 29, t5 |-> 30, t6 |-> 31]

\* The number of a register, -1 for what is none.
reg_index(t) ==
  CASE t \in DOMAIN XNumber -> IF XNumber[t] \in 0 .. 31 THEN XNumber[t] ELSE -1
    [] t \notin DOMAIN XNumber /\ to_lower(t) \in DOMAIN reg_aliases ->
         reg_aliases[to_lower(t)]
    [] OTHER -> -1

\* No register has a '(' in its name.
ASSUME MemoriesAssumption == \A t \in DOMAIN Memories : reg_index(t) = -1

\* Whatever is not a number is 0, and a long is cut to 32 bits.
parse_immediate(t) == IF t \in DOMAIN Numbers THEN Int32(Numbers[t].value) ELSE 0

atoi(t) == IF t \in DOMAIN Numbers THEN Int32(Numbers[t].decimal) ELSE 0

\* offset(register); the register is -1 if the operand is anything else.
parse_memory_operand(t) ==
  IF t \in DOMAIN Memories /\ Memories[t].closed
  THEN [offset |-> parse_immediate(Memories[t].offset),
        reg    |-> reg_index(Memories[t].base)]
  ELSE [offset |-> 0, reg |-> -1]
===============================================================================
