--------------------------------- MODULE MCAlu ---------------------------------
(***************************************************************************)
(* One call of alu_execute for every operation and every pair of operands. *)
(* The properties are the laws of the RV32I and RV32M operations, stated   *)
(* without reusing the expressions that define them in Alu.                *)
(***************************************************************************)
EXTENDS Alu

CONSTANT None

ASSUME NoneAssumption == None \notin Word \cup {Trap}

VARIABLES op, operand1, operand2, outcome

vars == <<op, operand1, operand2, outcome>>

Init ==
  /\ op \in ALUOp
  /\ operand1 \in Word
  /\ operand2 \in Word
  /\ outcome = None

Execute ==
  /\ outcome = None
  /\ outcome' \in alu_execute(op, operand1, operand2)
  /\ UNCHANGED <<op, operand1, operand2>>

Spec == Init /\ [][Execute]_vars
------------------------------------------------------------------------------
Returned(operation) == op = operation /\ outcome \notin {None, Trap}

Bit(w, k) == (w \div Pow2[k]) % 2

\* An operation returns a word; only a division can kill the process.
TypeOK ==
  /\ outcome \in Word \cup {None, Trap}
  /\ outcome = Trap => op = "ALU_DIV"

\* Shifts move every bit by the low bits of the second operand: zeros come in,
\* but for the copies of the sign of an arithmetic shift (alu.c:24-31).
ShiftsMoveBits ==
  LET n == operand2 % WordBits
  IN  \A k \in 0 .. WordBits - 1 :
        /\ Returned("ALU_SLL") =>
             Bit(outcome, k) = IF k < n THEN 0 ELSE Bit(operand1, k - n)
        /\ Returned("ALU_SRL") =>
             Bit(outcome, k) = IF k + n < WordBits THEN Bit(operand1, k + n) ELSE 0
        /\ Returned("ALU_SRA") =>
             Bit(outcome, k) = Bit(operand1, IF k + n < WordBits THEN k + n ELSE WordBits - 1)

\* XOR is the sum without carries and AND has the carries: the bitwise
\* operations agree with the addition (alu.c:9-22).
SumIsXorPlusCarries ==
  \A x \in alu_execute("ALU_XOR", operand1, operand2),
     c \in alu_execute("ALU_AND", operand1, operand2) :
    Returned("ALU_ADD") => outcome = (x + 2 * c) % WordMod

\* Division truncates: where C defines it, the remainder is smaller than the
\* divisor and has the sign of the dividend (alu.c:36-37).
DivisionTruncates ==
  LET n == Signed(operand1)
      d == Signed(operand2)
      r == n - d * Signed(outcome)
  IN  Returned("ALU_DIV") /\ d # 0 /\ ~(d = -1 /\ n = -(WordMod \div 2)) =>
        /\ Magnitude(r) < Magnitude(d)
        /\ r = 0 \/ (r < 0) = (n < 0)

\* OR is the union of the bits of its operands: together with the bits that
\* they have in common it makes their sum (alu.h, ALU_OR).
SumIsOrPlusAnd ==
  \A c \in alu_execute("ALU_AND", operand1, operand2) :
    Returned("ALU_OR") => (outcome + c) % WordMod = (operand1 + operand2) % WordMod
===============================================================================
