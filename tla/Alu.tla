---------------------------------- MODULE Alu ----------------------------------
(***************************************************************************)
(* alu.c: alu_execute.  The result is a set of outcomes: one word where C  *)
(* defines the result or every supported build wraps; where a division is  *)
(* undefined, both the trap of an x86 build and the value of an AArch64    *)
(* one.                                                                    *)
(***************************************************************************)
EXTENDS Words, FiniteSetsExt

CONSTANTS WordBits,  \* how many bits a word has; 32 in the code
          Trap       \* the outcome "the process is killed by SIGFPE"

\* 2 to the k.
Pow2[k \in Nat] == IF k = 0 THEN 1 ELSE 2 * Pow2[k - 1]

ASSUME WordBitsAssumption == WordBits \in Nat /\ Pow2[WordBits] = WordMod

\* A process that dies has computed nothing.
ASSUME TrapAssumption == Trap \notin Word

\* alu.h also has ALU_UNKNOWN, which cpu.c never passes on.
ALUOp == {"ALU_ADD", "ALU_SUB", "ALU_XOR", "ALU_OR", "ALU_AND",
          "ALU_SLL", "ALU_SRL", "ALU_SRA", "ALU_MUL", "ALU_DIV"}

\* The bits of a word, as the set of their positions, and the word they make.
BitsOf(w) == {k \in 0 .. WordBits - 1 : (w \div Pow2[k]) % 2 = 1}

OfBits(S) ==
  LET Below[n \in 0 .. WordBits] ==
        IF n = 0 THEN 0 ELSE Below[n - 1] + (IF n - 1 \in S THEN Pow2[n - 1] ELSE 0)
  IN  Below[WordBits]

\* Mutation of ExclusiveOr: an operand taken twice, as the code does for OR.
ExclusiveOrOfOne(a, b) == OfBits(SymDiff(BitsOf(a), BitsOf(a)))

ExclusiveOr(a, b) == OfBits(SymDiff(BitsOf(a), BitsOf(b)))

\* Mutation of ShiftAmount: the mask is forgotten.
ShiftAmountUnmasked(b) == b

\* The shift operators use the low bits of their second operand only (& 0x1F).
ShiftAmount(b) == b % WordBits

Magnitude(n) == IF n < 0 THEN -n ELSE n

\* Mutation of Quotient: rounded down.
QuotientFloor(n, d) == IF d < 0 THEN (-n) \div (-d) ELSE n \div d

\* C division truncates towards zero.
Quotient(n, d) ==
  LET q == Magnitude(n) \div Magnitude(d)
  IN  IF (n < 0) = (d < 0) THEN q ELSE -q

\* Mutation of DivOutcomes: the quotient does not become an int32_t.
DivOutcomesUnconverted(a, b) ==
  IF b = 0 THEN {Trap, 0} ELSE {Quotient(Signed(a), Signed(b))}

\* Division by zero and INT32_MIN / -1 are undefined in C.
DivOutcomes(a, b) ==
  LET n == Signed(a)
      d == Signed(b)
  IN  IF d = 0 THEN {Trap, 0}
      ELSE IF d = -1 /\ n = -(WordMod \div 2) THEN {Trap, a}
      ELSE {Wrap(Quotient(n, d))}

\* The case of ALU_OR is the code's: alu.c:19 ORs operand1 with itself.
alu_execute(op, a, b) ==
  CASE op = "ALU_ADD" -> {Wrap(a + b)}
    [] op = "ALU_SUB" -> {Wrap(a - b)}
    [] op = "ALU_XOR" -> {ExclusiveOr(a, b)}
    [] op = "ALU_OR"  -> {OfBits(BitsOf(a) \cup BitsOf(a))}
    [] op = "ALU_AND" -> {OfBits(BitsOf(a) \cap BitsOf(b))}
    [] op = "ALU_SLL" -> {Wrap(a * Pow2[ShiftAmount(b)])}
    [] op = "ALU_SRL" -> {a \div Pow2[ShiftAmount(b)]}
    [] op = "ALU_SRA" -> {Wrap(Signed(a) \div Pow2[ShiftAmount(b)])}
    [] op = "ALU_MUL" -> {Wrap(Signed(a) * Signed(b))}
    [] op = "ALU_DIV" -> DivOutcomes(a, b)
===============================================================================
