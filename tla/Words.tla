-------------------------------- MODULE Words --------------------------------
(***************************************************************************)
(* Machine words: the uint32_t / int32_t values that cpu.c, alu.c and      *)
(* memory.c compute with.  A word is four bytes of ByteBase values each    *)
(* (256 in the code); every operation is reduced modulo the word size, as  *)
(* the C arithmetic is.  int32_t and uint32_t share one representation,    *)
(* the residue 0 .. WordMod-1, and Signed is the int32_t reading of it.    *)
(***************************************************************************)
EXTENDS Integers

CONSTANT ByteBase   \* how many values a byte has; 256 in the code

ASSUME ByteBaseAssumption == ByteBase \in Nat /\ ByteBase >= 2 /\ ByteBase % 2 = 0

Byte == 0 .. ByteBase - 1

WordMod == ByteBase * (ByteBase * (ByteBase * ByteBase))

Word == 0 .. WordMod - 1

\* Conversion of a C integer expression to uint32_t or int32_t.
Wrap(n) == n % WordMod

\* The int32_t value of a word.
Signed(w) == IF w < WordMod \div 2 THEN w ELSE w - WordMod

\* Mutation of WordBytes: the masks are forgotten.
WordBytesUnmasked(w) ==
  LET w8  == w   \div ByteBase
      w16 == w8  \div ByteBase
      w24 == w16 \div ByteBase
  IN  <<w, w8, w16, w24>>

\* The four bytes of a word, least significant first.
WordBytes(w) ==
  LET w8  == w   \div ByteBase
      w16 == w8  \div ByteBase
      w24 == w16 \div ByteBase
  IN  <<w % ByteBase, w8 % ByteBase, w16 % ByteBase, w24 % ByteBase>>

\* The word whose bytes, least significant first, are b0 to b3.
BytesWord(b0, b1, b2, b3) ==
  b0 + ByteBase * (b1 + ByteBase * (b2 + ByteBase * b3))
==============================================================================
