----------------------------- MODULE WordPathProofs -----------------------------
(***************************************************************************)
(* What holds on a word's way through the simulator, for every set of      *)
(* instructions and of stored words.                                       *)
(***************************************************************************)
EXTENDS WordPath, WordProofs

\* Where the word comes from, and what is made of it.
WordInv ==
  /\ written = None \/ WellFormed(written)
  /\ word \notin {None, Refused} =>
       IF written # None
       THEN word = Encode(written) /\ Accepts(written)
       ELSE word \in EncodedInstruction /\ word.opcode \in Opcode
  /\ read # None => word \notin {None, Refused} /\ read = Decode(word)

\* The invariant is inductive.
LEMMA WordInvInvariant == Spec => []WordInv
<1>1. Init => WordInv
  BY SourcesAssumption DEF Init, WordInv
<1>2. WordInv /\ [Next]_vars => WordInv'
  <2> SUFFICES ASSUME WordInv, [Next]_vars PROVE WordInv'
    OBVIOUS
  <2> USE DEF WordInv
  <2>1. CASE Assemble
    BY <2>1 DEF Assemble
  <2>2. CASE Overwrite
    BY <2>2, StoredWordsAssumption DEF Overwrite
  <2>3. CASE Execute
    BY <2>3 DEF Execute
  <2>4. CASE UNCHANGED vars
    BY <2>4 DEF vars
  <2> QED BY <2>1, <2>2, <2>3, <2>4 DEF Next
<1> QED BY <1>1, <1>2, PTL DEF Spec

\* The word is always a word with a known opcode.
LEMMA WordInvWord ==
  ASSUME WordInv, word \notin {None, Refused}
  PROVE  word \in EncodedInstruction /\ word.opcode \in Opcode
<1>1. CASE written # None
  BY <1>1, AcceptedWord DEF WordInv
<1>2. CASE written = None
  BY <1>2 DEF WordInv
<1> QED BY <1>1, <1>2

\* Instructions and words have the shape of their C types at every step, for
\* every set of instructions and of stored words.
THEOREM WordTypes == Spec => []TypeOK
<1>1. ASSUME WordInv PROVE TypeOK
  <2>1. word \in {None, Refused} \/ word \in EncodedInstruction
    BY <1>1, WordInvWord
  <2>2. ASSUME read # None PROVE read \in Instruction
    <3>1. word \in EncodedInstruction /\ word.opcode \in Opcode /\ read = Decode(word)
      BY <1>1, <2>2, WordInvWord DEF WordInv
    <3>2. Encodable(Decode(word))
      BY <3>1, EveryBitCounts
    <3> QED BY <3>1, <3>2 DEF Encodable, WellFormed
  <2> QED BY <1>1, <2>1, <2>2 DEF TypeOK, WordInv
<1> QED BY <1>1, WordInvInvariant, PTL

\* Every instruction that passes the encoder's checks is executed with the
\* operands it was written with, for every immediate of every format; only the
\* unchecked offset of an lw or sw is reduced to its low 12 bits.
THEOREM WordsAreFaithful == Spec => []ExecutedAsWritten
<1>1. ASSUME WordInv PROVE ExecutedAsWritten
  <2> SUFFICES ASSUME written # None, read # None
               PROVE  /\ [read EXCEPT !.imm = written.imm] = written
                      /\ Fits(written) => read = written
                      /\ read.imm # written.imm =>
                           /\ written.opcode \in {LOAD, STORE}
                           /\ (read.imm - written.imm) % 4096 = 0 /\ fits_imm12(read.imm)
    BY DEF ExecutedAsWritten
  <2>1. WellFormed(written) /\ Accepts(written) /\ read = Decode(Encode(written))
    BY <1>1 DEF WordInv
  <2>2. CASE Fits(written)
    <3>1. read = written
      BY <2>1, <2>2, RoundTrip DEF Encodable
    <3>2. [written EXCEPT !.imm = written.imm] = written
      BY SMT, <2>1 DEF WellFormed, Instruction
    <3> QED BY <3>1, <3>2
  <2>3. CASE ~Fits(written)
    <3>1. written.opcode \in {LOAD, STORE}
      BY <2>1, <2>3 DEF Accepts
    <3>2. read = Truncated(written)
      BY <2>1, <3>1, TruncatedRoundTrip, RoundTrip
    <3> QED BY <2>1, <2>3, <3>1, <3>2, TruncatedRoundTrip
  <2> QED BY <2>2, <2>3
<1> QED BY <1>1, WordInvInvariant, PTL

\* The getters look at every bit of every word that has a known opcode.
THEOREM NoBitIsIgnored == Spec => []ReadsEveryBit
<1>1. ASSUME WordInv PROVE ReadsEveryBit
  BY <1>1, WordInvWord, EveryBitCounts DEF WordInv, ReadsEveryBit
<1> QED BY <1>1, WordInvInvariant, PTL
===============================================================================
