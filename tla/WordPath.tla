-------------------------------- MODULE WordPath --------------------------------
(***************************************************************************)
(* A word's way through the simulator: main encodes an instruction of the  *)
(* program, or a running program stores a word of its own into the text;   *)
(* then the processor fetches the word and takes it apart.                 *)
(***************************************************************************)
EXTENDS InstructionFormat

CONSTANTS None,          \* not there yet
          Refused,       \* encode_instruction returned 0, main gives up
          Sources,       \* the instructions that may be written
          StoredWords    \* the words that a program may store into its text

ASSUME SourcesAssumption == \A i \in Sources : WellFormed(i)

ASSUME StoredWordsAssumption ==
  \A w \in StoredWords : w \in EncodedInstruction /\ w.opcode \in Opcode

ASSUME NoneAssumption ==
  /\ None \notin Instruction /\ None \notin EncodedInstruction
  /\ Refused # None /\ Refused \notin EncodedInstruction

VARIABLES written,   \* the instruction that was encoded, None if there was none
          word,      \* the word in the text, or Refused
          read       \* what the processor executes

vars == <<written, word, read>>

Init == written \in Sources \cup {None} /\ word = None /\ read = None

Assemble ==
  /\ written # None /\ word = None
  /\ word' = IF Accepts(written) THEN Encode(written) ELSE Refused
  /\ UNCHANGED <<written, read>>

Overwrite ==
  /\ written = None /\ word = None
  /\ word' \in StoredWords
  /\ UNCHANGED <<written, read>>

Execute ==
  /\ word \notin {None, Refused} /\ read = None
  /\ read' = Decode(word)
  /\ UNCHANGED <<written, word>>

Next == Assemble \/ Overwrite \/ Execute

Spec == Init /\ [][Next]_vars
------------------------------------------------------------------------------
\* Everything has the shape that the C types give it.
TypeOK ==
  /\ written = None \/ WellFormed(written)
  /\ word \in {None, Refused} \/ word \in EncodedInstruction
  /\ read = None \/ read \in Instruction

\* The processor executes the instruction that was written: whatever passes
\* the encoder's range checks is read back with the same operands, and the
\* offset of an lw or sw, which nothing checks, is off by a multiple of 4096
\* (encoder.c:11-112, 486, 519 against instruction.h).
ExecutedAsWritten ==
  written # None /\ read # None =>
    /\ [read EXCEPT !.imm = written.imm] = written
    /\ Fits(written) => read = written
    /\ read.imm # written.imm =>
         /\ written.opcode \in {LOAD, STORE}
         /\ (read.imm - written.imm) % 4096 = 0 /\ fits_imm12(read.imm)

\* No two words of a format are the same instruction: what the getters read
\* determines the word, so they look at every bit that a format has.
ReadsEveryBit == read # None => Encode(read) = word
===============================================================================
