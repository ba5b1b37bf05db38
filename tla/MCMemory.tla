-------------------------------- MODULE MCMemory --------------------------------
(***************************************************************************)
(* A memory under any sequence of word writes, aligned or not, and of      *)
(* program and data loads.  last is a history variable: the write that the *)
(* last call made.                                                         *)
(***************************************************************************)
EXTENDS Memory

CONSTANTS None, Sizes, Addresses, Values, MaxWords

ASSUME CallsAssumption ==
  /\ Sizes \subseteq Nat /\ MaxWords \in Nat
  /\ Addresses \subseteq Word /\ Values \subseteq Word
  /\ \A addr \in Addresses, value \in Values : None # [addr |-> addr, value |-> value]

VARIABLES mem, last

vars == <<mem, last>>

Sections == UNION {[1 .. n -> Values] : n \in 0 .. MaxWords}

Init == /\ \E size \in Sizes : mem = memory_init(size)
        /\ last = None

Write == \E addr \in Addresses, value \in Values :
  /\ mem' = memory_write32(mem, addr, value)
  /\ last' = [addr |-> addr, value |-> value]

LoadProgram == \E program \in Sections, base \in Addresses :
  /\ mem' = load_program_into_memory(mem, program, base)
  /\ last' = None

LoadData == \E data \in Sections, offset \in Addresses :
  /\ mem' = load_data_into_memory(mem, data, offset)
  /\ last' = None

Next == Write \/ LoadProgram \/ LoadData

Spec == Init /\ [][Next]_vars
------------------------------------------------------------------------------
\* A memory keeps its size and holds bytes; reading one always gives a word.
TypeOK ==
  /\ \E size \in Sizes : mem \in MemoryOf(size)
  /\ \A addr \in Word : memory_read32(mem, addr) \in Word

\* The byte order of reads is that of writes: the word just written is read
\* back whole where it fits, and is not there where it does not
\* (memory.c:40-63).
ReadsWhatWasWritten ==
  last # None =>
    memory_read32(mem, last.addr) = IF in_bounds(mem, last.addr) THEN last.value ELSE 0

\* A word write changes no word that it does not overlap: unaligned accesses
\* meet the neighbouring words only in the bytes that they share.
DisjointWordsKept ==
  [][last' # None =>
       \A addr \in Word :
         addr + 4 <= last'.addr \/ last'.addr + 4 <= addr =>
           memory_read32(mem', addr) = memory_read32(mem, addr)]_vars

\* A dump shows what reads would return, all of it inside the memory, and it is
\* shorter than was asked for only if another word would not fit: the count that
\* main passes, a number of bytes (main.c:97), never takes it past the end
\* (memory.c:110-122).
DumpsShowTheMemory ==
  \A addr \in Addresses, count \in 0 .. MaxWords + 1 :
    LET shown == memory_dump_words(mem, addr, count)
    IN  /\ \A i \in DOMAIN shown :
             /\ in_bounds(mem, addr + 4 * (i - 1))
             /\ shown[i] = memory_read32(mem, addr + 4 * (i - 1))
        /\ count = 0 \/ Len(shown) < count => ~in_bounds(mem, addr + 4 * Len(shown))

\* The loaders as loops of memory_write32, as memory.c:74-77 and 87-99 have them:
\* the memory after each round.
ProgramLoop(m, program, base) ==
  LET loaded[i \in 0 .. Len(program)] ==
        IF i = 0 THEN m ELSE memory_write32(loaded[i - 1], base + 4 * (i - 1), program[i])
  IN  IF base + 4 * Len(program) > m.size THEN m ELSE loaded[Len(program)]

DataLoop(m, data, offset) ==
  LET loaded[i \in 0 .. Len(data)] ==
        IF i = 0 THEN m ELSE
        IF offset + 4 * (i - 1) + 4 > loaded[i - 1].size THEN loaded[i - 1]
        ELSE memory_write32(loaded[i - 1], offset + 4 * (i - 1), data[i])
  IN  loaded[Len(data)]

\* Loading a section at once is writing its words one by one: no word
\* is written twice or out of its place, also when the end of the memory cuts
\* a data section in two.
LoadingIsWritingWordByWord ==
  \A words \in Sections, base \in Addresses :
    /\ load_program_into_memory(mem, words, base) = ProgramLoop(mem, words, base)
    /\ load_data_into_memory(mem, words, base) = DataLoop(mem, words, base)
===============================================================================
