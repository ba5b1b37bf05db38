-------------------------------- MODULE Memory --------------------------------
(***************************************************************************)
(* memory.c: the simulator's byte-addressed memory.  A memory is a record  *)
(* of its size and its bytes, as struct Memory is; a size of 0 is what     *)
(* memory_init leaves when its allocation fails.  Addresses are words.     *)
(* Out-of-bounds accesses do not fail: a read yields 0, a write is lost.   *)
(***************************************************************************)
EXTENDS Words, Sequences

MemoryOf(size) == [size : {size}, data : [0 .. size - 1 -> Byte]]

\* memory_init: zeroed memory.
memory_init(size) == [size |-> size, data |-> [a \in 0 .. size - 1 |-> 0]]

\* memory_free: a pointer and a size that no access gets through.
memory_free(m) == [size |-> 0, data |-> << >>]

\* in_bounds(m, addr, 4): size_t is wider than addr, so the sum cannot wrap.
in_bounds(m, addr) == addr + 4 <= m.size

\* Mutation of memory_read32: the two middle bytes are exchanged.
memory_read32_swapped(m, addr) ==
  IF in_bounds(m, addr)
  THEN BytesWord(m.data[addr], m.data[addr + 2], m.data[addr + 1], m.data[addr + 3])
  ELSE 0

memory_read32(m, addr) ==
  IF in_bounds(m, addr)
  THEN BytesWord(m.data[addr], m.data[addr + 1], m.data[addr + 2], m.data[addr + 3])
  ELSE 0

\* Mutation of memory_write32: a fifth byte is written where there is one.
memory_write32_five(m, addr, value) ==
  IF in_bounds(m, addr)
  THEN [m EXCEPT !.data = [a \in DOMAIN m.data |->
                             IF a \in addr .. addr + 4
                             THEN WordBytes(value)[((a - addr) % 4) + 1]
                             ELSE m.data[a]]]
  ELSE m

memory_write32(m, addr, value) ==
  IF in_bounds(m, addr)
  THEN [m EXCEPT !.data = [a \in DOMAIN m.data |->
                             IF a \in addr .. addr + 3
                             THEN WordBytes(value)[a - addr + 1]
                             ELSE m.data[a]]]
  ELSE m

\* Mutation of memory_dump_words: 0 words are no words.
memory_dump_words_zero(m, addr, words) ==
  LET available == IF addr >= m.size THEN 0 ELSE (m.size - addr) \div 4
  IN  [i \in 1 .. (IF words > available THEN available ELSE words) |->
         LET a == addr + 4 * (i - 1)
         IN  BytesWord(m.data[a], m.data[a + 1], m.data[a + 2], m.data[a + 3])]

\* The words that are printed, read without a bounds check of their own; 0 words
\* means as many as there are.
memory_dump_words(m, addr, words) ==
  LET available == IF addr >= m.size THEN 0 ELSE (m.size - addr) \div 4
  IN  [i \in 1 .. (IF words = 0 \/ words > available THEN available ELSE words) |->
         LET a == addr + 4 * (i - 1)
         IN  BytesWord(m.data[a], m.data[a + 1], m.data[a + 2], m.data[a + 3])]

(***************************************************************************)
(* Both loaders write words at consecutive addresses, so their loops are   *)
(* given in closed form: the bytes of the words that fit, at their place,  *)
(* over the old contents.  MCMemory compares them with the loops.          *)
(***************************************************************************)

\* Mutation of LoadWords: >= for > in the test of the end.
LoadWordsShort(m, base, words) ==
  [m EXCEPT !.data =
     [a \in DOMAIN m.data |->
        LET i == ((a - base) \div 4) + 1
        IN  IF a \in base .. base + 4 * Len(words) - 1 /\ base + 4 * i < m.size
            THEN WordBytes(words[i])[((a - base) % 4) + 1]
            ELSE m.data[a]]]

LoadWords(m, base, words) ==
  [m EXCEPT !.data =
     [a \in DOMAIN m.data |->
        LET i == ((a - base) \div 4) + 1
        IN  IF a \in base .. base + 4 * Len(words) - 1 /\ base + 4 * i <= m.size
            THEN WordBytes(words[i])[((a - base) % 4) + 1]
            ELSE m.data[a]]]

\* Mutation of load_program_into_memory: the words that fit are loaded.
load_program_partly(m, program, base) == LoadWords(m, base, program)

\* A program that does not fit is reported on stdout and not loaded at all.
load_program_into_memory(m, program, base) ==
  IF base + 4 * Len(program) > m.size THEN m ELSE LoadWords(m, base, program)

\* A data entry that does not fit is skipped; the others are still loaded.
\* Entry i was given the address 4 * (i - 1) by the assembler.
load_data_into_memory(m, data, data_offset) == LoadWords(m, data_offset, data)
===============================================================================
