----------------------------- MODULE MCMemoryProofs -----------------------------
(***************************************************************************)
(* The memory under any sequence of calls, for every size, word width and  *)
(* section.                                                                *)
(***************************************************************************)
EXTENDS MCMemory, WordProofs

\* A section is a sequence of words.
LEMMA SectionsAreWords == ASSUME NEW words \in Sections PROVE words \in Seq(Word)
<1>1. PICK n \in 0 .. MaxWords : words \in [1 .. n -> Values]
  BY DEF Sections
<1>2. n \in Nat /\ Values \subseteq Word
  BY CallsAssumption
<1>3. \A i \in 1 .. n : words[i] \in Word
  BY <1>1, <1>2
<1>4. words = [i \in 1 .. n |-> words[i]]
  BY <1>1
<1> QED BY <1>2, <1>3, <1>4

\* A memory of one of the sizes.
IsMemory == \E size \in Sizes : mem \in MemoryOf(size)

\* At first it is one.
LEMMA InitIsMemory == Init => IsMemory
<1> SUFFICES ASSUME NEW size \in Sizes, mem = memory_init(size) PROVE IsMemory
  BY DEF Init
<1>1. size \in Nat
  BY CallsAssumption
<1> QED BY <1>1, InitInMemory DEF IsMemory

\* Every call keeps it one.
LEMMA NextIsMemory == IsMemory /\ [Next]_vars => IsMemory'
<1> SUFFICES ASSUME NEW size \in Sizes, mem \in MemoryOf(size), [Next]_vars
             PROVE  mem' \in MemoryOf(size)
  BY DEF IsMemory
<1>1. size \in Nat /\ Addresses \subseteq Word /\ Values \subseteq Word
  BY CallsAssumption
<1>2. Addresses \subseteq Nat
  BY <1>1, WordModFacts DEF Word
<1>3. CASE Write
  BY <1>1, <1>3, WriteInMemory DEF Write
<1>4. CASE LoadProgram
  BY <1>1, <1>2, <1>4, SectionsAreWords, ProgramInMemory DEF LoadProgram
<1>5. CASE LoadData
  BY <1>1, <1>2, <1>5, SectionsAreWords, DataInMemory DEF LoadData
<1>6. CASE UNCHANGED vars
  BY <1>6 DEF vars
<1> QED BY <1>3, <1>4, <1>5, <1>6 DEF Next

\* Whatever is written and loaded, a memory keeps its size and its bytes are
\* bytes, so that every read gives a word (memory.c:40-101).
THEOREM MemoryIsKept == Spec => []TypeOK
<1>1. IsMemory => TypeOK
  <2> SUFFICES ASSUME NEW size \in Sizes, mem \in MemoryOf(size) PROVE TypeOK
    BY DEF IsMemory
  <2>1. size \in Nat
    BY CallsAssumption
  <2> QED BY <2>1, ReadInWord DEF TypeOK
<1> QED BY <1>1, InitIsMemory, NextIsMemory, PTL DEF Spec

\* The last write was one of the calls' and can be read.
LastWrite ==
  last # None =>
    /\ last.addr \in Addresses /\ last.value \in Values
    /\ memory_read32(mem, last.addr) = IF in_bounds(mem, last.addr) THEN last.value ELSE 0

\* Every call keeps that so: a load forgets the last write.
LEMMA LastWriteStep == IsMemory /\ LastWrite /\ [Next]_vars => LastWrite'
<1> SUFFICES ASSUME NEW size \in Sizes, mem \in MemoryOf(size), LastWrite, [Next]_vars
             PROVE  LastWrite'
  BY DEF IsMemory
<1>1. size \in Nat /\ Addresses \subseteq Word /\ Values \subseteq Word
  BY CallsAssumption
<1>2. CASE Write
  <2>1. PICK addr \in Addresses, value \in Values :
          mem' = memory_write32(mem, addr, value) /\ last' = [addr |-> addr, value |-> value]
    BY <1>2 DEF Write
  <2>2. mem' \in MemoryOf(size) /\ (in_bounds(mem', addr) <=> in_bounds(mem, addr))
    BY <1>1, <2>1, WriteInMemory DEF in_bounds, MemoryOf
  <2>3. CASE in_bounds(mem, addr)
    <3>1. memory_read32(mem', addr) = value
      BY <1>1, <2>1, <2>3, ReadAfterWrite
    <3> QED BY <2>1, <2>2, <2>3, <3>1 DEF LastWrite
  <2>4. CASE ~in_bounds(mem, addr)
    <3>1. memory_read32(mem', addr) = 0
      BY <2>1, <2>2, <2>4 DEF memory_read32, memory_write32
    <3> QED BY <2>1, <2>2, <2>4, <3>1 DEF LastWrite, memory_write32
  <2> QED BY <2>3, <2>4
<1>3. CASE LoadProgram \/ LoadData
  BY <1>3 DEF LoadProgram, LoadData, LastWrite
<1>4. CASE UNCHANGED vars
  BY <1>4 DEF vars, LastWrite
<1> QED BY <1>2, <1>3, <1>4 DEF Next

\* Bytes are written in the order in which they are read: after a write the word
\* is there whole, or not at all if it does not fit (memory.c:40-63).
THEOREM WritesAreRead == Spec => []ReadsWhatWasWritten
<1>1. Init => LastWrite
  BY DEF Init, LastWrite
<1>2. LastWrite => ReadsWhatWasWritten
  BY DEF LastWrite, ReadsWhatWasWritten
<1> QED BY <1>1, <1>2, InitIsMemory, NextIsMemory, LastWriteStep, PTL DEF Spec

\* A write changes no word that it does not overlap, aligned or not
\* (memory.c:51-63).
THEOREM OtherWordsAreKept == Spec => DisjointWordsKept
<1> DEFINE Kept == last' # None =>
             \A addr \in Word :
               addr + 4 <= last'.addr \/ last'.addr + 4 <= addr =>
                 memory_read32(mem', addr) = memory_read32(mem, addr)
<1>1. ASSUME NEW size \in Sizes, mem \in MemoryOf(size), Next PROVE Kept
  <2>1. size \in Nat /\ Addresses \subseteq Word /\ Values \subseteq Word
    BY CallsAssumption
  <2>2. CASE Write
    <3>1. PICK addr \in Addresses, value \in Values :
            mem' = memory_write32(mem, addr, value) /\ last' = [addr |-> addr, value |-> value]
      BY <2>2 DEF Write
    <3>2. last'.addr = addr
      BY <3>1
    <3> QED BY <1>1, <2>1, <3>1, <3>2, ReadAfterDisjointWrite
  <2>3. CASE LoadProgram \/ LoadData
    BY <2>3 DEF LoadProgram, LoadData
  <2> QED BY <1>1, <2>2, <2>3 DEF Next
<1>2. IsMemory /\ [Next]_vars => [Kept]_vars
  BY <1>1 DEF IsMemory
<1> HIDE DEF Kept
<1>3. Spec => [][Kept]_vars
  BY <1>2, InitIsMemory, NextIsMemory, PTL DEF Spec
<1> QED BY <1>3 DEF Kept, DisjointWordsKept

\* A dump reads whole words, as many as fit.
LEMMA DumpIsReads ==
  ASSUME NEW size \in Nat, NEW m \in MemoryOf(size), NEW addr \in Nat, NEW count \in Nat
  PROVE  LET shown == memory_dump_words(m, addr, count)
         IN  /\ \A i \in DOMAIN shown :
                  /\ in_bounds(m, addr + 4 * (i - 1))
                  /\ shown[i] = memory_read32(m, addr + 4 * (i - 1))
             /\ count = 0 \/ Len(shown) < count => ~in_bounds(m, addr + 4 * Len(shown))
<1> DEFINE available == IF addr >= m.size THEN 0 ELSE (m.size - addr) \div 4
           n == IF count = 0 \/ count > available THEN available ELSE count
           shown == memory_dump_words(m, addr, count)
<1>1. m.size = size
  BY DEF MemoryOf
<1>2. /\ available \in Nat /\ (available > 0 => addr + 4 * available <= m.size)
      /\ m.size < addr + 4 * (available + 1)
  <2>1. CASE addr >= m.size
    BY <1>1, <2>1
  <2>2. CASE ~(addr >= m.size)
    <3>1. PICK d \in Nat : d = m.size - addr
      BY <1>1, <2>2
    <3>2. d \div 4 \in Nat /\ 4 * (d \div 4) <= d /\ d < 4 * (d \div 4 + 1)
      OBVIOUS
    <3> QED BY <1>1, <2>2, <3>1, <3>2
  <2> QED BY <2>1, <2>2
<1> HIDE DEF available
<1>3. n \in Nat /\ n <= available /\ (count = 0 \/ n < count => n = available)
  BY <1>2
<1>4. /\ DOMAIN shown = 1 .. n /\ Len(shown) = n
      /\ \A i \in 1 .. n :
           shown[i] = LET a == addr + 4 * (i - 1)
                      IN  BytesWord(m.data[a], m.data[a + 1], m.data[a + 2], m.data[a + 3])
  <2>1. shown = [i \in 1 .. n |->
                   LET a == addr + 4 * (i - 1)
                   IN  BytesWord(m.data[a], m.data[a + 1], m.data[a + 2], m.data[a + 3])]
    BY DEF memory_dump_words, available
  <2> HIDE DEF n, shown
  <2> QED BY <1>3, <2>1
<1> HIDE DEF n, shown
<1>5. ASSUME NEW i \in 1 .. n
      PROVE  /\ in_bounds(m, addr + 4 * (i - 1))
             /\ shown[i] = memory_read32(m, addr + 4 * (i - 1))
  <2>1. addr + 4 * (i - 1) + 4 <= m.size
    BY <1>1, <1>2, <1>3
  <2> QED BY <1>4, <2>1 DEF in_bounds, memory_read32
<1>6. count = 0 \/ n < count => ~in_bounds(m, addr + 4 * n)
  BY <1>1, <1>2, <1>3 DEF in_bounds
<1> QED BY <1>4, <1>5, <1>6 DEF shown

\* A dump shows what reads return, never past the end of the memory, and all that
\* was asked for unless the memory ends before, whatever count main passes
\* (main.c:97, memory.c:103-129).
THEOREM DumpsAreReads == Spec => []DumpsShowTheMemory
<1>1. IsMemory => DumpsShowTheMemory
  <2> SUFFICES ASSUME NEW size \in Sizes, mem \in MemoryOf(size),
                      NEW addr \in Addresses, NEW count \in 0 .. MaxWords + 1
               PROVE  LET shown == memory_dump_words(mem, addr, count)
                      IN  /\ \A i \in DOMAIN shown :
                               /\ in_bounds(mem, addr + 4 * (i - 1))
                               /\ shown[i] = memory_read32(mem, addr + 4 * (i - 1))
                          /\ count = 0 \/ Len(shown) < count =>
                               ~in_bounds(mem, addr + 4 * Len(shown))
    BY DEF IsMemory, DumpsShowTheMemory
  <2>1. size \in Nat /\ addr \in Nat /\ count \in Nat
    BY CallsAssumption, WordModFacts DEF Word
  <2> QED BY <2>1, DumpIsReads
<1> QED BY <1>1, InitIsMemory, NextIsMemory, PTL DEF Spec
------------------------------------------------------------------------------
(* The loaders are their loops *)

\* What LoadWords makes of the first k words.
Loaded(m, base, words, k) ==
  [m EXCEPT !.data =
     [a \in DOMAIN m.data |->
        LET i == ((a - base) \div 4) + 1
        IN  IF a \in base .. base + 4 * k - 1 /\ base + 4 * i <= m.size
            THEN WordBytes(words[i])[((a - base) % 4) + 1]
            ELSE m.data[a]]]

\* Its bytes, for a memory of this size.
LoadedBytes(m, size, base, words, k) ==
  [a \in 0 .. size - 1 |->
     IF a \in base .. base + 4 * k - 1 /\ base + 4 * (((a - base) \div 4) + 1) <= size
     THEN WordBytes(words[((a - base) \div 4) + 1])[((a - base) % 4) + 1]
     ELSE m.data[a]]

\* It is a record like m.
LEMMA LoadedRecord ==
  ASSUME NEW size \in Nat, NEW m \in MemoryOf(size), NEW base, NEW words, NEW k
  PROVE  Loaded(m, base, words, k) =
           [size |-> size, data |-> LoadedBytes(m, size, base, words, k)]
BY DEF Loaded, LoadedBytes, MemoryOf

\* Before the first word nothing is loaded.
LEMMA NothingLoaded ==
  ASSUME NEW size \in Nat, NEW m \in MemoryOf(size), NEW base \in Nat, NEW words
  PROVE  Loaded(m, base, words, 0) = m
<1>1. m = [size |-> size, data |-> m.data] /\ m.data \in [0 .. size - 1 -> Byte]
  BY DEF MemoryOf
<1>2. base .. base + 4 * 0 - 1 = {}
  OBVIOUS
<1>3. LoadedBytes(m, size, base, words, 0) = [a \in 0 .. size - 1 |-> m.data[a]]
  BY <1>2 DEF LoadedBytes
<1>4. LoadedBytes(m, size, base, words, 0) = m.data
  BY <1>1, <1>3
<1> QED BY <1>1, <1>4, LoadedRecord

\* In the bytes of word k the loader finds word k; before them it does not look for it.
LEMMA ByteOfWord ==
  ASSUME NEW base \in Nat, NEW k \in Nat \ {0}, NEW a \in Nat
  PROVE  /\ a \in base + 4 * (k - 1) .. base + 4 * (k - 1) + 3 =>
              /\ ((a - base) \div 4) + 1 = k
              /\ (a - base) % 4 = a - (base + 4 * (k - 1))
         /\ a \in base .. base + 4 * k - 1 <=>
              \/ a \in base .. base + 4 * (k - 1) - 1
              \/ a \in base + 4 * (k - 1) .. base + 4 * (k - 1) + 3
<1>1. ASSUME a \in base + 4 * (k - 1) .. base + 4 * (k - 1) + 3
      PROVE  ((a - base) \div 4) + 1 = k /\ (a - base) % 4 = a - (base + 4 * (k - 1))
  <2>1. PICK r \in 0 .. 3 : a = base + 4 * (k - 1) + r
    <3>1. a - (base + 4 * (k - 1)) \in 0 .. 3
      BY <1>1
    <3> QED BY <3>1
  <2>2. a - base = 4 * (k - 1) + r
    BY <2>1
  <2> QED BY <2>1, <2>2
<1> QED BY <1>1

\* Loading one word more is writing it: the write is lost where the loader skips
\* the word.
LEMMA LoadedNext ==
  ASSUME NEW size \in Nat, NEW m \in MemoryOf(size), NEW base \in Nat,
         NEW words, NEW k \in Nat \ {0}
  PROVE  /\ Loaded(m, base, words, k) =
              memory_write32(Loaded(m, base, words, k - 1), base + 4 * (k - 1), words[k])
         /\ Loaded(m, base, words, k - 1).size = size
         /\ ~in_bounds(m, base + 4 * (k - 1)) =>
              Loaded(m, base, words, k) = Loaded(m, base, words, k - 1)
<1> DEFINE before == Loaded(m, base, words, k - 1)
           after  == Loaded(m, base, words, k)
           addr   == base + 4 * (k - 1)
           i(a)   == ((a - base) \div 4) + 1
<1>1. /\ m.size = size /\ before.size = size /\ after.size = size
      /\ before = [size |-> size, data |-> before.data]
      /\ after  = [size |-> size, data |-> after.data]
      /\ before.data = [a \in 0 .. size - 1 |->
           IF a \in base .. base + 4 * (k - 1) - 1 /\ base + 4 * i(a) <= size
           THEN WordBytes(words[i(a)])[((a - base) % 4) + 1] ELSE m.data[a]]
      /\ after.data = [a \in 0 .. size - 1 |->
           IF a \in base .. base + 4 * k - 1 /\ base + 4 * i(a) <= size
           THEN WordBytes(words[i(a)])[((a - base) % 4) + 1] ELSE m.data[a]]
  <2>1. m.size = size
    BY DEF MemoryOf
  <2>2. /\ before = [size |-> size, data |-> LoadedBytes(m, size, base, words, k - 1)]
        /\ after  = [size |-> size, data |-> LoadedBytes(m, size, base, words, k)]
    BY LoadedRecord
  <2> HIDE DEF before, after
  <2>3. /\ before.data = LoadedBytes(m, size, base, words, k - 1)
        /\ after.data  = LoadedBytes(m, size, base, words, k)
        /\ before.size = size /\ after.size = size
    BY <2>2
  <2> QED BY <2>1, <2>2, <2>3 DEF LoadedBytes
<1>2. \A a \in 0 .. size - 1 :
        /\ a \in addr .. addr + 3 => i(a) = k /\ (a - base) % 4 = a - addr
        /\ a \in base .. base + 4 * k - 1 <=>
             a \in base .. base + 4 * (k - 1) - 1 \/ a \in addr .. addr + 3
        /\ ~(a \in base .. base + 4 * (k - 1) - 1 /\ a \in addr .. addr + 3)
  BY ByteOfWord
<1>3. addr + 4 = base + 4 * k
  OBVIOUS
<1> HIDE DEF before, after, i, addr
<1>4. CASE base + 4 * k <= size
  <2>1. memory_write32(before, addr, words[k]) =
          [size |-> size,
           data |-> [a \in 0 .. size - 1 |-> IF a \in addr .. addr + 3
                                             THEN WordBytes(words[k])[a - addr + 1]
                                             ELSE before.data[a]]]
    BY <1>1, <1>3, <1>4 DEF memory_write32, in_bounds
  <2>2. ASSUME NEW a \in 0 .. size - 1
        PROVE  after.data[a] = IF a \in addr .. addr + 3 THEN WordBytes(words[k])[a - addr + 1]
                                                         ELSE before.data[a]
    <3>1. CASE a \in addr .. addr + 3
      BY <1>1, <1>2, <1>4, <3>1
    <3>2. CASE a \notin addr .. addr + 3
      BY <1>1, <1>2, <3>2
    <3> QED BY <3>1, <3>2
  <2>3. after.data = [a \in 0 .. size - 1 |-> IF a \in addr .. addr + 3
                                              THEN WordBytes(words[k])[a - addr + 1]
                                              ELSE before.data[a]]
    BY <1>1, <2>2
  <2>4. after = memory_write32(before, addr, words[k])
    BY <1>1, <2>1, <2>3
  <2>5. in_bounds(m, addr)
    BY <1>1, <1>3, <1>4 DEF in_bounds
  <2> QED BY <1>1, <2>4, <2>5 DEF before, after, addr
<1>5. CASE ~(base + 4 * k <= size)
  <2>1. memory_write32(before, addr, words[k]) = before
    BY <1>1, <1>3, <1>5 DEF memory_write32, in_bounds
  <2>2. ASSUME NEW a \in 0 .. size - 1 PROVE after.data[a] = before.data[a]
    BY <1>1, <1>2, <1>5
  <2>3. after.data = before.data
    BY <1>1, <2>2
  <2>4. after = before
    BY <1>1, <2>3
  <2> QED BY <1>1, <2>1, <2>4 DEF before, after, addr
<1> QED BY <1>4, <1>5

\* The loops' recursions are the words loaded one by one.
LEMMA ProgramRounds ==
  ASSUME NEW size \in Nat, NEW m \in MemoryOf(size), NEW base \in Nat, NEW words \in Seq(Word),
         base + 4 * Len(words) <= size
  PROVE  ProgramLoop(m, words, base) = Loaded(m, base, words, Len(words))
<1> DEFINE N == Len(words)
           Round(k, before) == memory_write32(before, base + 4 * (k - 1), words[k])
           Loop(t) == t = [k \in 0 .. N |-> IF k = 0 THEN m ELSE Round(k, t[k - 1])]
           loaded == CHOOSE t : Loop(t)
           F == [k \in 0 .. N |-> Loaded(m, base, words, k)]
<1>1. N \in Nat
  OBVIOUS
<1>2. ProgramLoop(m, words, base) = loaded[N]
  <2>1. ~(base + 4 * Len(words) > m.size)
    BY <1>1 DEF MemoryOf
  <2> QED BY <2>1 DEF ProgramLoop
<1> HIDE DEF N
<1>3. \A k \in 1 .. N : Loaded(m, base, words, k) = Round(k, Loaded(m, base, words, k - 1))
  BY <1>1, LoadedNext
<1> HIDE DEF Round
<1>4. Loop(F)
  <2>1. \A k \in 0 .. N : F[k] = IF k = 0 THEN m ELSE Round(k, F[k - 1])
    <3>1. F[0] = m
      BY <1>1, NothingLoaded
    <3>2. ASSUME NEW k \in 1 .. N PROVE F[k] = Round(k, F[k - 1])
      <4>1. k - 1 \in 0 .. N /\ k \in 0 .. N
        BY <1>1
      <4> QED BY <1>3, <4>1
    <3> HIDE DEF F
    <3> QED BY <1>1, <3>1, <3>2
  <2> QED BY <2>1
<1> HIDE DEF Loop, F
<1>5. Loop(loaded)
  BY <1>4
<1> HIDE DEF loaded
<1> DEFINE T == {k \in 0 .. N : loaded[k] = Loaded(m, base, words, k)}
<1>6. 0 \in T
  BY <1>1, <1>5, NothingLoaded DEF Loop
<1>7. ASSUME NEW k \in 1 .. N, k - 1 \in T PROVE k \in T
  <2>1. k \in 0 .. N /\ k # 0
    BY <1>1
  <2>2. loaded[k] = Round(k, loaded[k - 1])
    BY <1>5, <2>1 DEF Loop
  <2> QED BY <1>3, <1>7, <2>1, <2>2
<1> HIDE DEF T
<1>8. 0 .. N \subseteq T
  BY <1>1, <1>6, <1>7, RangeInductionOnSet
<1>9. loaded[N] = Loaded(m, base, words, N)
  BY <1>1, <1>8 DEF T
<1> QED BY <1>2, <1>9 DEF N

\* And so is the loop over the data, which tests each entry.
LEMMA DataRounds ==
  ASSUME NEW size \in Nat, NEW m \in MemoryOf(size), NEW base \in Nat, NEW words \in Seq(Word)
  PROVE  DataLoop(m, words, base) = Loaded(m, base, words, Len(words))
<1> DEFINE N == Len(words)
           Round(k, before) == IF base + 4 * (k - 1) + 4 > before.size THEN before
                               ELSE memory_write32(before, base + 4 * (k - 1), words[k])
           Loop(t) == t = [k \in 0 .. N |-> IF k = 0 THEN m ELSE Round(k, t[k - 1])]
           loaded == CHOOSE t : Loop(t)
           F == [k \in 0 .. N |-> Loaded(m, base, words, k)]
<1>1. N \in Nat
  OBVIOUS
<1>2. DataLoop(m, words, base) = loaded[N]
  BY DEF DataLoop
<1> HIDE DEF N
<1>3. ASSUME NEW k \in 1 .. N
      PROVE  Loaded(m, base, words, k) = Round(k, Loaded(m, base, words, k - 1))
  <2>1. k \in Nat \ {0} /\ m.size = size
    BY <1>1 DEF MemoryOf
  <2> DEFINE addr   == base + 4 * (k - 1)
             before == Loaded(m, base, words, k - 1)
             after  == Loaded(m, base, words, k)
  <2>2. in_bounds(m, addr) <=> ~(addr + 4 > size)
    <3>1. addr \in Int
      BY <2>1
    <3> HIDE DEF addr
    <3> QED BY <2>1, <3>1 DEF in_bounds
  <2>3. /\ after = memory_write32(before, addr, words[k])
        /\ before.size = size
        /\ ~in_bounds(m, addr) => after = before
    BY <2>1, LoadedNext
  <2>4. after = IF addr + 4 > before.size THEN before ELSE memory_write32(before, addr, words[k])
    <3> HIDE DEF before, after, addr
    <3> QED BY <2>2, <2>3
  <2> QED BY <2>4
<1> HIDE DEF Round
<1>4. Loop(F)
  <2>1. \A k \in 0 .. N : F[k] = IF k = 0 THEN m ELSE Round(k, F[k - 1])
    <3>1. F[0] = m
      BY <1>1, NothingLoaded
    <3>2. ASSUME NEW k \in 1 .. N PROVE F[k] = Round(k, F[k - 1])
      <4>1. k - 1 \in 0 .. N /\ k \in 0 .. N
        BY <1>1
      <4> QED BY <1>3, <4>1
    <3> HIDE DEF F
    <3> QED BY <1>1, <3>1, <3>2
  <2> QED BY <2>1
<1> HIDE DEF Loop, F
<1>5. Loop(loaded)
  BY <1>4
<1> HIDE DEF loaded
<1> DEFINE T == {k \in 0 .. N : loaded[k] = Loaded(m, base, words, k)}
<1>6. 0 \in T
  BY <1>1, <1>5, NothingLoaded DEF Loop
<1>7. ASSUME NEW k \in 1 .. N, k - 1 \in T PROVE k \in T
  <2>1. k \in 0 .. N /\ k # 0
    BY <1>1
  <2>2. loaded[k] = Round(k, loaded[k - 1])
    BY <1>5, <2>1 DEF Loop
  <2> QED BY <1>3, <1>7, <2>1, <2>2
<1> HIDE DEF T
<1>8. 0 .. N \subseteq T
  BY <1>1, <1>6, <1>7, RangeInductionOnSet
<1>9. loaded[N] = Loaded(m, base, words, N)
  BY <1>1, <1>8 DEF T
<1> QED BY <1>2, <1>9 DEF N

\* For every memory, section and address the loaders do what their loops do: no word is
\* written twice or out of its place, also where the end of the memory cuts the
\* data (memory.c:66-101).
THEOREM LoadersAreLoops == Spec => []LoadingIsWritingWordByWord
<1>1. IsMemory => LoadingIsWritingWordByWord
  <2> SUFFICES ASSUME NEW size \in Sizes, mem \in MemoryOf(size),
                      NEW words \in Sections, NEW base \in Addresses
               PROVE  /\ load_program_into_memory(mem, words, base) = ProgramLoop(mem, words, base)
                      /\ load_data_into_memory(mem, words, base) = DataLoop(mem, words, base)
    BY DEF IsMemory, LoadingIsWritingWordByWord
  <2>1. size \in Nat /\ base \in Nat /\ words \in Seq(Word) /\ mem.size = size
    BY CallsAssumption, WordModFacts, SectionsAreWords DEF Word, MemoryOf
  <2>2. LoadWords(mem, base, words) = Loaded(mem, base, words, Len(words))
    BY DEF LoadWords, Loaded
  <2>3. load_data_into_memory(mem, words, base) = DataLoop(mem, words, base)
    BY <2>1, <2>2, DataRounds DEF load_data_into_memory
  <2>4. CASE base + 4 * Len(words) > mem.size
    BY <2>3, <2>4 DEF load_program_into_memory, ProgramLoop
  <2>5. CASE ~(base + 4 * Len(words) > mem.size)
    <3>1. base + 4 * Len(words) <= size
      BY <2>1, <2>5
    <3>2. ProgramLoop(mem, words, base) = Loaded(mem, base, words, Len(words))
      BY <2>1, <3>1, ProgramRounds
    <3> QED BY <2>2, <2>3, <2>5, <3>2 DEF load_program_into_memory
  <2> QED BY <2>4, <2>5
<1> QED BY <1>1, InitIsMemory, NextIsMemory, PTL DEF Spec
================================================================================
