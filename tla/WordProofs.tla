------------------------------ MODULE WordProofs -------------------------------
(***************************************************************************)
(* Facts without state, for the proofs about the components: induction and *)
(* recursion over the natural numbers, words and memories of every width   *)
(* and size, and the words of every instruction and immediate.             *)
(***************************************************************************)
EXTENDS Memory, InstructionFormat, FiniteSetTheorems, TLAPS

------------------------------------------------------------------------------
(* Induction and recursion, in a form without operator parameters: about     *)
(* sets of numbers and about functions                                       *)

\* A set of numbers that is not empty has a least element: otherwise the sets of
\* the numbers below its elements would be ever smaller.
LEMMA LeastNumber ==
  ASSUME NEW T \in SUBSET Nat, T # {}
  PROVE  \E m \in T : \A n \in T : m <= n
<1> DEFINE Below(n) == 0 .. (n - 1)
           U == {Below(n) : n \in T}
<1>1. U \subseteq FiniteSubsetsOf(Nat) /\ U # {}
  <2>1. \A n \in Nat : Below(n) \in SUBSET Nat /\ IsFiniteSet(Below(n))
    BY FS_Interval
  <2> QED BY <2>1 DEF FiniteSubsetsOf
<1>2. IsWellFoundedOn(StrictSubsetOrdering(Nat), FiniteSubsetsOf(Nat))
  BY FS_StrictSubsetOrderingWellFounded
<1> HIDE DEF U
<1>3. PICK u \in U : \A v \in U : <<v, u>> \notin StrictSubsetOrdering(Nat)
  BY <1>1, <1>2, WFMin, Zenon
<1>4. PICK m \in T : u = Below(m)
  BY <1>3 DEF U
<1>5. ASSUME NEW n \in T, n < m PROVE FALSE
  <2>1. Below(n) \in U /\ Below(n) \subseteq Below(m) /\ n \in Below(m) /\ n \notin Below(n)
    BY <1>5 DEF U
  <2>2. <<Below(n), Below(m)>> \in StrictSubsetOrdering(Nat)
    BY <2>1 DEF StrictSubsetOrdering
  <2> QED BY <1>3, <1>4, <2>1, <2>2
<1> QED BY <1>5

\* A set that holds 0 and with every number the next one holds all of them.
LEMMA NatInductionOnSet ==
  ASSUME NEW S, 0 \in S, \A n \in Nat : n \in S => n + 1 \in S
  PROVE  Nat \subseteq S
<1> SUFFICES ASSUME Nat \ S # {} PROVE FALSE
  OBVIOUS
<1>1. PICK m \in Nat \ S : \A n \in Nat \ S : m <= n
  BY LeastNumber
<1>2. m - 1 \in Nat /\ m - 1 \in S
  BY <1>1
<1> QED BY <1>1, <1>2

\* The same for the numbers up to n.
LEMMA RangeInductionOnSet ==
  ASSUME NEW N \in Nat, NEW S, 0 \in S, \A n \in 1 .. N : n - 1 \in S => n \in S
  PROVE  0 .. N \subseteq S
<1> DEFINE T == {n \in Nat : n <= N => n \in S}
<1>1. 0 \in T
  OBVIOUS
<1>2. ASSUME NEW n \in Nat, n \in T PROVE n + 1 \in T
  <2> SUFFICES ASSUME n + 1 <= N PROVE n + 1 \in S
    OBVIOUS
  <2>1. n + 1 \in 1 .. N /\ (n + 1) - 1 = n /\ n \in S
    BY <1>2
  <2> QED BY <2>1
<1> HIDE DEF T
<1>3. Nat \subseteq T
  BY <1>1, <1>2, NatInductionOnSet
<1> QED BY <1>3 DEF T

\* F is the recursion over 0 .. N that begins with a and goes on with g.
IsRecursion(F, S, N, a, g) ==
  /\ F \in [0 .. N -> S]
  /\ F[0] = a
  /\ \A n \in 1 .. N : F[n] = g[<<n, F[n - 1]>>]

\* The recursion from one number to the next has a solution.
LEMMA RecursionHasSolution ==
  ASSUME NEW S, NEW a \in S, NEW N \in Nat, NEW g, g \in [(1 .. N) \X S -> S]
  PROVE  \E F : IsRecursion(F, S, N, a, g)
<1> DEFINE T == {m \in 0 .. N : \E F : IsRecursion(F, S, m, a, g)}
<1>1. 0 \in T
  <2> DEFINE F == [n \in 0 .. 0 |-> a]
  <2>1. F \in [0 .. 0 -> S] /\ F[0] = a /\ 1 .. 0 = {}
    OBVIOUS
  <2> HIDE DEF F
  <2>2. IsRecursion(F, S, 0, a, g)
    BY <2>1 DEF IsRecursion
  <2> QED BY <2>2
<1>2. ASSUME NEW m \in 1 .. N, m - 1 \in T PROVE m \in T
  <2>1. PICK F : IsRecursion(F, S, m - 1, a, g)
    BY <1>2
  <2> DEFINE G == [n \in 0 .. m |-> IF n = m THEN g[<<m, F[m - 1]>>] ELSE F[n]]
  <2>2. F[m - 1] \in S /\ g[<<m, F[m - 1]>>] \in S
    BY <2>1 DEF IsRecursion
  <2>3. G \in [0 .. m -> S] /\ G[0] = a
    BY <2>1, <2>2 DEF IsRecursion
  <2>4. ASSUME NEW n \in 1 .. m PROVE G[n] = g[<<n, G[n - 1]>>]
    <3>1. n - 1 \in 0 .. m /\ n \in 0 .. m /\ m - 1 \in 0 .. m
      BY <2>4
    <3>2. G[n - 1] = F[n - 1]
      BY <3>1
    <3>3. CASE n = m
      BY <3>1, <3>2, <3>3
    <3>4. CASE n # m
      <4>1. n \in 1 .. m - 1
        BY <3>4, <2>4
      <4>2. F[n] = g[<<n, F[n - 1]>>]
        BY <4>1, <2>1 DEF IsRecursion
      <4>3. G[n] = F[n]
        BY <3>1, <3>4
      <4> QED BY <4>2, <4>3, <3>2
    <3> QED BY <3>3, <3>4
  <2> HIDE DEF G
  <2>5. IsRecursion(G, S, m, a, g)
    BY <2>3, <2>4 DEF IsRecursion
  <2> QED BY <2>5
<1> HIDE DEF T
<1>3. 0 .. N \subseteq T
  BY <1>1, <1>2, RangeInductionOnSet
<1>4. N \in T
  BY <1>3
<1> QED BY <1>4 DEF T

------------------------------------------------------------------------------
(* Words and memories                                                        *)

\* There are at least 16 words, and an even number of them.
LEMMA WordModFacts == WordMod \in Nat /\ WordMod >= 16 /\ WordMod % 2 = 0
<1> DEFINE B == ByteBase
<1>1. B \in Nat /\ B >= 2 /\ B % 2 = 0
  BY ByteBaseAssumption
<1>2. PICK h \in Nat : B = 2 * h
  <2>1. B = 2 * (B \div 2) /\ B \div 2 \in Nat
    BY <1>1
  <2> QED BY <2>1
<1>3. B * B \in Nat /\ B * B >= 4
  BY <1>1
<1>4. B * (B * B) \in Nat /\ B * (B * B) >= 8
  BY <1>1, <1>3
<1>5. B * (B * (B * B)) \in Nat /\ B * (B * (B * B)) >= 16
  BY <1>1, <1>4
<1>6. B * (B * (B * B)) = 2 * (h * (B * (B * B)))
  BY <1>2, <1>4
<1>7. h * (B * (B * B)) \in Nat
  BY <1>2, <1>4
<1> HIDE DEF B
<1>8. (B * (B * (B * B))) % 2 = 0
  <2> DEFINE k == h * (B * (B * B))
  <2>1. k \in Nat /\ B * (B * (B * B)) = 2 * k
    BY <1>6, <1>7
  <2> HIDE DEF k
  <2> QED BY <2>1
<1> QED BY <1>5, <1>8 DEF WordMod, B

\* There is one way to write a number as a multiple of m and a remainder.
LEMMA RemainderIsUnique ==
  ASSUME NEW m \in Nat \ {0}, NEW n \in Int, NEW q \in Int, NEW r \in 0 .. m - 1,
         n = m * q + r
  PROVE  n % m = r
<1> DEFINE p == n \div m
           s == n % m
<1>1. p \in Int /\ s \in 0 .. m - 1 /\ n = m * p + s
  OBVIOUS
<1> HIDE DEF p, s
<1>2. \A i, j \in Int : i < j => m * i + m <= m * j
  <2> SUFFICES ASSUME NEW i \in Int, NEW j \in Int, i < j PROVE m * (i + 1) <= m * j
    OBVIOUS
  <2> QED OBVIOUS
<1>3. ~(p < q) /\ ~(q < p)
  <2>1. m * p \in Int /\ m * q \in Int
    BY <1>1
  <2> QED BY <1>1, <1>2, <2>1
<1>4. p = q
  BY <1>1, <1>3
<1> QED BY <1>1, <1>4 DEF s

\* A number differs from the word it is converted to by whole turns.
LEMMA WrapTurns ==
  ASSUME NEW n \in Int
  PROVE  \E q \in Int : n = WordMod * q + Wrap(n)
<1>1. \A m \in Nat \ {0} : n \div m \in Int /\ n = m * (n \div m) + (n % m)
  OBVIOUS
<1>2. n \div WordMod \in Int /\ n = WordMod * (n \div WordMod) + (n % WordMod)
  <2>1. WordMod \in Nat \ {0}
    BY WordModFacts
  <2> QED BY <1>1, <2>1, Zenon
<1> QED BY <1>2, Zenon DEF Wrap

\* Every conversion to a word is one.
LEMMA WrapInWord == ASSUME NEW n \in Int PROVE Wrap(n) \in Word
BY WordModFacts DEF Wrap, Word

\* Bytes make a word.
LEMMA BytesWordInWord ==
  ASSUME NEW b0 \in Byte, NEW b1 \in Byte, NEW b2 \in Byte, NEW b3 \in Byte
  PROVE  BytesWord(b0, b1, b2, b3) \in Word
<1> DEFINE B == ByteBase
           h2 == b2 + B * b3
           h1 == b1 + B * h2
<1>1. B \in Nat /\ B >= 2
  BY ByteBaseAssumption
<1>2. b0 \in 0 .. B - 1 /\ b1 \in 0 .. B - 1 /\ b2 \in 0 .. B - 1 /\ b3 \in 0 .. B - 1
  BY DEF Byte
<1>3. h2 \in 0 .. B * B - 1
  BY <1>1, <1>2
<1>4. h1 \in 0 .. B * (B * B) - 1
  <2> DEFINE M == B * B
  <2>1. M \in Nat /\ h2 \in 0 .. M - 1
    BY <1>1, <1>3
  <2> HIDE DEF h2, M
  <2> QED BY <1>1, <1>2, <2>1 DEF M
<1>5. b0 + B * h1 \in 0 .. B * (B * (B * B)) - 1
  <2> DEFINE M == B * (B * B)
  <2>1. M \in Nat /\ h1 \in 0 .. M - 1
    BY <1>1, <1>4
  <2> HIDE DEF h1, M
  <2> QED BY <1>1, <1>2, <2>1 DEF M
<1> QED BY <1>5 DEF BytesWord, Word, WordMod

\* The bytes of a word are bytes.
LEMMA WordBytesInByte ==
  ASSUME NEW w \in Word, NEW k \in 1 .. 4 PROVE WordBytes(w)[k] \in Byte
<1>1. \A n \in Nat : n % ByteBase \in Byte /\ n \div ByteBase \in Nat
  BY ByteBaseAssumption DEF Byte
<1>2. w \in Nat
  BY WordModFacts DEF Word
<1> QED BY <1>1, <1>2 DEF WordBytes

\* Splitting a word into bytes loses nothing.
LEMMA BytesOfWord ==
  ASSUME NEW w \in Word
  PROVE  BytesWord(WordBytes(w)[1], WordBytes(w)[2], WordBytes(w)[3], WordBytes(w)[4]) = w
<1> DEFINE B == ByteBase
           w8  == w   \div B
           w16 == w8  \div B
           w24 == w16 \div B
<1>1. B \in Nat /\ B >= 2
  BY ByteBaseAssumption
<1>2. w \in Nat /\ w < B * (B * (B * B))
  BY <1>1, WordModFacts DEF Word, WordMod
<1>3. \A n \in Nat : /\ n \div B \in Nat /\ n % B \in Nat
                     /\ n = (n % B) + B * (n \div B)
  BY <1>1
<1>4. \A n, m \in Nat : n < B * m => n \div B < m
  <2> SUFFICES ASSUME NEW n \in Nat, NEW m \in Nat, n < B * m PROVE n \div B < m
    OBVIOUS
  <2> DEFINE q == n \div B
  <2>1. q \in Nat /\ n >= B * q
    BY <1>1, <1>3
  <2> HIDE DEF q, B
  <2>2. q >= m => B * q >= B * m
    BY <1>1, <2>1
  <2> QED BY <1>1, <2>1, <2>2 DEF q
<1>5. w8 \in Nat /\ w16 \in Nat /\ w24 \in Nat
  BY <1>2, <1>3
<1>6. B * B \in Nat /\ B * (B * B) \in Nat
  BY <1>1
<1>7. w24 < B
  <2>1. w8 < B * (B * B)
    BY <1>2, <1>4, <1>6
  <2>2. w16 < B * B
    BY <2>1, <1>4, <1>5, <1>6
  <2> QED BY <2>2, <1>1, <1>4, <1>5
<1>8. w24 % B = w24
  BY <1>1, <1>5, <1>7
<1>9. w16 = (w16 % B) + B * (w24 % B)
  BY <1>3, <1>5, <1>8
<1>10. w8 = (w8 % B) + B * ((w16 % B) + B * (w24 % B))
  <2>1. w8 = (w8 % B) + B * w16
    BY <1>3, <1>5
  <2> QED BY <2>1, <1>9
<1>11. w = (w % B) + B * ((w8 % B) + B * ((w16 % B) + B * (w24 % B)))
  <2>1. w = (w % B) + B * w8
    BY <1>2, <1>3
  <2> QED BY <2>1, <1>10
<1> QED BY <1>11 DEF WordBytes, BytesWord

\* memory_read32 always returns a word.
LEMMA ReadInWord ==
  ASSUME NEW size \in Nat, NEW m \in MemoryOf(size), NEW addr \in Word
  PROVE  memory_read32(m, addr) \in Word
<1>1. addr \in Nat /\ 0 \in Word
  BY WordModFacts DEF Word
<1>2. CASE in_bounds(m, addr)
  <2>1. m.data[addr] \in Byte /\ m.data[addr + 1] \in Byte
        /\ m.data[addr + 2] \in Byte /\ m.data[addr + 3] \in Byte
    BY <1>1, <1>2 DEF in_bounds, MemoryOf
  <2> HIDE DEF in_bounds
  <2> QED BY <1>2, <2>1, BytesWordInWord DEF memory_read32
<1>3. CASE ~in_bounds(m, addr)
  BY <1>1, <1>3 DEF memory_read32
<1> QED BY <1>2, <1>3

\* Writing keeps the size of a memory, and keeps it a memory.
LEMMA WriteInMemory ==
  ASSUME NEW size \in Nat, NEW m \in MemoryOf(size), NEW addr \in Word, NEW value \in Word
  PROVE  memory_write32(m, addr, value) \in MemoryOf(size)
<1> DEFINE f == [a \in DOMAIN m.data |-> IF a \in addr .. addr + 3
                                         THEN WordBytes(value)[a - addr + 1]
                                         ELSE m.data[a]]
<1>1. addr \in Nat
  BY WordModFacts DEF Word
<1>2. ASSUME NEW a \in DOMAIN m.data PROVE f[a] \in Byte
  <2>1. CASE a \in addr .. addr + 3
    <3>1. a - addr + 1 \in 1 .. 4
      BY <2>1, <1>1
    <3> QED BY <2>1, <3>1, WordBytesInByte
  <2>2. CASE a \notin addr .. addr + 3
    BY <2>2 DEF MemoryOf
  <2> QED BY <2>1, <2>2
<1>3. f \in [0 .. size - 1 -> Byte]
  BY <1>2 DEF MemoryOf
<1> HIDE DEF f
<1>4. [m EXCEPT !.data = f] \in MemoryOf(size)
  BY <1>3 DEF MemoryOf
<1> QED BY <1>4 DEF memory_write32, f

\* The closed form of the loaders puts bytes where there were bytes.
LEMMA OverlayByte ==
  ASSUME NEW words \in Seq(Word), NEW base \in Nat, NEW a \in Nat,
         a \in base .. base + 4 * Len(words) - 1
  PROVE  WordBytes(words[((a - base) \div 4) + 1])[((a - base) % 4) + 1] \in Byte
<1>1. ((a - base) \div 4) + 1 \in 1 .. Len(words)
  BY SMT
<1>2. ((a - base) % 4) + 1 \in 1 .. 4
  BY SMT
<1> QED BY <1>1, <1>2, WordBytesInByte

\* Loading words keeps a memory a memory.
LEMMA LoadWordsInMemory ==
  ASSUME NEW size \in Nat, NEW m \in MemoryOf(size),
         NEW words \in Seq(Word), NEW base \in Nat
  PROVE  LoadWords(m, base, words) \in MemoryOf(size)
<1> DEFINE f == [a \in DOMAIN m.data |->
                   IF a \in base .. base + 4 * Len(words) - 1
                        /\ base + 4 * (((a - base) \div 4) + 1) <= m.size
                   THEN WordBytes(words[((a - base) \div 4) + 1])[((a - base) % 4) + 1]
                   ELSE m.data[a]]
<1>1. ASSUME NEW a \in DOMAIN m.data PROVE f[a] \in Byte
  <2>1. a \in Nat /\ m.data[a] \in Byte
    BY DEF MemoryOf
  <2> QED BY <2>1, OverlayByte
<1>2. f \in [0 .. size - 1 -> Byte]
  BY <1>1 DEF MemoryOf
<1> HIDE DEF f
<1>3. [m EXCEPT !.data = f] \in MemoryOf(size)
  BY <1>2 DEF MemoryOf
<1> QED BY <1>3 DEF LoadWords, f

\* Loading the program keeps a memory a memory.
LEMMA ProgramInMemory ==
  ASSUME NEW size \in Nat, NEW m \in MemoryOf(size),
         NEW words \in Seq(Word), NEW base \in Nat
  PROVE  load_program_into_memory(m, words, base) \in MemoryOf(size)
BY LoadWordsInMemory DEF load_program_into_memory

\* Loading the data keeps a memory a memory.
LEMMA DataInMemory ==
  ASSUME NEW size \in Nat, NEW m \in MemoryOf(size),
         NEW words \in Seq(Word), NEW base \in Nat
  PROVE  load_data_into_memory(m, words, base) \in MemoryOf(size)
BY LoadWordsInMemory DEF load_data_into_memory

\* memory_init gives a memory.
LEMMA InitInMemory == ASSUME NEW size \in Nat PROVE memory_init(size) \in MemoryOf(size)
<1>1. 0 \in Byte
  BY ByteBaseAssumption DEF Byte
<1> QED BY <1>1 DEF memory_init, MemoryOf

\* A read returns the word last written to its address, if that is in bounds.
THEOREM ReadAfterWrite ==
  ASSUME NEW size \in Nat, NEW m \in MemoryOf(size),
         NEW addr \in Word, NEW value \in Word, in_bounds(m, addr)
  PROVE  memory_read32(memory_write32(m, addr, value), addr) = value
<1> DEFINE n == memory_write32(m, addr, value)
<1>1. addr \in Nat /\ m.size = size /\ DOMAIN m.data = 0 .. size - 1 /\ addr + 4 <= size
  BY WordModFacts DEF Word, MemoryOf, in_bounds
<1>2. n.size = size
      /\ n.data = [a \in DOMAIN m.data |-> IF a \in addr .. addr + 3
                                           THEN WordBytes(value)[a - addr + 1]
                                           ELSE m.data[a]]
  BY <1>1 DEF memory_write32, MemoryOf
<1>3. /\ n.data[addr] = WordBytes(value)[1]
      /\ n.data[addr + 1] = WordBytes(value)[2]
      /\ n.data[addr + 2] = WordBytes(value)[3]
      /\ n.data[addr + 3] = WordBytes(value)[4]
  <2> HIDE DEF n
  <2>1. \A k \in 0 .. 3 : addr + k \in DOMAIN m.data /\ addr + k \in addr .. addr + 3
                          /\ (addr + k) - addr + 1 = k + 1
    BY <1>1
  <2>2. \A k \in 0 .. 3 : n.data[addr + k] = WordBytes(value)[k + 1]
    BY <1>2, <2>1
  <2> QED BY <2>2, <1>1
<1>4. in_bounds(n, addr)
  BY <1>1, <1>2 DEF in_bounds
<1> HIDE DEF n
<1>5. memory_read32(n, addr)
        = BytesWord(WordBytes(value)[1], WordBytes(value)[2],
                    WordBytes(value)[3], WordBytes(value)[4])
  BY <1>3, <1>4 DEF memory_read32
<1> QED BY <1>5, BytesOfWord DEF n

\* A write leaves every word alone that it does not overlap.
THEOREM ReadAfterDisjointWrite ==
  ASSUME NEW size \in Nat, NEW m \in MemoryOf(size),
         NEW addr \in Word, NEW value \in Word, NEW other \in Word,
         other + 4 <= addr \/ addr + 4 <= other
  PROVE  memory_read32(memory_write32(m, addr, value), other) = memory_read32(m, other)
<1> DEFINE n == memory_write32(m, addr, value)
<1>1. addr \in Nat /\ other \in Nat /\ m.size = size /\ DOMAIN m.data = 0 .. size - 1
  BY WordModFacts DEF Word, MemoryOf
<1>2. n.size = m.size
      /\ \A a \in DOMAIN m.data : a \notin addr .. addr + 3 => n.data[a] = m.data[a]
  BY <1>1 DEF memory_write32, MemoryOf
<1> HIDE DEF n
<1>3. in_bounds(n, other) <=> in_bounds(m, other)
  BY <1>2 DEF in_bounds
<1>4. CASE in_bounds(m, other)
  <2>1. other + 4 <= size
    BY <1>4, <1>1 DEF in_bounds
  <2>2. \A k \in 0 .. 3 : other + k \in DOMAIN m.data /\ other + k \notin addr .. addr + 3
    BY <1>1, <2>1
  <2>3. /\ n.data[other] = m.data[other]
        /\ n.data[other + 1] = m.data[other + 1]
        /\ n.data[other + 2] = m.data[other + 2]
        /\ n.data[other + 3] = m.data[other + 3]
    BY <1>1, <1>2, <2>2
  <2>4. memory_read32(n, other) = memory_read32(m, other)
    BY <1>3, <1>4, <2>3 DEF memory_read32
  <2> QED BY <2>4 DEF n
<1>5. CASE ~in_bounds(m, other)
  BY <1>3, <1>5 DEF memory_read32, n
<1> QED BY <1>4, <1>5

\* A loaded word is read where it was put, if it fits; what lies before the words
\* is read as it was.
LEMMA ReadLoaded ==
  ASSUME NEW size \in Nat, NEW m \in MemoryOf(size), NEW words \in Seq(Word), NEW base \in Nat
  PROVE  /\ \A k \in 1 .. Len(words) :
              base + 4 * k <= size =>
                memory_read32(LoadWords(m, base, words), base + 4 * (k - 1)) = words[k]
         /\ \A addr \in Nat :
              addr + 4 <= base =>
                memory_read32(LoadWords(m, base, words), addr) = memory_read32(m, addr)
<1> DEFINE n == LoadWords(m, base, words)
<1>1. /\ m.size = size /\ DOMAIN m.data = 0 .. size - 1 /\ Len(words) \in Nat
      /\ m = [size |-> size, data |-> m.data]
  BY DEF MemoryOf
<1>2. /\ n.size = size
      /\ \A a \in 0 .. size - 1 :
           n.data[a] = IF /\ a \in base .. base + 4 * Len(words) - 1
                          /\ base + 4 * (((a - base) \div 4) + 1) <= size
                       THEN WordBytes(words[((a - base) \div 4) + 1])[((a - base) % 4) + 1]
                       ELSE m.data[a]
  BY <1>1 DEF LoadWords
<1> HIDE DEF n
<1>3. ASSUME NEW k \in 1 .. Len(words), base + 4 * k <= size
      PROVE  memory_read32(n, base + 4 * (k - 1)) = words[k]
  <2> DEFINE at == base + 4 * (k - 1)
  <2>1. ASSUME NEW i \in 0 .. 3 PROVE n.data[at + i] = WordBytes(words[k])[i + 1]
    <3> DEFINE a == at + i
    <3>1. k \in Nat /\ k >= 1 /\ k <= Len(words) /\ i \in Nat /\ i <= 3
      BY <1>1
    <3>2. a - base = 4 * (k - 1) + i
      BY <3>1
    <3>3. (a - base) \div 4 = k - 1 /\ (a - base) % 4 = i
      BY <3>1, <3>2
    <3>4. a \in 0 .. size - 1 /\ a \in base .. base + 4 * Len(words) - 1
      BY <1>1, <1>3, <3>1
    <3> HIDE DEF a
    <3>5. ((a - base) \div 4) + 1 = k /\ ((a - base) % 4) + 1 = i + 1
      BY <3>1, <3>3
    <3>6. n.data[a] = WordBytes(words[k])[i + 1]
      BY <1>2, <1>3, <3>4, <3>5
    <3> QED BY <3>6 DEF a
  <2>2. at \in Nat /\ in_bounds(n, at)
    BY <1>1, <1>2, <1>3 DEF in_bounds
  <2>3. /\ n.data[at + 0] = WordBytes(words[k])[1] /\ n.data[at + 1] = WordBytes(words[k])[2]
        /\ n.data[at + 2] = WordBytes(words[k])[3] /\ n.data[at + 3] = WordBytes(words[k])[4]
    BY <2>1
  <2>4. words[k] \in Word
    OBVIOUS
  <2> HIDE DEF at
  <2>5. memory_read32(n, at) = words[k]
    BY <2>2, <2>3, <2>4, BytesOfWord DEF memory_read32
  <2> QED BY <2>5 DEF at
<1>4. ASSUME NEW addr \in Nat, addr + 4 <= base
      PROVE  memory_read32(n, addr) = memory_read32(m, addr)
  <2>1. CASE addr + 4 <= size
    <3>1. ASSUME NEW i \in 0 .. 3 PROVE n.data[addr + i] = m.data[addr + i]
      <4>1. addr + i \in 0 .. size - 1 /\ addr + i \notin base .. base + 4 * Len(words) - 1
        BY <1>1, <1>4, <2>1
      <4> QED BY <1>2, <4>1
    <3>2. /\ n.data[addr + 0] = m.data[addr + 0] /\ n.data[addr + 1] = m.data[addr + 1]
          /\ n.data[addr + 2] = m.data[addr + 2] /\ n.data[addr + 3] = m.data[addr + 3]
      BY <3>1
    <3> QED BY <1>1, <1>2, <2>1, <3>2 DEF memory_read32, in_bounds
  <2>2. CASE ~(addr + 4 <= size)
    BY <1>1, <1>2, <2>2 DEF memory_read32, in_bounds
  <2> QED BY <2>1, <2>2
<1> QED BY <1>3, <1>4 DEF n

------------------------------------------------------------------------------
(* What the encoder accepts is what the processor executes                   *)

USE DEF Rformat, Iformat, Sformat, Uformat, Bformat, Jformat,
        LOAD, OP_IMM, AUIPC, STORE, OP, LUI, BRANCH, JALR, JAL

\* The instructions that a word can hold.
Encodable(i) == WellFormed(i) /\ Fits(i)

\* An I-format immediate survives the word.
LEMMA ItypeRoundTrip ==
  ASSUME NEW imm \in Int, fits_imm12(imm)
  PROVE  /\ Slice(imm, 32, 128) \in 0 .. 127
         /\ imm % 32 \in 0 .. 31
         /\ Imm12(Slice(imm, 32, 128), imm % 32) = imm
BY SMT DEF fits_imm12, Slice, Imm12, SignExtend

\* A U-format immediate: 3, 5, 5 and 7 bits.
LEMMA UtypeRoundTrip ==
  ASSUME NEW imm \in Int, fits_imm20(imm)
  PROVE  /\ Slice(imm, 8192, 128) \in 0 .. 127
         /\ Slice(imm, 256, 32) \in 0 .. 31
         /\ Slice(imm, 8, 32) \in 0 .. 31
         /\ imm % 8 \in 0 .. 7
         /\ Imm20(Slice(imm, 8192, 128), Slice(imm, 256, 32), Slice(imm, 8, 32), imm % 8) = imm
<1> DEFINE q1 == imm \div 8
           q2 == imm \div 256
           q3 == imm \div 8192
<1>0. imm \in Int /\ -524288 <= imm /\ imm <= 524287
  BY SMT DEF fits_imm20
<1>1. q1 \in Int /\ imm % 8 \in 0 .. 7 /\ imm = 8 * q1 + (imm % 8)
  BY SMT, <1>0
<1>2. q2 \in Int /\ q1 % 32 \in 0 .. 31 /\ q1 = 32 * q2 + (q1 % 32)
  BY SMT, <1>0
<1>3. q3 \in Int /\ q2 % 32 \in 0 .. 31 /\ q2 = 32 * q3 + (q2 % 32)
  BY SMT, <1>0
<1>4. q3 \in Int /\ -64 <= q3 /\ q3 <= 63
  BY SMT, <1>0
<1> HIDE DEF q1, q2, q3
<1>5. q3 % 128 = IF q3 < 0 THEN q3 + 128 ELSE q3
  BY SMT, <1>4
<1> QED BY SMT, <1>0, <1>1, <1>2, <1>3, <1>4, <1>5 DEF Imm20, Slice, SignExtend, q1, q2, q3

\* The digits that the B and J formats share: bits 4 to 1, 10 to 5 and 11.
HasEvenDigits(imm) ==
  /\ Slice(imm, 2, 16) \in 0 .. 15
  /\ Slice(imm, 32, 64) \in 0 .. 63
  /\ Slice(imm, 2048, 2) \in 0 .. 1
  /\ imm = 2 * Slice(imm, 2, 16) + 32 * Slice(imm, 32, 64)
             + 2048 * Slice(imm, 2048, 2) + 4096 * (imm \div 4096)

\* An even number is cut at the bits of the B and J formats without a rest.
LEMMA EvenDigits == ASSUME NEW imm \in Int, imm % 2 = 0 PROVE HasEvenDigits(imm)
<1> DEFINE q1 == imm \div 2
           q2 == imm \div 32
           q3 == imm \div 2048
           q4 == imm \div 4096
<1>1. q1 \in Int /\ imm = 2 * q1
  BY SMT
<1>2. q2 \in Int /\ q1 % 16 \in 0 .. 15 /\ q1 = 16 * q2 + (q1 % 16)
  BY SMT
<1>3. q3 \in Int /\ q2 % 64 \in 0 .. 63 /\ q2 = 64 * q3 + (q2 % 64)
  BY SMT
<1>4. q4 \in Int /\ q3 % 2 \in 0 .. 1 /\ q3 = 2 * q4 + (q3 % 2)
  BY SMT
<1> HIDE DEF q1, q2, q3, q4
<1>5. imm = 2 * (q1 % 16) + 32 * (q2 % 64) + 2048 * (q3 % 2) + 4096 * q4
  BY SMT, <1>1, <1>2, <1>3, <1>4
<1> QED BY SMT, <1>2, <1>3, <1>4, <1>5 DEF HasEvenDigits, Slice, q1, q2, q3, q4

\* The four pieces of a branch offset make the offset again.
LEMMA BtypeRoundTrip ==
  ASSUME NEW imm \in Int, fits_branch_offset(imm), NEW f7 \in Int, NEW rd \in Int,
         f7 = 64 * Slice(imm, 4096, 2) + Slice(imm, 32, 64),
         rd = 2 * Slice(imm, 2, 16) + Slice(imm, 2048, 2)
  PROVE  /\ f7 \in 0 .. 127
         /\ rd \in 0 .. 31
         /\ Imm13(f7, rd) = imm
<1> DEFINE q4 == imm \div 4096
<1>1. imm \in Int /\ imm % 2 = 0 /\ -4096 <= imm /\ imm <= 4094
  BY SMT DEF fits_branch_offset
<1>e. /\ Slice(imm, 2, 16) \in 0 .. 15
      /\ Slice(imm, 32, 64) \in 0 .. 63
      /\ Slice(imm, 2048, 2) \in 0 .. 1
      /\ imm = 2 * Slice(imm, 2, 16) + 32 * Slice(imm, 32, 64)
                 + 2048 * Slice(imm, 2048, 2) + 4096 * q4
  BY SMT, <1>1, EvenDigits DEF HasEvenDigits
<1>2. q4 \in -1 .. 0
  BY SMT, <1>1
<1>3. Slice(imm, 4096, 2) = -q4 /\ Slice(imm, 4096, 2) \in 0 .. 1
  <2> HIDE DEF q4
  <2>1. q4 % 2 = -q4
    BY SMT, <1>2
  <2> QED BY SMT, <1>2, <2>1 DEF Slice, q4
<1>4. /\ f7 \in 0 .. 127 /\ f7 \div 64 = -q4 /\ f7 % 64 = Slice(imm, 32, 64)
      /\ rd \in 0 .. 31 /\ rd \div 2 = Slice(imm, 2, 16) /\ rd % 2 = Slice(imm, 2048, 2)
  <2>1. /\ f7 \in 0 .. 127 /\ f7 \div 64 = Slice(imm, 4096, 2)
        /\ f7 % 64 = Slice(imm, 32, 64)
    <3>1. Slice(imm, 32, 64) \in 0 .. 63 /\ Slice(imm, 4096, 2) \in 0 .. 1
      BY SMT, <1>e, <1>3
    <3> QED BY SMT, <3>1
  <2>2. rd \in 0 .. 31 /\ rd \div 2 = Slice(imm, 2, 16) /\ rd % 2 = Slice(imm, 2048, 2)
    <3>1. Slice(imm, 2, 16) \in 0 .. 15 /\ Slice(imm, 2048, 2) \in 0 .. 1
      BY SMT, <1>e
    <3> QED BY SMT, <3>1
  <2> QED BY SMT, <2>1, <2>2, <1>3
<1> DEFINE v == 4096 * (f7 \div 64) + 2048 * (rd % 2) + 32 * (f7 % 64) + 2 * (rd \div 2)
<1>5. v = imm - 8192 * q4
  <2> HIDE DEF q4
  <2>1. v = 4096 * (-q4) + 2048 * Slice(imm, 2048, 2) + 32 * Slice(imm, 32, 64)
              + 2 * Slice(imm, 2, 16)
    BY SMT, <1>4
  <2> HIDE DEF v
  <2> QED BY SMT, <2>1, <1>e, <1>1, <1>2
<1>6. SignExtend(v, 4096) = imm
  <2> HIDE DEF q4, v
  <2> QED BY SMT, <1>1, <1>2, <1>5 DEF SignExtend
<1> QED BY SMT, <1>4, <1>6 DEF Imm13

\* The four pieces of a jump offset make the offset again.
LEMMA JtypeRoundTrip ==
  ASSUME NEW imm \in Int, fits_imm21(imm), NEW f7 \in Int, NEW rs2 \in Int,
         f7 = 64 * Slice(imm, 1048576, 2) + Slice(imm, 32, 64),
         rs2 = 2 * Slice(imm, 2, 16) + Slice(imm, 2048, 2)
  PROVE  /\ f7 \in 0 .. 127
         /\ rs2 \in 0 .. 31
         /\ Slice(imm, 32768, 32) \in 0 .. 31
         /\ Slice(imm, 4096, 8) \in 0 .. 7
         /\ Imm21(f7, rs2, Slice(imm, 32768, 32), Slice(imm, 4096, 8)) = imm
<1> DEFINE q4 == imm \div 4096
           q5 == imm \div 32768
           q6 == imm \div 1048576
<1>0. imm \in Int /\ imm % 2 = 0 /\ -1048576 <= imm /\ imm <= 1048575
  BY SMT DEF fits_imm21
<1>1. q6 \in -1 .. 0
  BY SMT, <1>0
<1>e. /\ Slice(imm, 2, 16) \in 0 .. 15
      /\ Slice(imm, 32, 64) \in 0 .. 63
      /\ Slice(imm, 2048, 2) \in 0 .. 1
      /\ imm = 2 * Slice(imm, 2, 16) + 32 * Slice(imm, 32, 64)
                 + 2048 * Slice(imm, 2048, 2) + 4096 * q4
  BY SMT, <1>0, EvenDigits DEF HasEvenDigits
<1>2. q4 \in Int /\ q5 \in Int /\ q4 % 8 \in 0 .. 7 /\ q4 = 8 * q5 + (q4 % 8)
  BY SMT, <1>0
<1>3. q5 % 32 \in 0 .. 31 /\ q5 = 32 * q6 + (q5 % 32)
  BY SMT, <1>0
<1>4. Slice(imm, 1048576, 2) = -q6 /\ Slice(imm, 1048576, 2) \in 0 .. 1
  <2> HIDE DEF q6
  <2>1. q6 % 2 = -q6
    BY SMT, <1>1
  <2> QED BY SMT, <1>1, <2>1 DEF Slice, q6
<1>5. /\ f7 \in 0 .. 127 /\ f7 \div 64 = -q6 /\ f7 % 64 = Slice(imm, 32, 64)
      /\ rs2 \in 0 .. 31 /\ rs2 \div 2 = Slice(imm, 2, 16) /\ rs2 % 2 = Slice(imm, 2048, 2)
  <2>1. /\ f7 \in 0 .. 127 /\ f7 \div 64 = Slice(imm, 1048576, 2)
        /\ f7 % 64 = Slice(imm, 32, 64)
    <3>1. Slice(imm, 32, 64) \in 0 .. 63 /\ Slice(imm, 1048576, 2) \in 0 .. 1
      BY SMT, <1>e, <1>4
    <3> QED BY SMT, <3>1
  <2>2. rs2 \in 0 .. 31 /\ rs2 \div 2 = Slice(imm, 2, 16) /\ rs2 % 2 = Slice(imm, 2048, 2)
    <3>1. Slice(imm, 2, 16) \in 0 .. 15 /\ Slice(imm, 2048, 2) \in 0 .. 1
      BY SMT, <1>e
    <3> QED BY SMT, <3>1
  <2> QED BY SMT, <2>1, <2>2, <1>4
<1>6. Slice(imm, 32768, 32) = q5 % 32 /\ Slice(imm, 4096, 8) = q4 % 8
  BY SMT DEF Slice
<1> DEFINE v == 1048576 * (f7 \div 64) + 32768 * Slice(imm, 32768, 32)
                  + 4096 * Slice(imm, 4096, 8) + 2048 * (rs2 % 2)
                  + 32 * (f7 % 64) + 2 * (rs2 \div 2)
<1>7. v = imm - 2097152 * q6
  <2> HIDE DEF q4, q5, q6
  <2>1. v = 1048576 * (-q6) + 32768 * (q5 % 32) + 4096 * (q4 % 8)
              + 2048 * Slice(imm, 2048, 2) + 32 * Slice(imm, 32, 64) + 2 * Slice(imm, 2, 16)
    BY SMT, <1>5, <1>6
  <2> DEFINE r4 == q4 % 8
             r5 == q5 % 32
  <2>2. r4 \in 0 .. 7 /\ r5 \in 0 .. 31 /\ q4 = 8 * q5 + r4 /\ q5 = 32 * q6 + r5
    BY SMT, <1>2, <1>3
  <2> HIDE DEF v, r4, r5
  <2>3. v = 1048576 * (-q6) + 32768 * r5 + 4096 * r4
              + 2048 * Slice(imm, 2048, 2) + 32 * Slice(imm, 32, 64) + 2 * Slice(imm, 2, 16)
    BY SMT, <2>1 DEF r4, r5
  <2> QED BY SMT, <2>2, <2>3, <1>e, <1>0, <1>1, <1>2
<1>8. SignExtend(v, 1048576) = imm
  <2> HIDE DEF q6, v
  <2> QED BY SMT, <1>0, <1>1, <1>7 DEF SignExtend
<1>9. Slice(imm, 32768, 32) \in 0 .. 31 /\ Slice(imm, 4096, 8) \in 0 .. 7
  BY SMT, <1>2, <1>3, <1>6
<1> QED BY SMT, <1>5, <1>8, <1>9 DEF Imm21
------------------------------------------------------------------------------
\* Every accepted instruction has a word, from which it is read back.
LEMMA RoundTrip ==
  ASSUME NEW i, Encodable(i)
  PROVE  Encode(i) \in EncodedInstruction /\ Decode(Encode(i)) = i
<1> DEFINE w == Encode(i)
<1>t. /\ i \in Instruction /\ i.imm \in Int
      /\ i = [opcode |-> i.opcode, funct7 |-> i.funct7, funct3 |-> i.funct3,
              rd |-> i.rd, rs1 |-> i.rs1, rs2 |-> i.rs2, imm |-> i.imm]
      /\ i.funct7 \in 0 .. 127 /\ i.funct3 \in 0 .. 7
      /\ i.rd \in 0 .. 31 /\ i.rs1 \in 0 .. 31 /\ i.rs2 \in 0 .. 31
  BY SMT DEF Encodable, WellFormed, Instruction
<1>z. /\ i.opcode \notin HasFunct7 => i.funct7 = 0
      /\ i.opcode \notin HasFunct3 => i.funct3 = 0
      /\ i.opcode \notin HasRd  => i.rd = 0
      /\ i.opcode \notin HasRs1 => i.rs1 = 0
      /\ i.opcode \notin HasRs2 => i.rs2 = 0
      /\ i.opcode \in Rformat => i.imm = 0
  BY DEF Encodable, WellFormed
<1>1. CASE i.opcode \in Rformat
  BY SMT, <1>1, <1>t, <1>z DEF Encode, Decode, Immediate, build_rtype, EncodedInstruction,
     HasFunct7, HasFunct3, HasRd, HasRs1, HasRs2, Encodable, Fits
<1>2. CASE i.opcode \in Iformat
  <2>1. fits_imm12(i.imm)
    BY SMT, <1>2 DEF Encodable, WellFormed, Fits
  <2> QED BY SMT, <1>2, <1>t, <1>z, <2>1, ItypeRoundTrip
          DEF Encode, Decode, Immediate, build_itype, build_rtype, itype_get_immediate,
              EncodedInstruction, HasFunct7, HasFunct3, HasRd, HasRs1, HasRs2
<1>3. CASE i.opcode \in Sformat
  <2>1. fits_imm12(i.imm)
    BY SMT, <1>3 DEF Encodable, WellFormed, Fits
  <2> QED BY SMT, <1>3, <1>t, <1>z, <2>1, ItypeRoundTrip
          DEF Encode, Decode, Immediate, build_stype, build_rtype, stype_get_immediate,
              EncodedInstruction, HasFunct7, HasFunct3, HasRd, HasRs1, HasRs2
<1>4. CASE i.opcode \in Uformat
  <2> DEFINE n == i.imm \div 4096
  <2>1. fits_imm20(n) /\ n \in Int /\ i.imm = 4096 * n
    BY SMT, <1>4, <1>t DEF Encodable, WellFormed, Fits
  <2> HIDE DEF n
  <2> QED BY SMT, <1>4, <1>t, <1>z, <2>1, UtypeRoundTrip
          DEF Encode, Decode, Immediate, build_utype, build_rtype, utype_get_immediate,
              EncodedInstruction, HasFunct7, HasFunct3, HasRd, HasRs1, HasRs2, n
<1>5. CASE i.opcode \in Bformat
  <2>1. fits_branch_offset(i.imm)
    BY SMT, <1>5 DEF Encodable, WellFormed, Fits
  <2> DEFINE f7 == 64 * Slice(i.imm, 4096, 2) + Slice(i.imm, 32, 64)
             d  == 2 * Slice(i.imm, 2, 16) + Slice(i.imm, 2048, 2)
  <2>2. Encode(i) = [funct7 |-> f7, rs2 |-> i.rs2, rs1 |-> i.rs1,
                     funct3 |-> i.funct3, rd |-> d, opcode |-> BRANCH]
    BY SMT, <1>5 DEF Encode, build_btype, build_rtype
  <2>3. f7 \in Int /\ d \in Int
    BY SMT, <1>t DEF Slice
  <2> HIDE DEF f7, d
  <2>4. /\ f7 \in 0 .. 127 /\ d \in 0 .. 31
        /\ Imm13(f7, d) = i.imm
    BY SMT, <1>t, <2>1, <2>3, BtypeRoundTrip DEF f7, d
  <2>5. Immediate(Encode(i)) = i.imm
    BY SMT, <2>2, <2>4 DEF Immediate, btype_get_imm
  <2>6. Decode(Encode(i)) = i
    BY SMT, <1>5, <1>t, <1>z, <2>2, <2>5
       DEF Decode, HasFunct7, HasFunct3, HasRd, HasRs1, HasRs2
  <2> QED BY SMT, <1>t, <2>2, <2>4, <2>6 DEF EncodedInstruction
<1>6. CASE i.opcode \in Jformat
  <2>1. fits_imm21(i.imm)
    BY SMT, <1>6 DEF Encodable, WellFormed, Fits
  <2> DEFINE f7 == 64 * Slice(i.imm, 1048576, 2) + Slice(i.imm, 32, 64)
             s2 == 2 * Slice(i.imm, 2, 16) + Slice(i.imm, 2048, 2)
             s1 == Slice(i.imm, 32768, 32)
             f3 == Slice(i.imm, 4096, 8)
  <2>2. Encode(i) = [funct7 |-> f7, rs2 |-> s2, rs1 |-> s1,
                     funct3 |-> f3, rd |-> i.rd, opcode |-> JAL]
    BY SMT, <1>6 DEF Encode, build_jtype, build_rtype
  <2>3. f7 \in Int /\ s2 \in Int
    BY SMT, <1>t DEF Slice
  <2> HIDE DEF f7, s2, s1, f3
  <2>4. /\ f7 \in 0 .. 127 /\ s2 \in 0 .. 31 /\ s1 \in 0 .. 31 /\ f3 \in 0 .. 7
        /\ Imm21(f7, s2, s1, f3) = i.imm
    BY SMT, <1>t, <2>1, <2>3, JtypeRoundTrip DEF f7, s2, s1, f3
  <2>5. Immediate(Encode(i)) = i.imm
    BY SMT, <2>2, <2>4 DEF Immediate, jtype_get_immediate
  <2>6. Decode(Encode(i)) = i
    BY SMT, <1>6, <1>t, <1>z, <2>2, <2>5
       DEF Decode, HasFunct7, HasFunct3, HasRd, HasRs1, HasRs2
  <2> QED BY SMT, <1>t, <2>2, <2>4, <2>6 DEF EncodedInstruction
<1> QED BY SMT, <1>1, <1>2, <1>3, <1>4, <1>5, <1>6 DEF Encodable, WellFormed, Fits
------------------------------------------------------------------------------
(* The other way: every word with a known opcode is an accepted instruction. *)

\* Two fields of an I or S word and their immediate determine each other.
ItypeExact(f7, d) ==
  /\ Imm12(f7, d) \in Int /\ fits_imm12(Imm12(f7, d))
  /\ Slice(Imm12(f7, d), 32, 128) = f7 /\ Imm12(f7, d) % 32 = d

\* Joining the fields of the I format to an immediate and splitting it gives them back.
LEMMA ItypeBack ==
  ASSUME NEW f7 \in 0 .. 127, NEW d \in 0 .. 31
  PROVE  ItypeExact(f7, d)
<1> DEFINE imm == SignExtend(32 * f7 + d, 2048)
<1>1. imm \in Int /\ fits_imm12(imm)
  BY SMT DEF SignExtend, fits_imm12
<1>2. PICK q \in Int : imm = 32 * q + d /\ (q = f7 \/ q = f7 - 128)
  BY SMT DEF SignExtend
<1>3. imm % 32 = d /\ imm \div 32 = q
  BY SMT, <1>2
<1>4. q % 128 = f7
  BY SMT, <1>2
<1>5. Imm12(f7, d) = imm
  BY SMT DEF Imm12
<1> HIDE DEF imm
<1> QED BY SMT, <1>1, <1>3, <1>4, <1>5 DEF Slice, ItypeExact

\* The same of the four fields of a U word.
UtypeExact(f7, s2, s1, f3) ==
  LET imm == Imm20(f7, s2, s1, f3)
  IN  /\ imm \in Int /\ fits_imm20(imm)
      /\ Slice(imm, 8192, 128) = f7 /\ Slice(imm, 256, 32) = s2
      /\ Slice(imm, 8, 32) = s1 /\ imm % 8 = f3

\* Joining the fields of the U format to an immediate and splitting it gives them back.
LEMMA UtypeBack ==
  ASSUME NEW f7 \in 0 .. 127, NEW s2 \in 0 .. 31, NEW s1 \in 0 .. 31, NEW f3 \in 0 .. 7
  PROVE  UtypeExact(f7, s2, s1, f3)
<1> DEFINE imm == Imm20(f7, s2, s1, f3)
<1>1. imm \in Int /\ fits_imm20(imm)
  BY SMT DEF Imm20, SignExtend, fits_imm20
<1>2. PICK q \in Int : /\ imm = 8192 * q + 256 * s2 + 8 * s1 + f3
                       /\ q = f7 \/ q = f7 - 128
  BY SMT DEF Imm20, SignExtend
<1>3. imm \div 8192 = q /\ imm \div 256 = 32 * q + s2 /\ imm \div 8 = 1024 * q + 32 * s2 + s1
      /\ imm % 8 = f3
  BY SMT, <1>2
<1>4. q % 128 = f7 /\ (32 * q + s2) % 32 = s2 /\ (1024 * q + 32 * s2 + s1) % 32 = s1
  BY SMT, <1>2
<1> HIDE DEF imm
<1>5. Slice(imm, 8192, 128) = f7 /\ Slice(imm, 256, 32) = s2 /\ Slice(imm, 8, 32) = s1
  BY SMT, <1>3, <1>4 DEF Slice
<1> QED BY SMT, <1>1, <1>3, <1>5 DEF UtypeExact, imm

\* A field of two digits is what the digits make of it.
LEMMA DigitsOfFields ==
  /\ \A f7 \in 0 .. 127 : /\ f7 \div 64 \in 0 .. 1 /\ f7 % 64 \in 0 .. 63
                          /\ f7 = 64 * (f7 \div 64) + (f7 % 64)
  /\ \A d \in 0 .. 31 : /\ d \div 2 \in 0 .. 15 /\ d % 2 \in 0 .. 1
                        /\ d = 2 * (d \div 2) + (d % 2)
BY SMT

\* The same of the two fields of a B word, whose digits are permuted.
BtypeExact(f7, d) ==
  LET imm == Imm13(f7, d)
  IN  /\ imm \in Int /\ fits_branch_offset(imm)
      /\ 64 * Slice(imm, 4096, 2) + Slice(imm, 32, 64) = f7
      /\ 2 * Slice(imm, 2, 16) + Slice(imm, 2048, 2) = d

\* Joining the fields of the B format to an immediate and splitting it gives them back.
LEMMA BtypeBack ==
  ASSUME NEW f7 \in 0 .. 127, NEW d \in 0 .. 31
  PROVE  BtypeExact(f7, d)
<1> DEFINE imm == Imm13(f7, d)
<1> DEFINE x == f7 \div 64  b == f7 % 64
           a == d \div 2    c == d % 2
<1>0. /\ x \in 0 .. 1 /\ b \in 0 .. 63 /\ f7 = 64 * x + b
      /\ a \in 0 .. 15 /\ c \in 0 .. 1 /\ d = 2 * a + c
  BY SMT, DigitsOfFields
<1>s. imm = SignExtend(4096 * x + 2048 * c + 32 * b + 2 * a, 4096)
  BY SMT DEF Imm13
<1> HIDE DEF x, b, a, c, imm
<1>1. imm = 4096 * (-x) + 2048 * c + 32 * b + 2 * a
  BY SMT, <1>0, <1>s DEF SignExtend
<1>2. imm \in Int /\ fits_branch_offset(imm)
  BY SMT, <1>0, <1>1 DEF fits_branch_offset
<1>3. imm \div 4096 = -x /\ imm \div 2048 = c - 2 * x
      /\ imm \div 32 = b + 64 * (c - 2 * x) /\ imm \div 2 = a + 16 * (b + 64 * (c - 2 * x))
  BY SMT, <1>0, <1>1
<1>4. (-x) % 2 = x /\ (c - 2 * x) % 2 = c
  BY SMT, <1>0
<1>5. (b + 64 * (c - 2 * x)) % 64 = b
  BY SMT, <1>0
<1>6. (a + 16 * (b + 64 * (c - 2 * x))) % 16 = a
  BY SMT, <1>0
<1>7. Slice(imm, 4096, 2) = x /\ Slice(imm, 32, 64) = b
      /\ Slice(imm, 2, 16) = a /\ Slice(imm, 2048, 2) = c
  BY SMT, <1>3, <1>4, <1>5, <1>6 DEF Slice
<1>8. /\ 64 * Slice(imm, 4096, 2) + Slice(imm, 32, 64) = f7
      /\ 2 * Slice(imm, 2, 16) + Slice(imm, 2048, 2) = d
  BY SMT, <1>0, <1>7
<1> QED BY SMT, <1>2, <1>8 DEF BtypeExact, imm

\* And of the four fields of a J word.
JtypeExact(f7, s2, s1, f3) ==
  LET imm == Imm21(f7, s2, s1, f3)
  IN  /\ imm \in Int /\ fits_imm21(imm)
      /\ 64 * Slice(imm, 1048576, 2) + Slice(imm, 32, 64) = f7
      /\ 2 * Slice(imm, 2, 16) + Slice(imm, 2048, 2) = s2
      /\ Slice(imm, 32768, 32) = s1 /\ Slice(imm, 4096, 8) = f3

\* Joining the fields of the J format to an immediate and splitting it gives them back.
LEMMA JtypeBack ==
  ASSUME NEW f7 \in 0 .. 127, NEW s2 \in 0 .. 31, NEW s1 \in 0 .. 31, NEW f3 \in 0 .. 7
  PROVE  JtypeExact(f7, s2, s1, f3)
<1> DEFINE imm == Imm21(f7, s2, s1, f3)
<1> DEFINE x == f7 \div 64  b == f7 % 64
           a == s2 \div 2   c == s2 % 2
<1>0. /\ x \in 0 .. 1 /\ b \in 0 .. 63 /\ f7 = 64 * x + b
      /\ a \in 0 .. 15 /\ c \in 0 .. 1 /\ s2 = 2 * a + c
  BY SMT, DigitsOfFields
<1>s. imm = SignExtend(1048576 * x + 32768 * s1 + 4096 * f3 + 2048 * c
                         + 32 * b + 2 * a, 1048576)
  BY SMT DEF Imm21
<1> HIDE DEF x, b, a, c, imm
<1> DEFINE q5 == s1 - 32 * x
           q4 == f3 + 8 * q5
           q3 == c + 2 * q4
           q2 == b + 64 * q3
           q1 == a + 16 * q2
<1>1. imm = 1048576 * (-x) + 32768 * s1 + 4096 * f3 + 2048 * c + 32 * b + 2 * a
  BY SMT, <1>0, <1>s DEF SignExtend
<1>2. imm \in Int /\ fits_imm21(imm)
  BY SMT, <1>0, <1>1 DEF fits_imm21
<1>3. imm \div 1048576 = -x /\ imm \div 32768 = q5 /\ imm \div 4096 = q4
  BY SMT, <1>0, <1>1
<1>4. imm \div 2048 = q3 /\ imm \div 32 = q2 /\ imm \div 2 = q1
  BY SMT, <1>0, <1>1
<1>5. (-x) % 2 = x /\ q5 % 32 = s1 /\ q5 \in Int
  BY SMT, <1>0
<1>6. q4 % 8 = f3 /\ q4 \in Int
  BY SMT, <1>0
<1>7. q3 % 2 = c /\ q3 \in Int
  <2>1. q4 \in Int
    BY SMT, <1>0
  <2> HIDE DEF q4
  <2> QED BY SMT, <1>0, <2>1
<1>8. q2 % 64 = b /\ q2 \in Int
  <2> HIDE DEF q3
  <2> QED BY SMT, <1>0, <1>7
<1>9. q1 % 16 = a
  <2> HIDE DEF q2
  <2> QED BY SMT, <1>0, <1>8
<1> HIDE DEF q1, q2, q3, q4, q5
<1>10. /\ Slice(imm, 1048576, 2) = x /\ Slice(imm, 32, 64) = b
       /\ Slice(imm, 2, 16) = a /\ Slice(imm, 2048, 2) = c
       /\ Slice(imm, 32768, 32) = s1 /\ Slice(imm, 4096, 8) = f3
  BY SMT, <1>3, <1>4, <1>5, <1>6, <1>7, <1>8, <1>9 DEF Slice
<1>11. /\ 64 * Slice(imm, 1048576, 2) + Slice(imm, 32, 64) = f7
       /\ 2 * Slice(imm, 2, 16) + Slice(imm, 2048, 2) = s2
  BY SMT, <1>0, <1>10
<1> QED BY SMT, <1>2, <1>10, <1>11 DEF JtypeExact, imm

\* Every word with a known opcode is the word of an accepted instruction.
LEMMA EveryBitCounts ==
  ASSUME NEW w \in EncodedInstruction, w.opcode \in Opcode
  PROVE  Encodable(Decode(w)) /\ Encode(Decode(w)) = w
<1> DEFINE i == Decode(w)
<1>t. /\ w = [funct7 |-> w.funct7, rs2 |-> w.rs2, rs1 |-> w.rs1,
              funct3 |-> w.funct3, rd |-> w.rd, opcode |-> w.opcode]
      /\ w.funct7 \in 0 .. 127 /\ w.funct3 \in 0 .. 7
      /\ w.rd \in 0 .. 31 /\ w.rs1 \in 0 .. 31 /\ w.rs2 \in 0 .. 31
  BY SMT DEF EncodedInstruction
<1>i. /\ i.opcode = w.opcode /\ i.imm = Immediate(w)
      /\ i.funct7 = IF w.opcode \in HasFunct7 THEN w.funct7 ELSE 0
      /\ i.funct3 = IF w.opcode \in HasFunct3 THEN w.funct3 ELSE 0
      /\ i.rd = IF w.opcode \in HasRd THEN w.rd ELSE 0
      /\ i.rs1 = IF w.opcode \in HasRs1 THEN w.rs1 ELSE 0
      /\ i.rs2 = IF w.opcode \in HasRs2 THEN w.rs2 ELSE 0
  BY SMT DEF Decode
<1>e. ASSUME Immediate(w) \in Int, Fits(i),
             w.opcode \in Rformat => Immediate(w) = 0,
             w.opcode \in Uformat => Immediate(w) % 4096 = 0
      PROVE  Encodable(i)
  <2>1. i \in Instruction
    BY SMT, <1>e, <1>t, <1>i DEF Instruction, Decode
  <2> HIDE DEF i
  <2>2. /\ i.opcode \notin HasFunct7 => i.funct7 = 0
        /\ i.opcode \notin HasFunct3 => i.funct3 = 0
        /\ i.opcode \notin HasRd  => i.rd = 0
        /\ i.opcode \notin HasRs1 => i.rs1 = 0
        /\ i.opcode \notin HasRs2 => i.rs2 = 0
    BY <1>i
  <2>3. /\ i.opcode \in Rformat => i.imm = 0
        /\ i.opcode \in Uformat => i.imm % 4096 = 0
    BY SMT, <1>e, <1>i
  <2> QED BY <1>e, <2>1, <2>2, <2>3 DEF Encodable, WellFormed
<1> HIDE DEF i
<1>1. CASE w.opcode \in Rformat
  <2>1. Immediate(w) = 0
    BY SMT, <1>1 DEF Immediate
  <2> QED BY SMT, <1>1, <1>t, <1>i, <1>e, <2>1
          DEF Fits, Encode, build_rtype, HasFunct7, HasFunct3, HasRd, HasRs1, HasRs2, i
<1>2. CASE w.opcode \in Iformat
  <2>1. Immediate(w) = Imm12(w.funct7, w.rs2)
    BY SMT, <1>2 DEF Immediate, itype_get_immediate
  <2> DEFINE n == Immediate(w)
  <2>x. ItypeExact(w.funct7, w.rs2)
    BY <1>t, ItypeBack
  <2>2. /\ n \in Int /\ fits_imm12(n)
        /\ Slice(n, 32, 128) = w.funct7 /\ n % 32 = w.rs2
    BY SMT, <2>1, <2>x DEF ItypeExact
  <2>3. Encode(i) = w
    BY SMT, <1>2, <1>t, <1>i, <2>2
       DEF Encode, build_itype, build_rtype, HasFunct7, HasFunct3, HasRd, HasRs1, HasRs2
  <2> QED BY SMT, <1>2, <1>i, <1>e, <2>2, <2>3 DEF Fits, i
<1>3. CASE w.opcode \in Sformat
  <2>1. Immediate(w) = Imm12(w.funct7, w.rd)
    BY SMT, <1>3 DEF Immediate, stype_get_immediate
  <2> DEFINE n == Immediate(w)
  <2>x. ItypeExact(w.funct7, w.rd)
    BY <1>t, ItypeBack
  <2>2. /\ n \in Int /\ fits_imm12(n)
        /\ Slice(n, 32, 128) = w.funct7 /\ n % 32 = w.rd
    BY SMT, <2>1, <2>x DEF ItypeExact
  <2>3. Encode(i) = w
    BY SMT, <1>3, <1>t, <1>i, <2>2
       DEF Encode, build_stype, build_rtype, HasFunct7, HasFunct3, HasRd, HasRs1, HasRs2
  <2> QED BY SMT, <1>3, <1>i, <1>e, <2>2, <2>3 DEF Fits, i
<1>4. CASE w.opcode \in Uformat
  <2> DEFINE n == Imm20(w.funct7, w.rs2, w.rs1, w.funct3)
  <2>1. Immediate(w) = 4096 * n
    BY SMT, <1>4 DEF Immediate, utype_get_immediate
  <2>x. UtypeExact(w.funct7, w.rs2, w.rs1, w.funct3)
    BY <1>t, UtypeBack
  <2>2. /\ n \in Int /\ fits_imm20(n)
        /\ Slice(n, 8192, 128) = w.funct7 /\ Slice(n, 256, 32) = w.rs2
        /\ Slice(n, 8, 32) = w.rs1 /\ n % 8 = w.funct3
    BY SMT, <2>x DEF UtypeExact
  <2> HIDE DEF n
  <2>3. (4096 * n) \div 4096 = n /\ (4096 * n) % 4096 = 0 /\ 4096 * n \in Int
    BY SMT, <2>2
  <2> QED BY SMT, <1>4, <1>t, <1>i, <1>e, <2>1, <2>2, <2>3
          DEF Fits, Encode, build_utype, build_rtype, HasFunct7, HasFunct3, HasRd, HasRs1, HasRs2, i
<1>5. CASE w.opcode \in Bformat
  <2>1. Immediate(w) = Imm13(w.funct7, w.rd)
    BY SMT, <1>5 DEF Immediate, btype_get_imm
  <2> DEFINE n == Immediate(w)
  <2>x. BtypeExact(w.funct7, w.rd)
    BY <1>t, BtypeBack
  <2>2. /\ n \in Int /\ fits_branch_offset(n)
        /\ 64 * Slice(n, 4096, 2) + Slice(n, 32, 64) = w.funct7
        /\ 2 * Slice(n, 2, 16) + Slice(n, 2048, 2) = w.rd
    BY SMT, <2>1, <2>x DEF BtypeExact
  <2>3. Encode(i) = w
    BY SMT, <1>5, <1>t, <1>i, <2>2
       DEF Encode, build_btype, build_rtype, HasFunct7, HasFunct3, HasRd, HasRs1, HasRs2
  <2> QED BY SMT, <1>5, <1>i, <1>e, <2>2, <2>3 DEF Fits, i
<1>6. CASE w.opcode \in Jformat
  <2>1. Immediate(w) = Imm21(w.funct7, w.rs2, w.rs1, w.funct3)
    BY SMT, <1>6 DEF Immediate, jtype_get_immediate
  <2> DEFINE n == Immediate(w)
  <2>x. JtypeExact(w.funct7, w.rs2, w.rs1, w.funct3)
    BY <1>t, JtypeBack
  <2>2. /\ n \in Int /\ fits_imm21(n)
        /\ 64 * Slice(n, 1048576, 2) + Slice(n, 32, 64) = w.funct7
        /\ 2 * Slice(n, 2, 16) + Slice(n, 2048, 2) = w.rs2
        /\ Slice(n, 32768, 32) = w.rs1 /\ Slice(n, 4096, 8) = w.funct3
    BY SMT, <2>1, <2>x DEF JtypeExact
  <2>3. Encode(i) = w
    BY SMT, <1>6, <1>t, <1>i, <2>2
       DEF Encode, build_jtype, build_rtype, HasFunct7, HasFunct3, HasRd, HasRs1, HasRs2
  <2> QED BY SMT, <1>6, <1>i, <1>e, <2>2, <2>3 DEF Fits, i
<1> QED BY SMT, <1>1, <1>2, <1>3, <1>4, <1>5, <1>6 DEF Opcode
------------------------------------------------------------------------------
(* Offsets that nothing checks. *)

\* What lw and sw make of an offset that does not fit: its low 12 bits.
Truncated(i) == [i EXCEPT !.imm = SignExtend(i.imm % 4096, 2048)]

\* t is the low 12 bits of imm, read as a signed number.
IsLow12(t, imm) ==
  /\ t = SignExtend(imm % 4096, 2048) /\ fits_imm12(t)
  /\ Slice(t, 32, 128) = Slice(imm, 32, 128) /\ t % 32 = imm % 32
  /\ (t - imm) % 4096 = 0

\* They make the same fields as the whole offset.
LEMMA LowBits ==
  ASSUME NEW imm \in Int
  PROVE  \E t \in Int : IsLow12(t, imm)
<1> DEFINE q == imm \div 4096
           r == imm % 4096
           t == SignExtend(r, 2048)
<1>1. q \in Int /\ r \in 0 .. 4095 /\ imm = 4096 * q + r
  BY SMT
<1> HIDE DEF q, r
<1>2. PICK e \in 0 .. 1 : t = r - 4096 * e
  BY SMT, <1>1 DEF SignExtend
<1>3. t \in Int /\ fits_imm12(t)
  BY SMT, <1>1 DEF SignExtend, fits_imm12
<1> HIDE DEF t
<1> DEFINE h == r \div 32
           l == r % 32
<1>4. h \in 0 .. 127 /\ l \in 0 .. 31 /\ r = 32 * h + l
  BY SMT, <1>1
<1> HIDE DEF h, l
<1>5. imm = 32 * (128 * q + h) + l /\ t = 32 * (h - 128 * e) + l
  BY SMT, <1>1, <1>2, <1>4
<1>6. imm \div 32 = 128 * q + h /\ imm % 32 = l
  BY SMT, <1>1, <1>4, <1>5
<1>7. t \div 32 = h - 128 * e /\ t % 32 = l
  BY SMT, <1>2, <1>4, <1>5
<1>8. (128 * q + h) % 128 = h
  BY SMT, <1>1, <1>4
<1>9. (h - 128 * e) % 128 = h
  BY SMT, <1>2, <1>4
<1>10. (t - imm) % 4096 = 0
  <2>1. t - imm = 4096 * (-e - q)
    BY SMT, <1>1, <1>2
  <2>2. -e - q \in Int
    BY SMT, <1>1, <1>2
  <2> QED BY SMT, <2>1, <2>2
<1>11. Slice(t, 32, 128) = h /\ Slice(imm, 32, 128) = h
  BY SMT, <1>6, <1>7, <1>8, <1>9 DEF Slice
<1>12. t = SignExtend(imm % 4096, 2048)
  BY DEF t, r
<1> QED BY <1>3, <1>6, <1>7, <1>10, <1>11, <1>12 DEF IsLow12

\* The word of an lw or sw is that of the instruction with the low 12 bits.
LEMMA TruncatedRoundTrip ==
  ASSUME NEW i, WellFormed(i), i.opcode \in {LOAD, STORE}
  PROVE  /\ Encodable(Truncated(i)) /\ Encode(i) = Encode(Truncated(i))
         /\ (Truncated(i).imm - i.imm) % 4096 = 0 /\ fits_imm12(Truncated(i).imm)
         /\ [Truncated(i) EXCEPT !.imm = i.imm] = i
<1> DEFINE j == Truncated(i)
<1>1. /\ i \in Instruction /\ i.imm \in Int
      /\ i = [opcode |-> i.opcode, funct7 |-> i.funct7, funct3 |-> i.funct3,
              rd |-> i.rd, rs1 |-> i.rs1, rs2 |-> i.rs2, imm |-> i.imm]
  BY SMT DEF WellFormed, Instruction
<1>0. PICK t \in Int : IsLow12(t, i.imm)
  BY <1>1, LowBits
<1>2. /\ t = SignExtend(i.imm % 4096, 2048) /\ fits_imm12(t)
      /\ Slice(t, 32, 128) = Slice(i.imm, 32, 128)
      /\ t % 32 = i.imm % 32
      /\ (t - i.imm) % 4096 = 0
  BY <1>0 DEF IsLow12
<1>3. j = [i EXCEPT !.imm = t]
  BY <1>2 DEF Truncated
<1> HIDE DEF j
<1>a. j = [opcode |-> i.opcode, funct7 |-> i.funct7, funct3 |-> i.funct3,
           rd |-> i.rd, rs1 |-> i.rs1, rs2 |-> i.rs2, imm |-> t]
  BY SMT, <1>1, <1>3 DEF Instruction
<1>4. /\ j.imm = t /\ j.opcode = i.opcode /\ j.funct7 = i.funct7 /\ j.funct3 = i.funct3
      /\ j.rd = i.rd /\ j.rs1 = i.rs1 /\ j.rs2 = i.rs2
  BY SMT, <1>a
<1>b. j \in Instruction
  BY SMT, <1>1, <1>a DEF Instruction
<1>c. [j EXCEPT !.imm = i.imm] = i
  <2>1. [j EXCEPT !.imm = i.imm] =
          [opcode |-> i.opcode, funct7 |-> i.funct7, funct3 |-> i.funct3,
           rd |-> i.rd, rs1 |-> i.rs1, rs2 |-> i.rs2, imm |-> i.imm]
    BY SMT, <1>a
  <2> QED BY ONLY <1>1, <2>1
<1>5. WellFormed(j)
  BY SMT, <1>4, <1>b DEF WellFormed
<1>6. Fits(j)
  BY SMT, <1>2, <1>4 DEF Fits
<1>7. Encode(i) = Encode(j)
  BY SMT, <1>2, <1>4 DEF Encode, build_itype, build_stype, build_rtype
<1> QED BY <1>2, <1>4, <1>c, <1>5, <1>6, <1>7 DEF Encodable, j

\* An encoded instruction has one of the known opcodes.
LEMMA EncodeKeepsOpcode ==
  ASSUME NEW i, Encodable(i)
  PROVE  Encode(i) \in EncodedInstruction /\ Encode(i).opcode \in Opcode
<1>1. Encode(i) \in EncodedInstruction /\ Decode(Encode(i)) = i
  BY RoundTrip
<1>2. Decode(Encode(i)).opcode = Encode(i).opcode
  BY DEF Decode
<1>3. i.opcode \in Opcode
  BY SMT DEF Encodable, WellFormed, Instruction
<1> QED BY <1>1, <1>2, <1>3

\* So has every word that the encoder returns.
LEMMA AcceptedWord ==
  ASSUME NEW i, WellFormed(i), Accepts(i)
  PROVE  Encode(i) \in EncodedInstruction /\ Encode(i).opcode \in Opcode
<1>1. CASE Fits(i)
  BY <1>1, EncodeKeepsOpcode DEF Encodable
<1>2. CASE i.opcode \in {LOAD, STORE}
  BY <1>2, TruncatedRoundTrip, EncodeKeepsOpcode
<1> QED BY <1>1, <1>2 DEF Accepts
------------------------------------------------------------------------------
(* The record of the fields and the uint32_t *)

\* Nothing but the six fields is in a word, and none covers another: the record
\* of the fields is as good as the uint32_t that the C code passes around.
THEOREM WordsAreNumbers ==
  /\ \A c \in EncodedInstruction :
       /\ AsNumber(c) \in Nat /\ AsNumber(c) < 4294967296
       /\ FieldsOfNumber(AsNumber(c)) = c
  /\ \A n \in Nat :
       n < 4294967296 =>
         FieldsOfNumber(n) \in EncodedInstruction /\ AsNumber(FieldsOfNumber(n)) = n
<1>1. ASSUME NEW c \in EncodedInstruction
      PROVE  /\ AsNumber(c) \in Nat /\ AsNumber(c) < 4294967296
             /\ FieldsOfNumber(AsNumber(c)) = c
  <2>1. /\ c = [funct7 |-> c.funct7, rs2 |-> c.rs2, rs1 |-> c.rs1,
                funct3 |-> c.funct3, rd |-> c.rd, opcode |-> c.opcode]
        /\ c.funct7 \in 0 .. 127 /\ c.rs2 \in 0 .. 31 /\ c.rs1 \in 0 .. 31
        /\ c.funct3 \in 0 .. 7 /\ c.rd \in 0 .. 31 /\ c.opcode \in 0 .. 127
    BY SMT DEF EncodedInstruction
  <2> DEFINE n  == AsNumber(c)
             op == c.opcode   d  == c.rd   f3 == c.funct3
             s1 == c.rs1      s2 == c.rs2  f7 == c.funct7
  <2>2. /\ n = op + 128 * d + 4096 * f3 + 32768 * s1 + 1048576 * s2 + 33554432 * f7
        /\ op \in Nat /\ d \in Nat /\ f3 \in Nat /\ s1 \in Nat /\ s2 \in Nat /\ f7 \in Nat
        /\ op < 128 /\ d < 32 /\ f3 < 8 /\ s1 < 32 /\ s2 < 32 /\ f7 < 128
    BY SMT, <2>1 DEF AsNumber
  <2> HIDE DEF n, op, d, f3, s1, s2, f7
  <2> DEFINE q5 == s2 + 32 * f7
             q4 == s1 + 32 * q5
             q3 == f3 + 8 * q4
             q2 == d + 32 * q3
  <2>3. n = op + 128 * q2 /\ n \in Nat /\ n < 4294967296
    BY SMT, <2>2
  <2>4. n \div 128 = q2 /\ n \div 4096 = q3 /\ n \div 32768 = q4
    BY SMT, <2>2
  <2>5. n \div 1048576 = q5 /\ n \div 33554432 = f7 /\ n \div 1 = n
    BY SMT, <2>2
  <2>6. q5 \in Nat /\ q4 \in Nat /\ q3 \in Nat /\ q2 \in Nat
    BY SMT, <2>2
  <2>7. q5 % 32 = s2 /\ f7 % 128 = f7
    BY SMT, <2>2
  <2> HIDE DEF q5
  <2>8. q4 % 32 = s1
    BY SMT, <2>2, <2>6
  <2> HIDE DEF q4
  <2>9. q3 % 8 = f3
    BY SMT, <2>2, <2>6
  <2> HIDE DEF q3
  <2>10. q2 % 32 = d
    BY SMT, <2>2, <2>6
  <2> HIDE DEF q2
  <2>11. n % 128 = op
    BY SMT, <2>2, <2>3, <2>6
  <2>12. FieldsOfNumber(n) = [funct7 |-> f7, rs2 |-> s2, rs1 |-> s1,
                             funct3 |-> f3, rd |-> d, opcode |-> op]
    BY SMT, <2>4, <2>5, <2>7, <2>8, <2>9, <2>10, <2>11 DEF FieldsOfNumber, Slice
  <2>13. FieldsOfNumber(n) = c
    BY SMT, <2>1, <2>12 DEF f7, s2, s1, f3, d, op
  <2> QED BY SMT, <2>3, <2>13 DEF n
<1>2. ASSUME NEW n \in Nat, n < 4294967296
      PROVE  FieldsOfNumber(n) \in EncodedInstruction /\ AsNumber(FieldsOfNumber(n)) = n
  <2> DEFINE q2 == n \div 128
             q3 == n \div 4096
             q4 == n \div 32768
             q5 == n \div 1048576
             q6 == n \div 33554432
  <2>1. /\ n = 128 * q2 + (n % 128) /\ n % 128 \in 0 .. 127 /\ n \div 1 = n
        /\ q2 = 32 * q3 + (q2 % 32) /\ q2 % 32 \in 0 .. 31
    BY SMT
  <2>2. /\ q3 = 8 * q4 + (q3 % 8) /\ q3 % 8 \in 0 .. 7
        /\ q4 = 32 * q5 + (q4 % 32) /\ q4 % 32 \in 0 .. 31
    BY SMT
  <2>3. /\ q5 = 32 * q6 + (q5 % 32) /\ q5 % 32 \in 0 .. 31
    BY SMT
  <2>q. q6 \in 0 .. 127 /\ q6 % 128 = q6
    <3>1. q6 \in Nat /\ q6 < 128
      BY SMT, <1>2
    <3> HIDE DEF q6
    <3> QED BY SMT, <3>1
  <2>4. q2 \in Int /\ q3 \in Int /\ q4 \in Int /\ q5 \in Int
    BY SMT
  <2> DEFINE f == FieldsOfNumber(n)
  <2>5. /\ f.opcode = n % 128 /\ f.rd = q2 % 32 /\ f.funct3 = q3 % 8 /\ f.rs1 = q4 % 32
        /\ f.rs2 = q5 % 32 /\ f.funct7 = q6
    BY SMT, <2>1, <2>q DEF FieldsOfNumber, Slice
  <2>6. f \in EncodedInstruction
    BY SMT, <2>1, <2>2, <2>3, <2>q DEF FieldsOfNumber, Slice, EncodedInstruction
  <2> HIDE DEF f, q2, q3, q4, q5, q6
  <2>7. f.opcode + 128 * f.rd + 4096 * f.funct3 + 32768 * f.rs1 + 1048576 * f.rs2
          + 33554432 * f.funct7 = n
    BY SMT, <2>1, <2>2, <2>3, <2>4, <2>5, <2>q
  <2> QED BY SMT, <2>6, <2>7 DEF f, AsNumber
<1> QED BY SMT, <1>1, <1>2

\* The way Cpu uses the getters: a word with a known opcode becomes fields that name
\* registers and a number, branches and jal have an even offset, and the word 0,
\* which an empty memory is full of, has no opcode (FieldsAssumption of Cpu).
THEOREM FieldsServeTheProcessor ==
  /\ \A n \in Nat :
       n < 4294967296 /\ FieldsOfNumber(n).opcode \in Opcode =>
         LET i == Decode(FieldsOfNumber(n))
         IN  /\ i.opcode = FieldsOfNumber(n).opcode
             /\ i.funct3 \in 0 .. 7 /\ i.funct7 \in 0 .. 127
             /\ i.rd \in 0 .. 31 /\ i.rs1 \in 0 .. 31 /\ i.rs2 \in 0 .. 31 /\ i.imm \in Int
             /\ i.opcode \in {BRANCH, JAL} => i.imm % 2 = 0
  /\ FieldsOfNumber(0).opcode \notin Opcode
<1>1. ASSUME NEW n \in Nat, n < 4294967296, FieldsOfNumber(n).opcode \in Opcode,
             NEW i, i = Decode(FieldsOfNumber(n))
      PROVE  /\ i.opcode = FieldsOfNumber(n).opcode
             /\ i.funct3 \in 0 .. 7 /\ i.funct7 \in 0 .. 127
             /\ i.rd \in 0 .. 31 /\ i.rs1 \in 0 .. 31 /\ i.rs2 \in 0 .. 31 /\ i.imm \in Int
             /\ i.opcode \in {BRANCH, JAL} => i.imm % 2 = 0
  <2>1. FieldsOfNumber(n) \in EncodedInstruction
    BY <1>1, WordsAreNumbers
  <2>2. Encodable(i)
    BY <1>1, <2>1, EveryBitCounts
  <2>3. i.opcode = FieldsOfNumber(n).opcode
    BY <1>1 DEF Decode
  <2>4. i \in Instruction /\ Fits(i)
    BY <2>2 DEF Encodable, WellFormed
  <2>5. /\ i.funct3 \in 0 .. 7 /\ i.funct7 \in 0 .. 127
        /\ i.rd \in 0 .. 31 /\ i.rs1 \in 0 .. 31 /\ i.rs2 \in 0 .. 31 /\ i.imm \in Int
    BY SMT, <2>4 DEF Instruction
  <2>6. i.opcode = BRANCH => fits_branch_offset(i.imm)
    BY SMT, <2>4 DEF Fits, Rformat, Iformat, Sformat, Uformat, Bformat, Jformat,
                     OP, LOAD, OP_IMM, JALR, STORE, LUI, AUIPC, BRANCH, JAL
  <2>7. i.opcode = JAL => fits_imm21(i.imm)
    BY SMT, <2>4 DEF Fits, Rformat, Iformat, Sformat, Uformat, Bformat, Jformat,
                     OP, LOAD, OP_IMM, JALR, STORE, LUI, AUIPC, BRANCH, JAL
  <2>8. i.opcode \in {BRANCH, JAL} => i.imm % 2 = 0
    BY <2>6, <2>7 DEF fits_branch_offset, fits_imm21
  <2> QED BY <2>3, <2>5, <2>8
<1>2. FieldsOfNumber(0).opcode \notin Opcode
  <2>1. FieldsOfNumber(0).opcode = (0 \div 1) % 128
    BY DEF FieldsOfNumber, Slice
  <2>2. (0 \div 1) % 128 = 0
    BY SMT
  <2> QED BY SMT, <2>1, <2>2 DEF Opcode, Rformat, Iformat, Sformat, Uformat, Bformat, Jformat,
                     OP, LOAD, OP_IMM, JALR, STORE, LUI, AUIPC, BRANCH, JAL
<1> QED BY <1>1, <1>2
================================================================================
