------------------------------- MODULE AluProofs -------------------------------
(***************************************************************************)
(* The laws of the operations of alu_execute, for every width of a word.   *)
(***************************************************************************)
EXTENDS MCAlu, WordProofs

------------------------------------------------------------------------------
(* Powers of two *)

\* Two solutions of a recursion agree as far as both go.
LEMMA RecursionIsUnique ==
  ASSUME NEW S, NEW a \in S, NEW g, NEW N \in Nat, NEW M \in Nat, N <= M, NEW F, NEW G,
         IsRecursion(F, S, N, a, g), IsRecursion(G, S, M, a, g)
  PROVE  \A n \in 0 .. N : F[n] = G[n]
<1> DEFINE T == {n \in 0 .. N : F[n] = G[n]}
<1>1. 0 \in T
  BY DEF IsRecursion
<1>2. ASSUME NEW n \in 1 .. N, n - 1 \in T PROVE n \in T
  <2>1. n \in 1 .. M /\ F[n - 1] = G[n - 1]
    BY <1>2
  <2>2. F[n] = g[<<n, F[n - 1]>>] /\ G[n] = g[<<n, G[n - 1]>>]
    BY <2>1 DEF IsRecursion
  <2> QED BY <2>1, <2>2
<1> HIDE DEF T
<1>3. 0 .. N \subseteq T
  BY <1>1, <1>2, RangeInductionOnSet
<1> QED BY <1>3 DEF T

\* F is the recursion over all numbers that begins with a and goes on with g.
IsNatRecursion(F, S, a, g) ==
  F \in [Nat -> S] /\ F[0] = a /\ \A n \in Nat \ {0} : F[n] = g[<<n, F[n - 1]>>]

\* It has a solution, too.
LEMMA RecursionOnNat ==
  ASSUME NEW S, NEW a \in S, NEW g, g \in [(Nat \ {0}) \X S -> S]
  PROVE  \E F : IsNatRecursion(F, S, a, g)
<1> DEFINE Sol(n) == CHOOSE F : IsRecursion(F, S, n, a, g)
           H == [n \in Nat |-> Sol(n)[n]]
<1>1. ASSUME NEW N \in Nat PROVE IsRecursion(Sol(N), S, N, a, g)
  <2> DEFINE h == [p \in (1 .. N) \X S |-> g[p]]
  <2>1. h \in [(1 .. N) \X S -> S]
    <3>1. (1 .. N) \X S \subseteq (Nat \ {0}) \X S
      OBVIOUS
    <3> QED BY <3>1
  <2>2. ASSUME NEW n \in 1 .. N, NEW x \in S PROVE h[<<n, x>>] = g[<<n, x>>]
    OBVIOUS
  <2> HIDE DEF h
  <2>3. PICK F : IsRecursion(F, S, N, a, h)
    BY <2>1, RecursionHasSolution, Zenon
  <2>4. \A n \in 1 .. N : F[n] = g[<<n, F[n - 1]>>]
    <3> TAKE n \in 1 .. N
    <3>1. n - 1 \in 0 .. N
      OBVIOUS
    <3>2. F[n - 1] \in S
      BY <3>1, <2>3 DEF IsRecursion
    <3> QED BY <2>2, <2>3, <3>2 DEF IsRecursion
  <2>5. IsRecursion(F, S, N, a, g)
    BY <2>3, <2>4 DEF IsRecursion
  <2> QED BY <2>5
<1> HIDE DEF Sol
<1>2. \A n \in Nat : Sol(n)[n] \in S
  BY <1>1 DEF IsRecursion
<1>3. H \in [Nat -> S]
  BY <1>2
<1>4. H[0] = a
  BY <1>1 DEF IsRecursion
<1>5. ASSUME NEW n \in Nat \ {0} PROVE H[n] = g[<<n, H[n - 1]>>]
  <2>1. n - 1 \in Nat /\ n \in 1 .. n /\ n - 1 \in 0 .. n - 1 /\ n - 1 <= n
    OBVIOUS
  <2>2. IsRecursion(Sol(n), S, n, a, g) /\ IsRecursion(Sol(n - 1), S, n - 1, a, g)
    BY <1>1, <2>1
  <2>3. Sol(n)[n] = g[<<n, Sol(n)[n - 1]>>]
    BY <2>1, <2>2 DEF IsRecursion
  <2>4. Sol(n - 1)[n - 1] = Sol(n)[n - 1]
    BY <2>1, <2>2, RecursionIsUnique
  <2> QED BY <2>1, <2>3, <2>4
<1> HIDE DEF H
<1> QED BY <1>3, <1>4, <1>5 DEF IsNatRecursion

\* The equations of Pow2.
LEMMA Pow2Recursion ==
  /\ Pow2 \in [Nat -> Nat]
  /\ Pow2[0] = 1
  /\ \A n \in Nat : Pow2[n + 1] = 2 * Pow2[n]
<1> DEFINE g == [p \in (Nat \ {0}) \X Nat |-> 2 * p[2]]
           Solves(f) == f = [k \in Nat |-> IF k = 0 THEN 1 ELSE 2 * f[k - 1]]
<1>1. PICK F \in [Nat -> Nat] : F[0] = 1 /\ \A n \in Nat \ {0} : F[n] = g[<<n, F[n - 1]>>]
  <2> DEFINE S == Nat  a == 1
  <2>1. a \in S /\ g \in [(Nat \ {0}) \X S -> S]
    OBVIOUS
  <2> HIDE DEF S, a, g
  <2>2. PICK F : IsNatRecursion(F, S, a, g)
    BY <2>1, RecursionOnNat, Zenon
  <2> QED BY <2>2 DEF S, a, IsNatRecursion
<1>2. \A n \in Nat \ {0} : F[n] = 2 * F[n - 1]
  <2> TAKE n \in Nat \ {0}
  <2>1. n - 1 \in Nat /\ F[n - 1] \in Nat
    OBVIOUS
  <2> QED BY <1>1, <2>1
<1>3. Solves(F)
  BY <1>1, <1>2
<1>4. Pow2 = CHOOSE f : Solves(f)
  BY DEF Pow2
<1> HIDE DEF Solves
<1>5. Solves(Pow2)
  BY <1>3, <1>4
<1>6. Pow2 = [k \in Nat |-> IF k = 0 THEN 1 ELSE 2 * Pow2[k - 1]]
  BY <1>5 DEF Solves
<1>7. \A n \in Nat : Pow2[n + 1] = 2 * Pow2[n]
  <2> TAKE n \in Nat
  <2>1. n + 1 \in Nat /\ n + 1 # 0 /\ (n + 1) - 1 = n
    OBVIOUS
  <2> QED BY <1>6, <2>1
<1>8. Pow2[0] = 1
  BY <1>6
<1> DEFINE T == {n \in Nat : Pow2[n] \in Nat}
<1>9. \A n \in Nat : n \in T => n + 1 \in T
  BY <1>7
<1>10. 0 \in T
  BY <1>8
<1> HIDE DEF T
<1>11. Nat \subseteq T
  BY <1>9, <1>10, NatInductionOnSet
<1>12. Pow2 \in [Nat -> Nat]
  BY <1>6, <1>11 DEF T
<1> QED BY <1>7, <1>8, <1>12

\* They are positive, and all but the first even.
LEMMA Pow2Positive ==
  /\ \A k \in Nat : Pow2[k] \in Nat \ {0}
  /\ \A k \in Nat \ {0} : k - 1 \in Nat /\ Pow2[k] = 2 * Pow2[k - 1]
<1> DEFINE T == {k \in Nat : Pow2[k] >= 1}
<1>1. 0 \in T /\ \A k \in Nat : k \in T => k + 1 \in T
  BY Pow2Recursion
<1> HIDE DEF T
<1>2. Nat \subseteq T
  BY <1>1, NatInductionOnSet
<1>3. ASSUME NEW k \in Nat \ {0} PROVE k - 1 \in Nat /\ Pow2[k] = 2 * Pow2[k - 1]
  <2>1. k - 1 \in Nat /\ (k - 1) + 1 = k
    OBVIOUS
  <2> QED BY <2>1, Pow2Recursion
<1> QED BY <1>2, <1>3, Pow2Recursion DEF T

\* The power of a sum is the product of the powers.
LEMMA Pow2OfSum == ASSUME NEW i \in Nat, NEW j \in Nat PROVE Pow2[i + j] = Pow2[i] * Pow2[j]
<1> DEFINE T == {k \in Nat : Pow2[i + k] = Pow2[i] * Pow2[k]}
<1>1. 0 \in T
  BY Pow2Recursion
<1>2. ASSUME NEW k \in Nat, k \in T PROVE k + 1 \in T
  <2>1. i + k \in Nat /\ i + (k + 1) = (i + k) + 1
    OBVIOUS
  <2>2. Pow2[i + (k + 1)] = 2 * Pow2[i + k] /\ Pow2[k + 1] = 2 * Pow2[k]
    BY <2>1, Pow2Recursion
  <2>3. Pow2[i] * (2 * Pow2[k]) = 2 * (Pow2[i] * Pow2[k])
    BY Pow2Recursion
  <2> QED BY <1>2, <2>2, <2>3
<1> HIDE DEF T
<1>3. Nat \subseteq T
  BY <1>1, <1>2, NatInductionOnSet
<1> QED BY <1>3 DEF T

\* A power divides the later ones, and the quotient is even.
LEMMA Pow2Divides ==
  ASSUME NEW k \in Nat, NEW n \in Nat, k < n
  PROVE  \E h \in Nat : Pow2[n] = Pow2[k] * (2 * h)
<1>1. n - k \in Nat \ {0} /\ k + (n - k) = n
  OBVIOUS
<1>2. Pow2[n] = Pow2[k] * Pow2[n - k]
  BY <1>1, Pow2OfSum
<1>3. Pow2[n - k] = 2 * Pow2[(n - k) - 1] /\ Pow2[(n - k) - 1] \in Nat
  BY <1>1, Pow2Positive
<1> QED BY <1>2, <1>3

------------------------------------------------------------------------------
(* Quotients and bits *)

\* There is one way to divide with a remainder.
LEMMA QuotientIsUnique ==
  ASSUME NEW m \in Nat \ {0}, NEW q \in Int, NEW r \in 0 .. m - 1
  PROVE  (m * q + r) \div m = q
<1> DEFINE n == m * q + r
           p == n \div m
           s == n % m
<1>1. n \in Int
  OBVIOUS
<1>2. p \in Int /\ s \in 0 .. m - 1 /\ n = m * p + s
  BY <1>1
<1>3. s = r
  BY <1>1, RemainderIsUnique
<1> HIDE DEF p, s
<1>4. m * p = m * q
  <2>1. m * p \in Int /\ m * q \in Int
    BY <1>2
  <2> QED BY <1>2, <1>3, <2>1
<1>5. \A i, j \in Int : i < j => m * i < m * j
  <2> SUFFICES ASSUME NEW i \in Int, NEW j \in Int, i < j PROVE m * (i + 1) <= m * j
    OBVIOUS
  <2> QED OBVIOUS
<1>6. p = q
  BY <1>2, <1>4, <1>5
<1> QED BY <1>6 DEF p

\* Dividing twice is dividing by the product.
LEMMA DividedTwice ==
  ASSUME NEW x \in Int, NEW m \in Nat \ {0}, NEW k \in Nat \ {0}
  PROVE  (x \div m) \div k = x \div (m * k)
<1> DEFINE q == x \div m
           r == x % m
           p == q \div k
           s == q % k
           t == m * s + r
<1>1. q \in Int /\ r \in 0 .. m - 1 /\ x = m * q + r
  OBVIOUS
<1> HIDE DEF q, r
<1>2. p \in Int /\ s \in 0 .. k - 1 /\ q = k * p + s
  BY <1>1
<1> HIDE DEF p, s
<1>3. m * k \in Nat \ {0} /\ m * s \in Nat
  BY <1>2
<1>4. m * s <= m * (k - 1) /\ m * (k - 1) = m * k - m
  BY <1>2
<1>5. t \in 0 .. m * k - 1
  BY <1>1, <1>3, <1>4
<1>6. x = (m * k) * p + t
  <2>1. m * (k * p + s) = (m * k) * p + m * s
    BY <1>2
  <2> QED BY <1>1, <1>2, <2>1
<1> HIDE DEF t
<1>7. x \div (m * k) = p
  BY <1>2, <1>3, <1>5, <1>6, QuotientIsUnique
<1> QED BY <1>7 DEF p, q

\* An even number more does not change the parity.
LEMMA SameParity ==
  ASSUME NEW y \in Int, NEW s \in Int
  PROVE  (2 * y + s) % 2 = s % 2
OBVIOUS

\* What is above a bit does not show in it.
LEMMA BitBelow ==
  ASSUME NEW x \in Int, NEW y \in Int, NEW k \in Nat, NEW n \in Nat, k < n
  PROVE  Bit(Pow2[n] * y + x, k) = Bit(x, k)
<1>1. PICK h \in Nat : Pow2[n] = Pow2[k] * (2 * h)
  BY Pow2Divides
<1> DEFINE m == Pow2[k]
           s == x \div m
           t == x % m
           e == h * y
<1>2. m \in Nat \ {0}
  BY Pow2Positive
<1>3. s \in Int /\ t \in 0 .. m - 1 /\ x = m * s + t /\ e \in Int
  <2> HIDE DEF m
  <2>1. s \in Int /\ t \in 0 .. m - 1 /\ x = m * s + t
    BY <1>2
  <2> QED BY <2>1
<1>4. Pow2[n] * y + x = m * (2 * e + s) + t
  <2>1. (m * (2 * h)) * y = m * (2 * e)
    BY <1>2
  <2>2. m * (2 * e) + m * s = m * (2 * e + s)
    BY <1>2, <1>3
  <2> QED BY <1>1, <1>2, <1>3, <2>1, <2>2
<1> HIDE DEF m, t, e
<1>5. (Pow2[n] * y + x) \div m = 2 * e + s
  <2>1. 2 * e + s \in Int
    BY <1>3
  <2> HIDE DEF s
  <2> QED BY <1>2, <1>3, <1>4, <2>1, QuotientIsUnique
<1>6. (2 * e + s) % 2 = s % 2
  BY <1>3, SameParity
<1> QED BY <1>5, <1>6 DEF Bit, m

\* The bits of the remainder are the low bits.
LEMMA BitOfRemainder ==
  ASSUME NEW x \in Int, NEW k \in Nat, NEW n \in Nat, k < n
  PROVE  Bit(x % Pow2[n], k) = Bit(x, k)
<1> DEFINE q == x \div Pow2[n]
           r == x % Pow2[n]
<1>1. Pow2[n] \in Nat \ {0}
  BY Pow2Positive
<1>2. q \in Int /\ r \in Int /\ x = Pow2[n] * q + r
  BY <1>1
<1> HIDE DEF q, r
<1>3. Bit(Pow2[n] * q + r, k) = Bit(r, k)
  BY <1>2, BitBelow
<1> QED BY <1>2, <1>3 DEF r

\* A bit of a quotient is a higher bit of the dividend.
LEMMA BitOfQuotient ==
  ASSUME NEW x \in Int, NEW k \in Nat, NEW n \in Nat
  PROVE  Bit(x \div Pow2[n], k) = Bit(x, k + n)
<1>1. Pow2[n] \in Nat \ {0} /\ Pow2[k] \in Nat \ {0}
  BY Pow2Positive
<1>2. (x \div Pow2[n]) \div Pow2[k] = x \div (Pow2[n] * Pow2[k])
  BY <1>1, DividedTwice
<1>3. Pow2[n] * Pow2[k] = Pow2[k + n]
  <2>1. Pow2[n + k] = Pow2[n] * Pow2[k] /\ n + k = k + n
    BY Pow2OfSum
  <2> QED BY <2>1
<1> QED BY <1>2, <1>3 DEF Bit

\* A bit of a multiple is a lower bit of the factor, or 0.
LEMMA BitOfMultiple ==
  ASSUME NEW x \in Int, NEW k \in Nat, NEW n \in Nat
  PROVE  Bit(x * Pow2[n], k) = IF k < n THEN 0 ELSE Bit(x, k - n)
<1>1. Pow2[n] \in Nat \ {0} /\ Pow2[k] \in Nat \ {0}
  BY Pow2Positive
<1>2. CASE k < n
  <2>1. Bit(Pow2[n] * x + 0, k) = Bit(0, k)
    BY <1>2, BitBelow
  <2>2. Pow2[n] * x + 0 = x * Pow2[n]
    BY <1>1
  <2>3. Bit(0, k) = 0
    <3>1. 0 \div Pow2[k] = 0
      <4>1. 0 = Pow2[k] * 0 + 0 /\ 0 \in 0 .. Pow2[k] - 1
        BY <1>1
      <4> QED BY <1>1, <4>1, QuotientIsUnique
    <3> QED BY <3>1 DEF Bit
  <2> QED BY <1>2, <2>1, <2>2, <2>3
<1>3. CASE ~(k < n)
  <2>1. k - n \in Nat /\ (k - n) + n = k
    BY <1>3
  <2>2. Bit((x * Pow2[n]) \div Pow2[n], k - n) = Bit(x * Pow2[n], k)
    <3>1. x * Pow2[n] \in Int
      BY <1>1
    <3> DEFINE y == x * Pow2[n]  i == k - n
    <3>2. i \in Nat /\ y \in Int /\ i + n = k
      BY <2>1, <3>1
    <3> HIDE DEF y, i
    <3>3. Bit(y \div Pow2[n], i) = Bit(y, i + n)
      BY <3>2, BitOfQuotient
    <3> QED BY <3>2, <3>3 DEF y, i
  <2>3. (x * Pow2[n]) \div Pow2[n] = x
    <3>1. x * Pow2[n] = Pow2[n] * x + 0 /\ 0 \in 0 .. Pow2[n] - 1
      BY <1>1
    <3> QED BY <1>1, <3>1, QuotientIsUnique
  <2> QED BY <1>3, <2>2, <2>3
<1> QED BY <1>2, <1>3

------------------------------------------------------------------------------
(* Words and their bits *)

\* sum[n] is what the bits in S below n add up to.
IsSumOfBits(sum, S) ==
  /\ sum \in [0 .. WordBits -> Nat]
  /\ sum[0] = 0
  /\ \A n \in 1 .. WordBits :
       sum[n] = sum[n - 1] + (IF n - 1 \in S THEN Pow2[n - 1] ELSE 0)

\* OfBits adds the bits up.
LEMMA OfBitsIsTheSum ==
  ASSUME NEW S
  PROVE  \E sum : IsSumOfBits(sum, S) /\ OfBits(S) = sum[WordBits]
<1> DEFINE N == WordBits
           Add(n, before) == before + (IF n - 1 \in S THEN Pow2[n - 1] ELSE 0)
           g == [p \in (1 .. N) \X Nat |-> Add(p[1], p[2])]
           Solves(f) == f = [n \in 0 .. N |-> IF n = 0 THEN 0 ELSE Add(n, f[n - 1])]
           sum == CHOOSE f : Solves(f)
<1>1. N \in Nat
  BY WordBitsAssumption
<1>2. OfBits(S) = sum[N]
  BY DEF OfBits
<1> HIDE DEF N
<1>3. ASSUME NEW n \in 1 .. N, NEW before \in Nat PROVE Add(n, before) \in Nat
  BY <1>1, Pow2Recursion
<1>4. g \in [(1 .. N) \X Nat -> Nat]
  BY <1>3
<1> HIDE DEF Add
<1>5. PICK F : IsRecursion(F, Nat, N, 0, g)
  <2> DEFINE T == Nat  a == 0
  <2>1. a \in T /\ g \in [(1 .. N) \X T -> T]
    BY <1>4
  <2> HIDE DEF T, a, g, Solves
  <2>2. \E F : IsRecursion(F, T, N, a, g)
    BY <1>1, <2>1, RecursionHasSolution, Zenon
  <2> QED BY <2>2 DEF T, a
<1>6. \A n \in 1 .. N : F[n - 1] \in Nat /\ F[n] = Add(n, F[n - 1])
  <2> TAKE n \in 1 .. N
  <2>1. n - 1 \in 0 .. N
    BY <1>1
  <2>2. F[n - 1] \in Nat
    BY <1>5, <2>1 DEF IsRecursion
  <2> QED BY <1>5, <2>2 DEF IsRecursion
<1>7. Solves(F)
  <2>1. \A n \in 0 .. N : F[n] = IF n = 0 THEN 0 ELSE Add(n, F[n - 1])
    BY <1>1, <1>5, <1>6 DEF IsRecursion
  <2> QED BY <1>5, <2>1 DEF IsRecursion
<1> HIDE DEF Solves
<1>8. Solves(sum)
  BY <1>7
<1> HIDE DEF sum
<1>9. sum = [n \in 0 .. N |-> IF n = 0 THEN 0 ELSE Add(n, sum[n - 1])]
  BY <1>8 DEF Solves
<1>10. \A n \in 1 .. N : sum[n] = Add(n, sum[n - 1])
  BY <1>1, <1>9
<1>11. sum[0] = 0
  BY <1>1, <1>9
<1> DEFINE T == {n \in 0 .. N : sum[n] \in Nat}
<1>12. 0 \in T /\ \A n \in 1 .. N : n - 1 \in T => n \in T
  BY <1>1, <1>3, <1>10, <1>11
<1> HIDE DEF T
<1>13. 0 .. N \subseteq T
  BY <1>1, <1>12, RangeInductionOnSet
<1>14. sum \in [0 .. N -> Nat]
  BY <1>9, <1>13 DEF T
<1>15. IsSumOfBits(sum, S)
  BY <1>10, <1>11, <1>14 DEF IsSumOfBits, Add, N
<1> QED BY <1>2, <1>15 DEF N

\* The bits below n add up to less than 2 to the n.
LEMMA SumOfBitsBelow ==
  ASSUME NEW S, NEW sum, IsSumOfBits(sum, S)
  PROVE  \A n \in 0 .. WordBits : sum[n] \in 0 .. Pow2[n] - 1
<1> DEFINE T == {n \in 0 .. WordBits : sum[n] \in 0 .. Pow2[n] - 1}
<1>1. 0 \in T
  BY WordBitsAssumption, Pow2Recursion DEF IsSumOfBits
<1>2. ASSUME NEW n \in 1 .. WordBits, n - 1 \in T PROVE n \in T
  <2>1. n \in Nat \ {0} /\ n \in 0 .. WordBits
    BY WordBitsAssumption
  <2>2. n - 1 \in Nat /\ Pow2[n] = 2 * Pow2[n - 1] /\ Pow2[n - 1] \in Nat \ {0}
    BY <2>1, Pow2Positive
  <2>3. sum[n - 1] \in 0 .. Pow2[n - 1] - 1
    BY <1>2
  <2>4. sum[n] = sum[n - 1] + (IF n - 1 \in S THEN Pow2[n - 1] ELSE 0)
    BY DEF IsSumOfBits
  <2>5. sum[n] \in 0 .. Pow2[n] - 1
    BY <2>2, <2>3, <2>4
  <2> QED BY <2>1, <2>5
<1> HIDE DEF T
<1>3. 0 .. WordBits \subseteq T
  BY <1>1, <1>2, WordBitsAssumption, RangeInductionOnSet
<1> QED BY <1>3 DEF T

\* Bits make a word.
LEMMA OfBitsInWord == ASSUME NEW S PROVE OfBits(S) \in Word
<1>1. PICK sum : IsSumOfBits(sum, S) /\ OfBits(S) = sum[WordBits]
  BY OfBitsIsTheSum
<1>2. WordBits \in 0 .. WordBits
  BY WordBitsAssumption
<1> QED BY <1>1, <1>2, SumOfBitsBelow, WordBitsAssumption DEF Word

\* The low bits of a word add up to its remainder.
LEMMA SumOfWord ==
  ASSUME NEW w \in Word, NEW sum, IsSumOfBits(sum, BitsOf(w))
  PROVE  \A n \in 0 .. WordBits : sum[n] = w % Pow2[n]
<1> DEFINE T == {n \in 0 .. WordBits : sum[n] = w % Pow2[n]}
<1>w. w \in Nat
  BY WordModFacts DEF Word
<1>1. 0 \in T
  BY <1>w, WordBitsAssumption, Pow2Recursion DEF IsSumOfBits
<1>2. ASSUME NEW n \in 1 .. WordBits, n - 1 \in T PROVE n \in T
  <2> DEFINE m == Pow2[n - 1]
             q == w \div m
             r == w % m
             p == q \div 2
             b == q % 2
  <2>1. n \in Nat \ {0} /\ n \in 0 .. WordBits /\ n - 1 \in 0 .. WordBits - 1
    BY WordBitsAssumption
  <2>2. Pow2[n] = 2 * m /\ m \in Nat \ {0}
    BY <2>1, Pow2Positive
  <2>3. sum[n - 1] = r
    BY <1>2
  <2>4. sum[n] = r + (IF b = 1 THEN m ELSE 0)
    BY <2>1, <2>3 DEF IsSumOfBits, BitsOf
  <2> HIDE DEF m
  <2>5. q \in Int /\ r \in 0 .. m - 1 /\ w = m * q + r
    BY <1>w, <2>2
  <2> HIDE DEF q, r
  <2>6. p \in Int /\ b \in 0 .. 1 /\ q = 2 * p + b
    BY <2>5
  <2> HIDE DEF p, b
  <2>7. w = (2 * m) * p + (m * b + r)
    <3>1. m * (2 * p + b) = (2 * m) * p + m * b
      BY <2>2, <2>6
    <3>2. m * b \in Int /\ (2 * m) * p \in Int
      BY <2>2, <2>6
    <3> QED BY <2>5, <2>6, <3>1, <3>2
  <2>8. m * b = IF b = 1 THEN m ELSE 0
    BY <2>2, <2>6
  <2>9. m * b + r \in 0 .. 2 * m - 1 /\ 2 * m \in Nat \ {0}
    BY <2>2, <2>5, <2>6, <2>8
  <2>10. w % (2 * m) = m * b + r
    BY <1>w, <2>6, <2>7, <2>9, RemainderIsUnique
  <2>11. sum[n] = w % Pow2[n]
    BY <2>2, <2>4, <2>5, <2>8, <2>10
  <2> QED BY <2>1, <2>11
<1> HIDE DEF T
<1>3. 0 .. WordBits \subseteq T
  BY <1>1, <1>2, WordBitsAssumption, RangeInductionOnSet
<1> QED BY <1>3 DEF T

\* A word is made of its bits.
LEMMA WordOfItsBits == ASSUME NEW w \in Word PROVE OfBits(BitsOf(w)) = w
<1>1. PICK sum : IsSumOfBits(sum, BitsOf(w)) /\ OfBits(BitsOf(w)) = sum[WordBits]
  BY OfBitsIsTheSum
<1>2. WordBits \in 0 .. WordBits
  BY WordBitsAssumption
<1>3. sum[WordBits] = w % WordMod
  BY <1>1, <1>2, SumOfWord, WordBitsAssumption
<1>4. w % WordMod = w
  BY WordModFacts DEF Word
<1> QED BY <1>1, <1>3, <1>4

\* The bits that two sets do not share, and twice those they share, make the sum.
LEMMA SumOfSets ==
  ASSUME NEW A, NEW B
  PROVE  OfBits(SymDiff(A, B)) + 2 * OfBits(A \cap B) = OfBits(A) + OfBits(B)
<1>1. PICK x : IsSumOfBits(x, SymDiff(A, B)) /\ OfBits(SymDiff(A, B)) = x[WordBits]
  BY OfBitsIsTheSum
<1>2. PICK c : IsSumOfBits(c, A \cap B) /\ OfBits(A \cap B) = c[WordBits]
  BY OfBitsIsTheSum
<1>3. PICK a : IsSumOfBits(a, A) /\ OfBits(A) = a[WordBits]
  BY OfBitsIsTheSum
<1>4. PICK b : IsSumOfBits(b, B) /\ OfBits(B) = b[WordBits]
  BY OfBitsIsTheSum
<1> DEFINE T == {n \in 0 .. WordBits : x[n] + 2 * c[n] = a[n] + b[n]}
<1>5. 0 \in T
  BY <1>1, <1>2, <1>3, <1>4, WordBitsAssumption DEF IsSumOfBits
<1>6. ASSUME NEW n \in 1 .. WordBits, n - 1 \in T PROVE n \in T
  <2> DEFINE m == Pow2[n - 1]
             xm == x[n - 1]
             cm == c[n - 1]
             am == a[n - 1]
             bm == b[n - 1]
  <2>1. n \in 0 .. WordBits /\ n - 1 \in 0 .. WordBits /\ n - 1 \in Nat
    BY WordBitsAssumption
  <2>2. m \in Nat /\ xm \in Nat /\ cm \in Nat /\ am \in Nat /\ bm \in Nat
    BY <1>1, <1>2, <1>3, <1>4, <2>1, Pow2Recursion DEF IsSumOfBits
  <2>3. xm + 2 * cm = am + bm
    BY <1>6
  <2>4. /\ x[n] = xm + (IF n - 1 \in SymDiff(A, B) THEN m ELSE 0)
        /\ c[n] = cm + (IF n - 1 \in A \cap B THEN m ELSE 0)
        /\ a[n] = am + (IF n - 1 \in A THEN m ELSE 0)
        /\ b[n] = bm + (IF n - 1 \in B THEN m ELSE 0)
    BY <1>1, <1>2, <1>3, <1>4 DEF IsSumOfBits
  <2>5. n - 1 \in SymDiff(A, B) <=> ~(n - 1 \in A <=> n - 1 \in B)
    BY DEF SymDiff
  <2> HIDE DEF m, xm, cm, am, bm
  <2>6. x[n] + 2 * c[n] = a[n] + b[n]
    BY <2>2, <2>3, <2>4, <2>5
  <2> QED BY <2>1, <2>6
<1> HIDE DEF T
<1>7. 0 .. WordBits \subseteq T
  BY <1>5, <1>6, WordBitsAssumption, RangeInductionOnSet
<1>8. WordBits \in T
  BY <1>7, WordBitsAssumption
<1> QED BY <1>1, <1>2, <1>3, <1>4, <1>8 DEF T

------------------------------------------------------------------------------
(* Signed words *)

\* A word has as many values below 0 as from 0 on, and at least 4 bits.
LEMMA HalfOfTheWords ==
  /\ WordBits - 1 \in Nat \ {0}
  /\ WordMod \div 2 = Pow2[WordBits - 1]
  /\ WordMod = 2 * Pow2[WordBits - 1]
  /\ Pow2[WordBits - 1] \in Nat \ {0, 1}
<1>1. WordBits # 0 /\ WordBits \in Nat
  BY WordBitsAssumption, WordModFacts, Pow2Recursion
<1>2. WordMod = 2 * Pow2[WordBits - 1]
  BY <1>1, Pow2Positive, WordBitsAssumption
<1>3. Pow2[WordBits - 1] \in Nat
  BY <1>1, Pow2Recursion
<1>4. WordBits # 1
  BY <1>2, WordModFacts, Pow2Recursion
<1> QED BY <1>1, <1>2, <1>3, <1>4, WordModFacts

\* The signed reading of a word is in the range of an int32_t, and wraps to it.
LEMMA SignedWord ==
  ASSUME NEW w \in Word
  PROVE  /\ Signed(w) \in Int
         /\ -Pow2[WordBits - 1] <= Signed(w) /\ Signed(w) < Pow2[WordBits - 1]
         /\ Signed(w) % WordMod = w
<1> DEFINE h == Pow2[WordBits - 1]
<1>1. WordMod = 2 * h /\ WordMod \div 2 = h /\ h \in Nat \ {0}
  BY HalfOfTheWords
<1> HIDE DEF h
<1>2. w \in 0 .. 2 * h - 1
  BY <1>1 DEF Word
<1>3. Signed(w) = IF w < h THEN w ELSE w - 2 * h
  BY <1>1 DEF Signed
<1>4. Signed(w) % (2 * h) = w
  <2>1. PICK q \in Int : Signed(w) = (2 * h) * q + w
    <3>1. w = (2 * h) * 0 + w /\ w - 2 * h = (2 * h) * (-1) + w
      BY <1>1, <1>2
    <3> QED BY <1>3, <3>1
  <2>2. 2 * h \in Nat \ {0} /\ Signed(w) \in Int
    BY <1>1, <1>2, <1>3
  <2> QED BY <1>2, <2>1, <2>2, RemainderIsUnique
<1>5. Signed(w) \in Int /\ -h <= Signed(w) /\ Signed(w) < h
  BY <1>1, <1>2, <1>3
<1> QED BY <1>1, <1>4, <1>5 DEF h

\* A number in the range of an int32_t survives the conversion.
LEMMA SignedOfWrapped ==
  ASSUME NEW n \in Int, -Pow2[WordBits - 1] <= n, n < Pow2[WordBits - 1]
  PROVE  Signed(Wrap(n)) = n
<1> DEFINE h == Pow2[WordBits - 1]
           w == IF n < 0 THEN n + 2 * h ELSE n
<1>1. WordMod = 2 * h /\ WordMod \div 2 = h /\ h \in Nat \ {0}
  BY HalfOfTheWords
<1>2. -h <= n /\ n < h
  OBVIOUS
<1> HIDE DEF h
<1>3. w \in 0 .. 2 * h - 1
  BY <1>1, <1>2
<1>4. PICK q \in Int : n = (2 * h) * q + w
  <2>1. n = (2 * h) * 0 + n /\ n = (2 * h) * (-1) + (n + 2 * h)
    BY <1>1
  <2> QED BY <2>1
<1>5. n % (2 * h) = w
  <2>1. 2 * h \in Nat \ {0}
    BY <1>1
  <2> HIDE DEF w
  <2> QED BY <1>3, <1>4, <2>1, RemainderIsUnique
<1>6. Wrap(n) = w
  BY <1>1, <1>5 DEF Wrap
<1> QED BY <1>1, <1>2, <1>6 DEF Signed

------------------------------------------------------------------------------
(* Types *)

\* The shift operators shift by less than the bits of a word.
LEMMA ShiftAmountInRange == ASSUME NEW b \in Word PROVE ShiftAmount(b) \in 0 .. WordBits - 1
<1>1. b \in Nat /\ WordBits \in Nat \ {0}
  BY WordModFacts, HalfOfTheWords, WordBitsAssumption DEF Word
<1> QED BY <1>1 DEF ShiftAmount

\* A quotient is an integer.
LEMMA QuotientInt ==
  ASSUME NEW n \in Int, NEW d \in Int \ {0}
  PROVE  Quotient(n, d) \in Int
<1>1. Magnitude(n) \in Nat /\ Magnitude(d) \in Nat \ {0}
  BY DEF Magnitude
<1>2. Magnitude(n) \div Magnitude(d) \in Int
  BY <1>1
<1> QED BY <1>2 DEF Quotient

\* For all operands alu_execute has an outcome, which is a word unless the
\* process dies in a division.
LEMMA OutcomesAreWords ==
  ASSUME NEW o \in ALUOp, NEW a \in Word, NEW b \in Word
  PROVE  /\ alu_execute(o, a, b) # {}
         /\ alu_execute(o, a, b) \subseteq Word \cup {Trap}
         /\ o # "ALU_DIV" => alu_execute(o, a, b) \subseteq Word
<1> DEFINE p == Pow2[ShiftAmount(b)]
<1>1. a \in Nat /\ a < WordMod /\ b \in Nat /\ Signed(a) \in Int /\ Signed(b) \in Int
  BY WordModFacts, SignedWord DEF Word
<1>2. p \in Nat \ {0}
  BY ShiftAmountInRange, Pow2Positive
<1>3. CASE o = "ALU_DIV"
  <2>1. alu_execute(o, a, b) = DivOutcomes(a, b)
    BY <1>3 DEF alu_execute
  <2>2. 0 \in Word
    BY WordModFacts DEF Word
  <2>3. Signed(b) # 0 => Wrap(Quotient(Signed(a), Signed(b))) \in Word
    BY <1>1, QuotientInt, WrapInWord
  <2>4. \/ DivOutcomes(a, b) = {Trap, 0} \/ DivOutcomes(a, b) = {Trap, a}
        \/ Signed(b) # 0 /\ DivOutcomes(a, b) = {Wrap(Quotient(Signed(a), Signed(b)))}
    BY DEF DivOutcomes
  <2> QED BY <1>3, <2>1, <2>2, <2>3, <2>4
<1>4. CASE o = "ALU_SRL"
  <2>1. alu_execute(o, a, b) = {a \div p}
    BY <1>4 DEF alu_execute
  <2> HIDE DEF p
  <2>2. a \div p \in 0 .. a
    BY <1>1, <1>2
  <2>3. a \div p \in Word
    BY <1>1, <2>2, WordModFacts DEF Word
  <2> QED BY <2>1, <2>3
<1>5. CASE o \in {"ALU_ADD", "ALU_SUB", "ALU_SLL", "ALU_SRA", "ALU_MUL"}
  <2>1. /\ o = "ALU_ADD" => alu_execute(o, a, b) = {Wrap(a + b)}
        /\ o = "ALU_SUB" => alu_execute(o, a, b) = {Wrap(a - b)}
        /\ o = "ALU_SLL" => alu_execute(o, a, b) = {Wrap(a * p)}
        /\ o = "ALU_SRA" => alu_execute(o, a, b) = {Wrap(Signed(a) \div p)}
        /\ o = "ALU_MUL" => alu_execute(o, a, b) = {Wrap(Signed(a) * Signed(b))}
    BY DEF alu_execute
  <2> HIDE DEF p
  <2>2. /\ a + b \in Int /\ a - b \in Int /\ a * p \in Int
        /\ Signed(a) \div p \in Int /\ Signed(a) * Signed(b) \in Int
    BY <1>1, <1>2
  <2> QED BY <1>5, <2>1, <2>2, WrapInWord
<1>6. CASE o \in {"ALU_XOR", "ALU_OR", "ALU_AND"}
  <2>1. /\ o = "ALU_XOR" => alu_execute(o, a, b) = {OfBits(SymDiff(BitsOf(a), BitsOf(b)))}
        /\ o = "ALU_OR" => alu_execute(o, a, b) = {OfBits(BitsOf(a) \cup BitsOf(a))}
        /\ o = "ALU_AND" => alu_execute(o, a, b) = {OfBits(BitsOf(a) \cap BitsOf(b))}
    BY DEF alu_execute, ExclusiveOr
  <2> QED BY <1>6, <2>1, OfBitsInWord
<1> QED BY <1>3, <1>4, <1>5, <1>6 DEF ALUOp

\* What the processor assumes of its ALU (AluAssumption of Cpu) holds of this one.
THEOREM ServesTheProcessor ==
  \A o \in RtypeOperations, a, b \in Word :
    alu_execute(o[3], a, b) # {} /\ alu_execute(o[3], a, b) \subseteq Word \cup {Trap}
<1>1. \A o \in RtypeOperations : o[3] \in ALUOp
  BY DEF RtypeOperations, ALUOp
<1> QED BY <1>1, OutcomesAreWords

\* One operation has been executed, on words, or none.
Executed ==
  /\ op \in ALUOp /\ operand1 \in Word /\ operand2 \in Word
  /\ outcome = None \/ outcome \in alu_execute(op, operand1, operand2)

\* That is an invariant.
LEMMA ExecutedInvariant == Spec => []Executed
<1>1. Init => Executed
  BY DEF Init, Executed
<1>2. Executed /\ [Execute]_vars => Executed'
  BY DEF Executed, Execute, vars
<1> QED BY <1>1, <1>2, PTL DEF Spec

\* An operation returns a word, and only a division kills the process.
THEOREM OutcomesAreTyped == Spec => []TypeOK
<1>1. Executed => TypeOK
  <2> SUFFICES ASSUME Executed PROVE TypeOK
    OBVIOUS
  <2>1. CASE outcome = None
    BY <2>1, NoneAssumption DEF TypeOK
  <2>2. CASE outcome \in alu_execute(op, operand1, operand2)
    BY <2>2, OutcomesAreWords, TrapAssumption DEF Executed, TypeOK
  <2> QED BY <2>1, <2>2 DEF Executed
<1> QED BY <1>1, ExecutedInvariant, PTL

------------------------------------------------------------------------------
(* The laws *)

\* The bitwise operations agree with the addition.
THEOREM SumsAgree == Spec => []SumIsXorPlusCarries
<1>1. ASSUME Executed,
             NEW x \in alu_execute("ALU_XOR", operand1, operand2),
             NEW c \in alu_execute("ALU_AND", operand1, operand2),
             Returned("ALU_ADD")
      PROVE  outcome = (x + 2 * c) % WordMod
  <2>1. outcome = Wrap(operand1 + operand2)
    BY <1>1 DEF Executed, Returned, alu_execute
  <2>2. /\ x = OfBits(SymDiff(BitsOf(operand1), BitsOf(operand2)))
        /\ c = OfBits(BitsOf(operand1) \cap BitsOf(operand2))
    BY <1>1 DEF alu_execute, ExclusiveOr
  <2>3. OfBits(BitsOf(operand1)) = operand1 /\ OfBits(BitsOf(operand2)) = operand2
    BY <1>1, WordOfItsBits DEF Executed
  <2>4. x + 2 * c = operand1 + operand2
    BY <2>2, <2>3, SumOfSets
  <2> QED BY <2>1, <2>4 DEF Wrap
<1>2. Executed => SumIsXorPlusCarries
  BY <1>1 DEF SumIsXorPlusCarries
<1> QED BY <1>2, ExecutedInvariant, PTL

\* The quotient of the magnitudes, with the sign of the division, leaves a
\* remainder below the divisor with the sign of the dividend.
LEMMA QuotientTruncates ==
  ASSUME NEW n \in Int, NEW d \in Int \ {0}
  PROVE  LET r == n - d * Quotient(n, d)
         IN  /\ Magnitude(r) < Magnitude(d)
             /\ r = 0 \/ (r < 0) = (n < 0)
<1> DEFINE a == Magnitude(n)
           m == Magnitude(d)
           q == a \div m
           s == a % m
           r == n - d * Quotient(n, d)
<1>1. a \in Nat /\ m \in Nat \ {0}
  BY DEF Magnitude
<1>2. (n = a \/ n = -a) /\ (d = m \/ d = -m) /\ (n < 0 => n = -a) /\ (d < 0 => d = -m)
      /\ (~(n < 0) => n = a) /\ (~(d < 0) => d = m)
  BY DEF Magnitude
<1>3. Quotient(n, d) = IF (n < 0) = (d < 0) THEN q ELSE -q
  BY DEF Quotient
<1> HIDE DEF a, m
<1>4. q \in Int /\ s \in 0 .. m - 1 /\ a = m * q + s
  BY <1>1
<1> HIDE DEF q, s
<1>5. m * q \in Int /\ m * (-q) = -(m * q) /\ (-m) * q = -(m * q) /\ (-m) * (-q) = m * q
  BY <1>1, <1>4
<1>6. d * Quotient(n, d) = IF n < 0 THEN -(m * q) ELSE m * q
  BY <1>2, <1>3, <1>5
<1>7. r = IF n < 0 THEN -s ELSE s
  BY <1>2, <1>4, <1>5, <1>6
<1> HIDE DEF r
<1>8. Magnitude(r) < m
  BY <1>1, <1>4, <1>7 DEF Magnitude
<1>9. r = 0 \/ (r < 0 <=> n < 0)
  BY <1>1, <1>4, <1>7
<1> QED BY <1>8, <1>9 DEF m, r

\* Only one quotient of two int32_t values is no int32_t.
LEMMA QuotientInRange ==
  ASSUME NEW n \in Int, NEW d \in Int \ {0}, NEW h \in Nat \ {0},
         -h <= n, n < h, ~(d = -1 /\ n = -h)
  PROVE  -h <= Quotient(n, d) /\ Quotient(n, d) < h
<1> DEFINE a == Magnitude(n)
           m == Magnitude(d)
           q == a \div m
<1>1. a \in 0 .. h /\ m \in Nat \ {0}
  BY DEF Magnitude
<1>2. q \in 0 .. h
  <2> HIDE DEF a, m
  <2>1. q \in 0 .. a
    BY <1>1
  <2> QED BY <1>1, <2>1
<1>3. ASSUME q = h PROVE a = h /\ m = 1
  <2> HIDE DEF a, m
  <2>1. a = m * q + (a % m) /\ a % m \in 0 .. m - 1
    BY <1>1
  <2>2. m * h <= h
    <3>1. m * h \in Int
      BY <1>1
    <3> QED BY <1>1, <1>3, <2>1, <3>1
  <2>3. m = 1
    <3>1. m > 1 => m * h >= 2 * h
      BY <1>1
    <3> QED BY <1>1, <2>2, <3>1
  <2> QED BY <1>1, <1>3, <2>1, <2>3
<1>4. q = h => (n < 0) # (d < 0)
  BY <1>3 DEF Magnitude
<1>5. Quotient(n, d) = IF (n < 0) = (d < 0) THEN q ELSE -q
  BY DEF Quotient
<1> HIDE DEF q
<1> QED BY <1>2, <1>4, <1>5

\* Division truncates.
THEOREM DivisionsTruncate == Spec => []DivisionTruncates
<1> DEFINE n == Signed(operand1)
           d == Signed(operand2)
           h == Pow2[WordBits - 1]
           q == Quotient(n, d)
<1>1. ASSUME Executed, Returned("ALU_DIV"), d # 0, ~(d = -1 /\ n = -(WordMod \div 2))
      PROVE  LET r == n - d * Signed(outcome)
             IN  /\ Magnitude(r) < Magnitude(d)
                 /\ r = 0 \/ (r < 0) = (n < 0)
  <2>1. n \in Int /\ d \in Int \ {0} /\ -h <= n /\ n < h /\ WordMod \div 2 = h
        /\ h \in Nat \ {0}
    BY <1>1, SignedWord, HalfOfTheWords DEF Executed
  <2>2. outcome = Wrap(q)
    BY <1>1 DEF Executed, Returned, alu_execute, DivOutcomes
  <2> HIDE DEF n, d, h
  <2>3. q \in Int /\ -h <= q /\ q < h
    BY <1>1, <2>1, QuotientInt, QuotientInRange
  <2>4. Signed(outcome) = q
    BY <2>2, <2>3, SignedOfWrapped DEF h
  <2> QED BY <2>1, <2>4, QuotientTruncates
<1>2. Executed => DivisionTruncates
  BY <1>1 DEF DivisionTruncates
<1> QED BY <1>2, ExecutedInvariant, PTL

\* The bits of a word above its last are those of the sign of its signed reading.
LEMMA BitOfSigned ==
  ASSUME NEW w \in Word, NEW k \in Nat
  PROVE  Bit(Signed(w), k) = Bit(w, IF k < WordBits THEN k ELSE WordBits - 1)
<1> DEFINE s == Signed(w)
           h == Pow2[WordBits - 1]
           m == Pow2[k]
<1>1. s \in Int /\ -h <= s /\ s < h /\ s % Pow2[WordBits] = w
  BY SignedWord, WordBitsAssumption
<1>2. h \in Nat \ {0} /\ WordMod = 2 * h /\ WordMod \div 2 = h /\ WordBits - 1 \in Nat
      /\ WordBits \in Nat
  BY HalfOfTheWords, WordBitsAssumption
<1>3. CASE k < WordBits
  <2> HIDE DEF s
  <2>1. Bit(s % Pow2[WordBits], k) = Bit(s, k)
    BY <1>1, <1>2, <1>3, BitOfRemainder
  <2> QED BY <1>1, <1>3, <2>1 DEF s
<1>4. CASE ~(k < WordBits)
  <2>1. m \in Nat \ {0} /\ h <= m
    <3>1. PICK e \in Nat : m = h * (2 * e)
      <4> DEFINE i == WordBits - 1
      <4>1. i \in Nat /\ i < k
        BY <1>2, <1>4
      <4> HIDE DEF i
      <4>2. \E e \in Nat : Pow2[k] = Pow2[i] * (2 * e)
        BY <4>1, Pow2Divides
      <4> QED BY <4>2 DEF i
    <3>2. m \in Nat \ {0}
      BY Pow2Positive
    <3> HIDE DEF h, m
    <3>3. e # 0
      BY <1>2, <3>1, <3>2
    <3>4. h * (2 * e) >= h
      BY <1>2, <3>3
    <3> QED BY <3>1, <3>2, <3>4
  <2>2. s \div m = IF s < 0 THEN -1 ELSE 0
    <3> HIDE DEF s, h, m
    <3>1. CASE s < 0
      <4>1. s = m * (-1) + (s + m) /\ s + m \in 0 .. m - 1
        BY <1>1, <1>2, <2>1, <3>1
      <4> QED BY <2>1, <3>1, <4>1, QuotientIsUnique
    <3>2. CASE ~(s < 0)
      <4>1. s = m * 0 + s /\ s \in 0 .. m - 1
        BY <1>1, <1>2, <2>1, <3>2
      <4> QED BY <2>1, <3>2, <4>1, QuotientIsUnique
    <3> QED BY <3>1, <3>2
  <2>3. w \div h = IF s < 0 THEN 1 ELSE 0
    <3>1. w \in 0 .. 2 * h - 1 /\ s = IF w < h THEN w ELSE w - 2 * h
      BY <1>2 DEF Word, Signed
    <3> HIDE DEF s, h
    <3>2. CASE s < 0
      <4>1. w = h * 1 + (w - h) /\ w - h \in 0 .. h - 1
        BY <1>1, <1>2, <3>1, <3>2
      <4> QED BY <1>2, <3>2, <4>1, QuotientIsUnique
    <3>3. CASE ~(s < 0)
      <4>1. w = h * 0 + w /\ w \in 0 .. h - 1
        BY <1>1, <1>2, <3>1, <3>3
      <4> QED BY <1>2, <3>3, <4>1, QuotientIsUnique
    <3> QED BY <3>2, <3>3
  <2>4. Bit(s, k) = IF s < 0 THEN 1 ELSE 0
    <3>1. (-1) % 2 = 1 /\ 0 % 2 = 0
      <4> DEFINE x == -1
      <4>1. x \in Int /\ x = 2 * x + 1 /\ 1 \in 0 .. 2 - 1 /\ 2 \in Nat \ {0}
        OBVIOUS
      <4> HIDE DEF x
      <4>2. x % 2 = 1
        BY <4>1, RemainderIsUnique
      <4> QED BY <4>2 DEF x
    <3> QED BY <2>2, <3>1 DEF Bit
  <2>5. Bit(w, WordBits - 1) = IF s < 0 THEN 1 ELSE 0
    <3>1. 1 % 2 = 1 /\ 0 % 2 = 0
      OBVIOUS
    <3> QED BY <2>3, <3>1 DEF Bit
  <2> QED BY <1>4, <2>4, <2>5
<1> QED BY <1>3, <1>4

\* A word has no bit beyond its last.
LEMMA NoBitBeyond ==
  ASSUME NEW w \in Word, NEW k \in Nat, ~(k < WordBits)
  PROVE  Bit(w, k) = 0
<1>1. WordBits \in Nat /\ Pow2[WordBits] = WordMod /\ w \in 0 .. WordMod - 1
  BY WordBitsAssumption DEF Word
<1>2. Pow2[k] \in Nat \ {0} /\ WordMod <= Pow2[k]
  <2>1. CASE k = WordBits
    BY <1>1, <2>1, Pow2Positive
  <2>2. CASE k # WordBits
    <3>1. PICK e \in Nat : Pow2[k] = WordMod * (2 * e)
      <4>1. WordBits < k
        BY <1>1, <2>2
      <4>2. \E e \in Nat : Pow2[k] = Pow2[WordBits] * (2 * e)
        BY <1>1, <4>1, Pow2Divides
      <4> QED BY <1>1, <4>2
    <3>2. Pow2[k] \in Nat \ {0} /\ WordMod \in Nat
      BY Pow2Positive, WordModFacts
    <3>3. e # 0
      BY <3>1, <3>2
    <3>4. WordMod * (2 * e) >= WordMod
      BY <3>2, <3>3
    <3> QED BY <3>1, <3>2, <3>4
  <2> QED BY <2>1, <2>2
<1>3. w \div Pow2[k] = 0
  <2>1. w \in Nat /\ w < Pow2[k]
    BY <1>1, <1>2, WordModFacts
  <2>2. w = Pow2[k] * 0 + w /\ w \in 0 .. Pow2[k] - 1
    BY <1>2, <2>1
  <2> QED BY <1>2, <2>2, QuotientIsUnique
<1>4. 0 % 2 = 0
  OBVIOUS
<1> QED BY <1>3, <1>4 DEF Bit

\* Each shift puts every bit where it belongs.
LEMMA ShiftedBits ==
  ASSUME NEW w \in Word, NEW n \in 0 .. WordBits - 1, NEW k \in 0 .. WordBits - 1
  PROVE  /\ Bit(Wrap(w * Pow2[n]), k) = IF k < n THEN 0 ELSE Bit(w, k - n)
         /\ Bit(w \div Pow2[n], k) = IF k + n < WordBits THEN Bit(w, k + n) ELSE 0
         /\ Bit(Wrap(Signed(w) \div Pow2[n]), k) =
              Bit(w, IF k + n < WordBits THEN k + n ELSE WordBits - 1)
<1>1. /\ WordBits \in Nat /\ Pow2[WordBits] = WordMod /\ n \in Nat /\ k \in Nat
      /\ k < WordBits /\ k + n \in Nat
  BY WordBitsAssumption
<1>2. w \in Int /\ Signed(w) \in Int /\ Pow2[n] \in Nat \ {0}
  BY <1>1, SignedWord, WordModFacts, Pow2Positive DEF Word
<1>3. w * Pow2[n] \in Int /\ Signed(w) \div Pow2[n] \in Int
  BY <1>2
<1>4. \A x \in Int : Bit(Wrap(x), k) = Bit(x, k)
  BY <1>1, BitOfRemainder DEF Wrap
<1>5. Bit(w * Pow2[n], k) = IF k < n THEN 0 ELSE Bit(w, k - n)
  BY <1>1, <1>2, BitOfMultiple
<1>6. Bit(w \div Pow2[n], k) = IF k + n < WordBits THEN Bit(w, k + n) ELSE 0
  <2>1. Bit(w \div Pow2[n], k) = Bit(w, k + n)
    BY <1>1, <1>2, BitOfQuotient
  <2>2. ~(k + n < WordBits) => Bit(w, k + n) = 0
    BY <1>1, NoBitBeyond
  <2> QED BY <2>1, <2>2
<1>7. Bit(Signed(w) \div Pow2[n], k) = Bit(w, IF k + n < WordBits THEN k + n ELSE WordBits - 1)
  <2>1. Bit(Signed(w) \div Pow2[n], k) = Bit(Signed(w), k + n)
    BY <1>1, <1>2, BitOfQuotient
  <2> QED BY <1>1, <2>1, BitOfSigned
<1> QED BY <1>3, <1>4, <1>5, <1>6, <1>7

\* Shifts move every bit by the low bits of the second operand.
THEOREM ShiftsAreExact == Spec => []ShiftsMoveBits
<1> DEFINE n == operand2 % WordBits
<1>1. ASSUME Executed, NEW k \in 0 .. WordBits - 1
      PROVE  /\ Returned("ALU_SLL") =>
                  Bit(outcome, k) = IF k < n THEN 0 ELSE Bit(operand1, k - n)
             /\ Returned("ALU_SRL") =>
                  Bit(outcome, k) = IF k + n < WordBits THEN Bit(operand1, k + n) ELSE 0
             /\ Returned("ALU_SRA") =>
                  Bit(outcome, k) =
                    Bit(operand1, IF k + n < WordBits THEN k + n ELSE WordBits - 1)
  <2>1. n \in 0 .. WordBits - 1 /\ operand1 \in Word
    BY <1>1, ShiftAmountInRange DEF Executed, ShiftAmount
  <2>2. /\ Returned("ALU_SLL") => outcome = Wrap(operand1 * Pow2[n])
        /\ Returned("ALU_SRL") => outcome = operand1 \div Pow2[n]
        /\ Returned("ALU_SRA") => outcome = Wrap(Signed(operand1) \div Pow2[n])
    BY <1>1 DEF Executed, Returned, alu_execute, ShiftAmount
  <2> HIDE DEF n
  <2> QED BY <2>1, <2>2, ShiftedBits
<1>2. Executed => ShiftsMoveBits
  BY <1>1 DEF ShiftsMoveBits
<1> QED BY <1>2, ExecutedInvariant, PTL
===============================================================================
