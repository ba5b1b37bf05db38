----------------------------- MODULE CommentsProofs -----------------------------
(***************************************************************************)
(* What the three passes over a text leave of it, for every text and every *)
(* size of a line.                                                         *)
(***************************************************************************)
EXTENDS Comments, WordProofs

------------------------------------------------------------------------------
(* Searching *)

\* The characters of b from i on, looked up in the text t, begin with s.
Match(t, b, i, s) ==
  i + Len(s) - 1 <= Len(b) /\ \A k \in 1 .. Len(s) : t[b[i + k - 1]] = s[k]

\* S holds the first match of s in b from from on, if there is one.
Found(t, b, from, s, S) ==
  \/ S = {} /\ \A i \in from .. Len(b) : ~Match(t, b, i, s)
  \/ \E i \in from .. Len(b) :
       S = {i} /\ Match(t, b, i, s) /\ \A j \in from .. i - 1 : ~Match(t, b, j, s)

\* That is what strstr returns.
LEMMA SearchFinds ==
  ASSUME NEW b, Len(b) \in Nat, NEW from \in Nat, NEW s
  PROVE  Found(text, b, from, s, strstr(b, from, s))
<1> DEFINE T == {i \in from .. Len(b) : Match(text, b, i, s)}
<1>1. \A i : Holds(b, i, s) <=> Match(text, b, i, s)
  BY DEF Holds, Match
<1>2. strstr(b, from, s) = {i \in from .. Len(b) :
          Match(text, b, i, s) /\ \A j \in from .. i - 1 : ~Match(text, b, j, s)}
  BY <1>1 DEF strstr
<1>3. CASE T = {}
  BY <1>2, <1>3 DEF Found
<1>4. CASE T # {}
  <2>1. PICK m \in T : \A n \in T : m <= n
    <3>1. T \in SUBSET Nat
      OBVIOUS
    <3> HIDE DEF T
    <3> QED BY <1>4, <3>1, LeastNumber
  <2>2. m \in from .. Len(b) /\ m \in Nat /\ Match(text, b, m, s)
    OBVIOUS
  <2>3. \A j \in from .. m - 1 : ~Match(text, b, j, s)
    <3> SUFFICES ASSUME NEW j \in from .. m - 1, Match(text, b, j, s) PROVE FALSE
      OBVIOUS
    <3>1. j \in T
      BY <2>2
    <3> QED BY <2>1, <2>2, <3>1
  <2>4. \A i \in from .. Len(b) :
          Match(text, b, i, s) /\ (\A j \in from .. i - 1 : ~Match(text, b, j, s)) => i = m
    <3> SUFFICES ASSUME NEW i \in from .. Len(b), Match(text, b, i, s), i # m,
                        \A j \in from .. i - 1 : ~Match(text, b, j, s)
                 PROVE  FALSE
      OBVIOUS
    <3>1. i \in T /\ m <= i
      BY <2>1
    <3>2. m \in from .. i - 1
      BY <2>2, <3>1
    <3> QED BY <2>2, <3>2
  <2>5. strstr(b, from, s) = {m}
    BY <1>2, <2>2, <2>3, <2>4
  <2> QED BY <2>2, <2>3, <2>5 DEF Found
<1> QED BY <1>3, <1>4

\* Matches of two characters and of one.
LEMMA MatchOfTwo ==
  ASSUME NEW t, NEW b, Len(b) \in Nat, NEW i \in Nat, NEW x, NEW y
  PROVE  Match(t, b, i, <<x, y>>) <=> i + 1 <= Len(b) /\ t[b[i]] = x /\ t[b[i + 1]] = y
<1> DEFINE s == <<x, y>>
<1>1. Len(s) = 2 /\ s[1] = x /\ s[2] = y /\ 1 .. 2 = {1, 2}
  OBVIOUS
<1> HIDE DEF s
<1>2. i + 1 - 1 = i /\ i + 2 - 1 = i + 1
  OBVIOUS
<1>3. Match(t, b, i, s) <=> i + 1 <= Len(b) /\ t[b[i]] = x /\ t[b[i + 1]] = y
  BY <1>1, <1>2 DEF Match
<1> QED BY <1>3 DEF s

LEMMA MatchOfOne ==
  ASSUME NEW t, NEW b, Len(b) \in Nat, NEW i \in Nat, NEW x
  PROVE  Match(t, b, i, <<x>>) <=> i <= Len(b) /\ t[b[i]] = x
<1> DEFINE s == <<x>>
<1>1. Len(s) = 1 /\ s[1] = x /\ 1 .. 1 = {1}
  OBVIOUS
<1> HIDE DEF s
<1>2. i + 1 - 1 = i
  OBVIOUS
<1>3. Match(t, b, i, s) <=> i <= Len(b) /\ t[b[i]] = x
  BY <1>1, <1>2 DEF Match
<1> QED BY <1>3 DEF s

\* Two characters of the text itself.
Pair(t, p, x, y) == p + 1 <= Len(t) /\ t[p] = x /\ t[p + 1] = y

OpenAt(t, p)    == Pair(t, p, "/", "*")
CloseAt(t, p)   == Pair(t, p, "*", "/")
SlashesAt(t, p) == Pair(t, p, "/", "/")

LEMMA PairInText ==
  ASSUME text \in Seq(STRING), NEW p \in 1 .. Len(text), NEW x, NEW y
  PROVE  At(p, <<x, y>>) <=> Pair(text, p, x, y)
<1> DEFINE b == [i \in 1 .. Len(text) |-> i]
<1>1. Len(text) \in Nat
  OBVIOUS
<1>2. Len(b) = Len(text) /\ \A i \in 1 .. Len(text) : b[i] = i
  BY <1>1
<1>3. At(p, <<x, y>>) <=> Match(text, b, p, <<x, y>>)
  BY DEF At, Holds, Match
<1> HIDE DEF b
<1>4. Match(text, b, p, <<x, y>>) <=> p + 1 <= Len(b) /\ text[b[p]] = x /\ text[b[p + 1]] = y
  BY <1>1, <1>2, MatchOfTwo
<1>5. p + 1 <= Len(text) => p + 1 \in 1 .. Len(text)
  BY <1>1
<1> QED BY <1>2, <1>3, <1>4, <1>5 DEF Pair

------------------------------------------------------------------------------
(* Readings *)

\* The role of the character before p.
Before(r, p) == IF p = 1 THEN "code" ELSE r[p - 1]

BlockStep(t, before, p) ==
  IF before = "close" THEN "closed"
  ELSE IF before \in {"open", "block"}
       THEN IF CloseAt(t, p) THEN "close" ELSE "block"
       ELSE IF OpenAt(t, p) THEN "open" ELSE "code"

Step(t, before, p) ==
  IF before = "open" THEN "opened"
  ELSE IF before = "close" THEN "closed"
  ELSE IF before \in {"opened", "block"}
       THEN IF CloseAt(t, p) THEN "close" ELSE "block"
  ELSE IF before = "line" /\ t[p] # "\n" THEN "line"
  ELSE IF OpenAt(t, p) THEN "open"
  ELSE IF SlashesAt(t, p) \/ t[p] = "#" THEN "line"
  ELSE "code"

\* r is the reading of t by who knows block comments only, or all comments.
BlockReading(t, r) ==
  DOMAIN r = 1 .. Len(t) /\ \A p \in 1 .. Len(t) : r[p] = BlockStep(t, Before(r, p), p)

Reading(t, r) ==
  DOMAIN r = 1 .. Len(t) /\ \A p \in 1 .. Len(t) : r[p] = Step(t, Before(r, p), p)

\* Role and BlockRole are these steps.
LEMMA StepsAreRoles ==
  ASSUME text \in Seq(STRING), NEW p \in 1 .. Len(text), NEW before
  PROVE  /\ BlockRole(before, p) = BlockStep(text, before, p)
         /\ Role(before, p) = Step(text, before, p)
<1>1. /\ At(p, Open) <=> OpenAt(text, p)
      /\ At(p, Close) <=> CloseAt(text, p)
      /\ At(p, <<"/", "/">>) <=> SlashesAt(text, p)
  BY PairInText DEF Open, Close, OpenAt, CloseAt, SlashesAt
<1>2. ~(OpenAt(text, p) /\ (SlashesAt(text, p) \/ text[p] = "#"))
  BY DEF OpenAt, SlashesAt, Pair
<1>3. BlockRole(before, p) = BlockStep(text, before, p)
  BY <1>1 DEF BlockRole, BlockStep
<1>4. Role(before, p) = Step(text, before, p)
  BY <1>1, <1>2 DEF Role, Step
<1> QED BY <1>3, <1>4

\* The roles that the steps give.
RoleName == {"open", "opened", "block", "close", "closed", "line", "code"}

LEMMA StepsGiveRoles ==
  ASSUME NEW t, NEW before, NEW p
  PROVE  BlockStep(t, before, p) \in RoleName /\ Step(t, before, p) \in RoleName
BY DEF BlockStep, Step, RoleName

\* BlockRoles is the reading of who knows block comments only.
LEMMA BlockRolesRead == ASSUME text \in Seq(STRING) PROVE BlockReading(text, BlockRoles)
<1> DEFINE N == Len(text)
           g == [q \in (1 .. N) \X RoleName |-> BlockStep(text, q[2], q[1])]
           Solves(f) ==
             f = [p \in 1 .. N |-> BlockRole(IF p = 1 THEN "code" ELSE f[p - 1], p)]
           role == CHOOSE f : Solves(f)
<1>1. N \in Nat
  OBVIOUS
<1>2. BlockRoles = [p \in 1 .. N |-> role[p]]
  BY DEF BlockRoles
<1>3. ASSUME NEW p \in 1 .. N, NEW before
      PROVE  /\ BlockStep(text, before, p) = BlockRole(before, p)
             /\ BlockStep(text, before, p) \in RoleName
  <2>1. BlockStep(text, before, p) = BlockRole(before, p)
    BY StepsAreRoles
  <2>2. BlockStep(text, before, p) \in RoleName
    BY StepsGiveRoles
  <2> QED BY <2>1, <2>2
<1> HIDE DEF N
<1>4. g \in [(1 .. N) \X RoleName -> RoleName]
  BY <1>3
<1>5. PICK F : IsRecursion(F, RoleName, N, "code", g)
  <2> HIDE DEF g, Solves
  <2> DEFINE S == RoleName  a == "code"
  <2>1. a \in S
    BY DEF RoleName
  <2>2. g \in [(1 .. N) \X S -> S]
    BY <1>4, Zenon
  <2> HIDE DEF S, a
  <2>3. \E F : IsRecursion(F, S, N, a, g)
    BY <1>1, <2>1, <2>2, RecursionHasSolution, Zenon
  <2> QED BY <2>3 DEF S, a
<1> DEFINE f == [p \in 1 .. N |-> F[p]]
<1>6. \A p \in 1 .. N : F[p] = BlockRole(IF p = 1 THEN "code" ELSE f[p - 1], p)
  <2> TAKE p \in 1 .. N
  <2>1. p - 1 \in 0 .. N /\ (p # 1 => p - 1 \in 1 .. N)
    BY <1>1
  <2>2. F[p - 1] \in RoleName /\ F[p] = g[<<p, F[p - 1]>>] /\ F[0] = "code"
    BY <1>5, <2>1 DEF IsRecursion
  <2>3. g[<<p, F[p - 1]>>] = BlockStep(text, F[p - 1], p)
    BY <2>2
  <2>4. F[p - 1] = IF p = 1 THEN "code" ELSE f[p - 1]
    BY <2>1, <2>2
  <2> HIDE DEF f, g
  <2> QED BY <1>3, <2>2, <2>3, <2>4
<1>7. Solves(f)
  <2>1. \A p \in 1 .. N : f[p] = BlockRole(IF p = 1 THEN "code" ELSE f[p - 1], p)
    BY <1>6
  <2>2. f = [p \in 1 .. N |-> f[p]]
    OBVIOUS
  <2> HIDE DEF f
  <2> QED BY <2>1, <2>2, Zenon
<1> HIDE DEF Solves, f
<1>8. Solves(role)
  BY <1>7
<1> HIDE DEF role
<1>9. role = [p \in 1 .. N |-> BlockRole(IF p = 1 THEN "code" ELSE role[p - 1], p)]
  BY <1>8 DEF Solves
<1>10. \A p \in 1 .. N : role[p] = BlockRole(IF p = 1 THEN "code" ELSE role[p - 1], p)
  BY <1>9
<1>11. DOMAIN BlockRoles = 1 .. N /\ \A p \in 1 .. N : BlockRoles[p] = role[p]
  BY <1>2
<1>12. ASSUME NEW p \in 1 .. N PROVE BlockRoles[p] = BlockStep(text, Before(BlockRoles, p), p)
  <2>1. Before(BlockRoles, p) = IF p = 1 THEN "code" ELSE role[p - 1]
    <3>1. p # 1 => p - 1 \in 1 .. N
      BY <1>1
    <3> QED BY <1>11, <3>1 DEF Before
  <2> QED BY <1>3, <1>10, <1>11, <2>1
<1> QED BY <1>11, <1>12 DEF BlockReading, N

\* Roles is the reading of who knows all comments.
LEMMA RolesRead == ASSUME text \in Seq(STRING) PROVE Reading(text, Roles)
<1> DEFINE N == Len(text)
           g == [q \in (1 .. N) \X RoleName |-> Step(text, q[2], q[1])]
           Solves(f) ==
             f = [p \in 1 .. N |-> Role(IF p = 1 THEN "code" ELSE f[p - 1], p)]
           role == CHOOSE f : Solves(f)
<1>1. N \in Nat
  OBVIOUS
<1>2. Roles = [p \in 1 .. N |-> role[p]]
  BY DEF Roles
<1>3. ASSUME NEW p \in 1 .. N, NEW before
      PROVE  Step(text, before, p) = Role(before, p) /\ Step(text, before, p) \in RoleName
  <2>1. Step(text, before, p) = Role(before, p)
    BY StepsAreRoles
  <2>2. Step(text, before, p) \in RoleName
    BY StepsGiveRoles
  <2> QED BY <2>1, <2>2
<1> HIDE DEF N
<1>4. g \in [(1 .. N) \X RoleName -> RoleName]
  BY <1>3
<1>5. PICK F : IsRecursion(F, RoleName, N, "code", g)
  <2> HIDE DEF g, Solves
  <2> DEFINE S == RoleName  a == "code"
  <2>1. a \in S
    BY DEF RoleName
  <2>2. g \in [(1 .. N) \X S -> S]
    BY <1>4, Zenon
  <2> HIDE DEF S, a
  <2>3. \E F : IsRecursion(F, S, N, a, g)
    BY <1>1, <2>1, <2>2, RecursionHasSolution, Zenon
  <2> QED BY <2>3 DEF S, a
<1> DEFINE f == [p \in 1 .. N |-> F[p]]
<1>6. \A p \in 1 .. N : F[p] = Role(IF p = 1 THEN "code" ELSE f[p - 1], p)
  <2> TAKE p \in 1 .. N
  <2>1. p - 1 \in 0 .. N /\ (p # 1 => p - 1 \in 1 .. N)
    BY <1>1
  <2>2. F[p - 1] \in RoleName /\ F[p] = g[<<p, F[p - 1]>>] /\ F[0] = "code"
    BY <1>5, <2>1 DEF IsRecursion
  <2>3. g[<<p, F[p - 1]>>] = Step(text, F[p - 1], p)
    BY <2>2
  <2>4. F[p - 1] = IF p = 1 THEN "code" ELSE f[p - 1]
    BY <2>1, <2>2
  <2> HIDE DEF f, g
  <2> QED BY <1>3, <2>2, <2>3, <2>4
<1>7. Solves(f)
  <2>1. \A p \in 1 .. N : f[p] = Role(IF p = 1 THEN "code" ELSE f[p - 1], p)
    BY <1>6
  <2>2. f = [p \in 1 .. N |-> f[p]]
    OBVIOUS
  <2> HIDE DEF f
  <2> QED BY <2>1, <2>2, Zenon
<1> HIDE DEF Solves, f
<1>8. Solves(role)
  BY <1>7
<1> HIDE DEF role
<1>9. role = [p \in 1 .. N |-> Role(IF p = 1 THEN "code" ELSE role[p - 1], p)]
  BY <1>8 DEF Solves
<1>10. \A p \in 1 .. N : role[p] = Role(IF p = 1 THEN "code" ELSE role[p - 1], p)
  BY <1>9
<1>11. DOMAIN Roles = 1 .. N /\ \A p \in 1 .. N : Roles[p] = role[p]
  BY <1>2
<1>12. ASSUME NEW p \in 1 .. N PROVE Roles[p] = Step(text, Before(Roles, p), p)
  <2>1. Before(Roles, p) = IF p = 1 THEN "code" ELSE role[p - 1]
    <3>1. p # 1 => p - 1 \in 1 .. N
      BY <1>1
    <3> QED BY <1>11, <3>1 DEF Before
  <2> QED BY <1>3, <1>10, <1>11, <2>1
<1> QED BY <1>11, <1>12 DEF Reading, N

------------------------------------------------------------------------------
(* The removal of block comments *)

\* Nothing is open before p.
Fresh(r, p) == Before(r, p) \in {"code", "closed"}

\* From a fresh place to the next opening there is code.
LEMMA CodeUpToOpening ==
  ASSUME NEW t, Len(t) \in Nat, NEW r, BlockReading(t, r),
         NEW c \in Nat \ {0}, NEW d \in Nat, c <= d, d <= Len(t) + 1, Fresh(r, c),
         \A p \in c .. d - 1 : ~OpenAt(t, p)
  PROVE  (\A p \in c .. d - 1 : r[p] = "code") /\ Fresh(r, d)
<1> DEFINE N == d - c
           T == {k \in 0 .. N : Fresh(r, c + k) /\ (k # 0 => r[c + k - 1] = "code")}
<1>1. N \in Nat /\ 0 \in T
  OBVIOUS
<1>2. ASSUME NEW k \in 1 .. N, k - 1 \in T PROVE k \in T
  <2> DEFINE p == c + k - 1
  <2>1. p \in c .. d - 1 /\ p \in 1 .. Len(t) /\ c + (k - 1) = p /\ c + k = p + 1
        /\ p + 1 # 1 /\ p + 1 - 1 = p
    OBVIOUS
  <2>2. Before(r, p) \in {"code", "closed"}
    BY <1>2, <2>1 DEF Fresh
  <2> HIDE DEF p
  <2>3. r[p] = "code"
    BY <2>1, <2>2 DEF BlockReading, BlockStep
  <2>4. Fresh(r, c + k) /\ r[c + k - 1] = "code"
    BY <2>1, <2>3 DEF Fresh, Before
  <2> QED BY <2>4
<1> HIDE DEF T
<1>3. 0 .. N \subseteq T
  BY <1>1, <1>2, RangeInductionOnSet
<1>4. ASSUME NEW p \in c .. d - 1 PROVE r[p] = "code"
  <2>1. p - c + 1 \in 0 .. N /\ p - c + 1 # 0 /\ c + (p - c + 1) - 1 = p
    OBVIOUS
  <2> HIDE DEF N
  <2>2. p - c + 1 \in T
    BY <1>3, <2>1
  <2> QED BY <2>1, <2>2 DEF T
<1>5. Fresh(r, d)
  <2>1. N \in 0 .. N /\ c + N = d
    OBVIOUS
  <2> HIDE DEF N
  <2>2. N \in T
    BY <1>3, <2>1
  <2> QED BY <2>1, <2>2 DEF T
<1> QED BY <1>4, <1>5

\* From an opening to the next closing there is no code.
LEMMA BlockUpToClosing ==
  ASSUME NEW t, Len(t) \in Nat, NEW r, BlockReading(t, r),
         NEW o \in Nat \ {0}, NEW d \in Nat, o < d, d <= Len(t) + 1, r[o] = "open",
         \A p \in o + 1 .. d - 1 : ~CloseAt(t, p)
  PROVE  /\ \A p \in o .. d - 1 : r[p] \in {"open", "block"}
<1> DEFINE N == d - 1 - o
           T == {k \in 0 .. N : r[o + k] \in {"open", "block"}}
<1>1. N \in Nat /\ 0 \in T
  OBVIOUS
<1>2. ASSUME NEW k \in 1 .. N, k - 1 \in T PROVE k \in T
  <2> DEFINE p == o + k
  <2>1. p \in o + 1 .. d - 1 /\ p \in 1 .. Len(t) /\ o + (k - 1) = p - 1 /\ p # 1
    OBVIOUS
  <2>2. Before(r, p) \in {"open", "block"}
    BY <1>2, <2>1 DEF Before
  <2> HIDE DEF p
  <2>3. r[p] = "block"
    BY <2>1, <2>2 DEF BlockReading, BlockStep
  <2> QED BY <2>3 DEF p
<1> HIDE DEF T
<1>3. 0 .. N \subseteq T
  BY <1>1, <1>2, RangeInductionOnSet
<1> SUFFICES ASSUME NEW p \in o .. d - 1 PROVE r[p] \in {"open", "block"}
  OBVIOUS
<1>4. p - o \in 0 .. N /\ o + (p - o) = p
  OBVIOUS
<1> HIDE DEF N
<1>5. p - o \in T
  BY <1>3, <1>4
<1> QED BY <1>4, <1>5 DEF T

LEMMA BeforeNext == ASSUME NEW r, NEW p \in Nat \ {0} PROVE Before(r, p + 1) = r[p]
<1>1. p + 1 # 1 /\ p + 1 - 1 = p
  OBVIOUS
<1> QED BY <1>1 DEF Before

\* The first m places of b hold the code before c, in order.
Kept(r, b, m, c) ==
  /\ \A i \in 1 .. m : b[i] \in 1 .. c - 1 /\ r[b[i]] = "code"
  /\ \A p \in 1 .. c - 1 : r[p] = "code" => \E i \in 1 .. m : b[i] = p
  /\ \A i, j \in 1 .. m : i < j => b[i] < b[j]

\* From place m on b holds the rest of a text of n characters, from c on.
Rest(b, m, c, n) ==
  /\ m + 1 <= Len(b) + 1 /\ n - c = Len(b) - (m + 1)
  /\ \A i \in m + 1 .. Len(b) : b[i] = i - (m + 1) + c

\* More code is kept.
LEMMA KeptCode ==
  ASSUME NEW r, NEW b, NEW m \in Nat, NEW c \in Nat \ {0}, NEW l \in Nat,
         Kept(r, b, m, c),
         \A i \in m + 1 .. m + l : b[i] = i - (m + 1) + c,
         \A p \in c .. c + l - 1 : r[p] = "code"
  PROVE  Kept(r, b, m + l, c + l)
<1>1. ASSUME NEW i \in 1 .. m + l PROVE b[i] \in 1 .. c + l - 1 /\ r[b[i]] = "code"
  <2>1. CASE i \in 1 .. m
    BY <2>1 DEF Kept
  <2>2. CASE i \in m + 1 .. m + l
    <3>1. b[i] = i - (m + 1) + c /\ b[i] \in c .. c + l - 1
      BY <2>2
    <3> QED BY <3>1
  <2> QED BY <2>1, <2>2
<1>2. ASSUME NEW p \in 1 .. c + l - 1, r[p] = "code" PROVE \E i \in 1 .. m + l : b[i] = p
  <2>1. CASE p \in 1 .. c - 1
    <3>1. PICK i \in 1 .. m : b[i] = p
      BY <1>2, <2>1 DEF Kept
    <3> QED BY <3>1
  <2>2. CASE p \in c .. c + l - 1
    <3> DEFINE i == p - c + (m + 1)
    <3>1. i \in m + 1 .. m + l /\ i \in 1 .. m + l /\ i - (m + 1) + c = p
      BY <2>2
    <3> HIDE DEF i
    <3> QED BY <3>1
  <2> QED BY <2>1, <2>2
<1>3. ASSUME NEW i \in 1 .. m + l, NEW j \in 1 .. m + l, i < j PROVE b[i] < b[j]
  <2>1. CASE j \in 1 .. m
    BY <1>3, <2>1 DEF Kept
  <2>2. CASE j \in m + 1 .. m + l /\ i \in 1 .. m
    <3>1. b[j] = j - (m + 1) + c /\ b[i] \in 1 .. c - 1
      BY <2>2 DEF Kept
    <3> QED BY <2>2, <3>1
  <2>3. CASE j \in m + 1 .. m + l /\ i \in m + 1 .. m + l
    BY <1>3, <2>3
  <2> QED BY <2>1, <2>2, <2>3
<1> QED BY <1>1, <1>2, <1>3 DEF Kept

\* What is not code is passed over.
LEMMA KeptBeyond ==
  ASSUME NEW r, NEW b, NEW m \in Nat, NEW c \in Nat \ {0}, NEW d \in Nat, c <= d,
         Kept(r, b, m, c),
         \A p \in c .. d - 1 : r[p] # "code"
  PROVE  Kept(r, b, m, d)
<1>1. ASSUME NEW i \in 1 .. m PROVE b[i] \in 1 .. d - 1 /\ r[b[i]] = "code"
  <2>1. b[i] \in 1 .. c - 1 /\ r[b[i]] = "code"
    BY DEF Kept
  <2> QED BY <2>1
<1>2. ASSUME NEW p \in 1 .. d - 1, r[p] = "code" PROVE \E i \in 1 .. m : b[i] = p
  <2>1. p \in 1 .. c - 1
    BY <1>2
  <2> QED BY <1>2, <2>1 DEF Kept
<1> QED BY <1>1, <1>2 DEF Kept

\* Only the first m places matter.
LEMMA KeptAlike ==
  ASSUME NEW r, NEW b, NEW e, NEW m \in Nat, NEW c,
         Kept(r, b, m, c), \A i \in 1 .. m : e[i] = b[i]
  PROVE  Kept(r, e, m, c)
BY DEF Kept

\* In the rest of the text, places next to each other are characters next to
\* each other.
LEMMA MatchInRest ==
  ASSUME NEW t, Len(t) \in Nat, NEW b, Len(b) \in Nat, NEW m \in Nat, NEW c \in Nat \ {0},
         Rest(b, m, c, Len(t)), NEW i \in m + 1 .. Len(b), NEW x, NEW y
  PROVE  /\ i - (m + 1) + c \in 1 .. Len(t)
         /\ Match(t, b, i, <<x, y>>) <=> Pair(t, i - (m + 1) + c, x, y)
<1>1. /\ i - (m + 1) + c \in 1 .. Len(t)
      /\ i + 1 <= Len(b) <=> i - (m + 1) + c + 1 <= Len(t)
  BY DEF Rest
<1>2. b[i] = i - (m + 1) + c
  BY DEF Rest
<1>3. i + 1 <= Len(b) => b[i + 1] = i - (m + 1) + c + 1
  <2> SUFFICES ASSUME i + 1 <= Len(b) PROVE b[i + 1] = i - (m + 1) + c + 1
    OBVIOUS
  <2> DEFINE j == i + 1
  <2>1. j \in m + 1 .. Len(b) /\ j - (m + 1) + c = i - (m + 1) + c + 1
    OBVIOUS
  <2> HIDE DEF j
  <2>2. b[j] = j - (m + 1) + c
    BY <2>1 DEF Rest
  <2> QED BY <2>1, <2>2 DEF j
<1>4. Match(t, b, i, <<x, y>>) <=> i + 1 <= Len(b) /\ t[b[i]] = x /\ t[b[i + 1]] = y
  BY MatchOfTwo
<1> QED BY <1>1, <1>2, <1>3, <1>4 DEF Pair

\* The search for an opening goes on at place m + 1, which has character c.
Scanning(t, b, S, m, c) ==
  /\ Rest(b, m, c, Len(t))
  /\ Found(t, b, m + 1, Open, S)
  /\ \A r : BlockReading(t, r) => Kept(r, b, m, c) /\ Fresh(r, c)

\* Up to the opening that is found there is code.
LEMMA OpeningFound ==
  ASSUME NEW t \in Seq(STRING), NEW b \in Seq(Nat), NEW S, NEW m \in Nat, NEW c \in Nat \ {0},
         Scanning(t, b, S, m, c), NEW start \in S
  PROVE  \E o \in 1 .. Len(t) :
           /\ start \in 1 .. Len(b) /\ Rest(b, start - 1, o, Len(t))
           /\ OpenAt(t, o)
           /\ \A r : BlockReading(t, r) => Kept(r, b, start - 1, o) /\ r[o] = "open"
<1> DEFINE o == start - (m + 1) + c
           l == start - (m + 1)
<1>1. Len(t) \in Nat /\ Len(b) \in Nat
  OBVIOUS
<1>2. /\ start \in m + 1 .. Len(b) /\ Match(t, b, start, Open)
      /\ \A j \in m + 1 .. start - 1 : ~Match(t, b, j, Open)
  BY DEF Scanning, Found
<1>3. Rest(b, m, c, Len(t))
  BY DEF Scanning
<1>4. o \in 1 .. Len(t) /\ OpenAt(t, o)
  BY <1>1, <1>2, <1>3, MatchInRest DEF Open, OpenAt
<1>5. ASSUME NEW p \in c .. o - 1 PROVE ~OpenAt(t, p)
  <2> DEFINE j == p - c + (m + 1)
  <2>1. j \in m + 1 .. start - 1 /\ j \in m + 1 .. Len(b) /\ j - (m + 1) + c = p
    BY <1>1, <1>2
  <2> HIDE DEF j
  <2> QED BY <1>1, <1>2, <1>3, <2>1, MatchInRest DEF Open, OpenAt
<1>6. Rest(b, start - 1, o, Len(t))
  <2>1. start - 1 + 1 = start /\ start <= Len(b) + 1 /\ Len(t) - o = Len(b) - start
    BY <1>1, <1>2, <1>3 DEF Rest
  <2>2. \A i \in start .. Len(b) : b[i] = i - start + o
    BY <1>1, <1>2, <1>3 DEF Rest
  <2> QED BY <2>1, <2>2 DEF Rest
<1>7. ASSUME NEW r, BlockReading(t, r) PROVE Kept(r, b, start - 1, o) /\ r[o] = "open"
  <2>1. Kept(r, b, m, c) /\ Fresh(r, c)
    BY <1>7 DEF Scanning
  <2>2. l \in Nat /\ c <= o /\ o <= Len(t) + 1 /\ c + l = o /\ m + l = start - 1 /\ o \in Nat
    BY <1>2, <1>4
  <2> HIDE DEF o, l
  <2>3. (\A p \in c .. o - 1 : r[p] = "code") /\ Fresh(r, o)
    BY <1>1, <1>5, <1>7, <2>1, <2>2, CodeUpToOpening
  <2>4. \A i \in m + 1 .. m + l : b[i] = i - (m + 1) + c
    <3>1. m + l <= Len(b)
      BY <1>1, <1>2, <2>2
    <3> QED BY <1>1, <1>3, <2>2, <3>1 DEF Rest
  <2>5. \A p \in c .. c + l - 1 : r[p] = "code"
    BY <2>2, <2>3
  <2>6. Kept(r, b, m + l, c + l)
    BY <2>1, <2>2, <2>4, <2>5, KeptCode
  <2>7. r[o] = "open"
    BY <1>4, <1>7, <2>3 DEF BlockReading, BlockStep, Fresh
  <2> QED BY <2>2, <2>6, <2>7
<1> QED BY <1>1, <1>2, <1>4, <1>6, <1>7

\* Without an opening all the rest is code.
LEMMA NoOpeningFound ==
  ASSUME NEW t \in Seq(STRING), NEW b \in Seq(Nat), NEW m \in Nat, NEW c \in Nat \ {0},
         Scanning(t, b, {}, m, c), NEW r, BlockReading(t, r)
  PROVE  Kept(r, b, Len(b), Len(t) + 1)
<1> DEFINE n == Len(t) + 1
           l == Len(b) - m
<1>1. Len(t) \in Nat /\ Len(b) \in Nat
  OBVIOUS
<1>2. \A j \in m + 1 .. Len(b) : ~Match(t, b, j, Open)
  BY DEF Scanning, Found
<1>3. Rest(b, m, c, Len(t)) /\ Kept(r, b, m, c) /\ Fresh(r, c)
  BY DEF Scanning
<1>4. l \in Nat /\ m + l = Len(b) /\ c + l = n /\ c <= n /\ n \in Nat /\ n <= Len(t) + 1
  BY <1>1, <1>3 DEF Rest
<1>5. ASSUME NEW p \in c .. n - 1 PROVE ~OpenAt(t, p)
  <2> DEFINE j == p - c + (m + 1)
  <2>1. j \in m + 1 .. Len(b) /\ j - (m + 1) + c = p
    BY <1>1, <1>4
  <2> HIDE DEF j
  <2> QED BY <1>1, <1>2, <1>3, <2>1, MatchInRest DEF Open, OpenAt
<1> HIDE DEF n, l
<1>6. \A p \in c .. n - 1 : r[p] = "code"
  BY <1>1, <1>3, <1>4, <1>5, CodeUpToOpening
<1>7. \A p \in c .. c + l - 1 : r[p] = "code"
  BY <1>4, <1>6
<1>8. \A i \in m + 1 .. m + l : b[i] = i - (m + 1) + c
  <2>1. \A i \in m + 1 .. Len(b) : b[i] = i - (m + 1) + c
    BY <1>3 DEF Rest
  <2> QED BY <1>4, <2>1
<1>9. Kept(r, b, m + l, c + l)
  BY <1>3, <1>4, <1>7, <1>8, KeptCode
<1> QED BY <1>4, <1>9 DEF n

\* A comment that is not closed ends the code.
LEMMA NoClosingFound ==
  ASSUME NEW t \in Seq(STRING), NEW b \in Seq(Nat), NEW S, NEW m \in Nat, NEW c \in Nat \ {0},
         Scanning(t, b, S, m, c), NEW start \in S, Found(t, b, start, Close, {}),
         NEW r, BlockReading(t, r)
  PROVE  /\ SubSeq(b, 1, start - 1) \in Seq(Nat)
         /\ Kept(r, SubSeq(b, 1, start - 1), Len(SubSeq(b, 1, start - 1)), Len(t) + 1)
<1> DEFINE n == Len(t) + 1
           e == SubSeq(b, 1, start - 1)
<1>1. Len(t) \in Nat /\ Len(b) \in Nat
  OBVIOUS
<1>2. PICK o \in 1 .. Len(t) :
        /\ start \in 1 .. Len(b) /\ Rest(b, start - 1, o, Len(t))
        /\ Kept(r, b, start - 1, o) /\ r[o] = "open"
  BY OpeningFound
<1>3. \A j \in start .. Len(b) : ~Match(t, b, j, Close)
  BY DEF Found
<1>4. ASSUME NEW p \in o + 1 .. n - 1 PROVE ~CloseAt(t, p)
  <2> DEFINE j == p - o + start
  <2>1. j \in start .. Len(b) /\ start - 1 + 1 = start /\ j - start + o = p /\ start - 1 \in Nat
    BY <1>1, <1>2 DEF Rest
  <2>2. start - 1 \in Nat /\ start - 1 + 1 = start /\ o \in Nat \ {0}
    BY <1>1, <1>2
  <2> HIDE DEF j
  <2> QED BY <1>1, <1>2, <1>3, <2>1, <2>2, MatchInRest DEF Close, CloseAt
<1>5. n \in Nat /\ o < n /\ n <= Len(t) + 1 /\ o \in Nat \ {0}
  BY <1>1
<1> HIDE DEF n
<1>6. \A p \in o .. n - 1 : r[p] \in {"open", "block"}
  BY <1>1, <1>2, <1>4, <1>5, BlockUpToClosing
<1>7. Kept(r, b, start - 1, n)
  <2>1. start - 1 \in Nat /\ \A p \in o .. n - 1 : r[p] # "code"
    BY <1>1, <1>2, <1>6
  <2> QED BY <1>2, <1>5, <2>1, KeptBeyond
<1>8. e \in Seq(Nat) /\ Len(e) = start - 1 /\ \A i \in 1 .. start - 1 : e[i] = b[i]
  BY <1>1, <1>2
<1> HIDE DEF e
<1>9. Kept(r, e, Len(e), n)
  <2>1. start - 1 \in Nat
    BY <1>1, <1>2
  <2>2. Kept(r, e, start - 1, n)
    BY <1>7, <1>8, <2>1, KeptAlike
  <2> QED BY <1>8, <2>2
<1> QED BY <1>8, <1>9 DEF e, n

\* Parts of a buffer.
LEMMA PrefixOf ==
  ASSUME NEW b \in Seq(Nat), NEW n \in 0 .. Len(b)
  PROVE  /\ SubSeq(b, 1, n) \in Seq(Nat) /\ Len(SubSeq(b, 1, n)) = n
         /\ \A i \in 1 .. n : SubSeq(b, 1, n)[i] = b[i]
OBVIOUS

LEMMA SuffixOf ==
  ASSUME NEW b \in Seq(Nat), NEW n \in 0 .. Len(b)
  PROVE  /\ SubSeq(b, n + 1, Len(b)) \in Seq(Nat)
         /\ Len(SubSeq(b, n + 1, Len(b))) = Len(b) - n
         /\ \A i \in 1 .. Len(b) - n : SubSeq(b, n + 1, Len(b))[i] = b[i + n]
OBVIOUS

LEMMA Joined ==
  ASSUME NEW x \in Seq(Nat), NEW y \in Seq(Nat)
  PROVE  /\ x \o y \in Seq(Nat) /\ Len(x \o y) = Len(x) + Len(y)
         /\ \A i \in 1 .. Len(x) : (x \o y)[i] = x[i]
         /\ \A i \in Len(x) + 1 .. Len(x) + Len(y) : (x \o y)[i] = y[i - Len(x)]
OBVIOUS

\* What the move of the buffer in place leaves.
Without(b, start, end) == SubSeq(b, 1, start - 1) \o SubSeq(b, end + 2, Len(b))

LEMMA Removed ==
  ASSUME NEW b \in Seq(Nat), NEW start \in Nat \ {0}, NEW end \in Nat, start <= end,
         end + 1 <= Len(b)
  PROVE  /\ Without(b, start, end) \in Seq(Nat)
         /\ Len(Without(b, start, end)) = Len(b) - (end + 2 - start)
         /\ \A i \in 1 .. start - 1 : Without(b, start, end)[i] = b[i]
         /\ \A i \in start .. Len(Without(b, start, end)) :
              Without(b, start, end)[i] = b[i + (end + 2 - start)]
<1> DEFINE m == start - 1
           k == end + 1
           left == SubSeq(b, 1, m)
           right == SubSeq(b, k + 1, Len(b))
<1>1. /\ Len(b) \in Nat /\ m \in 0 .. Len(b) /\ k \in 0 .. Len(b) /\ m \in Nat /\ m < k
      /\ k + 1 = end + 2 /\ m + 1 = start
  OBVIOUS
<1>2. Without(b, start, end) = left \o right
  BY <1>1 DEF Without
<1> HIDE DEF m, k
<1>3. left \in Seq(Nat) /\ Len(left) = m /\ \A i \in 1 .. m : left[i] = b[i]
  BY <1>1, PrefixOf
<1>4. /\ right \in Seq(Nat) /\ Len(right) = Len(b) - k
      /\ \A i \in 1 .. Len(b) - k : right[i] = b[i + k]
  BY <1>1, SuffixOf
<1> HIDE DEF left, right
<1> DEFINE e == left \o right
<1>5. /\ e \in Seq(Nat) /\ Len(e) = m + (Len(b) - k)
      /\ \A i \in 1 .. m : e[i] = left[i]
      /\ \A i \in m + 1 .. m + (Len(b) - k) : e[i] = right[i - m]
  <2>1. /\ e \in Seq(Nat) /\ Len(e) = Len(left) + Len(right)
        /\ \A i \in 1 .. Len(left) : e[i] = left[i]
        /\ \A i \in Len(left) + 1 .. Len(left) + Len(right) : e[i] = right[i - Len(left)]
    BY <1>3, <1>4, Joined
  <2> HIDE DEF e
  <2> QED BY <1>3, <1>4, <2>1
<1> HIDE DEF e
<1>6. \A i \in 1 .. m : e[i] = b[i]
  BY <1>3, <1>5
<1>7. ASSUME NEW i \in m + 1 .. Len(e) PROVE e[i] = b[i + (k - m)]
  <2> DEFINE j == i - m
  <2>1. j \in 1 .. Len(b) - k /\ j + k = i + (k - m) /\ i \in m + 1 .. m + (Len(b) - k)
    BY <1>1, <1>5
  <2>2. e[i] = right[j]
    BY <1>5, <2>1
  <2> HIDE DEF j
  <2>3. right[j] = b[j + k]
    BY <1>4, <2>1
  <2> QED BY <2>1, <2>2, <2>3
<1>8. k - m = end + 2 - start /\ m + (Len(b) - k) = Len(b) - (end + 2 - start)
  BY <1>1 DEF m, k
<1>9. \A i \in start .. Len(e) : e[i] = b[i + (end + 2 - start)]
  BY <1>1, <1>7, <1>8
<1>10. \A i \in 1 .. start - 1 : e[i] = b[i]
  BY <1>6 DEF m
<1>11. Len(e) = Len(b) - (end + 2 - start)
  BY <1>5, <1>8
<1> QED BY <1>2, <1>5, <1>9, <1>10, <1>11 DEF e

\* A closed comment is not code, and the search goes on after it.
LEMMA ClosingFound ==
  ASSUME NEW t \in Seq(STRING), NEW b \in Seq(Nat), NEW S, NEW m \in Nat, NEW c \in Nat \ {0},
         Scanning(t, b, S, m, c), NEW start \in S,
         NEW E, Found(t, b, start, Close, E), NEW end \in E,
         NEW e, e = Without(b, start, end),
         NEW D, Found(t, e, start, Open, D)
  PROVE  e \in Seq(Nat) /\ \E l \in Nat, d \in Nat \ {0} : Scanning(t, e, D, l, d)
<1>1. Len(t) \in Nat /\ Len(b) \in Nat
  OBVIOUS
<1>2. PICK o \in 1 .. Len(t) :
        /\ start \in 1 .. Len(b) /\ Rest(b, start - 1, o, Len(t)) /\ OpenAt(t, o)
        /\ \A r : BlockReading(t, r) => Kept(r, b, start - 1, o) /\ r[o] = "open"
  BY OpeningFound
<1> DEFINE q == end - start + o
<1>3. /\ end \in start .. Len(b) /\ Match(t, b, end, Close)
      /\ \A j \in start .. end - 1 : ~Match(t, b, j, Close)
  BY DEF Found
<1>4. start - 1 \in Nat /\ start - 1 + 1 = start /\ start \in Nat \ {0} /\ o \in Nat \ {0}
  BY <1>1, <1>2
<1>5. q \in 1 .. Len(t) /\ CloseAt(t, q)
  BY <1>1, <1>2, <1>3, <1>4, MatchInRest DEF Close, CloseAt
<1>6. q # o
  BY <1>2, <1>5 DEF OpenAt, CloseAt, Pair
<1>7. o < q /\ q + 1 <= Len(t) /\ end + 1 <= Len(b) /\ Len(t) - q = Len(b) - end
  BY <1>1, <1>2, <1>3, <1>4, <1>5, <1>6 DEF Rest, CloseAt, Pair
<1>8. ASSUME NEW p \in o + 1 .. q - 1 PROVE ~CloseAt(t, p)
  <2> DEFINE j == p - o + start
  <2>1. j \in start .. end - 1 /\ j \in start .. Len(b) /\ j - start + o = p
    BY <1>1, <1>3, <1>4
  <2> HIDE DEF j
  <2> QED BY <1>1, <1>2, <1>3, <1>4, <2>1, MatchInRest DEF Close, CloseAt
<1>9. /\ e \in Seq(Nat) /\ Len(e) = Len(b) - (end + 2 - start)
      /\ \A i \in 1 .. start - 1 : e[i] = b[i]
      /\ \A i \in start .. Len(e) : e[i] = b[i + (end + 2 - start)]
  <2>1. end \in Nat /\ start <= end /\ end + 1 <= Len(b)
    BY <1>1, <1>3, <1>4, <1>7
  <2> DEFINE w == Without(b, start, end)
  <2>2. /\ w \in Seq(Nat) /\ Len(w) = Len(b) - (end + 2 - start)
        /\ \A i \in 1 .. start - 1 : w[i] = b[i]
        /\ \A i \in start .. Len(w) : w[i] = b[i + (end + 2 - start)]
    BY <1>4, <2>1, Removed
  <2>3. e = w
    OBVIOUS
  <2> HIDE DEF w
  <2> QED BY <2>2, <2>3, Zenon
<1>10. Rest(e, start - 1, q + 2, Len(t))
  <2>1. start <= Len(e) + 1 /\ Len(t) - (q + 2) = Len(e) - start
    <3>1. end \in Nat /\ start \in Nat /\ Len(e) = Len(b) - (end + 2 - start)
      BY <1>1, <1>3, <1>4, <1>9
    <3>2. q \in Nat /\ Len(t) - q = Len(b) - end /\ end + 1 <= Len(b)
      BY <1>5, <1>7
    <3> HIDE DEF q
    <3> QED BY <1>1, <1>4, <3>1, <3>2
  <2>2. ASSUME NEW i \in start .. Len(e) PROVE e[i] = i - start + (q + 2)
    <3> DEFINE k == i + (end + 2 - start)
    <3>1. k \in start .. Len(b) /\ k - start + o = i - start + (q + 2)
      <4>1. end \in Nat /\ start \in Nat /\ Len(e) = Len(b) - (end + 2 - start) /\ start <= end
        BY <1>1, <1>3, <1>4, <1>9
      <4> QED BY <1>1, <4>1
    <3>2. e[i] = b[k]
      BY <1>9
    <3> HIDE DEF k
    <3>3. b[k] = k - start + o
      BY <1>2, <1>4, <3>1 DEF Rest
    <3> QED BY <3>1, <3>2, <3>3
  <2> QED BY <1>4, <2>1, <2>2 DEF Rest
<1>13. ASSUME NEW r, BlockReading(t, r)
       PROVE  Kept(r, e, start - 1, q + 2) /\ Fresh(r, q + 2)
  <2>1. Kept(r, b, start - 1, o) /\ r[o] = "open"
    BY <1>2, <1>13
  <2>2. q \in Nat /\ q <= Len(t) + 1
    BY <1>1, <1>5
  <2>3. \A p \in o .. q - 1 : r[p] \in {"open", "block"}
    BY <1>1, <1>4, <1>7, <1>8, <1>13, <2>1, <2>2, BlockUpToClosing
  <2> HIDE DEF q
  <2>4. r[q] = "close"
    <3>1. q # 1 /\ q - 1 \in o .. q - 1
      BY <1>4, <1>7, <2>2
    <3>2. Before(r, q) \in {"open", "block"}
      BY <2>3, <3>1 DEF Before
    <3> QED BY <1>5, <1>13, <3>2 DEF BlockReading, BlockStep
  <2>5. r[q + 1] = "closed"
    <3>1. q + 1 \in 1 .. Len(t) /\ q \in Nat \ {0}
      BY <1>1, <1>5, <1>7, <2>2
    <3>2. Before(r, q + 1) = "close"
      BY <2>4, <3>1, BeforeNext
    <3> QED BY <1>13, <3>1, <3>2 DEF BlockReading, BlockStep
  <2>6. Fresh(r, q + 2)
    <3>1. q + 1 \in Nat \ {0} /\ (q + 1) + 1 = q + 2
      BY <2>2
    <3>2. Before(r, (q + 1) + 1) = r[q + 1]
      BY <3>1, BeforeNext
    <3> QED BY <2>5, <3>1, <3>2 DEF Fresh
  <2>7. \A p \in o .. (q + 2) - 1 : r[p] # "code"
    <3>1. \A p \in o .. (q + 2) - 1 : p \in o .. q - 1 \/ p = q \/ p = q + 1
      BY <1>4, <2>2
    <3> QED BY <2>3, <2>4, <2>5, <3>1
  <2>8. Kept(r, b, start - 1, q + 2)
    <3>1. q + 2 \in Nat /\ o <= q + 2
      BY <1>7, <2>2, <1>4
    <3> QED BY <1>4, <2>1, <2>7, <3>1, KeptBeyond
  <2>9. Kept(r, e, start - 1, q + 2)
    BY <1>4, <1>9, <2>8, KeptAlike
  <2> QED BY <2>6, <2>9
<1>11. q + 2 \in Nat \ {0}
  BY <1>5
<1> HIDE DEF q
<1>12. Scanning(t, e, D, start - 1, q + 2)
  BY <1>4, <1>10, <1>13 DEF Scanning
<1> QED BY <1>4, <1>9, <1>12, <1>11

------------------------------------------------------------------------------
(* Every state *)

\* The search for block comments has the code before it in the buffer, in order,
\* and the rest of the text after it; the lines are taken from the code.
BlocksInv ==
  /\ text \in Seq(STRING) /\ buffer \in Seq(Nat)
  /\ phase \in {"blocks", "lines", "done"}
  /\ phase = "blocks" =>
       \E m \in Nat, c \in Nat \ {0} : Scanning(text, buffer, blockStart, m, c)
  /\ phase # "blocks" =>
       \A r : BlockReading(text, r) => Kept(r, buffer, Len(buffer), Len(text) + 1)

LEMMA BlocksInvInit == Init => BlocksInv
<1> SUFFICES ASSUME Init PROVE BlocksInv
  OBVIOUS
<1>1. text \in Seq(STRING) /\ Len(text) \in Nat
  BY TextsAssumption DEF Init
<1>2. buffer \in Seq(Nat) /\ Len(buffer) = Len(text) /\ \A i \in 1 .. Len(text) : buffer[i] = i
  BY <1>1 DEF Init
<1>3. Found(text, buffer, 1, Open, blockStart)
  BY <1>1, <1>2, SearchFinds DEF Init
<1> DEFINE m == 0
<1>4. m \in Nat /\ m + 1 = 1 /\ 1 .. m = {} /\ 1 .. 1 - 1 = {}
  OBVIOUS
<1> HIDE DEF m
<1>5. Rest(buffer, m, 1, Len(text))
  BY <1>1, <1>2, <1>4 DEF Rest
<1>6. \A r : Kept(r, buffer, m, 1) /\ Fresh(r, 1)
  BY <1>4 DEF Kept, Fresh, Before
<1>7. Scanning(text, buffer, blockStart, m, 1)
  BY <1>3, <1>4, <1>5, <1>6 DEF Scanning
<1>8. 1 \in Nat \ {0} /\ phase = "blocks"
  BY DEF Init
<1> QED BY <1>1, <1>2, <1>4, <1>7, <1>8 DEF BlocksInv

LEMMA BlocksInvNext == BlocksInv /\ [Next]_vars => BlocksInv'
<1> SUFFICES ASSUME BlocksInv, [Next]_vars PROVE BlocksInv'
  OBVIOUS
<1>1. text \in Seq(STRING) /\ buffer \in Seq(Nat) /\ Len(buffer) \in Nat
  BY DEF BlocksInv
<1>2. CASE RemoveBlock
  <2>1. phase = "blocks" /\ phase' = "blocks" /\ text' = text
    BY <1>2 DEF RemoveBlock
  <2>2. PICK m \in Nat, c \in Nat \ {0} : Scanning(text, buffer, blockStart, m, c)
    BY <2>1 DEF BlocksInv
  <2>9. PICK start \in blockStart : \E end \in strstr(buffer, start, Close) :
          /\ buffer' = Without(buffer, start, end)
          /\ blockStart' = strstr(buffer', start, Open)
    BY <1>2 DEF RemoveBlock, Without
  <2>3. PICK end \in strstr(buffer, start, Close) :
          /\ buffer' = Without(buffer, start, end)
          /\ blockStart' = strstr(buffer', start, Open)
    BY <2>9
  <2>4. start \in Nat
    BY <1>1, <2>2, OpeningFound
  <2>5. Found(text, buffer, start, Close, strstr(buffer, start, Close))
    BY <1>1, <2>4, SearchFinds
  <2>6. Found(text, buffer', start, Open, blockStart')
    <3>1. end \in start .. Len(buffer) /\ Match(text, buffer, end, Close)
      BY <2>5 DEF Found
    <3>2. start \in Nat \ {0}
      BY <1>1, <2>2, OpeningFound
    <3>3. end \in Nat /\ start <= end /\ end + 1 <= Len(buffer)
      BY <1>1, <2>4, <3>1, MatchOfTwo DEF Close
    <3>4. buffer' \in Seq(Nat)
      BY <1>1, <2>3, <3>2, <3>3, Removed
    <3> DEFINE b == buffer'
    <3>5. Len(b) \in Nat
      BY <3>4
    <3> HIDE DEF b
    <3>6. Found(text, b, start, Open, strstr(b, start, Open))
      BY <2>4, <3>5, SearchFinds
    <3> QED BY <2>3, <3>6 DEF b
  <2>7. /\ buffer' \in Seq(Nat)
        /\ \E l \in Nat, d \in Nat \ {0} : Scanning(text, buffer', blockStart', l, d)
    BY <1>1, <2>2, <2>3, <2>5, <2>6, ClosingFound
  <2> QED BY <1>1, <2>1, <2>7 DEF BlocksInv
<1>3. CASE CutUnterminated
  <2>1. phase = "blocks" /\ phase' = "lines" /\ text' = text
    BY <1>3 DEF CutUnterminated
  <2>2. PICK m \in Nat, c \in Nat \ {0} : Scanning(text, buffer, blockStart, m, c)
    BY <2>1 DEF BlocksInv
  <2>3. PICK start \in blockStart :
          strstr(buffer, start, Close) = {} /\ buffer' = SubSeq(buffer, 1, start - 1)
    BY <1>3 DEF CutUnterminated
  <2>4. start \in 1 .. Len(buffer)
    BY <1>1, <2>2, OpeningFound
  <2>5. Found(text, buffer, start, Close, {})
    <3>1. start \in Nat
      BY <2>4
    <3> QED BY <1>1, <2>3, <3>1, SearchFinds
  <2>6. buffer' \in Seq(Nat)
    <3> DEFINE k == start - 1
    <3>1. k \in 0 .. Len(buffer)
      BY <1>1, <2>4
    <3> HIDE DEF k
    <3>2. SubSeq(buffer, 1, k) \in Seq(Nat)
      BY <1>1, <3>1, PrefixOf
    <3> QED BY <2>3, <3>2 DEF k
  <2>7. ASSUME NEW r, BlockReading(text, r)
        PROVE  Kept(r, buffer', Len(buffer'), Len(text) + 1)
    BY <1>1, <2>2, <2>3, <2>5, <2>7, NoClosingFound
  <2> QED BY <1>1, <2>1, <2>6, <2>7 DEF BlocksInv
<1>4. CASE NoMoreBlocks
  <2>1. phase = "blocks" /\ phase' = "lines" /\ text' = text /\ buffer' = buffer
        /\ blockStart = {}
    BY <1>4 DEF NoMoreBlocks
  <2>2. PICK m \in Nat, c \in Nat \ {0} : Scanning(text, buffer, {}, m, c)
    BY <2>1 DEF BlocksInv
  <2>3. ASSUME NEW r, BlockReading(text, r)
        PROVE  Kept(r, buffer, Len(buffer), Len(text) + 1)
    BY <1>1, <2>2, <2>3, NoOpeningFound
  <2> QED BY <1>1, <2>1, <2>3 DEF BlocksInv
<1>5. CASE ReadLine
  BY <1>5 DEF ReadLine, BlocksInv
<1>6. CASE EndOfBuffer
  BY <1>6 DEF EndOfBuffer, BlocksInv
<1>7. CASE UNCHANGED vars
  BY <1>7 DEF vars, BlocksInv
<1> QED BY <1>2, <1>3, <1>4, <1>5, <1>6, <1>7 DEF Next

LEMMA Blocks == Spec => []BlocksInv
BY BlocksInvInit, BlocksInvNext, PTL DEF Spec

\* For every text and every size of a line: the loop that moves the buffer in
\* place (assembler.c:8-28) leaves exactly what one pass over the text, knowing
\* block comments only, takes for code, in its order.
THEOREM RemovalIsOnePass == Spec => []BlocksAreRemovedOnce
<1>1. BlocksInv => BlocksAreRemovedOnce
  <2> SUFFICES ASSUME BlocksInv, phase # "blocks"
               PROVE  /\ {buffer[i] : i \in DOMAIN buffer} =
                           {p \in DOMAIN BlockRoles : BlockRoles[p] = "code"}
                      /\ \A i, j \in DOMAIN buffer : i < j => buffer[i] < buffer[j]
    BY DEF BlocksAreRemovedOnce
  <2> DEFINE r == BlockRoles
             n == Len(text)
  <2>1. text \in Seq(STRING) /\ n \in Nat /\ DOMAIN buffer = 1 .. Len(buffer)
    BY DEF BlocksInv
  <2>2. BlockReading(text, r)
    BY <2>1, BlockRolesRead
  <2>3. DOMAIN r = 1 .. n
    BY <2>2 DEF BlockReading
  <2>4. Kept(r, buffer, Len(buffer), n + 1)
    BY <2>2 DEF BlocksInv
  <2>5. 1 .. (n + 1) - 1 = 1 .. n
    BY <2>1
  <2> HIDE DEF r, n
  <2>6. {buffer[i] : i \in 1 .. Len(buffer)} = {p \in 1 .. n : r[p] = "code"}
    <3> DEFINE L == Len(buffer)
    <3> HIDE DEF L
    <3>1. \A i \in 1 .. L : buffer[i] \in 1 .. n /\ r[buffer[i]] = "code"
      BY <2>4, <2>5 DEF Kept, L
    <3>2. \A p \in 1 .. n : r[p] = "code" => \E i \in 1 .. L : buffer[i] = p
      BY <2>4, <2>5 DEF Kept, L
    <3>3. {buffer[i] : i \in 1 .. L} = {p \in 1 .. n : r[p] = "code"}
      <4> DEFINE A == {buffer[i] : i \in 1 .. L}  B == {p \in 1 .. n : r[p] = "code"}
      <4>1. A \subseteq B
        BY <3>1
      <4>2. B \subseteq A
        BY <3>2
      <4> HIDE DEF A, B
      <4>3. A = B
        BY <4>1, <4>2
      <4> QED BY <4>3 DEF A, B
    <3> QED BY <3>3 DEF L
  <2>7. \A i, j \in 1 .. Len(buffer) : i < j => buffer[i] < buffer[j]
    BY <2>4 DEF Kept
  <2> QED BY <2>1, <2>3, <2>6, <2>7 DEF r
<1> QED BY <1>1, Blocks, PTL

------------------------------------------------------------------------------
(* The two readings *)

\* No block comment begins in a line comment or closes with its own star.
PlainReading(t, r) ==
  \A p \in 1 .. Len(t) :
    /\ r[p] = "line" => ~OpenAt(t, p)
    /\ r[p] = "open" => ~CloseAt(t, p + 1)

LEMMA PlainIsPlain ==
  ASSUME text \in Seq(STRING), NEW r, DOMAIN r = 1 .. Len(text), Plain(r)
  PROVE  PlainReading(text, r)
<1> SUFFICES ASSUME NEW p \in 1 .. Len(text)
             PROVE  /\ r[p] = "line" => ~OpenAt(text, p)
                    /\ r[p] = "open" => ~CloseAt(text, p + 1)
  BY DEF PlainReading
<1>1. Len(text) \in Nat
  OBVIOUS
<1>2. At(p, Open) <=> OpenAt(text, p)
  BY PairInText DEF Open, OpenAt
<1> DEFINE q == p + 1
<1>3. ASSUME CloseAt(text, q) PROVE At(q, Close)
  <2>1. q \in 1 .. Len(text)
    BY <1>1, <1>3 DEF CloseAt, Pair
  <2> HIDE DEF q
  <2> QED BY <1>3, <2>1, PairInText DEF Close, CloseAt
<1> QED BY <1>2, <1>3 DEF Plain

\* Then both readers see the same outside block comments.
LEMMA PlainReadings ==
  ASSUME NEW t, Len(t) \in Nat, NEW r, Reading(t, r), PlainReading(t, r),
         NEW s, BlockReading(t, s)
  PROVE  \A p \in 1 .. Len(t) : s[p] = "code" <=> r[p] \in {"code", "line"}
<1> DEFINE Same(x, y) == /\ y = "code" <=> x \in {"code", "line"}
                         /\ y = "open" <=> x = "open"
                         /\ y = "block" <=> x \in {"opened", "block"}
                         /\ y = "close" <=> x = "close"
                         /\ y = "closed" <=> x = "closed"
           N == Len(t)
           T == {k \in 0 .. N : k # 0 => Same(r[k], s[k])}
<1>1. N \in Nat /\ 0 \in T
  OBVIOUS
<1>2. ASSUME NEW p \in 1 .. N, p - 1 \in T PROVE p \in T
  <2>1. Same(Before(r, p), Before(s, p))
    <3>1. CASE p = 1
      BY <3>1 DEF Before
    <3>2. CASE p # 1
      BY <1>2, <3>2 DEF Before
    <3> QED BY <3>1, <3>2
  <2> DEFINE x == Before(r, p)
             y == Before(s, p)
  <2>2. r[p] = Step(t, x, p) /\ s[p] = BlockStep(t, y, p)
    BY DEF Reading, BlockReading
  <2>3. r[p] = "line" => ~OpenAt(t, p)
    BY DEF PlainReading
  <2>4. x = "open" => ~CloseAt(t, p)
    <3> SUFFICES ASSUME p # 1, r[p - 1] = "open" PROVE ~CloseAt(t, p)
      BY DEF Before
    <3> DEFINE o == p - 1
    <3>1. o \in 1 .. N /\ o + 1 = p
      OBVIOUS
    <3> HIDE DEF o
    <3>2. r[o] = "open" => ~CloseAt(t, o + 1)
      BY <3>1 DEF PlainReading
    <3> QED BY <3>1, <3>2 DEF o
  <2>5. x \in RoleName
    <3>1. CASE p = 1
      BY <3>1 DEF Before, RoleName
    <3>2. CASE p # 1
      <4> DEFINE o == p - 1
      <4>1. o \in 1 .. N
        BY <3>2
      <4> HIDE DEF o
      <4>2. r[o] \in RoleName
        BY <4>1, StepsGiveRoles DEF Reading
      <4> QED BY <3>2, <4>2 DEF Before, o
    <3> QED BY <3>1, <3>2
  <2> HIDE DEF x, y
  <2>6. Same(x, y)
    BY <2>1 DEF x, y
  <2>7. Same(r[p], s[p])
    BY <2>2, <2>3, <2>4, <2>5, <2>6 DEF Step, BlockStep, RoleName
  <2> QED BY <2>7
<1> HIDE DEF T, Same
<1>3. 0 .. N \subseteq T
  BY <1>1, <1>2, RangeInductionOnSet
<1>4. ASSUME NEW p \in 1 .. N PROVE Same(r[p], s[p])
  BY <1>1, <1>3 DEF T
<1> QED BY <1>4 DEF Same

\* What a role says of the character and of the one before it.
LEMMA LineRole ==
  ASSUME NEW t, NEW r, Reading(t, r), NEW p \in 1 .. Len(t), r[p] = "line"
  PROVE  t[p] # "\n" /\ (SlashesAt(t, p) \/ t[p] = "#" \/ Before(r, p) = "line")
<1>1. r[p] = Step(t, Before(r, p), p)
  BY DEF Reading
<1> QED BY <1>1 DEF Step, SlashesAt, Pair

LEMMA CodeRole ==
  ASSUME NEW t, NEW r, Reading(t, r), NEW p \in 1 .. Len(t), r[p] = "code"
  PROVE  ~SlashesAt(t, p) /\ t[p] # "#"
<1>1. r[p] = Step(t, Before(r, p), p)
  BY DEF Reading
<1> QED BY <1>1 DEF Step

LEMMA NextRole ==
  ASSUME NEW t, Len(t) \in Nat, NEW r, Reading(t, r), NEW p \in 1 .. Len(t), p + 1 <= Len(t)
  PROVE  /\ r[p] = "line" => r[p + 1] \in {"code", "line"}
         /\ r[p] = "line" /\ t[p + 1] # "\n" => r[p + 1] = "line"
         /\ r[p] = "code" => r[p + 1] \in {"code", "line"} \/ t[p + 1] = "/"
<1> DEFINE q == p + 1
<1>1. q \in 1 .. Len(t) /\ p \in Nat \ {0}
  OBVIOUS
<1>2. Before(r, q) = r[p]
  BY <1>1, BeforeNext
<1> HIDE DEF q
<1>3. r[q] = Step(t, r[p], q)
  BY <1>1, <1>2 DEF Reading
<1>4. /\ r[p] = "line" => r[q] \in {"code", "line"}
      /\ r[p] = "line" /\ t[q] # "\n" => r[q] = "line"
      /\ r[p] = "code" => r[q] \in {"code", "line"} \/ t[q] = "/"
  BY <1>3 DEF Step, OpenAt, Pair
<1> QED BY <1>4 DEF q

------------------------------------------------------------------------------
(* Lines of the buffer *)

\* The newlines before p that end a line.
Newlines(t, r, p) == {q \in 1 .. p - 1 : t[q] = "\n" /\ r[q] = "code"}

LEMMA NewlinesAreFinite ==
  ASSUME NEW t, NEW r, NEW p \in Nat
  PROVE  IsFiniteSet(Newlines(t, r, p)) /\ Cardinality(Newlines(t, r, p)) \in Nat
<1>1. IsFiniteSet(1 .. p - 1)
  BY FS_Interval
<1>2. Newlines(t, r, p) \in SUBSET (1 .. p - 1)
  BY DEF Newlines
<1> QED BY <1>1, <1>2, FS_Subset, FS_CardinalityType

\* A newline between two places counts for the second only.
LEMMA NewlinesMore ==
  ASSUME NEW t, NEW r, NEW p \in Nat, NEW q \in Nat, NEW m \in Nat \ {0}, p <= m, m < q,
         t[m] = "\n", r[m] = "code"
  PROVE  Cardinality(Newlines(t, r, p)) < Cardinality(Newlines(t, r, q))
<1> DEFINE P == Newlines(t, r, p)
           Q == Newlines(t, r, q)
<1>1. P \subseteq Q /\ m \in Q /\ m \notin P
  BY DEF Newlines
<1>2. IsFiniteSet(Q) /\ Cardinality(P) \in Nat /\ Cardinality(Q) \in Nat
  BY NewlinesAreFinite
<1> HIDE DEF P, Q
<1>3. Cardinality(P) <= Cardinality(Q) /\ (Cardinality(Q) = Cardinality(P) => Q = P)
  BY <1>1, <1>2, FS_Subset
<1>4. Cardinality(P) # Cardinality(Q)
  BY <1>1, <1>3
<1> QED BY <1>2, <1>3, <1>4 DEF P, Q

\* If it is the only one, it counts once.
LEMMA NewlinesOneMore ==
  ASSUME NEW t, NEW r, NEW p \in Nat, NEW q \in Nat, NEW m \in Nat \ {0}, p <= m, m < q,
         t[m] = "\n", r[m] = "code",
         \A k \in p .. q - 1 : t[k] = "\n" /\ r[k] = "code" => k = m
  PROVE  Cardinality(Newlines(t, r, q)) = Cardinality(Newlines(t, r, p)) + 1
<1>1. Newlines(t, r, q) = Newlines(t, r, p) \cup {m} /\ m \notin Newlines(t, r, p)
  BY DEF Newlines
<1>2. IsFiniteSet(Newlines(t, r, p))
  BY NewlinesAreFinite
<1> QED BY <1>1, <1>2, FS_AddElement

LEMMA NewlinesSame ==
  ASSUME NEW t, NEW r, NEW p \in Nat, NEW q \in Nat, p <= q,
         \A k \in p .. q - 1 : ~(t[k] = "\n" /\ r[k] = "code")
  PROVE  Newlines(t, r, q) = Newlines(t, r, p)
BY DEF Newlines

\* The buffer holds what is outside block comments, in its order.
Live(t, r, b) ==
  /\ \A i \in 1 .. Len(b) : b[i] \in 1 .. Len(t) /\ r[b[i]] \in {"code", "line"}
  /\ \A p \in 1 .. Len(t) : r[p] \in {"code", "line"} => \E i \in 1 .. Len(b) : b[i] = p
  /\ \A i, j \in 1 .. Len(b) : i < j => b[i] < b[j]

\* The characters of line k.
LineOf(t, r, k) ==
  {p \in 1 .. Len(t) : /\ r[p] \in {"code", "line"} /\ t[p] # "\n"
                       /\ Cardinality(Newlines(t, r, p)) = k - 1}

\* Line k begins at place ls of the buffer and ends before place le; the lines
\* before it are before ls.
LineAt(t, r, b, k, ls, le) ==
  /\ ls \in 1 .. Len(b) /\ le \in ls .. Len(b) + 1
  /\ ls # 1 => t[b[ls - 1]] = "\n"
  /\ \A i \in ls .. le - 1 : t[b[i]] # "\n"
  /\ le <= Len(b) => t[b[le]] = "\n"
  /\ Cardinality(Newlines(t, r, b[ls])) = k - 1
  /\ \A i \in 1 .. ls - 1 : t[b[i]] # "\n" => Cardinality(Newlines(t, r, b[i])) < k - 1

\* Places are in the order of the characters.
LEMMA LiveOrder ==
  ASSUME NEW t, Len(t) \in Nat, NEW r, NEW b, Len(b) \in Nat, Live(t, r, b),
         NEW i \in 1 .. Len(b), NEW j \in 1 .. Len(b)
  PROVE  (b[i] < b[j] <=> i < j) /\ (b[i] = b[j] <=> i = j)
<1>1. b[i] \in Nat /\ b[j] \in Nat /\ i \in Nat /\ j \in Nat
  BY DEF Live
<1>2. (i < j => b[i] < b[j]) /\ (j < i => b[j] < b[i])
  BY DEF Live
<1> QED BY <1>1, <1>2

\* A newline in the buffer ends a line, and every such newline is there.
LEMMA LiveNewline ==
  ASSUME NEW t, Len(t) \in Nat, NEW r, Reading(t, r), NEW b, Len(b) \in Nat, Live(t, r, b)
  PROVE  /\ \A i \in 1 .. Len(b) : t[b[i]] = "\n" => r[b[i]] = "code"
         /\ \A p \in 1 .. Len(t) : r[p] = "code" => \E i \in 1 .. Len(b) : b[i] = p
<1>1. ASSUME NEW i \in 1 .. Len(b), t[b[i]] = "\n" PROVE r[b[i]] = "code"
  <2>1. b[i] \in 1 .. Len(t) /\ r[b[i]] \in {"code", "line"}
    BY DEF Live
  <2> QED BY <1>1, <2>1, LineRole
<1>2. \A p \in 1 .. Len(t) : r[p] = "code" => \E i \in 1 .. Len(b) : b[i] = p
  BY DEF Live
<1> QED BY <1>1, <1>2

\* In the line no newline is passed, so each of its characters has its number.
LEMMA LineNumber ==
  ASSUME NEW t, Len(t) \in Nat, NEW r, Reading(t, r), NEW b, Len(b) \in Nat, Live(t, r, b),
         NEW k \in Nat \ {0}, NEW ls, NEW le, LineAt(t, r, b, k, ls, le),
         NEW i \in ls .. Len(b), i <= le
  PROVE  Newlines(t, r, b[i]) = Newlines(t, r, b[ls])
<1>1. ls \in 1 .. Len(b) /\ i \in 1 .. Len(b) /\ ls <= i
  BY DEF LineAt
<1>2. b[ls] \in Nat /\ b[i] \in Nat /\ b[i] \in 1 .. Len(t) /\ b[ls] <= b[i] /\ b[ls] # 0
  BY <1>1, LiveOrder DEF Live
<1>3. ASSUME NEW p \in b[ls] .. b[i] - 1, t[p] = "\n", r[p] = "code" PROVE FALSE
  <2>1. p \in 1 .. Len(t) /\ b[ls] <= p /\ p < b[i]
    BY <1>2
  <2>2. PICK j \in 1 .. Len(b) : b[j] = p
    BY <1>3, <2>1 DEF Live
  <2>3. ~(j < ls) /\ j < i
    BY <1>1, <1>2, <2>1, <2>2, LiveOrder
  <2>4. j \in ls .. le - 1
    BY <1>1, <2>3 DEF LineAt
  <2> QED BY <1>3, <2>2, <2>4 DEF LineAt
<1> QED BY <1>2, <1>3, NewlinesSame

\* These characters are line k.
LEMMA LineIsThere ==
  ASSUME NEW t, Len(t) \in Nat, NEW r, Reading(t, r), NEW b, Len(b) \in Nat, Live(t, r, b),
         NEW k \in Nat \ {0}, NEW ls, NEW le, LineAt(t, r, b, k, ls, le)
  PROVE  LineOf(t, r, k) = {b[i] : i \in ls .. le - 1}
<1>1. ls \in 1 .. Len(b) /\ le \in ls .. Len(b) + 1
  BY DEF LineAt
<1>2. ASSUME NEW i \in ls .. le - 1 PROVE b[i] \in LineOf(t, r, k)
  <2>1. i \in 1 .. Len(b) /\ i \in ls .. Len(b) /\ i <= le
    BY <1>1
  <2>2. b[i] \in 1 .. Len(t) /\ r[b[i]] \in {"code", "line"} /\ t[b[i]] # "\n"
    BY <2>1 DEF Live, LineAt
  <2>3. Newlines(t, r, b[i]) = Newlines(t, r, b[ls])
    BY <2>1, LineNumber
  <2>4. Cardinality(Newlines(t, r, b[ls])) = k - 1
    BY DEF LineAt
  <2> QED BY <2>2, <2>3, <2>4 DEF LineOf
<1>3. ASSUME NEW p \in LineOf(t, r, k) PROVE \E i \in ls .. le - 1 : b[i] = p
  <2>1. /\ p \in 1 .. Len(t) /\ r[p] \in {"code", "line"} /\ t[p] # "\n"
        /\ Cardinality(Newlines(t, r, p)) = k - 1
    BY DEF LineOf
  <2>2. PICK i \in 1 .. Len(b) : b[i] = p
    BY <2>1 DEF Live
  <2>3. ~(i < ls)
    <3> SUFFICES ASSUME i < ls PROVE FALSE
      OBVIOUS
    <3>1. i \in 1 .. ls - 1
      BY <1>1
    <3>2. Cardinality(Newlines(t, r, b[i])) < k - 1
      BY <2>1, <2>2, <3>1 DEF LineAt
    <3> QED BY <2>1, <2>2, <3>2
  <2>4. i # le
    BY <2>1, <2>2 DEF LineAt
  <2>5. ~(le < i)
    <3> SUFFICES ASSUME le < i PROVE FALSE
      OBVIOUS
    <3>1. le \in 1 .. Len(b) /\ le \in ls .. Len(b)
      BY <1>1
    <3>2. t[b[le]] = "\n" /\ r[b[le]] = "code"
      BY <3>1, LiveNewline DEF LineAt
    <3>3. b[ls] \in Nat /\ b[le] \in Nat \ {0} /\ b[ls] <= b[le] /\ b[le] < p /\ p \in Nat
      BY <1>1, <2>1, <2>2, <3>1, LiveOrder DEF Live
    <3>4. Cardinality(Newlines(t, r, b[ls])) < Cardinality(Newlines(t, r, p))
      BY <3>2, <3>3, NewlinesMore
    <3> QED BY <2>1, <3>4 DEF LineAt
  <2>6. i \in ls .. le - 1
    BY <1>1, <2>3, <2>4, <2>5
  <2> QED BY <2>2, <2>6
<1> QED BY <1>2, <1>3

\* After it comes the next line.
LEMMA LineAdvances ==
  ASSUME NEW t, Len(t) \in Nat, NEW r, Reading(t, r), NEW b, Len(b) \in Nat, Live(t, r, b),
         NEW k \in Nat \ {0}, NEW ls, NEW le, LineAt(t, r, b, k, ls, le)
  PROVE  /\ le + 1 <= Len(b) => Cardinality(Newlines(t, r, b[le + 1])) = k
         /\ \A i \in 1 .. Len(b) :
              i < le + 1 /\ t[b[i]] # "\n" => Cardinality(Newlines(t, r, b[i])) < k
<1>1. ls \in 1 .. Len(b) /\ le \in ls .. Len(b) + 1 /\ le \in Nat
  BY DEF LineAt
<1>2. ASSUME le + 1 <= Len(b) PROVE Cardinality(Newlines(t, r, b[le + 1])) = k
  <2> DEFINE n == le + 1
  <2>1. le \in 1 .. Len(b) /\ le \in ls .. Len(b) /\ n \in 1 .. Len(b) /\ le < n /\ ls < n
        /\ \A j \in 1 .. Len(b) : le < j => ~(j < n)
    BY <1>1, <1>2
  <2> HIDE DEF n
  <2>2. t[b[le]] = "\n" /\ r[b[le]] = "code"
    BY <2>1, LiveNewline DEF LineAt
  <2>3. Newlines(t, r, b[le]) = Newlines(t, r, b[ls])
    BY <2>1, LineNumber
  <2>4. b[le] \in Nat \ {0} /\ b[n] \in 1 .. Len(t) /\ b[n] \in Nat /\ b[le] < b[n]
    BY <2>1, LiveOrder DEF Live
  <2>5. ASSUME NEW p \in b[le] .. b[n] - 1, t[p] = "\n", r[p] = "code" PROVE p = b[le]
    <3>1. p \in 1 .. Len(t) /\ b[le] <= p /\ p < b[n]
      BY <2>4
    <3>2. PICK j \in 1 .. Len(b) : b[j] = p
      BY <2>5, <3>1, LiveNewline
    <3>3. j < n /\ ~(j < le)
      BY <2>1, <2>4, <3>1, <3>2, LiveOrder
    <3>4. j = le
      BY <1>1, <2>1, <3>3
    <3> QED BY <3>2, <3>4
  <2>6. Cardinality(Newlines(t, r, b[n])) = Cardinality(Newlines(t, r, b[le])) + 1
    <3> DEFINE u == b[le]
               v == b[n]
    <3>1. /\ u \in Nat \ {0} /\ u \in Nat /\ v \in Nat /\ u <= u /\ u < v
          /\ t[u] = "\n" /\ r[u] = "code"
          /\ \A p \in u .. v - 1 : t[p] = "\n" /\ r[p] = "code" => p = u
      BY <2>2, <2>4, <2>5
    <3> HIDE DEF u, v
    <3>2. Cardinality(Newlines(t, r, v)) = Cardinality(Newlines(t, r, u)) + 1
      BY <3>1, NewlinesOneMore
    <3> QED BY <3>2 DEF u, v
  <2>7. Cardinality(Newlines(t, r, b[ls])) = k - 1
    BY DEF LineAt
  <2>8. Cardinality(Newlines(t, r, b[n])) = k
    BY <2>3, <2>6, <2>7
  <2> QED BY <2>8 DEF n
<1>3. ASSUME NEW i \in 1 .. Len(b), i < le + 1, t[b[i]] # "\n"
      PROVE  Cardinality(Newlines(t, r, b[i])) < k
  <2>1. CASE i < ls
    <3>1. i \in 1 .. ls - 1
      BY <1>1, <2>1
    <3>2. Cardinality(Newlines(t, r, b[i])) < k - 1
      BY <1>3, <3>1 DEF LineAt
    <3>3. b[i] \in Nat
      BY DEF Live
    <3>4. Cardinality(Newlines(t, r, b[i])) \in Nat
      BY <3>3, NewlinesAreFinite
    <3> QED BY <3>2, <3>4
  <2>2. CASE ~(i < ls)
    <3>1. i \in ls .. Len(b) /\ i <= le
      BY <1>1, <1>3, <2>2
    <3>2. Newlines(t, r, b[i]) = Newlines(t, r, b[ls])
      BY <3>1, LineNumber
    <3>3. Cardinality(Newlines(t, r, b[ls])) = k - 1
      BY DEF LineAt
    <3> QED BY <3>2, <3>3
  <2> QED BY <2>1, <2>2
<1> QED BY <1>2, <1>3

------------------------------------------------------------------------------
(* Comments in the lines of the buffer *)

\* Live characters that are next to each other in the text are so in the buffer.
LEMMA LiveNext ==
  ASSUME NEW t, Len(t) \in Nat, NEW r, NEW b, Len(b) \in Nat, Live(t, r, b),
         NEW i \in 1 .. Len(b), b[i] + 1 <= Len(t), r[b[i] + 1] \in {"code", "line"}
  PROVE  i + 1 <= Len(b) /\ b[i + 1] = b[i] + 1
<1>1. b[i] \in Nat /\ b[i] + 1 \in 1 .. Len(t)
  BY DEF Live
<1>2. PICK j \in 1 .. Len(b) : b[j] = b[i] + 1
  BY <1>1 DEF Live
<1>3. i < j
  BY <1>1, <1>2, LiveOrder
<1> DEFINE n == i + 1
<1>4. n \in 1 .. Len(b) /\ i < n /\ (n = j \/ n < j)
  BY <1>3
<1> HIDE DEF n
<1>5. b[n] \in Nat /\ b[i] < b[n] /\ (n < j => b[n] < b[j])
  BY <1>4, LiveOrder DEF Live
<1>6. n = j
  BY <1>1, <1>2, <1>4, <1>5
<1> QED BY <1>2, <1>4, <1>6 DEF n

\* A line comment goes on in the buffer to the newline.
LEMMA CommentGoesOn ==
  ASSUME NEW t, Len(t) \in Nat, NEW r, Reading(t, r), NEW b, Len(b) \in Nat, Live(t, r, b),
         NEW i \in 1 .. Len(b), i + 1 <= Len(b), r[b[i]] = "line", t[b[i + 1]] # "\n"
  PROVE  r[b[i + 1]] = "line"
<1> DEFINE n == i + 1
           p == b[i]
<1>1. n \in 1 .. Len(b) /\ i < n
  OBVIOUS
<1>2. t[b[n]] # "\n"
  OBVIOUS
<1> HIDE DEF n
<1>3. p \in 1 .. Len(t) /\ b[n] \in 1 .. Len(t) /\ p < b[n]
  BY <1>1, LiveOrder DEF Live
<1>4. p + 1 <= Len(t)
  BY <1>3
<1>5. r[p + 1] \in {"code", "line"} /\ (t[p + 1] # "\n" => r[p + 1] = "line")
  <2> HIDE DEF p
  <2>1. r[p] = "line"
    BY DEF p
  <2> QED BY <1>3, <1>4, <2>1, NextRole
<1>6. b[n] = p + 1
  BY <1>4, <1>5, LiveNext DEF n
<1> QED BY <1>2, <1>5, <1>6 DEF n

\* It begins in the buffer as in the text.
LEMMA CommentBegins ==
  ASSUME NEW t, Len(t) \in Nat, NEW r, Reading(t, r), NEW b, Len(b) \in Nat, Live(t, r, b),
         NEW i \in 1 .. Len(b), r[b[i]] = "line", i = 1 \/ r[b[i - 1]] = "code"
  PROVE  t[b[i]] = "#" \/ (i + 1 <= Len(b) /\ t[b[i]] = "/" /\ t[b[i + 1]] = "/")
<1> DEFINE p == b[i]
<1>1. p \in 1 .. Len(t) /\ r[p] = "line"
  BY DEF Live
<1>2. SlashesAt(t, p) \/ t[p] = "#" \/ Before(r, p) = "line"
  BY <1>1, LineRole
<1>3. CASE SlashesAt(t, p)
  <2>1. p + 1 <= Len(t) /\ t[p] = "/" /\ t[p + 1] = "/"
    BY <1>3 DEF SlashesAt, Pair
  <2>2. r[p + 1] \in {"code", "line"}
    <3> HIDE DEF p
    <3> QED BY <1>1, <2>1, NextRole
  <2>3. i + 1 <= Len(b) /\ b[i + 1] = p + 1
    BY <2>1, <2>2, LiveNext
  <2> QED BY <2>1, <2>3
<1>4. CASE Before(r, p) = "line"
  <2> DEFINE o == p - 1
  <2>1. p # 1 /\ r[o] = "line"
    BY <1>4 DEF Before
  <2>2. o \in 1 .. Len(t) /\ o + 1 = p
    BY <1>1, <2>1
  <2> HIDE DEF o
  <2>3. PICK j \in 1 .. Len(b) : b[j] = o
    BY <2>1, <2>2 DEF Live
  <2>4. b[j] + 1 <= Len(t) /\ r[b[j] + 1] \in {"code", "line"}
    BY <1>1, <2>2, <2>3
  <2>5. j + 1 \in 1 .. Len(b) /\ b[j + 1] = p
    BY <2>2, <2>3, <2>4, LiveNext
  <2> DEFINE n == j + 1
  <2>6. n \in 1 .. Len(b) /\ b[n] = p /\ n - 1 = j /\ n # 1
    BY <2>5
  <2> HIDE DEF n
  <2>7. n = i
    BY <2>6, LiveOrder
  <2>8. r[b[i - 1]] = "line"
    BY <2>1, <2>3, <2>6, <2>7
  <2> QED BY <2>6, <2>7, <2>8
<1> QED BY <1>2, <1>3, <1>4

\* Code does not look like a comment in the buffer either.
LEMMA CodeIsNoComment ==
  ASSUME NEW t, Len(t) \in Nat, NEW r, Reading(t, r), NEW b, Len(b) \in Nat, Live(t, r, b),
         NEW i \in 1 .. Len(b), r[b[i]] = "code"
  PROVE  t[b[i]] # "#" /\ ~(i + 1 <= Len(b) /\ t[b[i]] = "/" /\ t[b[i + 1]] = "/")
<1> DEFINE p == b[i]
<1>1. p \in 1 .. Len(t) /\ r[p] = "code"
  BY DEF Live
<1>2. ~SlashesAt(t, p) /\ t[p] # "#"
  BY <1>1, CodeRole
<1>3. ASSUME i + 1 <= Len(b), t[b[i]] = "/", t[b[i + 1]] = "/" PROVE FALSE
  <2> DEFINE n == i + 1
  <2>1. n \in 1 .. Len(b) /\ i < n
    BY <1>3
  <2> HIDE DEF n
  <2>2. b[n] \in 1 .. Len(t) /\ p < b[n]
    BY <2>1, LiveOrder DEF Live
  <2>3. p + 1 <= Len(t)
    BY <1>1, <2>2
  <2>4. r[p + 1] \in {"code", "line"} \/ t[p + 1] = "/"
    <3> HIDE DEF p
    <3> QED BY <1>1, <2>3, NextRole
  <2>5. r[p + 1] \in {"code", "line"} => t[p + 1] = "/"
    <3> SUFFICES ASSUME r[p + 1] \in {"code", "line"} PROVE t[p + 1] = "/"
      OBVIOUS
    <3>1. b[i + 1] = p + 1
      BY <2>3, LiveNext
    <3> QED BY <1>3, <3>1
  <2>6. t[p] = "/" /\ t[p + 1] = "/"
    BY <1>3, <2>4, <2>5
  <2> QED BY <1>2, <2>3, <2>6 DEF SlashesAt, Pair
<1> QED BY <1>2, <1>3

\* e is the first m characters of w.
InitialPart(e, w, m) ==
  e \in Seq(Nat) /\ m \in 0 .. Len(w) /\ Len(e) = m /\ \A i \in 1 .. m : e[i] = w[i]

LEMMA CutAtFirst ==
  ASSUME NEW w \in Seq(Nat), NEW s
  PROVE  \E m \in 0 .. Len(w) :
           /\ InitialPart(CutAt(w, s), w, m)
           /\ m < Len(w) => Match(text, w, m + 1, s)
           /\ \A j \in 1 .. m : ~Match(text, w, j, s)
<1> DEFINE F == strstr(w, 1, s)
<1>1. Len(w) \in Nat
  OBVIOUS
<1>2. Found(text, w, 1, s, F)
  BY <1>1, SearchFinds
<1>3. CutAt(w, s) = IF F = {} THEN w ELSE SubSeq(w, 1, (CHOOSE i \in F : TRUE) - 1)
  BY DEF CutAt
<1> HIDE DEF F
<1>4. CASE F = {}
  <2>1. InitialPart(CutAt(w, s), w, Len(w))
    BY <1>1, <1>3, <1>4 DEF InitialPart
  <2>2. \A j \in 1 .. Len(w) : ~Match(text, w, j, s)
    BY <1>2, <1>4 DEF Found
  <2>3. Len(w) \in 0 .. Len(w) /\ ~(Len(w) < Len(w))
    BY <1>1
  <2> QED BY <2>1, <2>2, <2>3
<1>5. CASE F # {}
  <2>1. PICK i \in 1 .. Len(w) :
          F = {i} /\ Match(text, w, i, s) /\ \A j \in 1 .. i - 1 : ~Match(text, w, j, s)
    BY <1>2, <1>5 DEF Found
  <2> DEFINE m == i - 1
  <2>2. CutAt(w, s) = SubSeq(w, 1, m)
    BY <1>3, <1>5, <2>1
  <2>3. m \in 0 .. Len(w) /\ m + 1 = i
    BY <1>1
  <2>4. \A j \in 1 .. m : ~Match(text, w, j, s)
    BY <2>1
  <2> HIDE DEF m
  <2>5. InitialPart(SubSeq(w, 1, m), w, m)
    BY <2>3, PrefixOf DEF InitialPart
  <2> QED BY <2>1, <2>2, <2>3, <2>4, <2>5
<1> QED BY <1>4, <1>5

\* In the line w, as r reads it, a comment is what begins with two slashes or
\* with a # and goes on to the end.
CommentLast(t, r, w) ==
  /\ \A j \in 1 .. Len(w) : r[w[j]] \in {"code", "line"}
  /\ \A j \in 1 .. Len(w) - 1 : r[w[j]] = "line" => r[w[j + 1]] = "line"
  /\ \A j \in 1 .. Len(w) :
       r[w[j]] = "line" /\ (j = 1 \/ r[w[j - 1]] = "code")
         => t[w[j]] = "#" \/ Match(t, w, j, <<"/", "/">>)
  /\ \A j \in 1 .. Len(w) :
       r[w[j]] = "code" => t[w[j]] # "#" /\ ~Match(t, w, j, <<"/", "/">>)

\* eliminate_comment leaves the code of such a line.
LEMMA CommentIsCut ==
  ASSUME NEW w \in Seq(Nat), NEW r, CommentLast(text, r, w)
  PROVE  \E m \in 0 .. Len(w) :
           /\ InitialPart(eliminate_comment(w), w, m)
           /\ \A j \in 1 .. m : r[w[j]] = "code"
           /\ \A j \in m + 1 .. Len(w) : r[w[j]] = "line"
<1> DEFINE v == CutAt(w, <<"/", "/">>)
           e == CutAt(v, <<"#">>)
           W == Len(w)
<1>1. W \in Nat
  OBVIOUS
<1>2. PICK n \in 0 .. W :
        /\ InitialPart(v, w, n)
        /\ n < W => Match(text, w, n + 1, <<"/", "/">>)
        /\ \A j \in 1 .. n : ~Match(text, w, j, <<"/", "/">>)
  BY CutAtFirst
<1>3. v \in Seq(Nat) /\ Len(v) = n /\ \A i \in 1 .. n : v[i] = w[i]
  BY <1>2 DEF InitialPart
<1> HIDE DEF v
<1>4. PICK m \in 0 .. n :
        /\ InitialPart(e, v, m)
        /\ m < n => Match(text, v, m + 1, <<"#">>)
        /\ \A j \in 1 .. m : ~Match(text, v, j, <<"#">>)
  BY <1>3, CutAtFirst
<1>5. eliminate_comment(w) = e
  BY DEF eliminate_comment, v
<1> HIDE DEF e
<1>6. InitialPart(e, w, m)
  BY <1>2, <1>3, <1>4 DEF InitialPart
<1>7. ASSUME NEW j \in 1 .. n PROVE Match(text, v, j, <<"#">>) <=> text[w[j]] = "#"
  <2>1. Len(v) \in Nat /\ j \in Nat /\ j <= Len(v) /\ v[j] = w[j]
    BY <1>1, <1>3
  <2>2. Match(text, v, j, <<"#">>) <=> j <= Len(v) /\ text[v[j]] = "#"
    BY <2>1, MatchOfOne
  <2> QED BY <2>1, <2>2
<1>8. ASSUME NEW j \in 1 .. m, j = 1 \/ r[w[j - 1]] = "code" PROVE r[w[j]] = "code"
  <2>1. j \in 1 .. n /\ j \in 1 .. W
    BY <1>1
  <2>2. text[w[j]] # "#" /\ ~Match(text, w, j, <<"/", "/">>)
    BY <1>2, <1>4, <1>7, <2>1
  <2> QED BY <1>8, <2>1, <2>2 DEF CommentLast
<1>9. \A j \in 1 .. m : r[w[j]] = "code"
  <2> DEFINE T == {k \in 0 .. m : k # 0 => r[w[k]] = "code"}
  <2>1. m \in Nat /\ 0 \in T
    OBVIOUS
  <2>2. ASSUME NEW k \in 1 .. m, k - 1 \in T PROVE k \in T
    <3>1. k = 1 \/ r[w[k - 1]] = "code"
      BY <2>2
    <3> QED BY <1>8, <3>1
  <2> HIDE DEF T
  <2>3. 0 .. m \subseteq T
    BY <2>1, <2>2, RangeInductionOnSet
  <2> QED BY <2>1, <2>3 DEF T
<1>10. ASSUME m < W PROVE r[w[m + 1]] = "line"
  <2> DEFINE k == m + 1
  <2>1. k \in 1 .. W /\ k \in Nat
    BY <1>1, <1>10
  <2> HIDE DEF k
  <2>2. r[w[k]] \in {"code", "line"}
    BY <2>1 DEF CommentLast
  <2>3. r[w[k]] # "code"
    <3>1. CASE m < n
      <4>1. k \in 1 .. n
        BY <3>1 DEF k
      <4>2. text[w[k]] = "#"
        BY <1>4, <1>7, <3>1, <4>1 DEF k
      <4> QED BY <2>1, <4>2 DEF CommentLast
    <3>2. CASE m = n
      <4>1. Match(text, w, k, <<"/", "/">>)
        BY <1>2, <1>10, <3>2 DEF k
      <4> QED BY <2>1, <4>1 DEF CommentLast
    <3> QED BY <3>1, <3>2
  <2>4. r[w[k]] = "line"
    BY <2>2, <2>3
  <2> QED BY <2>4 DEF k
<1>11. \A j \in m + 1 .. W : r[w[j]] = "line"
  <2> SUFFICES ASSUME NEW j \in m + 1 .. W PROVE r[w[j]] = "line"
    OBVIOUS
  <2> DEFINE N == W - (m + 1)
             T == {k \in 0 .. N : r[w[m + 1 + k]] = "line"}
  <2>1. N \in Nat /\ m < W /\ m + 1 + 0 = m + 1 /\ 0 \in 0 .. N
    BY <1>1
  <2>2. 0 \in T
    BY <1>10, <2>1
  <2>3. ASSUME NEW k \in 1 .. N, k - 1 \in T PROVE k \in T
    <3> DEFINE i == m + 1 + (k - 1)
    <3>1. i \in 1 .. W - 1 /\ i + 1 = m + 1 + k
      BY <1>1
    <3>2. r[w[i]] = "line"
      BY <2>3
    <3> HIDE DEF i
    <3>3. r[w[i + 1]] = "line"
      BY <3>1, <3>2 DEF CommentLast
    <3> QED BY <3>1, <3>3
  <2>4. j - (m + 1) \in 0 .. N /\ m + 1 + (j - (m + 1)) = j
    BY <1>1
  <2> HIDE DEF T, N
  <2>5. 0 .. N \subseteq T
    BY <2>1, <2>2, <2>3, RangeInductionOnSet
  <2>6. j - (m + 1) \in T
    BY <2>4, <2>5
  <2> QED BY <2>4, <2>6 DEF T
<1>12. m \in 0 .. W
  BY <1>1
<1> QED BY <1>5, <1>6, <1>9, <1>11, <1>12

\* eliminate_whitespaces leaves a line from its first to its last solid character.
LEMMA BlanksAreCut ==
  ASSUME NEW e \in Seq(Nat), \A i, j \in 1 .. Len(e) : i < j => e[i] < e[j]
  PROVE  eliminate_whitespaces(e) = Trimmed({e[i] : i \in 1 .. Len(e)})
<1> DEFINE L == Len(e)
           A == {e[i] : i \in 1 .. L}
<1>1. L \in Nat /\ DOMAIN e = 1 .. L /\ \A i \in 1 .. L : e[i] \in Nat
  OBVIOUS
<1> HIDE DEF L
<1>2. ASSUME NEW i \in 1 .. L, NEW j \in 1 .. L PROVE i <= j <=> e[i] <= e[j]
  <2>1. e[i] \in Nat /\ e[j] \in Nat /\ (i < j => e[i] < e[j]) /\ (j < i => e[j] < e[i])
    BY <1>1 DEF L
  <2> QED BY <1>1, <2>1
<1>3. ASSUME NEW p \in eliminate_whitespaces(e) PROVE p \in Trimmed(A)
  <2>1. PICK j \in 1 .. L : \E l, k \in 1 .. L :
          p = e[j] /\ text[e[l]] # " " /\ text[e[k]] # " " /\ l <= j /\ j <= k
    BY <1>1 DEF eliminate_whitespaces
  <2>2. PICK l \in 1 .. L, k \in 1 .. L :
          p = e[j] /\ text[e[l]] # " " /\ text[e[k]] # " " /\ l <= j /\ j <= k
    BY <2>1
  <2>3. e[l] <= p /\ p <= e[k] /\ p \in A /\ e[l] \in A /\ e[k] \in A
    BY <1>2, <2>2
  <2> HIDE DEF A
  <2> QED BY <2>2, <2>3 DEF Trimmed
<1>4. ASSUME NEW p \in Trimmed(A) PROVE p \in eliminate_whitespaces(e)
  <2>1. p \in A /\ \E x, y \in A : text[x] # " " /\ text[y] # " " /\ x <= p /\ p <= y
    <3> HIDE DEF A
    <3> QED BY DEF Trimmed
  <2>2. PICK j \in 1 .. L : p = e[j]
    BY <2>1
  <2>3. PICK l \in 1 .. L, k \in 1 .. L :
          text[e[l]] # " " /\ text[e[k]] # " " /\ e[l] <= p /\ p <= e[k]
    BY <2>1
  <2>4. l <= j /\ j <= k
    BY <1>2, <2>2, <2>3
  <2> QED BY <1>1, <2>2, <2>3, <2>4 DEF eliminate_whitespaces
<1>5. eliminate_whitespaces(e) = Trimmed(A)
  <2> HIDE DEF A
  <2> QED BY <1>3, <1>4
<1> QED BY <1>5 DEF L

LEMMA PartOf ==
  ASSUME NEW b \in Seq(Nat), NEW i \in 1 .. Len(b), NEW j \in i .. Len(b) + 1
  PROVE  /\ SubSeq(b, i, j - 1) \in Seq(Nat) /\ Len(SubSeq(b, i, j - 1)) = j - i
         /\ \A k \in 1 .. j - i : SubSeq(b, i, j - 1)[k] = b[i + k - 1]
OBVIOUS

LEMMA MatchOfSlashes ==
  ASSUME NEW t, NEW w, Len(w) \in Nat, NEW j \in Nat
  PROVE  Match(t, w, j, <<"/", "/">>)
           <=> j + 1 <= Len(w) /\ t[w[j]] = "/" /\ t[w[j + 1]] = "/"
BY MatchOfTwo

\* A line of the buffer is such a line.
LEMMA CommentIsLast ==
  ASSUME NEW t, Len(t) \in Nat, NEW r, Reading(t, r), NEW b \in Seq(Nat), Live(t, r, b),
         NEW k \in Nat \ {0}, NEW ls, NEW le, LineAt(t, r, b, k, ls, le),
         NEW w, Len(w) = le - ls, \A j \in 1 .. le - ls : w[j] = b[ls + j - 1]
  PROVE  CommentLast(t, r, w)
<1>1. ls \in 1 .. Len(b) /\ le \in ls .. Len(b) + 1 /\ Len(b) \in Nat /\ Len(w) \in Nat
  BY DEF LineAt
<1>2. ASSUME NEW j \in 1 .. Len(w) PROVE r[w[j]] \in {"code", "line"}
  <2>1. ls + j - 1 \in 1 .. Len(b) /\ w[j] = b[ls + j - 1]
    BY <1>1
  <2> QED BY <2>1 DEF Live
<1>3. ASSUME NEW j \in 1 .. Len(w) - 1, r[w[j]] = "line" PROVE r[w[j + 1]] = "line"
  <2> DEFINE i == ls + j - 1
  <2>1. /\ i \in 1 .. Len(b) /\ i + 1 <= Len(b) /\ i + 1 \in ls .. le - 1
        /\ j \in 1 .. le - ls /\ j + 1 \in 1 .. le - ls /\ ls + (j + 1) - 1 = i + 1
    BY <1>1
  <2>2. w[j] = b[i] /\ w[j + 1] = b[i + 1]
    <3>1. w[j] = b[ls + j - 1] /\ w[j + 1] = b[ls + (j + 1) - 1]
      BY <2>1
    <3> QED BY <2>1, <3>1
  <2> HIDE DEF i
  <2>3. t[b[i + 1]] # "\n"
    BY <2>1 DEF LineAt
  <2>4. r[b[i + 1]] = "line"
    <3>1. r[b[i]] = "line"
      BY <1>3, <2>2
    <3> QED BY <1>1, <2>1, <2>3, <3>1, CommentGoesOn
  <2> QED BY <2>2, <2>4
<1>4. ASSUME NEW j \in 1 .. Len(w)
      PROVE  Match(t, w, j, <<"/", "/">>)
               <=> j + 1 <= Len(w) /\ t[w[j]] = "/" /\ t[w[j + 1]] = "/"
  <2>1. j \in Nat /\ Len(w) \in Nat
    BY <1>1
  <2> QED BY <2>1, MatchOfSlashes
<1>5. ASSUME NEW j \in 1 .. Len(w), r[w[j]] = "line", j = 1 \/ r[w[j - 1]] = "code"
      PROVE  t[w[j]] = "#" \/ Match(t, w, j, <<"/", "/">>)
  <2> DEFINE i == ls + j - 1
  <2>1. /\ i \in 1 .. Len(b) /\ j \in 1 .. le - ls /\ i \in ls .. le - 1
        /\ (i + 1 = le \/ j + 1 \in 1 .. le - ls) /\ ls + (j + 1) - 1 = i + 1
        /\ (j # 1 => j - 1 \in 1 .. le - ls /\ ls + (j - 1) - 1 = i - 1)
        /\ (j = 1 => i = ls)
    BY <1>1
  <2>2. w[j] = b[i]
    BY <2>1
  <2>3. j # 1 => w[j - 1] = b[i - 1]
    <3>1. j # 1 => w[j - 1] = b[ls + (j - 1) - 1]
      BY <2>1
    <3> QED BY <2>1, <3>1
  <2>4. i + 1 = le \/ w[j + 1] = b[i + 1]
    <3>1. i + 1 = le \/ w[j + 1] = b[ls + (j + 1) - 1]
      BY <2>1
    <3> QED BY <2>1, <3>1
  <2>5. i = 1 \/ r[b[i - 1]] = "code"
    <3>1. CASE j = 1
      <4> SUFFICES ASSUME ls # 1 PROVE r[b[ls - 1]] = "code"
        BY <2>1, <3>1
      <4> DEFINE o == ls - 1
      <4>1. o \in 1 .. Len(b) /\ t[b[o]] = "\n"
        BY <1>1 DEF LineAt
      <4> HIDE DEF o
      <4>2. r[b[o]] = "code"
        BY <1>1, <4>1, LiveNewline
      <4> QED BY <4>2 DEF o
    <3>2. CASE j # 1
      BY <1>5, <2>3, <3>2
    <3> QED BY <3>1, <3>2
  <2> HIDE DEF i
  <2>6. t[b[i]] = "#" \/ (i + 1 <= Len(b) /\ t[b[i]] = "/" /\ t[b[i + 1]] = "/")
    <3>1. r[b[i]] = "line"
      BY <1>5, <2>2
    <3> QED BY <1>1, <2>1, <2>5, <3>1, CommentBegins
  <2>7. CASE t[b[i]] = "#"
    BY <2>2, <2>7
  <2>8. CASE i + 1 <= Len(b) /\ t[b[i]] = "/" /\ t[b[i + 1]] = "/"
    <3>1. i + 1 # le
      BY <1>1, <2>8 DEF LineAt
    <3>2. j + 1 <= Len(w) /\ w[j + 1] = b[i + 1]
      BY <1>1, <2>1, <2>4, <3>1
    <3> QED BY <1>4, <2>2, <2>8, <3>2
  <2> QED BY <2>6, <2>7, <2>8
<1>6. ASSUME NEW j \in 1 .. Len(w), r[w[j]] = "code"
      PROVE  t[w[j]] # "#" /\ ~Match(t, w, j, <<"/", "/">>)
  <2> DEFINE i == ls + j - 1
  <2>1. /\ i \in 1 .. Len(b) /\ j \in 1 .. le - ls
        /\ (j + 1 <= Len(w) => i + 1 <= Len(b) /\ j + 1 \in 1 .. le - ls)
        /\ ls + (j + 1) - 1 = i + 1
    <3> DEFINE L == Len(w)
               B == Len(b)
    <3>1. /\ L = le - ls /\ le \in ls .. B + 1 /\ ls \in 1 .. B
          /\ B \in Nat /\ j \in 1 .. L /\ L \in Nat
      BY <1>1
    <3> HIDE DEF L, B
    <3>2. /\ i \in 1 .. B /\ j \in 1 .. le - ls
          /\ (j + 1 <= L => i + 1 <= B /\ j + 1 \in 1 .. le - ls)
          /\ ls + (j + 1) - 1 = i + 1
      BY <3>1
    <3> QED BY <3>2 DEF L, B
  <2>2. w[j] = b[i]
    BY <2>1
  <2>3. j + 1 <= Len(w) => w[j + 1] = b[i + 1]
    <3>1. j + 1 <= Len(w) => w[j + 1] = b[ls + (j + 1) - 1]
      BY <2>1
    <3> QED BY <2>1, <3>1
  <2> HIDE DEF i
  <2>4. t[b[i]] # "#" /\ ~(i + 1 <= Len(b) /\ t[b[i]] = "/" /\ t[b[i + 1]] = "/")
    <3>1. r[b[i]] = "code"
      BY <1>6, <2>2
    <3> QED BY <1>1, <2>1, <3>1, CodeIsNoComment
  <2> QED BY <1>4, <2>1, <2>2, <2>3, <2>4
<1> QED BY <1>2, <1>3, <1>5, <1>6 DEF CommentLast

\* Of line k the passes leave the code, without the blanks around it.
LEMMA LineIsRead ==
  ASSUME Len(text) \in Nat, NEW r, Reading(text, r), NEW b \in Seq(Nat), Live(text, r, b),
         NEW k \in Nat \ {0}, NEW ls, NEW le, LineAt(text, r, b, k, ls, le)
  PROVE  eliminate_whitespaces(eliminate_comment(SubSeq(b, ls, le - 1)))
           = Trimmed({p \in LineOf(text, r, k) : r[p] = "code"})
<1> DEFINE w == SubSeq(b, ls, le - 1)
           e == eliminate_comment(w)
           W == le - ls
<1>1. ls \in 1 .. Len(b) /\ le \in ls .. Len(b) + 1 /\ Len(b) \in Nat /\ W \in Nat
  BY DEF LineAt
<1>2. w \in Seq(Nat) /\ Len(w) = W /\ \A j \in 1 .. W : w[j] = b[ls + j - 1]
  BY <1>1, PartOf
<1> HIDE DEF w
<1>3. CommentLast(text, r, w)
  BY <1>2, CommentIsLast
<1>4. PICK m \in 0 .. W : /\ InitialPart(e, w, m)
                          /\ \A j \in 1 .. m : r[w[j]] = "code"
                          /\ \A j \in m + 1 .. W : r[w[j]] = "line"
  <2>1. PICK m \in 0 .. Len(w) : /\ InitialPart(e, w, m)
                                 /\ \A j \in 1 .. m : r[w[j]] = "code"
                                 /\ \A j \in m + 1 .. Len(w) : r[w[j]] = "line"
    <3>1. w \in Seq(Nat)
      BY <1>2
    <3> QED BY <3>1, <1>3, CommentIsCut
  <2> HIDE DEF e, W
  <2> QED BY <1>2, <2>1
<1> HIDE DEF e
<1>5. e \in Seq(Nat) /\ Len(e) = m /\ \A i \in 1 .. m : e[i] = w[i]
  BY <1>4 DEF InitialPart
<1>6. ASSUME NEW i \in 1 .. m PROVE e[i] = b[ls + i - 1] /\ ls + i - 1 \in ls .. le - 1
  <2>1. i \in 1 .. W /\ ls + i - 1 \in ls .. le - 1
    BY <1>1
  <2> HIDE DEF W
  <2> QED BY <1>2, <1>5, <2>1
<1>7. ASSUME NEW i \in 1 .. m, NEW j \in 1 .. m, i < j PROVE e[i] < e[j]
  <2> DEFINE x == ls + i - 1
             y == ls + j - 1
  <2>1. x \in 1 .. Len(b) /\ y \in 1 .. Len(b) /\ x < y
    BY <1>1, <1>7
  <2>2. e[i] = b[x] /\ e[j] = b[y]
    BY <1>6
  <2> HIDE DEF x, y
  <2> QED BY <2>1, <2>2 DEF Live
<1> DEFINE A == {e[i] : i \in 1 .. m}
           B == {p \in LineOf(text, r, k) : r[p] = "code"}
<1>8. eliminate_whitespaces(e) = Trimmed(A)
  BY <1>5, <1>7, BlanksAreCut
<1>9. LineOf(text, r, k) = {b[i] : i \in ls .. le - 1}
  BY <1>1, LineIsThere
<1>10. ASSUME NEW p \in A PROVE p \in B
  <2>1. PICK i \in 1 .. m : p = e[i]
    OBVIOUS
  <2>2. p \in LineOf(text, r, k)
    BY <1>6, <1>9, <2>1
  <2>3. r[p] = "code"
    BY <1>4, <1>5, <2>1
  <2> QED BY <2>2, <2>3
<1>11. ASSUME NEW p \in B PROVE p \in A
  <2>1. p \in LineOf(text, r, k) /\ r[p] = "code"
    OBVIOUS
  <2>2. PICK i \in ls .. le - 1 : p = b[i]
    BY <1>9, <2>1
  <2> DEFINE j == i - ls + 1
  <2>3. j \in 1 .. W /\ ls + j - 1 = i
    BY <1>1
  <2> HIDE DEF j, W
  <2>4. p = w[j]
    BY <1>2, <2>2, <2>3
  <2>5. ~(j \in m + 1 .. W)
    BY <1>4, <2>1, <2>4
  <2>6. j \in 1 .. m
    BY <1>1, <2>3, <2>5
  <2> QED BY <1>5, <2>4, <2>6
<1>12. A = B
  <2> HIDE DEF A, B
  <2> QED BY <1>10, <1>11
<1> HIDE DEF A, B
<1>13. eliminate_whitespaces(e) = Trimmed(B)
  BY <1>8, <1>12
<1> QED BY <1>13 DEF e, w, B

------------------------------------------------------------------------------
(* Every state: lines *)

\* Trimmed of a text that is named.
TrimmedOf(t, ps) ==
  {p \in ps : \E l, r \in ps : t[l] # " " /\ t[r] # " " /\ l <= p /\ p <= r}

LEMMA TrimmedIsOfText == ASSUME NEW ps PROVE Trimmed(ps) = TrimmedOf(text, ps)
BY DEF Trimmed, TrimmedOf

CodeOf(t, r, k) == {p \in LineOf(t, r, k) : r[p] = "code"}

\* As many lines are read as there are newlines before place lp of the buffer,
\* all that is before it is on them, and each that fits into the array is the
\* code of its line.
LinesRead(t, r, b, lp, ls) ==
  /\ lp <= Len(b) => Cardinality(Newlines(t, r, b[lp])) = Len(ls)
  /\ \A i \in 1 .. Len(b) :
       i < lp /\ t[b[i]] # "\n" => Cardinality(Newlines(t, r, b[i])) < Len(ls)
  /\ \A k \in 1 .. Len(ls) :
       Cardinality(LineOf(t, r, k)) < MAX_LINE_SIZE => ls[k] = TrimmedOf(t, CodeOf(t, r, k))

LinesInv ==
  /\ line_ptr \in Nat \ {0} /\ lines \in Seq(SUBSET Nat)
  /\ phase = "blocks" => line_ptr = 1 /\ lines = << >>
  /\ phase # "blocks" =>
       /\ line_ptr \in 2 .. Len(buffer) => text[buffer[line_ptr - 1]] = "\n"
       /\ \A r : Reading(text, r) /\ PlainReading(text, r) =>
                   LinesRead(text, r, buffer, line_ptr, lines)
  /\ phase = "done" => line_ptr > Len(buffer)

\* What the search for block comments leaves is what is outside them.
LEMMA KeptIsLive ==
  ASSUME NEW t, Len(t) \in Nat, NEW r, Reading(t, r), PlainReading(t, r),
         NEW s, BlockReading(t, s), NEW b, Kept(s, b, Len(b), Len(t) + 1)
  PROVE  Live(t, r, b)
<1>1. \A p \in 1 .. Len(t) : s[p] = "code" <=> r[p] \in {"code", "line"}
  BY PlainReadings
<1>2. 1 .. (Len(t) + 1) - 1 = 1 .. Len(t)
  OBVIOUS
<1>3. \A i \in 1 .. Len(b) : b[i] \in 1 .. Len(t) /\ s[b[i]] = "code"
  BY <1>2 DEF Kept
<1>4. \A p \in 1 .. Len(t) : s[p] = "code" => \E i \in 1 .. Len(b) : b[i] = p
  BY <1>2 DEF Kept
<1>5. \A i, j \in 1 .. Len(b) : i < j => b[i] < b[j]
  BY DEF Kept
<1> QED BY <1>1, <1>3, <1>4, <1>5 DEF Live

LEMMA BufferIsLive ==
  ASSUME BlocksInv, phase # "blocks", NEW r, Reading(text, r), PlainReading(text, r)
  PROVE  Live(text, r, buffer)
<1>1. text \in Seq(STRING) /\ Len(text) \in Nat
  BY DEF BlocksInv
<1>2. BlockReading(text, BlockRoles)
  BY <1>1, BlockRolesRead
<1>3. Kept(BlockRoles, buffer, Len(buffer), Len(text) + 1)
  BY <1>2 DEF BlocksInv
<1> QED BY <1>1, <1>2, <1>3, KeptIsLive

\* The first line begins with the buffer.
LEMMA LinesBegin ==
  ASSUME NEW t, Len(t) \in Nat, NEW r, Reading(t, r), NEW b, Len(b) \in Nat, Live(t, r, b)
  PROVE  LinesRead(t, r, b, 1, << >>)
<1>1. ASSUME 1 <= Len(b) PROVE Cardinality(Newlines(t, r, b[1])) = 0
  <2>1. 1 \in 1 .. Len(b) /\ b[1] \in 1 .. Len(t) /\ b[1] \in Nat
    BY <1>1 DEF Live
  <2>2. ASSUME NEW p \in Newlines(t, r, b[1]) PROVE FALSE
    <3>1. p \in 1 .. Len(t) /\ p < b[1] /\ r[p] = "code"
      BY <2>1 DEF Newlines
    <3>2. PICK j \in 1 .. Len(b) : b[j] = p
      BY <3>1, LiveNewline
    <3>3. j < 1
      BY <2>1, <3>1, <3>2, LiveOrder
    <3> QED BY <3>3
  <2>3. Newlines(t, r, b[1]) = {}
    BY <2>2
  <2> QED BY <2>3, FS_EmptySet
<1>2. Len(<< >>) = 0 /\ \A i \in 1 .. Len(b) : ~(i < 1)
  OBVIOUS
<1>3. 1 .. 0 = {}
  OBVIOUS
<1> QED BY <1>1, <1>2, <1>3 DEF LinesRead

\* A line that fits has as many places in the buffer as characters.
LEMMA LineFits ==
  ASSUME NEW t, Len(t) \in Nat, NEW r, Reading(t, r), NEW b, Len(b) \in Nat, Live(t, r, b),
         NEW k \in Nat \ {0}, NEW ls, NEW le, LineAt(t, r, b, k, ls, le),
         Cardinality(LineOf(t, r, k)) < MAX_LINE_SIZE
  PROVE  le < ls + MAX_LINE_SIZE
<1> DEFINE S == ls .. le - 1
           T == LineOf(t, r, k)
           f == [i \in S |-> b[i]]
<1>1. ls \in 1 .. Len(b) /\ le \in ls .. Len(b) + 1 /\ S \subseteq 1 .. Len(b)
  BY DEF LineAt
<1>2. T = {b[i] : i \in S}
  BY LineIsThere
<1>3. IsFiniteSet(T)
  <2>1. T \subseteq 1 .. Len(t) /\ IsFiniteSet(1 .. Len(t))
    BY FS_Interval DEF LineOf
  <2> HIDE DEF T
  <2> QED BY <2>1, FS_Subset
<1>4. Cardinality(S) = le - ls
  <2>1. ls \in Int /\ le - 1 \in Int /\ le \in Int
    BY <1>1
  <2>2. Cardinality(S) = IF ls > le - 1 THEN 0 ELSE le - 1 - ls + 1
    BY <2>1, FS_Interval
  <2> HIDE DEF S
  <2> QED BY <1>1, <2>1, <2>2
<1>5. ASSUME NEW i \in S, NEW j \in S, b[i] = b[j] PROVE i = j
  BY <1>1, <1>5, LiveOrder
<1> HIDE DEF S, T
<1>6. f \in Injection(S, T)
  <2>1. f \in [S -> T]
    BY <1>2
  <2>2. \A i, j \in S : f[i] = f[j] => i = j
    BY <1>5
  <2> QED BY <2>1, <2>2 DEF Injection, IsInjective
<1>7. Cardinality(S) <= Cardinality(T)
  BY <1>3, <1>6, FS_Injection
<1>8. Cardinality(T) \in Nat /\ Cardinality(T) < MAX_LINE_SIZE /\ MAX_LINE_SIZE \in Nat
  BY <1>3, FS_CardinalityType, LineSizeAssumption DEF T
<1> QED BY <1>1, <1>4, <1>7, <1>8

\* One more line is read.
LEMMA LinesGoOn ==
  ASSUME NEW t, Len(t) \in Nat, NEW r, Reading(t, r), NEW b, Len(b) \in Nat, Live(t, r, b),
         NEW lp, NEW le, NEW ls \in Seq(SUBSET Nat), LinesRead(t, r, b, lp, ls),
         LineAt(t, r, b, Len(ls) + 1, lp, le), NEW x \in SUBSET Nat,
         Cardinality(LineOf(t, r, Len(ls) + 1)) < MAX_LINE_SIZE
           => x = TrimmedOf(t, CodeOf(t, r, Len(ls) + 1))
  PROVE  LinesRead(t, r, b, le + 1, Append(ls, x))
<1> DEFINE k == Len(ls) + 1
           ms == Append(ls, x)
<1>1. Len(ls) \in Nat /\ k \in Nat \ {0} /\ 1 .. k = 1 .. Len(ls) \cup {k}
  OBVIOUS
<1>2. Len(ms) = k /\ ms[k] = x /\ \A i \in 1 .. Len(ls) : ms[i] = ls[i]
  OBVIOUS
<1>3. LineAt(t, r, b, k, lp, le)
  OBVIOUS
<1>4. Cardinality(LineOf(t, r, k)) < MAX_LINE_SIZE => x = TrimmedOf(t, CodeOf(t, r, k))
  OBVIOUS
<1> HIDE DEF ms, k
<1>5. /\ le + 1 <= Len(b) => Cardinality(Newlines(t, r, b[le + 1])) = k
      /\ \A i \in 1 .. Len(b) :
           i < le + 1 /\ t[b[i]] # "\n" => Cardinality(Newlines(t, r, b[i])) < k
  BY <1>1, <1>3, LineAdvances
<1>6. ASSUME NEW i \in 1 .. Len(ms), Cardinality(LineOf(t, r, i)) < MAX_LINE_SIZE
      PROVE  ms[i] = TrimmedOf(t, CodeOf(t, r, i))
  <2>1. CASE i \in 1 .. Len(ls)
    BY <1>2, <1>6, <2>1 DEF LinesRead
  <2>2. CASE i = k
    BY <1>2, <1>4, <1>6, <2>2
  <2> QED BY <1>1, <1>2, <2>1, <2>2
<1> QED BY <1>2, <1>5, <1>6 DEF LinesRead, ms

\* Where the line that begins at line_ptr ends.
LEMMA LineEndsThere ==
  ASSUME Len(buffer) \in Nat, line_ptr \in Nat, line_ptr <= Len(buffer)
  PROVE  /\ LineEnd \in line_ptr .. Len(buffer) + 1
         /\ \A i \in line_ptr .. LineEnd - 1 : text[buffer[i]] # "\n"
         /\ LineEnd <= Len(buffer) => text[buffer[LineEnd]] = "\n"
<1> DEFINE s == <<"\n">>
           F == strstr(buffer, line_ptr, s)
<1>1. Found(text, buffer, line_ptr, s, F)
  BY SearchFinds
<1>2. LineEnd = IF F = {} THEN Len(buffer) + 1 ELSE CHOOSE i \in F : TRUE
  BY DEF LineEnd
<1>3. ASSUME NEW i \in line_ptr .. Len(buffer)
      PROVE  Match(text, buffer, i, s) <=> text[buffer[i]] = "\n"
  <2>1. i \in Nat /\ i <= Len(buffer)
    OBVIOUS
  <2> QED BY <2>1, MatchOfOne
<1> HIDE DEF F, s
<1>4. CASE F = {}
  <2>1. LineEnd = Len(buffer) + 1
    BY <1>2, <1>4
  <2>2. \A i \in line_ptr .. Len(buffer) : ~Match(text, buffer, i, s)
    BY <1>1, <1>4 DEF Found
  <2> QED BY <1>3, <2>1, <2>2
<1>5. CASE F # {}
  <2>1. PICK i \in line_ptr .. Len(buffer) :
          /\ F = {i} /\ Match(text, buffer, i, s)
          /\ \A j \in line_ptr .. i - 1 : ~Match(text, buffer, j, s)
    BY <1>1, <1>5 DEF Found
  <2>2. LineEnd = i
    BY <1>2, <1>5, <2>1
  <2>3. text[buffer[i]] = "\n"
    BY <1>3, <2>1
  <2>4. \A j \in line_ptr .. i - 1 : text[buffer[j]] # "\n"
    <3>1. line_ptr .. i - 1 \subseteq line_ptr .. Len(buffer)
      OBVIOUS
    <3> QED BY <1>3, <2>1, <3>1
  <2> QED BY <2>2, <2>3, <2>4
<1> QED BY <1>4, <1>5

\* What is taken of a line is in the buffer.
LEMMA LineIsTyped ==
  ASSUME buffer \in Seq(Nat), line_ptr \in Nat \ {0}, line_ptr <= Len(buffer)
  PROVE  eliminate_whitespaces(eliminate_comment(Line)) \in SUBSET Nat
<1>1. Len(buffer) \in Nat /\ LineEnd \in line_ptr .. Len(buffer) + 1
  BY LineEndsThere
<1> DEFINE room == line_ptr + MAX_LINE_SIZE - 1
           le == IF LineEnd < room THEN LineEnd ELSE room
           w == SubSeq(buffer, line_ptr, le - 1)
<1>2. Line = w
  BY DEF Line
<1>3. le \in line_ptr .. Len(buffer) + 1 /\ line_ptr \in 1 .. Len(buffer)
  BY <1>1, LineSizeAssumption
<1> HIDE DEF le
<1>4. w \in Seq(Nat)
  BY <1>3, PartOf
<1> HIDE DEF w
<1> DEFINE v == CutAt(w, <<"/", "/">>)
           e == CutAt(v, <<"#">>)
<1>5. v \in Seq(Nat)
  BY <1>4, CutAtFirst DEF InitialPart
<1> HIDE DEF v
<1>6. e \in Seq(Nat)
  BY <1>5, CutAtFirst DEF InitialPart
<1>7. eliminate_comment(w) = e
  BY DEF eliminate_comment, v
<1> HIDE DEF e
<1>8. \A i \in DOMAIN e : e[i] \in Nat
  BY <1>6
<1>9. eliminate_whitespaces(e) \in SUBSET Nat
  BY <1>8 DEF eliminate_whitespaces
<1> QED BY <1>2, <1>7, <1>9

LEMMA LinesInvInit == Init => LinesInv
<1> SUFFICES ASSUME Init PROVE LinesInv
  OBVIOUS
<1>1. /\ line_ptr = 1 /\ lines = << >> /\ phase = "blocks"
  BY DEF Init
<1>2. << >> \in Seq(SUBSET Nat) /\ 1 \in Nat \ {0}
  OBVIOUS
<1> QED BY <1>1, <1>2 DEF LinesInv

\* ReadLine reads the line that begins at line_ptr.
LEMMA LineReadGoesOn ==
  ASSUME BlocksInv, LinesInv, ReadLine, NEW r, Reading(text, r), PlainReading(text, r)
  PROVE  LinesRead(text, r, buffer, line_ptr', lines')
<1> DEFINE k == Len(lines) + 1
           x == eliminate_whitespaces(eliminate_comment(Line))
<1>1. /\ text \in Seq(STRING) /\ Len(text) \in Nat /\ buffer \in Seq(Nat)
      /\ Len(buffer) \in Nat /\ phase # "blocks"
  BY DEF BlocksInv, ReadLine
<1>2. /\ line_ptr \in Nat \ {0} /\ line_ptr \in Nat /\ line_ptr <= Len(buffer)
      /\ lines \in Seq(SUBSET Nat) /\ k \in Nat \ {0} /\ k - 1 = Len(lines)
  BY DEF LinesInv, ReadLine
<1>3. line_ptr' = LineEnd + 1 /\ lines' = Append(lines, x)
  BY DEF ReadLine
<1>4. Live(text, r, buffer)
  BY <1>1, BufferIsLive
<1>5. LinesRead(text, r, buffer, line_ptr, lines)
  BY <1>1 DEF LinesInv
<1>6. x \in SUBSET Nat
  BY <1>1, <1>2, LineIsTyped
<1> HIDE DEF k, x
<1>7. LineAt(text, r, buffer, k, line_ptr, LineEnd)
  <2>1. /\ LineEnd \in line_ptr .. Len(buffer) + 1
        /\ \A i \in line_ptr .. LineEnd - 1 : text[buffer[i]] # "\n"
        /\ LineEnd <= Len(buffer) => text[buffer[LineEnd]] = "\n"
    BY <1>1, <1>2, LineEndsThere
  <2>2. line_ptr \in 1 .. Len(buffer)
    BY <1>1, <1>2
  <2>3. line_ptr # 1 => text[buffer[line_ptr - 1]] = "\n"
    <3>1. line_ptr # 1 => line_ptr \in 2 .. Len(buffer)
      BY <1>1, <1>2
    <3> QED BY <1>1, <3>1 DEF LinesInv
  <2>4. Cardinality(Newlines(text, r, buffer[line_ptr])) = k - 1
    BY <1>2, <1>5 DEF LinesRead
  <2>5. \A i \in 1 .. line_ptr - 1 :
          text[buffer[i]] # "\n" => Cardinality(Newlines(text, r, buffer[i])) < k - 1
    <3>1. \A i \in 1 .. line_ptr - 1 : i \in 1 .. Len(buffer) /\ i < line_ptr
      BY <1>1, <1>2
    <3> QED BY <1>2, <1>5, <3>1 DEF LinesRead
  <2> QED BY <2>1, <2>2, <2>3, <2>4, <2>5 DEF LineAt
<1>8. ASSUME Cardinality(LineOf(text, r, k)) < MAX_LINE_SIZE
      PROVE  x = TrimmedOf(text, CodeOf(text, r, k))
  <2>1. LineEnd < line_ptr + MAX_LINE_SIZE
    BY <1>1, <1>2, <1>4, <1>7, <1>8, LineFits
  <2>2. Line = SubSeq(buffer, line_ptr, LineEnd - 1)
    <3>1. LineEnd \in Nat
      BY <1>1, <1>2, LineEndsThere
    <3> DEFINE room == line_ptr + MAX_LINE_SIZE - 1
    <3>2. (IF LineEnd < room THEN LineEnd ELSE room) = LineEnd
      BY <1>2, <2>1, <3>1, LineSizeAssumption
    <3> QED BY <3>2 DEF Line
  <2>3. eliminate_whitespaces(eliminate_comment(SubSeq(buffer, line_ptr, LineEnd - 1)))
          = Trimmed({p \in LineOf(text, r, k) : r[p] = "code"})
    BY <1>1, <1>2, <1>4, <1>7, LineIsRead
  <2>4. x = Trimmed(CodeOf(text, r, k))
    BY <2>2, <2>3 DEF CodeOf, x
  <2> QED BY <2>4, TrimmedIsOfText
<1>9. LinesRead(text, r, buffer, LineEnd + 1, Append(lines, x))
  <2>1. LineAt(text, r, buffer, Len(lines) + 1, line_ptr, LineEnd)
    BY <1>7 DEF k
  <2>2. Cardinality(LineOf(text, r, Len(lines) + 1)) < MAX_LINE_SIZE
          => x = TrimmedOf(text, CodeOf(text, r, Len(lines) + 1))
    BY <1>8 DEF k
  <2> QED BY <1>1, <1>2, <1>4, <1>5, <1>6, <2>1, <2>2, LinesGoOn
<1> QED BY <1>3, <1>9

LEMMA LinesInvNext == BlocksInv /\ BlocksInv' /\ LinesInv /\ [Next]_vars => LinesInv'
<1> SUFFICES ASSUME BlocksInv, BlocksInv', LinesInv, [Next]_vars PROVE LinesInv'
  OBVIOUS
<1>1. line_ptr \in Nat \ {0} /\ lines \in Seq(SUBSET Nat)
  BY DEF LinesInv
<1>2. ASSUME phase = "blocks", phase' = "lines", text' = text,
             line_ptr' = line_ptr, lines' = lines
      PROVE  LinesInv'
  <2>1. line_ptr' = 1 /\ lines' = << >>
    BY <1>2 DEF LinesInv
  <2>2. text \in Seq(STRING) /\ Len(text) \in Nat /\ buffer' \in Seq(Nat)
    BY <1>2 DEF BlocksInv
  <2>3. ASSUME NEW r, Reading(text, r), PlainReading(text, r)
        PROVE  LinesRead(text, r, buffer', 1, << >>)
    <3> DEFINE b == buffer'
    <3>1. BlockReading(text, BlockRoles)
      BY <2>2, BlockRolesRead
    <3>2. Kept(BlockRoles, b, Len(b), Len(text) + 1)
      BY <1>2, <3>1 DEF BlocksInv
    <3>3. Len(b) \in Nat
      BY <2>2
    <3> HIDE DEF b
    <3>4. Live(text, r, b)
      BY <2>2, <2>3, <3>1, <3>2, KeptIsLive
    <3>5. LinesRead(text, r, b, 1, << >>)
      BY <2>2, <2>3, <3>3, <3>4, LinesBegin
    <3> QED BY <3>5 DEF b
  <2>4. 1 \in Nat \ {0} /\ << >> \in Seq(SUBSET Nat) /\ 1 \notin 2 .. Len(buffer')
    BY <2>2
  <2> QED BY <1>2, <2>1, <2>3, <2>4 DEF LinesInv
<1>3. CASE RemoveBlock
  BY <1>3 DEF RemoveBlock, LinesInv
<1>4. CASE CutUnterminated
  BY <1>2, <1>4 DEF CutUnterminated
<1>5. CASE NoMoreBlocks
  BY <1>2, <1>5 DEF NoMoreBlocks
<1>6. CASE ReadLine
  <2>1. /\ phase = "lines" /\ phase' = "lines" /\ line_ptr <= Len(buffer)
        /\ text' = text /\ buffer' = buffer /\ line_ptr' = LineEnd + 1
        /\ lines' = Append(lines, eliminate_whitespaces(eliminate_comment(Line)))
    BY <1>6 DEF ReadLine
  <2>2. buffer \in Seq(Nat) /\ Len(buffer) \in Nat /\ line_ptr \in Nat
    BY <1>1 DEF BlocksInv
  <2>3. /\ LineEnd \in line_ptr .. Len(buffer) + 1
        /\ LineEnd <= Len(buffer) => text[buffer[LineEnd]] = "\n"
    BY <2>1, <2>2, LineEndsThere
  <2>4. lines' \in Seq(SUBSET Nat)
    <3> DEFINE x == eliminate_whitespaces(eliminate_comment(Line))
    <3>1. x \in SUBSET Nat
      BY <1>1, <2>1, <2>2, LineIsTyped
    <3> HIDE DEF x
    <3>2. Append(lines, x) \in Seq(SUBSET Nat)
      BY <1>1, <3>1
    <3> QED BY <2>1, <3>2 DEF x
  <2>5. line_ptr' \in Nat \ {0}
    BY <1>1, <2>1, <2>2, <2>3
  <2>6. line_ptr' \in 2 .. Len(buffer) => text[buffer[line_ptr' - 1]] = "\n"
    <3> SUFFICES ASSUME line_ptr' \in 2 .. Len(buffer)
                 PROVE  text[buffer[line_ptr' - 1]] = "\n"
      OBVIOUS
    <3>1. line_ptr' - 1 = LineEnd /\ LineEnd <= Len(buffer)
      BY <1>1, <2>1, <2>2, <2>3
    <3> QED BY <2>3, <3>1
  <2>7. ASSUME NEW r, Reading(text, r), PlainReading(text, r)
        PROVE  LinesRead(text, r, buffer, line_ptr', lines')
    BY <1>6, <2>7, LineReadGoesOn
  <2> QED BY <2>1, <2>4, <2>5, <2>6, <2>7 DEF LinesInv
<1>7. CASE EndOfBuffer
  <2>1. /\ phase = "lines" /\ phase' = "done" /\ line_ptr > Len(buffer)
        /\ text' = text /\ buffer' = buffer /\ line_ptr' = line_ptr /\ lines' = lines
    BY <1>7 DEF EndOfBuffer
  <2> QED BY <2>1 DEF LinesInv
<1>8. CASE UNCHANGED vars
  BY <1>8 DEF vars, LinesInv
<1> QED BY <1>3, <1>4, <1>5, <1>6, <1>7, <1>8 DEF Next

LEMMA LinesStay == Spec => []LinesInv
<1>1. BlocksInv /\ LinesInv /\ [Next]_vars => (BlocksInv /\ LinesInv)'
  BY BlocksInvNext, LinesInvNext
<1> QED BY BlocksInvInit, LinesInvInit, <1>1, PTL DEF Spec

\* For every text and every size of a line: the passes over block comments, line
\* comments and blanks (assembler.c:13, 35, 41), which do not know of each other,
\* leave of each line that fits into the array the code that one reader of the
\* text sees, under the number of its line, unless a block comment begins in a
\* line comment or closes with its own star.
THEOREM LinesKeepTheCode == Spec => []LinesAreTheCode
<1>1. BlocksInv /\ LinesInv => LinesAreTheCode
  <2> DEFINE roles == Roles
  <2> SUFFICES ASSUME BlocksInv, LinesInv, phase = "done", Plain(roles),
                      NEW k \in 1 .. Len(text) + 1,
                      Cardinality(OnLine(roles, k)) < MAX_LINE_SIZE
               PROVE  Trimmed({p \in OnLine(roles, k) : roles[p] = "code"})
                        = IF k \in DOMAIN lines THEN lines[k] ELSE {}
    BY DEF LinesAreTheCode
  <2>1. /\ text \in Seq(STRING) /\ Len(text) \in Nat /\ buffer \in Seq(Nat)
        /\ Len(buffer) \in Nat /\ phase # "blocks"
    BY DEF BlocksInv
  <2>2. Reading(text, roles)
    BY <2>1, RolesRead
  <2>3. DOMAIN roles = 1 .. Len(text)
    BY <2>2 DEF Reading
  <2> HIDE DEF roles
  <2>4. PlainReading(text, roles)
    BY <2>1, <2>3, PlainIsPlain
  <2>5. OnLine(roles, k) = LineOf(text, roles, k)
    BY <2>3 DEF OnLine, LineOf, Newlines
  <2>6. LinesRead(text, roles, buffer, line_ptr, lines)
    BY <2>1, <2>2, <2>4 DEF LinesInv
  <2>7. Trimmed({p \in OnLine(roles, k) : roles[p] = "code"})
          = TrimmedOf(text, CodeOf(text, roles, k))
    BY <2>5, TrimmedIsOfText DEF CodeOf
  <2>8. lines \in Seq(SUBSET Nat) /\ Len(lines) \in Nat /\ DOMAIN lines = 1 .. Len(lines)
        /\ line_ptr > Len(buffer) /\ line_ptr \in Nat
    BY DEF LinesInv
  <2>9. CASE k \in DOMAIN lines
    BY <2>5, <2>6, <2>7, <2>8, <2>9 DEF LinesRead
  <2>10. CASE k \notin DOMAIN lines
    <3>1. ASSUME NEW p \in LineOf(text, roles, k) PROVE FALSE
      <4>1. /\ p \in 1 .. Len(text) /\ roles[p] \in {"code", "line"} /\ text[p] # "\n"
            /\ Cardinality(Newlines(text, roles, p)) = k - 1
        BY DEF LineOf
      <4>2. Live(text, roles, buffer)
        BY <2>1, <2>2, <2>4, BufferIsLive
      <4>3. PICK i \in 1 .. Len(buffer) : buffer[i] = p
        BY <4>1, <4>2 DEF Live
      <4>4. i < line_ptr
        BY <2>1, <2>8
      <4>5. Cardinality(Newlines(text, roles, p)) < Len(lines)
        BY <2>6, <4>1, <4>3, <4>4 DEF LinesRead
      <4>6. k - 1 < Len(lines) /\ k \in Nat \ {0}
        BY <2>1, <4>1, <4>5
      <4> QED BY <2>8, <2>10, <4>6
    <3>2. CodeOf(text, roles, k) = {}
      BY <3>1 DEF CodeOf
    <3> QED BY <2>7, <2>10, <3>2 DEF TrimmedOf
  <2> QED BY <2>9, <2>10
<1> QED BY <1>1, Blocks, LinesStay, PTL
------------------------------------------------------------------------------
(* Why both loops end.  That they do, if the thread is scheduled, is               *)
(* EveryTextIsRead; what bounds the number of their rounds is a safety property.   *)

\* How many more steps there are at most: a comment is two characters or more, a
\* line has its newline or is the last one.
StepsLeft ==
  CASE phase = "blocks" -> Len(buffer) + 2
    [] phase = "lines"  -> IF line_ptr <= Len(buffer) THEN Len(buffer) - line_ptr + 2 ELSE 1
    [] OTHER            -> 0

\* A round of eliminate_block_comments leaves a shorter buffer.
LEMMA RemovalShortens ==
  ASSUME BlocksInv, RemoveBlock
  PROVE  buffer' \in Seq(Nat) /\ Len(buffer') < Len(buffer)
<1>1. text \in Seq(STRING) /\ buffer \in Seq(Nat) /\ Len(buffer) \in Nat /\ phase = "blocks"
  BY DEF BlocksInv, RemoveBlock
<1>2. PICK m \in Nat, c \in Nat \ {0} : Scanning(text, buffer, blockStart, m, c)
  BY <1>1 DEF BlocksInv
<1>3. PICK start \in blockStart :
        \E end \in strstr(buffer, start, Close) : buffer' = Without(buffer, start, end)
  BY DEF RemoveBlock, Without
<1>4. PICK end \in strstr(buffer, start, Close) : buffer' = Without(buffer, start, end)
  BY <1>3
<1>5. start \in Nat \ {0}
  BY <1>1, <1>2, OpeningFound
<1>6. Found(text, buffer, start, Close, strstr(buffer, start, Close))
  BY <1>1, <1>5, SearchFinds
<1>7. end \in start .. Len(buffer) /\ Match(text, buffer, end, Close)
  BY <1>6 DEF Found
<1>8. end \in Nat /\ start <= end /\ end + 1 <= Len(buffer)
  BY <1>1, <1>5, <1>7, MatchOfTwo DEF Close
<1>9. buffer' \in Seq(Nat) /\ Len(buffer') = Len(buffer) - (end + 2 - start)
  BY <1>1, <1>4, <1>5, <1>8, Removed
<1> QED BY <1>1, <1>5, <1>8, <1>9

\* Both loops and the steps between them make StepsLeft smaller.
LEMMA StepsGetFewer ==
  ASSUME BlocksInv, LinesInv, Next
  PROVE  StepsLeft \in Nat /\ StepsLeft' \in Nat /\ StepsLeft' < StepsLeft
<1>1. /\ buffer \in Seq(Nat) /\ Len(buffer) \in Nat /\ line_ptr \in Nat \ {0}
      /\ phase = "blocks" => line_ptr = 1
  BY DEF BlocksInv, LinesInv
<1>2. CASE RemoveBlock
  <2>1. Len(buffer') \in Nat /\ Len(buffer') < Len(buffer)
    BY <1>2, RemovalShortens
  <2>2. phase = "blocks" /\ phase' = "blocks"
    BY <1>2 DEF RemoveBlock
  <2> QED BY <1>1, <2>1, <2>2 DEF StepsLeft
<1>3. CASE CutUnterminated
  <2>1. phase = "blocks" /\ phase' = "lines" /\ line_ptr' = line_ptr
    BY <1>3 DEF CutUnterminated
  <2>2. PICK m \in Nat, c \in Nat \ {0} : Scanning(text, buffer, blockStart, m, c)
    BY <2>1 DEF BlocksInv
  <2>3. PICK start \in blockStart : buffer' = SubSeq(buffer, 1, start - 1)
    BY <1>3 DEF CutUnterminated
  <2>4. start \in 1 .. Len(buffer)
    BY <1>1, <2>2, OpeningFound DEF BlocksInv
  <2> DEFINE k == start - 1
  <2>5. k \in 0 .. Len(buffer) /\ k < Len(buffer)
    BY <1>1, <2>4
  <2> HIDE DEF k
  <2>6. Len(buffer') = k
    BY <1>1, <2>3, <2>5, PrefixOf DEF k
  <2>7. StepsLeft = Len(buffer) + 2
    BY <2>1 DEF StepsLeft
  <2>8. StepsLeft' = IF 1 <= k THEN k - 1 + 2 ELSE 1
    BY <1>1, <2>1, <2>6 DEF StepsLeft
  <2> QED BY <1>1, <2>5, <2>7, <2>8
<1>4. CASE NoMoreBlocks
  BY <1>1, <1>4 DEF NoMoreBlocks, StepsLeft
<1>5. CASE ReadLine
  <2>1. /\ phase = "lines" /\ phase' = "lines" /\ buffer' = buffer
        /\ line_ptr <= Len(buffer) /\ line_ptr' = LineEnd + 1
    BY <1>5 DEF ReadLine
  <2>2. LineEnd \in line_ptr .. Len(buffer) + 1
    BY <1>1, <2>1, LineEndsThere
  <2> DEFINE n == Len(buffer)
             e == LineEnd
  <2>3. n \in Nat /\ line_ptr \in Nat /\ line_ptr <= n /\ e \in line_ptr .. n + 1
    BY <1>1, <2>1, <2>2
  <2>4. StepsLeft = n - line_ptr + 2
    BY <2>1 DEF StepsLeft
  <2>5. StepsLeft' = IF e + 1 <= n THEN n - (e + 1) + 2 ELSE 1
    BY <2>1 DEF StepsLeft
  <2> HIDE DEF n, e
  <2> QED BY <2>3, <2>4, <2>5
<1>6. CASE EndOfBuffer
  BY <1>1, <1>6 DEF EndOfBuffer, StepsLeft
<1> QED BY <1>2, <1>3, <1>4, <1>5, <1>6 DEF Next

\* For every text: each round of the loops over comments and over lines
\* (assembler.c:14, 165) brings the end closer, so there are no more of them than
\* there are characters, and two.
THEOREM RoundsAreBounded ==
  Spec => [](StepsLeft \in 0 .. Len(text) + 2) /\ [][StepsLeft' < StepsLeft]_vars
<1> DEFINE Bounded == StepsLeft \in 0 .. Len(text) + 2
<1>1. Init => Bounded
  <2> SUFFICES ASSUME Init PROVE Bounded
    OBVIOUS
  <2>1. Len(text) \in Nat
    BY TextsAssumption DEF Init
  <2>2. Len(buffer) = Len(text) /\ phase = "blocks"
    BY <2>1 DEF Init
  <2> QED BY <2>1, <2>2 DEF StepsLeft
<1>2. ASSUME BlocksInv, LinesInv, Bounded, [Next]_vars
      PROVE  Bounded' /\ [StepsLeft' < StepsLeft]_vars
  <2>1. CASE UNCHANGED vars
    <3>1. StepsLeft' = StepsLeft /\ text' = text
      BY <2>1 DEF vars, StepsLeft
    <3> QED BY <1>2, <2>1, <3>1
  <2>2. CASE Next
    <3>1. StepsLeft \in Nat /\ StepsLeft' \in Nat /\ StepsLeft' < StepsLeft
      BY <1>2, <2>2, StepsGetFewer
    <3>2. text' = text /\ Len(text) \in Nat
      BY <1>2, <2>2 DEF BlocksInv, Next, RemoveBlock, CutUnterminated, NoMoreBlocks, ReadLine,
                        EndOfBuffer
    <3> HIDE DEF Next
    <3> QED BY <1>2, <3>1, <3>2
  <2> QED BY <1>2, <2>1, <2>2
<1> HIDE DEF Bounded
<1>3. Spec => []Bounded /\ [][StepsLeft' < StepsLeft]_vars
  BY <1>1, <1>2, Blocks, LinesStay, PTL DEF Spec
<1> QED BY <1>3 DEF Bounded
===============================================================================
