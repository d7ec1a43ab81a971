---------------------------- MODULE TabSplit_proof ----------------------------
(****************************************************************************)
(* Proofs about the split of the alphabet, for any number of letters and    *)
(* any number of games under each.                                          *)
(****************************************************************************)
EXTENDS TabSplit, FiniteSetTheorems, WellFoundedInduction, TLAPS

\* A set of naturals with an element has a least one.
LEMMA NatMin ==
  ASSUME NEW T \in SUBSET Nat, T # {}
  PROVE  \E x \in T : \A y \in T : x <= y
<1> DEFINE R == OpToRel(<, Nat)
<1>1. IsWellFoundedOn(R, Nat)
  BY NatLessThanWellFounded
<1>2. \A x, y \in Nat : <<x, y>> \in R <=> x < y
  BY DEF OpToRel
<1> HIDE DEF R
<1>3. PICK x \in T : \A y \in T : <<y, x>> \notin R
  BY <1>1, WFMin, Zenon
<1>4. ASSUME NEW y \in T PROVE x <= y
  <2>1. x \in Nat /\ y \in Nat
    OBVIOUS
  <2>2. ~(y < x)
    BY <1>2, <1>3, <2>1
  <2> QED
    BY <2>1, <2>2
<1> QED
  BY <1>4

------------------------------------------------------------------------------
(* Counting games                                                            *)

\* The games under these letters, each as a pair.
Games(counts, letters) == UNION {{l} \X (1..counts[l]) : l \in letters}

LEMMA GamesFinite ==
  ASSUME NEW letters \in SUBSET Letters, NEW counts \in [Letters -> Nat]
  PROVE  IsFiniteSet(Games(counts, letters)) /\ GamesIn(counts, letters) \in Nat
<1> DEFINE Part(l) == {l} \X (1..counts[l])
           parts == {Part(l) : l \in letters}
           f == [l \in letters |-> Part(l)]
<1>1. IsFiniteSet(letters)
  <2>1. IsFiniteSet(Letters)
    BY FS_Interval, SplitAssumption DEF Letters
  <2> QED
    BY <2>1, FS_Subset
<1>2. \A l \in letters : IsFiniteSet(Part(l))
  <2> SUFFICES ASSUME NEW l \in letters PROVE IsFiniteSet(Part(l))
    OBVIOUS
  <2>1. counts[l] \in Int /\ 1 \in Int
    OBVIOUS
  <2>2. IsFiniteSet({l}) /\ IsFiniteSet(1..counts[l])
    BY <2>1, FS_Singleton, FS_Interval
  <2> QED
    BY <2>2, FS_Product
<1>3. IsFiniteSet(parts)
  <2>1. f \in Surjection(letters, parts)
    BY Zenon DEF Surjection
  <2> QED
    BY <1>1, <2>1, FS_Surjection
<1>4. \A T \in parts : IsFiniteSet(T)
  BY <1>2
<1>5. Games(counts, letters) = UNION parts
  BY DEF Games
<1> HIDE DEF parts
<1>6. IsFiniteSet(Games(counts, letters))
  BY <1>3, <1>4, <1>5, FS_UNION
<1> QED
  BY <1>6, FS_CardinalityType DEF Games, GamesIn

\* Under letters of two disjoint sets there are as many games as under each.
LEMMA GamesAdd ==
  ASSUME NEW A \in SUBSET Letters, NEW B \in SUBSET Letters, A \cap B = {},
         NEW counts \in [Letters -> Nat]
  PROVE  GamesIn(counts, A \cup B) = GamesIn(counts, A) + GamesIn(counts, B)
<1>1. Games(counts, A \cup B) = Games(counts, A) \cup Games(counts, B)
  BY DEF Games
<1>2. Games(counts, A) \cap Games(counts, B) = {}
  BY DEF Games
<1>3. IsFiniteSet(Games(counts, A)) /\ IsFiniteSet(Games(counts, B))
  BY GamesFinite
<1>4. Cardinality(Games(counts, A) \cap Games(counts, B)) = 0
  BY <1>2, FS_EmptySet
<1>5. Cardinality(Games(counts, A \cup B))
        = Cardinality(Games(counts, A)) + Cardinality(Games(counts, B)) - 0
  BY <1>1, <1>3, <1>4, FS_Union
<1>6. GamesIn(counts, A) \in Nat /\ GamesIn(counts, B) \in Nat
  BY GamesFinite
<1> QED
  BY <1>5, <1>6 DEF Games, GamesIn

------------------------------------------------------------------------------
(* The split                                                                 *)

LEMMA SizesAdd ==
  ASSUME NEW counts \in [Letters -> Nat], NEW s \in Splits
  PROVE  LET z == SizesOf(counts, s) IN
           /\ z[1] \in Nat /\ z[2] \in Nat /\ z[3] \in Nat
           /\ z[1] + z[2] + z[3] = GamesIn(counts, Letters)
           /\ GamesIn(counts, Letters) \in Nat
<1> DEFINE A == 0..s[1]
           B == (s[1] + 1)..s[2]
           C == (s[2] + 1)..LastLetter
<1>1. /\ s[1] \in 0..(LastLetter - 2) /\ s[2] \in 1..(LastLetter - 1)
      /\ s[1] < s[2]
  BY DEF Splits
<1>2. /\ A \in SUBSET Letters /\ B \in SUBSET Letters /\ C \in SUBSET Letters
      /\ A \cup B \in SUBSET Letters
      /\ A \cap B = {} /\ (A \cup B) \cap C = {}
      /\ (A \cup B) \cup C = Letters
  <2> DEFINE p == s[1]
             q == s[2]
  <2>1. p \in Int /\ q \in Int /\ 0 <= p /\ p < q /\ q < LastLetter /\ LastLetter \in Int
    BY <1>1, SplitAssumption
  <2> HIDE DEF p, q
  <2>2. /\ 0..p \subseteq 0..LastLetter /\ (p + 1)..q \subseteq 0..LastLetter
        /\ (q + 1)..LastLetter \subseteq 0..LastLetter
    BY <2>1
  <2>3. (0..p) \cap ((p + 1)..q) = {}
    BY <2>1
  <2>4. (0..p) \cup ((p + 1)..q) = 0..q
    BY <2>1
  <2>5. (0..q) \cap ((q + 1)..LastLetter) = {}
    BY <2>1
  <2>6. (0..q) \cup ((q + 1)..LastLetter) = 0..LastLetter
    BY <2>1
  <2>7. 0..q \subseteq 0..LastLetter
    BY <2>1
  <2> QED
    BY <2>2, <2>3, <2>4, <2>5, <2>6, <2>7 DEF Letters, p, q
<1>3. /\ SizesOf(counts, s)[1] = GamesIn(counts, A)
      /\ SizesOf(counts, s)[2] = GamesIn(counts, B)
      /\ SizesOf(counts, s)[3] = GamesIn(counts, C)
  BY DEF SizesOf, Sizes
<1> HIDE DEF A, B, C
<1>4. GamesIn(counts, A) \in Nat /\ GamesIn(counts, B) \in Nat /\ GamesIn(counts, C) \in Nat
  BY <1>2, GamesFinite
<1>5. GamesIn(counts, Letters) = GamesIn(counts, A \cup B) + GamesIn(counts, C)
  BY <1>2, GamesAdd
<1>6. GamesIn(counts, A \cup B) = GamesIn(counts, A) + GamesIn(counts, B)
  BY <1>2, GamesAdd
<1> QED
  BY <1>3, <1>4, <1>5, <1>6

\* The ideal size of a tab.
Ideal(counts) == GamesIn(counts, Letters) \div 3

LEMMA DiffIs ==
  ASSUME NEW counts \in [Letters -> Nat], NEW s \in Splits
  PROVE  LET z == SizesOf(counts, s) IN
           /\ Ideal(counts) \in Nat
           /\ Diff(counts, s) = Distance(z[1], Ideal(counts)) + Distance(z[2], Ideal(counts))
                                  + Distance(z[3], Ideal(counts))
           /\ \A i \in 1..3 : Distance(z[i], Ideal(counts)) \in Nat
           /\ Diff(counts, s) \in Nat
<1> DEFINE z == SizesOf(counts, s)
<1>1. z[1] \in Nat /\ z[2] \in Nat /\ z[3] \in Nat /\ GamesIn(counts, Letters) \in Nat
  BY SizesAdd
<1>2. Diff(counts, s) = Distance(z[1], Ideal(counts)) + Distance(z[2], Ideal(counts))
                          + Distance(z[3], Ideal(counts))
  BY DEF Diff, Ideal, SizesOf
<1> HIDE DEF z
<1>3. Ideal(counts) \in Nat
  BY <1>1 DEF Ideal
<1>4. ASSUME NEW a \in Nat, NEW b \in Nat PROVE Distance(a, b) \in Nat
  BY DEF Distance
<1>5. /\ Distance(z[1], Ideal(counts)) \in Nat
      /\ Distance(z[2], Ideal(counts)) \in Nat
      /\ Distance(z[3], Ideal(counts)) \in Nat
  BY <1>1, <1>3, <1>4
<1>6. \A i \in 1..3 : Distance(z[i], Ideal(counts)) \in Nat
  BY <1>5
<1> QED
  BY <1>2, <1>3, <1>5, <1>6 DEF z

\* A best split is one of the splits, and none is nearer to three equal tabs.
LEMMA NoneIsBetter ==
  ASSUME NEW counts \in [Letters -> Nat], NEW best, IsBestSplit(counts, best)
  PROVE  /\ best \in Splits
         /\ \A t \in Splits : Diff(counts, best) <= Diff(counts, t)
<1>1. best \in Splits
  BY DEF IsBestSplit
<1>2. ASSUME NEW t \in Splits PROVE Diff(counts, best) <= Diff(counts, t)
  <2>1. Diff(counts, best) \in Nat /\ Diff(counts, t) \in Nat
    BY <1>1, DiffIs
  <2>2. Diff(counts, best) < Diff(counts, t) \/ Diff(counts, best) = Diff(counts, t)
    BY DEF IsBestSplit
  <2> QED
    BY <2>1, <2>2
<1> QED
  BY <1>1, <1>2

LEMMA ExtremesOfThree ==
  ASSUME NEW z, z[1] \in Nat, z[2] \in Nat, z[3] \in Nat
  PROVE  Smallest(z) = Largest(z) <=> z[1] = z[2] /\ z[2] = z[3]
<1> DEFINE S == {z[t] : t \in 1..3}
           a == z[1]
           b == z[2]
           c == z[3]
<1>0. 1..3 = {1, 2, 3}
  OBVIOUS
<1>1. S = {a, b, c}
  BY <1>0, Zenon
<1>2. Smallest(z) = CHOOSE x \in S : \A y \in S : x <= y
  BY DEF Smallest, Min
<1>3. Largest(z) = CHOOSE x \in S : \A y \in S : x >= y
  BY DEF Largest, Max
<1>n. a \in Nat /\ b \in Nat /\ c \in Nat
  OBVIOUS
<1> HIDE DEF S, a, b, c
<1>4. \E x \in S : \A y \in S : x <= y
  <2>1. CASE a <= b /\ a <= c
    BY <1>1, <1>n, <2>1
  <2>2. CASE b <= a /\ b <= c
    BY <1>1, <1>n, <2>2
  <2>3. CASE c <= a /\ c <= b
    BY <1>1, <1>n, <2>3
  <2> QED
    BY <1>n, <2>1, <2>2, <2>3
<1>5. \E x \in S : \A y \in S : x >= y
  <2>1. CASE a >= b /\ a >= c
    BY <1>1, <1>n, <2>1
  <2>2. CASE b >= a /\ b >= c
    BY <1>1, <1>n, <2>2
  <2>3. CASE c >= a /\ c >= b
    BY <1>1, <1>n, <2>3
  <2> QED
    BY <1>n, <2>1, <2>2, <2>3
<1>6. Smallest(z) \in S /\ \A y \in S : Smallest(z) <= y
  BY <1>2, <1>4
<1>7. Largest(z) \in S /\ \A y \in S : Largest(z) >= y
  BY <1>3, <1>5
<1>8. Smallest(z) = Largest(z) => a = b /\ b = c
  BY <1>1, <1>n, <1>6, <1>7
<1>9. a = b /\ b = c => Smallest(z) = Largest(z)
  BY <1>1, <1>6, <1>7
<1> QED
  BY <1>8, <1>9 DEF a, b, c

\* Whenever the letters allow three tabs of the same size, the menu has them.
THEOREM EqualThirds ==
  ASSUME NEW counts \in [Letters -> Nat], NEW best, IsBestSplit(counts, best)
  PROVE  EqualThirdsFound(counts, best)
<1> SUFFICES ASSUME NEW s \in Splits, Smallest(SizesOf(counts, s)) = Largest(SizesOf(counts, s))
             PROVE  Smallest(SizesOf(counts, best)) = Largest(SizesOf(counts, best))
  BY DEF EqualThirdsFound
<1> DEFINE z == SizesOf(counts, s)
           y == SizesOf(counts, best)
           ideal == Ideal(counts)
<1>1. best \in Splits /\ Diff(counts, best) <= Diff(counts, s)
  BY NoneIsBetter
<1>2. /\ z[1] \in Nat /\ z[2] \in Nat /\ z[3] \in Nat
      /\ z[1] + z[2] + z[3] = GamesIn(counts, Letters)
  BY SizesAdd
<1>3. y[1] \in Nat /\ y[2] \in Nat /\ y[3] \in Nat
  BY <1>1, SizesAdd
<1>4. z[1] = z[2] /\ z[2] = z[3]
  BY <1>2, ExtremesOfThree
<1>5. ideal = z[1]
  <2> DEFINE v == z[1]
  <2>1. v \in Nat /\ GamesIn(counts, Letters) = v + v + v
    BY <1>2, <1>4
  <2> HIDE DEF v
  <2>2. (v + v + v) \div 3 = v
    BY <2>1
  <2> QED
    BY <2>1, <2>2 DEF Ideal, v
<1>6. Diff(counts, s) = 0
  <2>1. ASSUME NEW v \in Nat PROVE Distance(v, v) = 0
    BY DEF Distance
  <2>2. Diff(counts, s) = Distance(z[1], ideal) + Distance(z[2], ideal) + Distance(z[3], ideal)
    BY DiffIs
  <2>3. Distance(z[1], ideal) = 0 /\ Distance(z[2], ideal) = 0 /\ Distance(z[3], ideal) = 0
    BY <1>2, <1>4, <1>5, <2>1
  <2> QED
    BY <2>2, <2>3
<1>7. /\ ideal \in Nat
      /\ Diff(counts, best) = Distance(y[1], ideal) + Distance(y[2], ideal) + Distance(y[3], ideal)
      /\ Distance(y[1], ideal) \in Nat /\ Distance(y[2], ideal) \in Nat
      /\ Distance(y[3], ideal) \in Nat
  BY <1>1, DiffIs
<1> HIDE DEF y, z, ideal
<1>8. Distance(y[1], ideal) = 0 /\ Distance(y[2], ideal) = 0 /\ Distance(y[3], ideal) = 0
  BY <1>1, <1>6, <1>7
<1>9. ASSUME NEW v \in Nat, Distance(v, ideal) = 0 PROVE v = ideal
  BY <1>7, <1>9 DEF Distance
<1>10. y[1] = y[2] /\ y[2] = y[3]
  BY <1>3, <1>8, <1>9
<1> QED
  BY <1>3, <1>10, ExtremesOfThree DEF y

------------------------------------------------------------------------------
(* No tab starves                                                            *)

\* The games under the letters up to the k-th, and those under the fullest.
UpTo(counts, k) == GamesIn(counts, 0..k)
Fullest(counts) == Max({counts[l] : l \in Letters})

LEMMA GamesOfOne ==
  ASSUME NEW counts \in [Letters -> Nat], NEW l \in Letters
  PROVE  GamesIn(counts, {l}) = counts[l]
<1> DEFINE n == counts[l]
           f == [i \in 1..n |-> <<l, i>>]
<1>1. n \in Nat
  OBVIOUS
<1>2. Games(counts, {l}) = {l} \X (1..n)
  BY DEF Games
<1> HIDE DEF n
<1>3. f \in Bijection(1..n, {l} \X (1..n))
  <2>1. f \in [1..n -> {l} \X (1..n)]
    OBVIOUS
  <2>2. \A a, b \in 1..n : f[a] = f[b] => a = b
    OBVIOUS
  <2>3. \A t \in {l} \X (1..n) : \E a \in 1..n : f[a] = t
    <3>1. ASSUME NEW t \in {l} \X (1..n) PROVE t[2] \in 1..n /\ f[t[2]] = t
      OBVIOUS
    <3> QED
      BY <3>1, Zenon
  <2> HIDE DEF f
  <2> QED
    BY <2>1, <2>2, <2>3, Zenon DEF Bijection, Injection, IsInjective, Surjection
<1>4. IsFiniteSet(1..n) /\ Cardinality(1..n) = n
  <2>1. 1 \in Int /\ n \in Int
    BY <1>1
  <2>2. /\ IsFiniteSet(1..n)
        /\ Cardinality(1..n) = IF 1 > n THEN 0 ELSE n - 1 + 1
    BY <2>1, FS_Interval
  <2> QED
    BY <1>1, <2>2
<1> HIDE DEF f
<1>5. Cardinality({l} \X (1..n)) = n
  <2>1. Cardinality({l} \X (1..n)) = Cardinality(1..n)
    BY <1>3, <1>4, FS_Bijection, Zenon DEF ExistsBijection
  <2> QED
    BY <1>4, <2>1
<1> QED
  BY <1>2, <1>5 DEF Games, GamesIn, n

\* From one letter to a later one the games grow by those in between.
LEMMA UpToGrows ==
  ASSUME NEW counts \in [Letters -> Nat], NEW k \in Letters, NEW m \in Letters, k <= m
  PROVE  /\ UpTo(counts, k) \in Nat /\ UpTo(counts, m) \in Nat
         /\ GamesIn(counts, (k + 1)..m) \in Nat
         /\ UpTo(counts, m) = UpTo(counts, k) + GamesIn(counts, (k + 1)..m)
<1>1. k \in Int /\ m \in Int /\ LastLetter \in Int /\ 0 <= k /\ m <= LastLetter
  BY SplitAssumption DEF Letters
<1>2. 0..k \subseteq 0..LastLetter /\ (k + 1)..m \subseteq 0..LastLetter /\ 0..m \subseteq 0..LastLetter
  BY <1>1
<1>3. (0..k) \cap ((k + 1)..m) = {}
  BY <1>1
<1>4. (0..k) \cup ((k + 1)..m) = 0..m
  BY <1>1
<1>5. GamesIn(counts, (0..k) \cup ((k + 1)..m)) = GamesIn(counts, 0..k) + GamesIn(counts, (k + 1)..m)
  BY <1>2, <1>3, GamesAdd DEF Letters
<1>6. /\ GamesIn(counts, 0..k) \in Nat /\ GamesIn(counts, 0..m) \in Nat
      /\ GamesIn(counts, (k + 1)..m) \in Nat
  BY <1>2, GamesFinite DEF Letters
<1> QED
  BY <1>4, <1>5, <1>6 DEF UpTo

LEMMA UpToSteps ==
  ASSUME NEW counts \in [Letters -> Nat], NEW k \in Letters, k + 1 \in Letters
  PROVE  UpTo(counts, k + 1) = UpTo(counts, k) + counts[k + 1]
<1>1. (k + 1)..(k + 1) = {k + 1}
  BY DEF Letters
<1>2. k <= k + 1
  BY DEF Letters
<1>3. UpTo(counts, k + 1) = UpTo(counts, k) + GamesIn(counts, (k + 1)..(k + 1))
  BY <1>2, UpToGrows
<1> QED
  BY <1>1, <1>3, GamesOfOne

\* There is a fullest letter, and it has a game when there is one at all.
LEMMA FullestIs ==
  ASSUME NEW counts \in [Letters -> Nat]
  PROVE  /\ Fullest(counts) \in Nat
         /\ \A l \in Letters : counts[l] <= Fullest(counts)
         /\ GamesIn(counts, Letters) > 0 => Fullest(counts) > 0
<1> DEFINE S == {counts[l] : l \in Letters}
           all == GamesIn(counts, Letters)
<1>1. 0 \in Letters
  BY SplitAssumption DEF Letters
<1>2. all \in Nat
  BY GamesFinite
<1>3. ASSUME NEW l \in Letters PROVE counts[l] \in Nat /\ counts[l] <= all
  <2> DEFINE rest == Letters \ {l}
  <2>1. rest \in SUBSET Letters /\ {l} \in SUBSET Letters /\ {l} \cap rest = {} /\ {l} \cup rest = Letters
    OBVIOUS
  <2> HIDE DEF rest
  <2>2. GamesIn(counts, {l} \cup rest) = GamesIn(counts, {l}) + GamesIn(counts, rest)
    BY <2>1, GamesAdd
  <2>3. GamesIn(counts, rest) \in Nat
    BY <2>1, GamesFinite
  <2>4. GamesIn(counts, {l}) = counts[l]
    BY GamesOfOne
  <2> QED
    <3>1. all = counts[l] + GamesIn(counts, rest)
      BY <2>1, <2>2, <2>4 DEF all
    <3>2. counts[l] \in Nat
      OBVIOUS
    <3> QED
      BY <2>3, <3>1, <3>2
<1> HIDE DEF all
<1>4. \E x \in S : \A y \in S : x >= y
  <2> DEFINE D == {all - counts[l] : l \in Letters}
  <2>1. D \in SUBSET Nat
    BY <1>2, <1>3
  <2>2. D # {}
    BY <1>1
  <2>3. PICK d \in D : \A e \in D : d <= e
    BY <2>1, <2>2, NatMin
  <2>4. PICK m \in Letters : d = all - counts[m]
    BY <2>3
  <2>5. ASSUME NEW l \in Letters PROVE counts[m] >= counts[l]
    <3>1. d <= all - counts[l]
      BY <2>3
    <3> QED
      BY <1>2, <1>3, <2>4, <3>1
  <2> QED
    BY <2>5
<1>5. Fullest(counts) \in S /\ \A y \in S : Fullest(counts) >= y
  <2>1. Fullest(counts) = CHOOSE x \in S : \A y \in S : x >= y
    BY DEF Fullest, Max
  <2> HIDE DEF S
  <2> QED
    BY <1>4, <2>1
<1>6. ASSUME Fullest(counts) = 0 PROVE all = 0
  <2>1. \A l \in Letters : counts[l] = 0
    BY <1>3, <1>5, <1>6
  <2>2. \A l \in Letters : 1..counts[l] = {}
    BY <2>1
  <2>3. Games(counts, Letters) = {}
    BY <2>2 DEF Games
  <2> QED
    BY <2>3, FS_EmptySet DEF Games, GamesIn, all
<1>7. /\ Fullest(counts) \in Nat
      /\ \A l \in Letters : counts[l] <= Fullest(counts)
  BY <1>3, <1>5
<1> QED
  BY <1>6, <1>7 DEF all

\* A letter that is the first with games after the k-th: the split that moves up
\* to it moves a game, and at most as many as the fullest letter has.
LEMMA FirstAfter ==
  ASSUME NEW counts \in [Letters -> Nat], NEW k \in Letters, NEW m \in Letters,
         UpTo(counts, k) < UpTo(counts, m)
  PROVE  \E j \in Letters : /\ k < j /\ j <= m
                            /\ UpTo(counts, k) < UpTo(counts, j)
                            /\ UpTo(counts, j) <= UpTo(counts, k) + Fullest(counts)
<1> DEFINE P(i) == UpTo(counts, i)
           J == {j \in Letters : P(k) < P(j)}
<1>0. Letters \subseteq Nat /\ \A i \in Letters : P(i) \in Nat
  BY UpToGrows DEF Letters
<1>1. PICK j \in J : \A i \in J : j <= i
  <2>1. J \in SUBSET Nat /\ J # {}
    BY <1>0
  <2> QED
    BY <2>1, NatMin
<1>2. k < j
  <2>1. j \in Letters /\ P(k) < P(j) /\ P(k) \in Nat /\ P(j) \in Nat /\ j \in Nat /\ k \in Nat
    BY <1>0, <1>1
  <2>2. j <= k => P(j) <= P(k)
    BY <2>1, UpToGrows
  <2> HIDE DEF P
  <2> QED
    BY <2>1, <2>2
<1>3. j - 1 \in Letters /\ k <= j - 1
  <2>1. j \in Letters
    BY <1>1
  <2> QED
    BY <1>2, <2>1, SplitAssumption DEF Letters
<1>4. P(j) = P(j - 1) + counts[j]
  <2>1. (j - 1) + 1 = j
    BY <1>0, <1>1
  <2> QED
    BY <1>1, <1>3, <2>1, UpToSteps
<1>5. P(j - 1) <= P(k)
  <2>1. j - 1 \notin J
    BY <1>0, <1>1, <1>3
  <2> QED
    BY <1>0, <1>3, <2>1
<1>6. counts[j] <= Fullest(counts) /\ counts[j] \in Nat /\ Fullest(counts) \in Nat
  BY <1>1, FullestIs
<1>7. j <= m /\ j \in Letters /\ P(k) < P(j)
  BY <1>1
<1>8. P(j) <= P(k) + Fullest(counts)
  BY <1>0, <1>3, <1>4, <1>5, <1>6, <1>7
<1> QED
  BY <1>2, <1>7, <1>8

\* The same from the other side: the split that moves down behind the last letter
\* with games up to the m-th.
LEMMA LastBefore ==
  ASSUME NEW counts \in [Letters -> Nat], NEW k \in Letters, NEW m \in Letters,
         UpTo(counts, k) < UpTo(counts, m)
  PROVE  \E j \in Letters : /\ k <= j /\ j < m
                            /\ UpTo(counts, j) < UpTo(counts, m)
                            /\ UpTo(counts, m) <= UpTo(counts, j) + Fullest(counts)
<1> DEFINE P(i) == UpTo(counts, i)
           J == {j \in Letters : P(m) <= P(j)}
<1>0. Letters \subseteq Nat /\ \A i \in Letters : P(i) \in Nat
  BY UpToGrows DEF Letters
<1>1. PICK j \in J : \A i \in J : j <= i
  <2>1. m \in J
    BY <1>0
  <2>2. J \in SUBSET Nat /\ J # {}
    BY <1>0, <2>1
  <2> QED
    BY <2>2, NatMin
<1>2. k < j
  <2>1. P(k) < P(j) /\ j \in Letters
    BY <1>0, <1>1
  <2>2. j <= k => P(j) <= P(k)
    BY <2>1, UpToGrows
  <2> QED
    BY <1>0, <2>1, <2>2
<1>3. j - 1 \in Letters /\ k <= j - 1
  <2>1. j \in Letters
    BY <1>1
  <2> QED
    BY <1>2, <2>1, SplitAssumption DEF Letters
<1>4. P(j) = P(j - 1) + counts[j]
  <2>1. (j - 1) + 1 = j
    BY <1>0, <1>1
  <2> QED
    BY <1>1, <1>3, <2>1, UpToSteps
<1>5. P(j - 1) < P(m)
  <2>1. j - 1 \notin J
    BY <1>0, <1>1, <1>3
  <2> QED
    BY <1>0, <1>3, <2>1
<1>6. counts[j] <= Fullest(counts) /\ counts[j] \in Nat /\ Fullest(counts) \in Nat
  BY <1>1, FullestIs
<1>7. j <= m /\ P(m) <= P(j)
  <2>1. m \in J
    BY <1>0
  <2> QED
    BY <1>1, <2>1
<1>8. P(m) <= P(j - 1) + Fullest(counts)
  BY <1>0, <1>1, <1>3, <1>4, <1>6, <1>7
<1>9. j - 1 < m
  BY <1>0, <1>1, <1>7
<1> QED
  BY <1>3, <1>5, <1>8, <1>9

\* The sizes of the tabs by the games up to each letter.
LEMMA SizesByUpTo ==
  ASSUME NEW counts \in [Letters -> Nat], NEW s \in Splits
  PROVE  LET z == SizesOf(counts, s) IN
           /\ s[1] \in Letters /\ s[2] \in Letters /\ LastLetter \in Letters
           /\ 0 <= s[1] /\ s[1] < s[2] /\ s[2] < LastLetter /\ s = <<s[1], s[2]>>
           /\ z[1] = UpTo(counts, s[1])
           /\ UpTo(counts, s[2]) = UpTo(counts, s[1]) + z[2]
           /\ GamesIn(counts, Letters) = UpTo(counts, s[2]) + z[3]
<1> DEFINE z == SizesOf(counts, s)
<1>1. /\ s[1] \in Letters /\ s[2] \in Letters /\ LastLetter \in Letters
      /\ 0 <= s[1] /\ s[1] < s[2] /\ s[2] < LastLetter /\ s = <<s[1], s[2]>>
  BY SplitAssumption DEF Splits, Letters
<1>2. /\ z[1] = GamesIn(counts, 0..s[1])
      /\ z[2] = GamesIn(counts, (s[1] + 1)..s[2])
      /\ z[3] = GamesIn(counts, (s[2] + 1)..LastLetter)
  BY DEF SizesOf, Sizes
<1> HIDE DEF z
<1>3. s[1] <= s[2] /\ s[2] <= LastLetter
  BY <1>1 DEF Letters
<1>4. UpTo(counts, s[2]) = UpTo(counts, s[1]) + z[2]
  BY <1>1, <1>2, <1>3, UpToGrows
<1>5. UpTo(counts, LastLetter) = UpTo(counts, s[2]) + z[3]
  BY <1>1, <1>2, <1>3, UpToGrows
<1>6. z[1] = UpTo(counts, s[1]) /\ GamesIn(counts, Letters) = UpTo(counts, LastLetter)
  BY <1>2 DEF UpTo, Letters
<1> QED
  BY <1>1, <1>4, <1>5, <1>6 DEF z

\* How far three sizes are from the ideal one.
Off(ideal, a, b, c) == Distance(a, ideal) + Distance(b, ideal) + Distance(c, ideal)

\* No split is nearer to the ideal than the chosen one.
LEMMA NoneIsNearer ==
  ASSUME NEW counts \in [Letters -> Nat], NEW k1 \in Letters, NEW k2 \in Letters,
         k1 < k2, k2 < LastLetter, NEW best, IsBestSplit(counts, best)
  PROVE  LET z == SizesOf(counts, best)
             a == UpTo(counts, k1)
             b == UpTo(counts, k2) - UpTo(counts, k1)
             c == GamesIn(counts, Letters) - UpTo(counts, k2)
         IN Off(Ideal(counts), z[1], z[2], z[3]) <= Off(Ideal(counts), a, b, c)
<1> DEFINE t == <<k1, k2>>
           z == SizesOf(counts, t)
<1>1. t \in Splits
  BY SplitAssumption DEF Splits, Letters
<1>2. t[1] = k1 /\ t[2] = k2
  OBVIOUS
<1> HIDE DEF t
<1>3. z[1] \in Nat /\ z[2] \in Nat /\ z[3] \in Nat
  BY <1>1, SizesAdd
<1>4. /\ z[1] = UpTo(counts, k1)
      /\ UpTo(counts, k2) = UpTo(counts, k1) + z[2]
      /\ GamesIn(counts, Letters) = UpTo(counts, k2) + z[3]
  BY <1>1, <1>2, SizesByUpTo
<1>5. UpTo(counts, k1) \in Nat /\ UpTo(counts, k2) \in Nat
  BY UpToGrows DEF Letters
<1> HIDE DEF z
<1>6. z[2] = UpTo(counts, k2) - UpTo(counts, k1) /\ z[3] = GamesIn(counts, Letters) - UpTo(counts, k2)
  BY <1>3, <1>4, <1>5
<1>7. Diff(counts, t) = Off(Ideal(counts), z[1], z[2], z[3])
  BY <1>1, DiffIs DEF Off, z
<1>8. best \in Splits /\ Diff(counts, best) <= Diff(counts, t)
  BY <1>1, NoneIsBetter
<1>9. Diff(counts, best)
        = LET y == SizesOf(counts, best) IN Off(Ideal(counts), y[1], y[2], y[3])
  BY <1>8, DiffIs DEF Off
<1> QED
  BY <1>4, <1>6, <1>7, <1>8, <1>9

\* To move games from a tab that has too many to one that has too few by as many
\* brings the split nearer to the ideal, also through the tab in between.
LEMMA Nearer ==
  ASSUME NEW i \in Nat, NEW a \in Nat, NEW b \in Nat, NEW c \in Nat, NEW x \in Nat, NEW y \in Nat
  PROVE  /\ 0 < x /\ a + x <= i /\ i < b /\ x <= b => Off(i, a + x, b - x, c) < Off(i, a, b, c)
         /\ 0 < y /\ b < i /\ i <= c - y => Off(i, a, b + y, c - y) < Off(i, a, b, c)
         /\ 0 < x /\ 0 < y /\ a + x <= i /\ b = i /\ i <= c - y
              => Off(i, a + x, b - x + y, c - y) < Off(i, a, b, c)
         /\ 0 < y /\ c + y <= i /\ i < b /\ y <= b => Off(i, a, b - y, c + y) < Off(i, a, b, c)
         /\ 0 < x /\ b < i /\ i <= a - x => Off(i, a - x, b + x, c) < Off(i, a, b, c)
         /\ 0 < x /\ 0 < y /\ c + y <= i /\ b = i /\ i <= a - x
              => Off(i, a - x, b + x - y, c + y) < Off(i, a, b, c)
         /\ 0 < y /\ b + y <= i /\ i < c => Off(i, a, b + y, c - y) < Off(i, a, b, c)
         /\ 0 < x /\ b + x <= i /\ i < a => Off(i, a - x, b + x, c) < Off(i, a, b, c)
<1>1. 0 < x /\ a + x <= i /\ i < b /\ x <= b => Off(i, a + x, b - x, c) < Off(i, a, b, c)
  BY DEF Off, Distance
<1>2. 0 < y /\ b < i /\ i <= c - y => Off(i, a, b + y, c - y) < Off(i, a, b, c)
  BY DEF Off, Distance
<1>3. 0 < x /\ 0 < y /\ a + x <= i /\ b = i /\ i <= c - y
        => Off(i, a + x, b - x + y, c - y) < Off(i, a, b, c)
  BY DEF Off, Distance
<1>4. 0 < y /\ c + y <= i /\ i < b /\ y <= b => Off(i, a, b - y, c + y) < Off(i, a, b, c)
  BY DEF Off, Distance
<1>5. 0 < x /\ b < i /\ i <= a - x => Off(i, a - x, b + x, c) < Off(i, a, b, c)
  BY DEF Off, Distance
<1>6. 0 < x /\ 0 < y /\ c + y <= i /\ b = i /\ i <= a - x
        => Off(i, a - x, b + x - y, c + y) < Off(i, a, b, c)
  BY DEF Off, Distance
<1>7. 0 < y /\ b + y <= i /\ i < c => Off(i, a, b + y, c - y) < Off(i, a, b, c)
  BY DEF Off, Distance
<1>8. 0 < x /\ b + x <= i /\ i < a => Off(i, a - x, b + x, c) < Off(i, a, b, c)
  BY DEF Off, Distance
<1> QED
  BY <1>1, <1>2, <1>3, <1>4, <1>5, <1>6, <1>7, <1>8

LEMMA SmallestIsOne ==
  ASSUME NEW z, z[1] \in Nat, z[2] \in Nat, z[3] \in Nat
  PROVE  Smallest(z) = z[1] \/ Smallest(z) = z[2] \/ Smallest(z) = z[3]
<1> DEFINE S == {z[t] : t \in 1..3}
<1>1. S = {z[1], z[2], z[3]}
  <2>1. 1..3 = {1, 2, 3}
    OBVIOUS
  <2> QED
    BY <2>1, Zenon
<1>2. S \in SUBSET Nat /\ S # {}
  BY <1>1
<1> HIDE DEF S
<1>3. \E x \in S : \A y \in S : x <= y
  BY <1>1, <1>2, NatMin
<1>4. Smallest(z) = CHOOSE x \in S : \A y \in S : x <= y
  BY DEF Smallest, Min, S
<1>5. Smallest(z) \in S
  BY <1>3, <1>4
<1> QED
  BY <1>1, <1>5

\* With a game to list, no tab of the menu is short of a third of the games by as
\* much as the fullest letter has: else moving one letter would be nearer.
THEOREM NoTabIsStarved ==
  ASSUME NEW counts \in [Letters -> Nat], GamesIn(counts, Letters) > 0,
         NEW best, IsBestSplit(counts, best)
  PROVE  NoTabStarves(counts, best)
<1> DEFINE k1 == best[1]
           k2 == best[2]
           z == SizesOf(counts, best)
           a == z[1]
           b == z[2]
           c == z[3]
           P(k) == UpTo(counts, k)
           F == Fullest(counts)
           I == Ideal(counts)
           all == GamesIn(counts, Letters)
<1>1. best \in Splits
  BY NoneIsBetter
<1>2. a \in Nat /\ b \in Nat /\ c \in Nat /\ all \in Nat /\ a + b + c = all
  BY <1>1, SizesAdd
<1>3. /\ k1 \in Letters /\ k2 \in Letters /\ LastLetter \in Letters
      /\ 0 <= k1 /\ k1 < k2 /\ k2 < LastLetter
      /\ P(k1) = a /\ P(k2) = P(k1) + b /\ all = P(k2) + c
  BY <1>1, SizesByUpTo
<1>4. F \in Nat /\ F > 0 /\ \A l \in Letters : counts[l] <= F
  BY FullestIs
<1>5. I \in Nat /\ 3 * I <= all /\ all <= 3 * I + 2
  BY <1>2 DEF Ideal
<1>6. Letters \subseteq Nat /\ 0 \in Letters /\ LastLetter \in Nat
      /\ \A l \in Letters : l <= LastLetter /\ P(l) \in Nat
  BY SplitAssumption, UpToGrows DEF Letters
<1>7. P(LastLetter) = all
  BY DEF UpTo, Letters
<1>8. P(0) <= F
  <2>1. 0..0 = {0}
    OBVIOUS
  <2>2. P(0) = counts[0]
    BY <1>6, <2>1, GamesOfOne DEF UpTo
  <2> QED
    BY <1>4, <1>6, <2>2
<1>9. ASSUME NEW i \in Letters, NEW j \in Letters, i < j, j < LastLetter
      PROVE  ~(Off(I, P(i), P(j) - P(i), all - P(j)) < Off(I, a, b, c))
  <2>1. Off(I, a, b, c) <= Off(I, P(i), P(j) - P(i), all - P(j))
    BY <1>9, NoneIsNearer
  <2>2. /\ P(i) \in Nat /\ P(j) \in Nat /\ P(i) <= P(j) /\ P(j) <= all
    <3>1. i <= j /\ j <= LastLetter /\ LastLetter \in Letters
      BY <1>3, <1>6, <1>9
    <3>2. /\ P(i) \in Nat /\ P(j) \in Nat /\ GamesIn(counts, (i + 1)..j) \in Nat
          /\ P(j) = P(i) + GamesIn(counts, (i + 1)..j)
      BY <3>1, UpToGrows
    <3>3. /\ GamesIn(counts, (j + 1)..LastLetter) \in Nat
          /\ P(LastLetter) = P(j) + GamesIn(counts, (j + 1)..LastLetter)
      BY <3>1, UpToGrows
    <3> HIDE DEF P, all
    <3> QED
      BY <1>7, <3>2, <3>3
  <2>3. ASSUME NEW u \in Nat, NEW v \in Nat, NEW w \in Nat PROVE Off(I, u, v, w) \in Nat
    BY <1>5 DEF Off, Distance
  <2>4. P(j) - P(i) \in Nat /\ all - P(j) \in Nat
    BY <1>2, <2>2
  <2>5. Off(I, a, b, c) \in Nat /\ Off(I, P(i), P(j) - P(i), all - P(j)) \in Nat
    BY <1>2, <2>2, <2>3, <2>4
  <2> QED
    BY <2>1, <2>5
<1> HIDE DEF k1, k2, z, a, b, c, P, F, I, all
<1>n. P(k1) \in Nat /\ P(k2) \in Nat /\ k1 \in Nat /\ k2 \in Nat
  BY <1>3, <1>6
\* The next split to the right, and to the left, of either boundary.
<1>10. ASSUME b > 0 PROVE \E j \in Letters : /\ k1 < j /\ j <= k2
                                             /\ P(k1) < P(j) /\ P(j) <= P(k1) + F
  BY <1>2, <1>3, <1>10, <1>n, FirstAfter DEF P, F
<1>11. ASSUME c > 0 PROVE \E j \in Letters : /\ k2 < j /\ j <= LastLetter
                                             /\ P(k2) < P(j) /\ P(j) <= P(k2) + F
  BY <1>2, <1>3, <1>7, <1>11, <1>n, FirstAfter DEF P, F
<1>12. ASSUME a > F PROVE \E j \in Letters : /\ j < k1 /\ P(j) < P(k1) /\ P(k1) <= P(j) + F
  <2>1. P(0) < P(k1)
    BY <1>2, <1>3, <1>4, <1>6, <1>8, <1>12
  <2> QED
    BY <1>3, <1>6, <2>1, LastBefore DEF P, F
<1>13. ASSUME b > 0 PROVE \E j \in Letters : /\ k1 <= j /\ j < k2
                                             /\ P(j) < P(k2) /\ P(k2) <= P(j) + F
  BY <1>2, <1>3, <1>13, <1>n, LastBefore DEF P, F
<1>14. a > I - F
  <2> SUFFICES ASSUME a <= I - F PROVE FALSE
    BY <1>2, <1>4, <1>5
  <2>1. a + F <= I /\ F <= I /\ I > 0
    BY <1>2, <1>4, <1>5
  <2>2. CASE b > I
    <3>1. PICK j \in Letters : k1 < j /\ j <= k2 /\ P(k1) < P(j) /\ P(j) <= P(k1) + F
      BY <1>2, <1>5, <1>10, <2>1, <2>2
    <3> DEFINE x == P(j) - P(k1)
    <3>2. /\ x \in Nat /\ 0 < x /\ x <= F /\ P(j) \in Nat
          /\ P(j) = a + x /\ P(k2) - P(j) = b - x /\ all - P(k2) = c
      BY <1>2, <1>3, <1>4, <1>6, <1>n, <3>1
    <3> HIDE DEF x
    <3>3. j # k2 /\ x <= b
      BY <1>2, <1>4, <1>5, <2>1, <2>2, <3>2, <1>n
    <3>4. j < k2 /\ k2 < LastLetter
      BY <1>3, <1>6, <3>1, <3>3
    <3>5. Off(I, a + x, b - x, c) < Off(I, a, b, c)
      <4>1. a + x <= I
        BY <1>2, <1>4, <1>5, <2>1, <3>2
      <4> QED
        BY <1>2, <1>5, <2>2, <3>2, <3>3, <4>1, Nearer
    <3> QED
      BY <1>3, <1>9, <3>2, <3>4, <3>5
  <2>3. CASE b <= I
    <3>1. c > 0 /\ c >= I + F
      BY <1>2, <1>4, <1>5, <2>1, <2>3
    <3>2. PICK j \in Letters : k2 < j /\ j <= LastLetter /\ P(k2) < P(j) /\ P(j) <= P(k2) + F
      BY <1>11, <3>1
    <3> DEFINE y == P(j) - P(k2)
    <3>3. /\ y \in Nat /\ 0 < y /\ y <= F /\ P(j) \in Nat
          /\ P(j) = a + b + y /\ P(j) - P(k1) = b + y /\ all - P(j) = c - y
      BY <1>2, <1>3, <1>4, <1>6, <1>n, <3>2
    <3> HIDE DEF y
    <3>4. I <= c - y /\ j # LastLetter
      BY <1>2, <1>4, <1>5, <1>7, <2>1, <3>1, <3>3
    <3>5. k2 < j /\ j < LastLetter
      BY <1>6, <3>2, <3>4
    <3>6. CASE b < I
      <4>1. Off(I, a, b + y, c - y) < Off(I, a, b, c)
        BY <1>2, <1>5, <3>3, <3>4, <3>6, Nearer
      <4>2. k1 < j
        BY <1>3, <1>6, <1>n, <3>5
      <4> QED
        BY <1>3, <1>9, <3>3, <3>5, <4>1, <4>2
    <3>7. CASE b = I
      <4>1. PICK i \in Letters : k1 < i /\ i <= k2 /\ P(k1) < P(i) /\ P(i) <= P(k1) + F
        BY <1>10, <2>1, <3>7
      <4> DEFINE x == P(i) - P(k1)
      <4>2. /\ x \in Nat /\ 0 < x /\ x <= F /\ P(i) = a + x /\ P(j) - P(i) = b - x + y
        BY <1>2, <1>3, <1>4, <1>6, <1>n, <3>3, <4>1
      <4> HIDE DEF x
      <4>3. a + x <= I
        BY <1>2, <1>4, <1>5, <2>1, <4>2
      <4>4. Off(I, a + x, b - x + y, c - y) < Off(I, a, b, c)
        BY <1>2, <1>5, <3>3, <3>4, <3>7, <4>2, <4>3, Nearer
      <4>5. i < j
        BY <1>6, <1>n, <3>5, <4>1
      <4> QED
        BY <1>9, <3>3, <3>5, <4>2, <4>4, <4>5
    <3> QED
      BY <1>2, <1>5, <2>3, <3>6, <3>7
  <2> QED
    BY <1>2, <1>5, <2>2, <2>3
<1>15. c > I - F
  <2> SUFFICES ASSUME c <= I - F PROVE FALSE
    BY <1>2, <1>4, <1>5
  <2>1. c + F <= I /\ F <= I /\ I > 0
    BY <1>2, <1>4, <1>5
  <2>2. CASE b > I
    <3>1. PICK j \in Letters : k1 <= j /\ j < k2 /\ P(j) < P(k2) /\ P(k2) <= P(j) + F
      BY <1>2, <1>5, <1>13, <2>1, <2>2
    <3> DEFINE y == P(k2) - P(j)
    <3>2. /\ y \in Nat /\ 0 < y /\ y <= F /\ P(j) \in Nat
          /\ P(j) - P(k1) = b - y /\ all - P(j) = c + y /\ P(j) = a + b - y
      BY <1>2, <1>3, <1>4, <1>6, <1>n, <3>1
    <3> HIDE DEF y
    <3>3. j # k1 /\ y <= b
      BY <1>2, <1>4, <1>5, <2>1, <2>2, <3>2, <1>n
    <3>4. k1 < j /\ j < LastLetter
      BY <1>3, <1>6, <1>n, <3>1, <3>3
    <3>5. Off(I, a, b - y, c + y) < Off(I, a, b, c)
      <4>1. c + y <= I
        BY <1>2, <1>4, <1>5, <2>1, <3>2
      <4> QED
        BY <1>2, <1>5, <2>2, <3>2, <3>3, <4>1, Nearer
    <3> QED
      BY <1>3, <1>9, <3>2, <3>4, <3>5
  <2>3. CASE b <= I
    <3>1. a > F /\ a >= I + F
      BY <1>2, <1>4, <1>5, <2>1, <2>3
    <3>2. PICK j \in Letters : j < k1 /\ P(j) < P(k1) /\ P(k1) <= P(j) + F
      BY <1>12, <3>1
    <3> DEFINE x == P(k1) - P(j)
    <3>3. /\ x \in Nat /\ 0 < x /\ x <= F /\ P(j) \in Nat
          /\ P(j) = a - x /\ P(k2) - P(j) = b + x /\ all - P(k2) = c
      BY <1>2, <1>3, <1>4, <1>6, <1>n, <3>2
    <3> HIDE DEF x
    <3>4. I <= a - x
      BY <1>2, <1>4, <1>5, <3>1, <3>3
    <3>5. CASE b < I
      <4>1. Off(I, a - x, b + x, c) < Off(I, a, b, c)
        BY <1>2, <1>5, <3>3, <3>4, <3>5, Nearer
      <4>2. j < k2
        BY <1>3, <1>6, <1>n, <3>2
      <4> QED
        BY <1>3, <1>9, <3>3, <4>1, <4>2
    <3>6. CASE b = I
      <4>1. PICK i \in Letters : k1 <= i /\ i < k2 /\ P(i) < P(k2) /\ P(k2) <= P(i) + F
        BY <1>13, <2>1, <3>6
      <4> DEFINE y == P(k2) - P(i)
      <4>2. /\ y \in Nat /\ 0 < y /\ y <= F /\ P(i) \in Nat
            /\ P(i) - P(j) = b + x - y /\ all - P(i) = c + y
        BY <1>2, <1>3, <1>4, <1>6, <1>n, <3>3, <4>1
      <4> HIDE DEF y
      <4>3. c + y <= I
        BY <1>2, <1>4, <1>5, <2>1, <4>2
      <4>4. Off(I, a - x, b + x - y, c + y) < Off(I, a, b, c)
        BY <1>2, <1>5, <3>3, <3>4, <3>6, <4>2, <4>3, Nearer
      <4>5. j < i /\ i < LastLetter
        BY <1>3, <1>6, <1>n, <3>2, <4>1
      <4> QED
        BY <1>9, <3>3, <4>2, <4>4, <4>5
    <3> QED
      BY <1>2, <1>5, <2>3, <3>5, <3>6
  <2> QED
    BY <1>2, <1>5, <2>2, <2>3
<1>16. b > I - F
  <2> SUFFICES ASSUME b <= I - F PROVE FALSE
    BY <1>2, <1>4, <1>5
  <2>1. b + F <= I /\ F <= I /\ I > 0
    BY <1>2, <1>4, <1>5
  <2>2. CASE c > I
    <3>1. PICK j \in Letters : k2 < j /\ j <= LastLetter /\ P(k2) < P(j) /\ P(j) <= P(k2) + F
      BY <1>2, <1>5, <1>11, <2>1, <2>2
    <3> DEFINE y == P(j) - P(k2)
    <3>2. /\ y \in Nat /\ 0 < y /\ y <= F /\ P(j) \in Nat
          /\ P(j) - P(k1) = b + y /\ all - P(j) = c - y
      BY <1>2, <1>3, <1>4, <1>6, <1>n, <3>1
    <3> HIDE DEF y
    <3>3. b + y <= I /\ y < c
      BY <1>2, <1>4, <1>5, <2>1, <2>2, <3>2
    <3>4. j # LastLetter
      BY <1>2, <1>7, <3>2, <3>3
    <3>5. k1 < j /\ j < LastLetter
      BY <1>3, <1>6, <1>n, <3>1, <3>4
    <3>6. Off(I, a, b + y, c - y) < Off(I, a, b, c)
      BY <1>2, <1>5, <2>2, <3>2, <3>3, Nearer
    <3> QED
      BY <1>3, <1>9, <3>2, <3>5, <3>6
  <2>3. CASE a > I
    <3>1. PICK j \in Letters : j < k1 /\ P(j) < P(k1) /\ P(k1) <= P(j) + F
      BY <1>2, <1>4, <1>5, <1>12, <2>1, <2>3
    <3> DEFINE x == P(k1) - P(j)
    <3>2. /\ x \in Nat /\ 0 < x /\ x <= F /\ P(j) \in Nat
          /\ P(j) = a - x /\ P(k2) - P(j) = b + x /\ all - P(k2) = c
      BY <1>2, <1>3, <1>4, <1>6, <1>n, <3>1
    <3> HIDE DEF x
    <3>3. b + x <= I
      BY <1>2, <1>4, <1>5, <2>1, <3>2
    <3>4. j < k2
      BY <1>3, <1>6, <1>n, <3>1
    <3>5. Off(I, a - x, b + x, c) < Off(I, a, b, c)
      BY <1>2, <1>5, <2>3, <3>2, <3>3, Nearer
    <3> QED
      BY <1>3, <1>9, <3>2, <3>4, <3>5
  <2>4. a > I \/ c > I
    BY <1>2, <1>4, <1>5, <2>1
  <2> QED
    BY <2>2, <2>3, <2>4
<1>17. Smallest(z) > I - F
  BY <1>2, <1>14, <1>15, <1>16, SmallestIsOne DEF a, b, c
<1> QED
  BY <1>17 DEF NoTabStarves, z, I, Ideal, F, Fullest
==============================================================================
