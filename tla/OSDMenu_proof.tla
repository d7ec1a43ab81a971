---------------------------- MODULE OSDMenu_proof ----------------------------
(****************************************************************************)
(* Proofs about the menu of the ROMs, for any cards, any number of files    *)
(* and letters, and file system errors and power cuts anywhere.             *)
(****************************************************************************)
EXTENDS OSDMenu, TabSplit_proof, SequenceTheorems

------------------------------------------------------------------------------
(* Lists in the order of names                                               *)

\* How many files of S come before f.
Before(S, f) == {g \in S : g < f}
Rank(S, f) == Cardinality(Before(S, f))

LEMMA RankBounds ==
  ASSUME NEW S, IsFiniteSet(S), S \subseteq Nat, NEW f \in S
  PROVE  IsFiniteSet(Before(S, f)) /\ Rank(S, f) \in 0..(Cardinality(S) - 1)
<1>1. Before(S, f) \in SUBSET S /\ Before(S, f) # S
  <2>1. f \notin Before(S, f)
    BY DEF Before
  <2> QED
    BY <2>1 DEF Before
<1>2. /\ IsFiniteSet(Before(S, f)) /\ Cardinality(Before(S, f)) <= Cardinality(S)
      /\ Cardinality(Before(S, f)) # Cardinality(S)
  BY <1>1, FS_Subset
<1>3. Cardinality(Before(S, f)) \in Nat /\ Cardinality(S) \in Nat
  BY <1>2, FS_CardinalityType
<1> QED
  BY <1>2, <1>3 DEF Rank

LEMMA RankGrows ==
  ASSUME NEW S, IsFiniteSet(S), S \subseteq Nat, NEW f \in S, NEW g \in S, f < g
  PROVE  Rank(S, f) < Rank(S, g)
<1>1. \A h \in S : h < f => h < g
  <2> SUFFICES ASSUME NEW h \in S, h < f PROVE h < g
    OBVIOUS
  <2>1. h \in Nat /\ f \in Nat /\ g \in Nat
    OBVIOUS
  <2> QED
    BY <2>1
<1>2. Before(S, f) \in SUBSET Before(S, g)
  BY <1>1 DEF Before
<1>3. f \in Before(S, g) /\ f \notin Before(S, f)
  BY DEF Before
<1>4. IsFiniteSet(Before(S, g))
  BY RankBounds
<1>5. /\ Cardinality(Before(S, f)) <= Cardinality(Before(S, g))
      /\ Cardinality(Before(S, f)) # Cardinality(Before(S, g))
  BY <1>2, <1>3, <1>4, FS_Subset
<1>6. Rank(S, f) \in 0..(Cardinality(S) - 1) /\ Rank(S, g) \in 0..(Cardinality(S) - 1)
  BY RankBounds
<1>7. Rank(S, f) \in Int /\ Rank(S, g) \in Int
  BY <1>6
<1> QED
  BY <1>5, <1>7 DEF Rank

LEMMA RankDiffers ==
  ASSUME NEW S, IsFiniteSet(S), S \subseteq Nat, NEW f \in S, NEW g \in S,
         Rank(S, f) = Rank(S, g)
  PROVE  f = g
<1>1. Rank(S, f) \in Int
  <2>1. Rank(S, f) \in 0..(Cardinality(S) - 1)
    BY RankBounds
  <2> QED
    BY <2>1
<1>2. CASE f < g
  <2>1. Rank(S, f) < Rank(S, g)
    BY <1>2, RankGrows
  <2> QED
    BY <1>1, <2>1
<1>3. CASE g < f
  <2>1. Rank(S, g) < Rank(S, f)
    BY <1>3, RankGrows
  <2> QED
    BY <1>1, <2>1
<1>4. f \in Nat /\ g \in Nat
  OBVIOUS
<1> QED
  BY <1>2, <1>3, <1>4

\* Every rank is taken: there are as many ranks as files.
LEMMA RankTaken ==
  ASSUME NEW S, IsFiniteSet(S), S \subseteq Nat, NEW k \in 0..(Cardinality(S) - 1)
  PROVE  \E f \in S : Rank(S, f) = k
<1> DEFINE n == Cardinality(S)
           R == [f \in S |-> Rank(S, f)]
<1>1. n \in Nat
  BY FS_CardinalityType
<1>2. IsFiniteSet(0..(n - 1)) /\ Cardinality(0..(n - 1)) = n
  <2>1. 0 \in Int /\ n - 1 \in Int
    BY <1>1
  <2>2. /\ IsFiniteSet(0..(n - 1))
        /\ Cardinality(0..(n - 1)) = IF 0 > n - 1 THEN 0 ELSE (n - 1) - 0 + 1
    BY <2>1, FS_Interval
  <2> QED
    BY <1>1, <2>2
<1>3. R \in [S -> 0..(n - 1)]
  BY RankBounds
<1>4. ASSUME NEW f \in S, NEW g \in S, R[f] = R[g] PROVE f = g
  BY <1>4, RankDiffers
<1>5. R \in Injection(S, 0..(n - 1))
  BY <1>3, <1>4, Zenon DEF Injection, IsInjective
<1>6. R \in Surjection(S, 0..(n - 1))
  BY <1>2, <1>5, FS_Injection
<1>7. \E f \in S : R[f] = k
  BY <1>6 DEF Surjection
<1> QED
  BY <1>7

\* Ascending lists every file of the set, once.
LEMMA AscendingLists ==
  ASSUME NEW S, IsFiniteSet(S), S \subseteq Nat
  PROVE  /\ Ascending(S) \in Seq(S)
         /\ Len(Ascending(S)) = Cardinality(S)
         /\ S = {Ascending(S)[i] : i \in 1..Len(Ascending(S))}
<1> DEFINE n == Cardinality(S)
           A == Ascending(S)
<1>1. n \in Nat
  BY FS_CardinalityType
<1>2. A = [i \in 1..n |-> CHOOSE f \in S : Rank(S, f) = i - 1]
  BY DEF Ascending, Rank, Before
<1>3. ASSUME NEW i \in 1..n PROVE A[i] \in S /\ Rank(S, A[i]) = i - 1
  <2>1. i - 1 \in 0..(n - 1)
    BY <1>1
  <2>2. \E f \in S : Rank(S, f) = i - 1
    BY <2>1, RankTaken
  <2> QED
    BY <1>2, <2>2
<1>4. A \in [1..n -> S]
  BY <1>2, <1>3
<1> HIDE DEF A
<1>5. A \in Seq(S) /\ Len(A) = n
  BY <1>1, <1>4, IsASeq, LenProperties
<1>6. ASSUME NEW f \in S PROVE \E i \in 1..n : A[i] = f
  <2>1. Rank(S, f) \in 0..(n - 1)
    BY RankBounds
  <2> DEFINE i == Rank(S, f) + 1
  <2>2. i \in 1..n /\ i - 1 = Rank(S, f)
    BY <1>1, <2>1
  <2>3. A[i] \in S /\ Rank(S, A[i]) = Rank(S, f)
    BY <1>3, <2>2
  <2>4. A[i] = f
    BY <2>3, RankDiffers
  <2> QED
    BY <2>2, <2>4
<1>7. S = {A[i] : i \in 1..n}
  BY <1>3, <1>6
<1> QED
  BY <1>5, <1>7 DEF A

LEMMA AscendingEmpty == Ascending({}) = <<>>
<1>1. Cardinality({}) = 0 /\ 1..0 = {}
  BY FS_EmptySet
<1>2. Ascending({}) \in Seq({}) /\ Len(Ascending({})) = 0
  BY <1>1, FS_EmptySet, AscendingLists
<1> QED
  BY <1>2, EmptySeq

------------------------------------------------------------------------------
(* Types                                                                     *)

\* The files of the list that is shown.
InList == {filtered[i] : i \in 1..Len(filtered)}

TypeInv ==
  /\ card \in Libraries
  /\ Listed \subseteq card.files /\ roms = Ascending(Listed)
  /\ Cardinality(Listed) <= MAX_ROMS
  /\ favorites \subseteq Listed
  /\ split \in Nat \X Nat
  /\ next \in Nat \X Nat /\ least \in Nat
  /\ tab \in 0..5
  /\ InList \subseteq Listed /\ filtered = Ascending(InList)
  /\ selected \in Nat
  /\ pc \in {"off", "split", "menu", "open", "write"}
  /\ disk \subseteq card.files
  /\ failed \in BOOLEAN
  /\ pc = "off" => /\ roms = <<>> /\ favorites = {}
                   /\ split = DefaultSplit /\ next = FirstSplit /\ least = FarOff
  /\ pc \in {"off", "split"} => tab = 0 /\ filtered = <<>> /\ selected = 0

LEMMA CardSetsOf ==
  ASSUME NEW c \in Libraries, NEW S \in SUBSET c.files
  PROVE  IsFiniteSet(S) /\ S \subseteq Nat /\ Cardinality(S) \in Nat
<1>1. IsFiniteSet(c.files) /\ c.files \subseteq Nat
  BY CardAssumption
<1> QED
  BY <1>1, FS_Subset, FS_CardinalityType

LEMMA CardSets ==
  ASSUME card \in Libraries, NEW S \in SUBSET card.files
  PROVE  IsFiniteSet(S) /\ S \subseteq Nat /\ Cardinality(S) \in Nat
BY CardSetsOf

LEMMA CountsType == TypeInv => Counts \in [Letters -> Nat]
<1> SUFFICES ASSUME TypeInv, NEW l \in Letters
             PROVE  Cardinality({f \in Listed : ~IsCD(f) /\ Letter(f) = l}) \in Nat
  BY DEF Counts
<1>1. card \in Libraries /\ {f \in Listed : ~IsCD(f) /\ Letter(f) = l} \in SUBSET card.files
  BY DEF TypeInv
<1> QED
  BY <1>1, CardSets

\* The first n lines of a favourites file.
LEMMA LinesAre ==
  ASSUME NEW S, IsFiniteSet(S), S \subseteq Nat, NEW n \in 0..Cardinality(S)
  PROVE  Lines(S, n) \subseteq S /\ (n = Cardinality(S) => Lines(S, n) = S)
<1>1. Cardinality(S) \in Nat
  BY FS_CardinalityType
<1>2. \A i \in 1..n : i \in 1..Cardinality(S)
  BY <1>1
<1>3. /\ Len(Ascending(S)) = Cardinality(S)
      /\ S = {Ascending(S)[i] : i \in 1..Len(Ascending(S))}
  BY AscendingLists
<1> QED
  BY <1>2, <1>3 DEF Lines

\* The place after a pair is a pair of letters again.
LEMMA NextType ==
  ASSUME NEW s \in Nat \X Nat
  PROVE  NextSplit(s) \in Nat \X Nat
BY DEF NextSplit

\* The steps, with what they are given.
LEMMA Steps ==
  ASSUME TypeInv, CursorOnList, [Next]_vars
  PROVE  \/ ScanRoms \/ TrySplit \/ ShowMenu
         \/ \E to \in Nat : to < Len(filtered) /\ Move(to)
         \/ \E t \in 0..5 : SwitchTab(t)
         \/ \E favs : /\ favs \subseteq favorites \cup {GetSelectedRom}
                      /\ Mark(favs)
         \/ OpenFavorites \/ CloseFavorites \/ PowerCut
         \/ UNCHANGED vars
<1>1. filtered # <<>> => Len(filtered) \in Nat /\ Len(filtered) > 0 /\ selected < Len(filtered)
  <2>1. IsFiniteSet(InList) /\ InList \subseteq Nat
    BY CardSets DEF TypeInv
  <2>2. filtered \in Seq(InList)
    BY <2>1, AscendingLists DEF TypeInv
  <2> QED
    BY <2>2 DEF CursorOnList, TypeInv
<1>2. ASSUME MoveUp PROVE \E to \in Nat : to < Len(filtered) /\ Move(to)
  <2> DEFINE to == IF selected > 0 THEN selected - 1 ELSE Len(filtered) - 1
  <2>1. Move(to)
    BY <1>2 DEF MoveUp
  <2>2. filtered # <<>>
    BY <2>1 DEF Move
  <2>3. to \in Nat /\ to < Len(filtered)
    BY <1>1, <2>2 DEF TypeInv
  <2> QED
    BY <2>1, <2>3
<1>3. ASSUME MoveDown PROVE \E to \in Nat : to < Len(filtered) /\ Move(to)
  <2> DEFINE to == IF selected < Len(filtered) - 1 THEN selected + 1 ELSE 0
  <2>1. Move(to)
    BY <1>3 DEF MoveDown
  <2>2. filtered # <<>>
    BY <2>1 DEF Move
  <2>3. to \in Nat /\ to < Len(filtered)
    BY <1>1, <2>2 DEF TypeInv
  <2> QED
    BY <2>1, <2>3
<1>4. ASSUME MoveLeft \/ MoveRight PROVE \E t \in 0..5 : SwitchTab(t)
  BY <1>4 DEF MoveLeft, MoveRight, TypeInv
<1>5. ASSUME FavoriteCurrent \/ UnfavoriteCurrent
      PROVE  \E favs : /\ favs \subseteq favorites \cup {GetSelectedRom}
                       /\ Mark(favs)
  BY <1>5 DEF FavoriteCurrent, UnfavoriteCurrent
<1> QED
  BY <1>2, <1>3, <1>4, <1>5 DEF Next

\* The ROM that the cursor names is one of the list.
LEMMA SelectedIsListed ==
  ASSUME TypeInv, HasSelection
  PROVE  GetSelectedRom \in InList
<1>1. IsFiniteSet(InList) /\ InList \subseteq Nat
  BY CardSets DEF TypeInv
<1>2. Len(filtered) \in Nat
  BY <1>1, AscendingLists DEF TypeInv
<1>3. selected + 1 \in 1..Len(filtered)
  BY <1>2 DEF HasSelection
<1> QED
  BY <1>3 DEF GetSelectedRom, InList

\* What ScanRoms leaves behind.
LEMMA ListedAfter ==
  ASSUME card \in Libraries, NEW S \in SUBSET card.files, NEW list, list = Ascending(S)
  PROVE  {list[i] : i \in 1..Len(list)} = S
BY CardSets, AscendingLists

------------------------------------------------------------------------------
(* The search for the split                                                  *)

\* The pairs in the order of the two loops.
Earlier(t, s) == t[1] < s[1] \/ (t[1] = s[1] /\ t[2] < s[2])

\* Where the loops end.
LastPlace == <<LastLetter - 1, LastLetter>>

\* Of the pairs that were tried this one is the best.
BestOfTried(counts, s, min, upto) ==
  /\ s \in Splits /\ Earlier(s, upto)
  /\ min = Diff(counts, s)
  /\ \A t \in Splits : Earlier(t, upto) =>
       \/ min < Diff(counts, t)
       \/ min = Diff(counts, t) /\ (s[1] < t[1] \/ (s[1] = t[1] /\ s[2] <= t[2]))

Chosen == IF AnyGame THEN IsBestSplit(Counts, split) ELSE split = DefaultSplit

SearchInv ==
  /\ pc = "split" =>
       /\ next \in Splits \/ next = LastPlace
       /\ IF AnyGame /\ next # FirstSplit THEN BestOfTried(Counts, split, least, next)
          ELSE split = DefaultSplit /\ least = FarOff
  /\ pc \in {"menu", "open", "write"} => Chosen

LEMMA SplitsAre ==
  ASSUME NEW s
  PROVE  s \in Splits <=> /\ s \in Nat \X Nat /\ s[1] < s[2] /\ s[2] < LastLetter
<1>1. ASSUME s \in Splits PROVE s \in Nat \X Nat /\ s[1] < s[2] /\ s[2] < LastLetter
  BY <1>1, SplitAssumption DEF Splits
<1>2. ASSUME s \in Nat \X Nat, s[1] < s[2], s[2] < LastLetter PROVE s \in Splits
  <2>1. s[1] \in 0..(LastLetter - 2) /\ s[2] \in 1..(LastLetter - 1) /\ s = <<s[1], s[2]>>
    BY <1>2, SplitAssumption
  <2> QED
    BY <1>2, <2>1 DEF Splits
<1> QED
  BY <1>1, <1>2

\* A round moves on to the next pair, and passes over none.
LEMMA NextPlace ==
  ASSUME NEW s \in Splits
  PROVE  /\ NextSplit(s) \in Splits \/ NextSplit(s) = LastPlace
         /\ NextSplit(s) # FirstSplit
         /\ \A t \in Splits : Earlier(t, NextSplit(s)) <=> Earlier(t, s) \/ t = s
<1> DEFINE a == s[1]
           b == s[2]
<1>1. a \in Nat /\ b \in Nat /\ a < b /\ b < LastLetter /\ s = <<a, b>>
  BY SplitsAre
<1>2. \A t \in Splits : /\ t[1] \in Nat /\ t[2] \in Nat /\ t[1] < t[2] /\ t[2] < LastLetter
                        /\ t = <<t[1], t[2]>>
  BY SplitsAre
<1>3. NextSplit(s) = IF b < LastLetter - 1 THEN <<a, b + 1>> ELSE <<a + 1, a + 2>>
  BY DEF NextSplit
<1>n. LastLetter \in Nat
  BY SplitAssumption
<1> HIDE DEF a, b
<1>4. CASE b < LastLetter - 1
  <2>1. NextSplit(s) = <<a, b + 1>>
    BY <1>3, <1>4
  <2>2. <<a, b + 1>> \in Splits
    BY <1>1, <1>4, <1>n, SplitsAre
  <2>3. <<a, b + 1>> # FirstSplit
    BY <1>1 DEF FirstSplit
  <2>4. ASSUME NEW t \in Splits PROVE Earlier(t, <<a, b + 1>>) <=> Earlier(t, s) \/ t = s
    BY <1>1, <1>2 DEF Earlier
  <2> QED
    BY <2>1, <2>2, <2>3, <2>4
<1>5. CASE ~(b < LastLetter - 1)
  <2>1. NextSplit(s) = <<a + 1, a + 2>> /\ b = LastLetter - 1
    BY <1>1, <1>3, <1>5, <1>n
  <2>2. <<a + 1, a + 2>> \in Splits \/ <<a + 1, a + 2>> = LastPlace
    <3>1. CASE a + 2 < LastLetter
      BY <1>1, <3>1, SplitsAre
    <3>2. CASE ~(a + 2 < LastLetter)
      BY <1>1, <1>n, <2>1, <3>2 DEF LastPlace
    <3> QED
      BY <3>1, <3>2
  <2>3. <<a + 1, a + 2>> # FirstSplit
    BY <1>1 DEF FirstSplit
  <2>4. ASSUME NEW t \in Splits PROVE Earlier(t, <<a + 1, a + 2>>) <=> Earlier(t, s) \/ t = s
    BY <1>1, <1>2, <1>n, <2>1 DEF Earlier
  <2> QED
    BY <2>1, <2>2, <2>3, <2>4
<1> QED
  BY <1>4, <1>5

LEMMA PlacesAtTheEnds ==
  /\ FirstSplit \in Splits /\ LastPlace # FirstSplit
  /\ \A t \in Splits : Earlier(t, LastPlace) /\ ~Earlier(t, FirstSplit)
<1>1. FirstSplit \in Splits
  BY SplitsAre, SplitAssumption DEF FirstSplit
<1>2. LastPlace # FirstSplit
  BY SplitAssumption DEF FirstSplit, LastPlace
<1>3. ASSUME NEW t \in Splits PROVE Earlier(t, LastPlace) /\ ~Earlier(t, FirstSplit)
  <2>1. t[1] \in Nat /\ t[2] \in Nat /\ t[1] < t[2] /\ t[2] < LastLetter /\ LastLetter \in Nat
    BY SplitsAre, SplitAssumption
  <2> QED
    BY <2>1 DEF Earlier, FirstSplit, LastPlace
<1> QED
  BY <1>1, <1>2, <1>3

\* There are no more games to divide than files that are listed.
LEMMA GamesAreListed == TypeInv => GamesIn(Counts, Letters) <= MAX_ROMS
<1> SUFFICES ASSUME TypeInv PROVE GamesIn(Counts, Letters) <= MAX_ROMS
  OBVIOUS
<1> DEFINE G == {f \in Listed : ~IsCD(f)}
           F(l) == {f \in Listed : ~IsCD(f) /\ Letter(f) = l}
           pairs == Games(Counts, Letters)
           h == [f \in G |-> <<Letter(f), Rank(F(Letter(f)), f) + 1>>]
<1>1. card \in Libraries /\ Listed \in SUBSET card.files /\ G \in SUBSET card.files
      /\ Cardinality(Listed) <= MAX_ROMS
  BY DEF TypeInv
<1>2. \A f \in Listed : Letter(f) \in Letters
  BY <1>1, CardAssumption DEF Letter
<1>3. ASSUME NEW l \in Letters
      PROVE  IsFiniteSet(F(l)) /\ F(l) \subseteq Nat /\ Counts[l] = Cardinality(F(l))
             /\ Cardinality(F(l)) \in Nat
  <2>1. F(l) \in SUBSET card.files
    BY <1>1
  <2>2. Counts[l] = Cardinality(F(l))
    BY DEF Counts
  <2> QED
    BY <1>1, <2>1, <2>2, CardSets
<1>4. ASSUME NEW f \in G PROVE h[f] \in pairs
  <2>1. Letter(f) \in Letters /\ f \in F(Letter(f))
    BY <1>2
  <2> DEFINE l == Letter(f)
  <2>2. Rank(F(l), f) \in 0..(Cardinality(F(l)) - 1)
    BY <1>3, <2>1, RankBounds
  <2>3. Rank(F(l), f) + 1 \in 1..Counts[l]
    <3> DEFINE c == Cardinality(F(l))
               r == Rank(F(l), f)
    <3>1. c \in Nat /\ Counts[l] = c /\ r \in 0..(c - 1)
      BY <1>3, <2>1, <2>2
    <3> HIDE DEF c, r
    <3>2. r + 1 \in 1..Counts[l]
      BY <3>1
    <3> QED
      BY <3>2 DEF r
  <2>4. h[f] = <<l, Rank(F(l), f) + 1>>
    OBVIOUS
  <2> HIDE DEF h, F, l
  <2>5. h[f] \in {l} \X (1..Counts[l])
    BY <2>3, <2>4
  <2> QED
    BY <2>1, <2>5 DEF Games, l
<1>5. ASSUME NEW p \in pairs PROVE \E f \in G : h[f] = p
  <2>1. PICK l \in Letters : p \in {l} \X (1..Counts[l])
    BY DEF Games
  <2>2. PICK i \in 1..Counts[l] : p = <<l, i>>
    BY <2>1
  <2>3. i - 1 \in 0..(Cardinality(F(l)) - 1) /\ i \in Int
    <3> DEFINE c == Cardinality(F(l))
    <3>1. c \in Nat /\ i \in 1..c
      BY <1>3, <2>2
    <3> HIDE DEF c
    <3>2. i - 1 \in 0..(c - 1) /\ i \in Int
      BY <3>1
    <3> QED
      BY <3>2 DEF c
  <2>4. PICK f \in F(l) : Rank(F(l), f) = i - 1
    BY <1>3, <2>3, RankTaken
  <2>5. f \in G /\ Letter(f) = l
    BY <2>4
  <2>6. h[f] = <<l, i - 1 + 1>>
    BY <2>4, <2>5
  <2>7. i - 1 + 1 = i
    BY <2>3
  <2> QED
    BY <2>2, <2>5, <2>6, <2>7
<1>6. h \in Surjection(G, pairs)
  <2>1. h \in [G -> pairs]
    BY <1>4
  <2> HIDE DEF h
  <2> QED
    BY <1>5, <2>1, Zenon DEF Surjection
<1>7. IsFiniteSet(G) /\ IsFiniteSet(Listed) /\ Cardinality(G) \in Nat /\ Cardinality(Listed) \in Nat
  BY <1>1, CardSets
<1>8. G \in SUBSET Listed
  OBVIOUS
<1> HIDE DEF G, h, pairs
<1>9. Cardinality(pairs) <= Cardinality(G)
  BY <1>6, <1>7, FS_Surjection
<1>10. Cardinality(G) <= Cardinality(Listed)
  BY <1>7, <1>8, FS_Subset
<1>11. GamesIn(Counts, Letters) = Cardinality(pairs)
  BY DEF GamesIn, pairs, Games
<1>12. GamesIn(Counts, Letters) \in Nat
  BY CountsType, GamesFinite
<1>13. MAX_ROMS \in Nat
  BY CardAssumption
<1> QED
  BY <1>1, <1>7, <1>9, <1>10, <1>11, <1>12, <1>13

\* So min_diff begins above every difference.
LEMMA FarOffIsFar ==
  ASSUME TypeInv, NEW s \in Splits
  PROVE  Diff(Counts, s) \in Nat /\ Diff(Counts, s) < FarOff
<1> DEFINE all == GamesIn(Counts, Letters)
           z == SizesOf(Counts, s)
           i == Ideal(Counts)
<1>1. Counts \in [Letters -> Nat]
  BY CountsType
<1>2. /\ z[1] \in Nat /\ z[2] \in Nat /\ z[3] \in Nat /\ z[1] + z[2] + z[3] = all
      /\ all \in Nat
  BY <1>1, SizesAdd
<1>3. i \in Nat /\ i <= all
  BY <1>2 DEF Ideal
<1>4. Diff(Counts, s) = Distance(z[1], i) + Distance(z[2], i) + Distance(z[3], i)
  BY <1>1, DiffIs
<1>5. all <= MAX_ROMS /\ MAX_ROMS \in Nat /\ 3 * MAX_ROMS < FarOff /\ FarOff \in Nat
  BY GamesAreListed, CardAssumption DEF FarOff
<1> HIDE DEF all, z, i
<1>6. ASSUME NEW x \in Nat, x <= all PROVE Distance(x, i) \in Nat /\ Distance(x, i) <= all
  BY <1>2, <1>3, <1>6 DEF Distance
<1>7. z[1] <= all /\ z[2] <= all /\ z[3] <= all
  BY <1>2
<1>8. /\ Distance(z[1], i) \in Nat /\ Distance(z[1], i) <= all
      /\ Distance(z[2], i) \in Nat /\ Distance(z[2], i) <= all
      /\ Distance(z[3], i) \in Nat /\ Distance(z[3], i) <= all
  BY <1>2, <1>6, <1>7
<1> QED
  BY <1>2, <1>4, <1>5, <1>8

LEMMA CountsStay ==
  ASSUME UNCHANGED <<card, roms>>
  PROVE  Counts' = Counts /\ (AnyGame' <=> AnyGame)
<1>1. Counts' = Counts
  BY DEF Counts, Listed, IsCD, Letter
<1> QED
  BY <1>1 DEF AnyGame

\* The pair that is tried.
LEMMA TriedIsSplit ==
  ASSUME SearchInv, TrySplit
  PROVE  next \in Splits
<1>1. pc = "split" /\ next[1] < LastLetter - 1
  BY DEF TrySplit
<1>2. LastPlace[1] = LastLetter - 1 /\ LastLetter \in Nat
  BY SplitAssumption DEF LastPlace
<1> QED
  BY <1>1, <1>2 DEF SearchInv

\* A round keeps the best of the pairs that were tried.
LEMMA RoundKeepsBest ==
  ASSUME TypeInv, SearchInv, TrySplit
  PROVE  BestOfTried(Counts, split', least', next')
<1> DEFINE d == Diff(Counts, next)
<1>1. /\ next' = NextSplit(next) /\ pc = "split" /\ AnyGame
      /\ IF d < least THEN least' = d /\ split' = next ELSE UNCHANGED <<least, split>>
  BY DEF TrySplit
<1>2. next \in Splits
  BY TriedIsSplit
<1>3. \A t \in Splits : Earlier(t, next') <=> Earlier(t, next) \/ t = next
  BY <1>1, <1>2, NextPlace
<1>4. \A t \in Splits : Diff(Counts, t) \in Nat /\ Diff(Counts, t) < FarOff
  BY FarOffIsFar
<1>5. \A t \in Splits : t[1] \in Nat /\ t[2] \in Nat
  BY SplitsAre
<1>6. d \in Nat /\ d < FarOff
  BY <1>2, <1>4
<1>7. CASE next = FirstSplit
  <2>1. least = FarOff
    BY <1>1, <1>7 DEF SearchInv
  <2>2. least' = d /\ split' = next
    BY <1>1, <1>6, <2>1
  <2>3. \A t \in Splits : Earlier(t, next') => t = next
    BY <1>3, <1>7, PlacesAtTheEnds
  <2>4. next[2] <= next[2]
    BY <1>2, <1>5
  <2> QED
    BY <1>2, <1>3, <2>2, <2>3, <2>4 DEF BestOfTried
<1>8. CASE next # FirstSplit
  <2>1. BestOfTried(Counts, split, least, next)
    BY <1>1, <1>8 DEF SearchInv
  <2>2. split \in Splits /\ Earlier(split, next) /\ least = Diff(Counts, split) /\ least \in Nat
    BY <1>4, <2>1 DEF BestOfTried
  <2>3. ASSUME d < least PROVE BestOfTried(Counts, split', least', next')
    <3>1. least' = d /\ split' = next
      BY <1>1, <2>3
    <3>2. ASSUME NEW t \in Splits, Earlier(t, next')
          PROVE  \/ d < Diff(Counts, t)
                 \/ d = Diff(Counts, t)
                    /\ (next[1] < t[1] \/ (next[1] = t[1] /\ next[2] <= t[2]))
      <4>1. CASE t = next
        BY <1>2, <1>5, <4>1
      <4>2. CASE Earlier(t, next)
        <5>1. least <= Diff(Counts, t)
          BY <1>4, <2>1, <2>2, <4>2 DEF BestOfTried
        <5>2. Diff(Counts, t) \in Nat
          BY <1>4
        <5> QED
          BY <1>6, <2>2, <2>3, <5>1, <5>2
      <4> QED
        BY <1>3, <3>2, <4>1, <4>2
    <3> QED
      BY <1>2, <1>3, <3>1, <3>2 DEF BestOfTried
  <2>4. ASSUME ~(d < least) PROVE BestOfTried(Counts, split', least', next')
    <3>1. least' = least /\ split' = split
      BY <1>1, <2>4
    <3>2. ASSUME NEW t \in Splits, Earlier(t, next')
          PROVE  \/ least < Diff(Counts, t)
                 \/ least = Diff(Counts, t)
                    /\ (split[1] < t[1] \/ (split[1] = t[1] /\ split[2] <= t[2]))
      <4>1. CASE t = next
        <5>1. least < d \/ least = d
          BY <1>6, <2>2, <2>4
        <5>2. split[1] < next[1] \/ (split[1] = next[1] /\ split[2] <= next[2])
          BY <1>2, <1>5, <2>2 DEF Earlier
        <5> QED
          BY <4>1, <5>1, <5>2
      <4>2. CASE Earlier(t, next)
        BY <2>1, <4>2 DEF BestOfTried
      <4> QED
        BY <1>3, <3>2, <4>1, <4>2
    <3> QED
      BY <1>3, <2>2, <3>1, <3>2 DEF BestOfTried
  <2> QED
    BY <2>3, <2>4
<1> QED
  BY <1>7, <1>8

------------------------------------------------------------------------------
(* The types, step by step                                                   *)

LEMMA InitType == Init => TypeInv
<1> SUFFICES ASSUME Init PROVE TypeInv
  OBVIOUS
<1>1. Len(<<>>) = 0 /\ 1..0 = {}
  OBVIOUS
<1>2. Listed = {} /\ InList = {}
  BY <1>1 DEF Init, Listed, InList
<1>3. Cardinality({}) = 0 /\ MAX_ROMS \in Nat
  BY FS_EmptySet, CardAssumption
<1>4. Cardinality(Listed) <= MAX_ROMS
  BY <1>2, <1>3
<1>5. card \in Libraries /\ disk \subseteq card.files /\ failed \in BOOLEAN /\ pc = "off"
  BY DEF Init
<1>6. /\ roms = <<>> /\ filtered = <<>> /\ favorites = {} /\ tab = 0 /\ selected = 0
      /\ split = DefaultSplit /\ next = FirstSplit /\ least = FarOff
  BY DEF Init
<1>7. split \in Nat \X Nat /\ next \in Nat \X Nat /\ least \in Nat
  BY DEF Init, DefaultSplit, FirstSplit, FarOff
<1> QED
  BY <1>2, <1>4, <1>5, <1>6, <1>7, AscendingEmpty DEF TypeInv

LEMMA StepType == TypeInv /\ CursorOnList /\ SearchInv /\ [Next]_vars => TypeInv'
<1> SUFFICES ASSUME TypeInv, CursorOnList, SearchInv, [Next]_vars PROVE TypeInv'
  OBVIOUS
<1>g. /\ card \in Libraries
      /\ Listed \subseteq card.files /\ roms = Ascending(Listed)
      /\ Cardinality(Listed) <= MAX_ROMS
      /\ favorites \subseteq Listed
      /\ split \in Nat \X Nat
      /\ next \in Nat \X Nat /\ least \in Nat
      /\ tab \in 0..5
      /\ InList \subseteq Listed /\ filtered = Ascending(InList)
      /\ selected \in Nat
      /\ pc \in {"off", "split", "menu", "open", "write"}
      /\ disk \subseteq card.files
      /\ failed \in BOOLEAN
      /\ pc = "off" => /\ roms = <<>> /\ favorites = {}
                       /\ split = DefaultSplit /\ next = FirstSplit /\ least = FarOff
      /\ pc \in {"off", "split"} => tab = 0 /\ filtered = <<>> /\ selected = 0
  BY DEF TypeInv
<1>1. CASE ScanRoms
  <2>1. PICK S \in SUBSET card.files :
          /\ Cardinality(S) <= MAX_ROMS
          /\ roms' = Ascending(S)
          /\ favorites' \in ReadBack(S)
          /\ failed' = (favorites' # S \cap disk)
    BY <1>1 DEF ScanRoms, Scans
  <2>2. UNCHANGED <<card, split, next, least, tab, filtered, selected, shown, disk>>
        /\ pc = "off" /\ pc' = "split"
    BY <1>1 DEF ScanRoms, search
  <2>3. Listed' = S
    BY <1>g, <2>1, ListedAfter DEF Listed
  <2>4. favorites' \subseteq S
    BY <2>1 DEF ReadBack
  <2>5. InList' = InList /\ InList = {}
    <3>1. Len(<<>>) = 0 /\ 1..0 = {}
      OBVIOUS
    <3> QED
      BY <1>g, <2>2, <3>1 DEF InList
  <2>6. failed' \in BOOLEAN
    BY <2>1
  <2>7. roms' = Ascending(Listed') /\ Listed' \subseteq card'.files /\ favorites' \subseteq Listed'
        /\ Cardinality(Listed') <= MAX_ROMS
    BY <2>1, <2>2, <2>3, <2>4
  <2>8. InList' \subseteq Listed' /\ filtered' = Ascending(InList')
    BY <1>g, <2>2, <2>5
  <2>9. /\ split' \in Nat \X Nat /\ next' \in Nat \X Nat /\ least' \in Nat
        /\ tab' = 0 /\ filtered' = <<>> /\ selected' = 0
        /\ card' \in Libraries /\ disk' \subseteq card'.files
    BY <1>g, <2>2
  <2> QED
    BY <2>2, <2>6, <2>7, <2>8, <2>9 DEF TypeInv
<1>9. CASE TrySplit
  <2>1. /\ UNCHANGED <<card, roms, favorites, tab, filtered, selected, pc, disk, failed>>
        /\ next' = NextSplit(next)
        /\ \/ split' = next /\ least' = Diff(Counts, next)
           \/ UNCHANGED <<split, least>>
        /\ AnyGame /\ pc = "split" /\ next[1] < LastLetter - 1
    BY <1>9 DEF TrySplit
  <2>2. Listed' = Listed /\ InList' = InList
    BY <2>1 DEF Listed, InList
  <2>3. next' \in Nat \X Nat
    BY <1>g, <2>1, NextType
  <2>4. Diff(Counts, next) \in Nat
    BY <1>9, TriedIsSplit, CountsType, DiffIs
  <2>5. split' \in Nat \X Nat /\ least' \in Nat
    BY <1>g, <2>1, <2>4
  <2> QED
    BY <1>g, <2>1, <2>2, <2>3, <2>5 DEF TypeInv
<1>10. CASE ShowMenu
  <2>1. /\ UNCHANGED <<card, roms, split, favorites, tab, selected, disk, failed>>
        /\ pc' = "menu" /\ filtered' = roms /\ next' = FirstSplit /\ least' = FarOff
    BY <1>10 DEF ShowMenu
  <2>2. Listed' = Listed /\ InList' = Listed
    BY <2>1 DEF Listed, InList
  <2>3. next' \in Nat \X Nat /\ least' \in Nat
    BY <2>1 DEF FirstSplit, FarOff
  <2> QED
    BY <1>g, <2>1, <2>2, <2>3 DEF TypeInv
<1>2. ASSUME NEW to \in Nat, Move(to) PROVE TypeInv'
  <2>1. UNCHANGED <<card, roms, split, next, least, favorites, tab, filtered, pc, disk, failed>>
        /\ selected' = to /\ pc = "menu"
    BY <1>2 DEF Move, search
  <2>2. Listed' = Listed /\ InList' = InList
    BY <2>1 DEF Listed, InList
  <2> QED
    BY <1>g, <2>1, <2>2 DEF TypeInv
<1>3. ASSUME NEW t \in 0..5, SwitchTab(t) PROVE TypeInv'
  <2>1. UNCHANGED <<card, roms, split, next, least, favorites, pc, disk, failed>>
        /\ selected' = 0 /\ tab' = t /\ pc = "menu" /\ filtered' = FilteredList(t)
    BY <1>3 DEF SwitchTab, search
  <2> DEFINE F == {f \in Listed : InTab(f, t)}
  <2>2. F \in SUBSET card.files /\ filtered' = Ascending(F)
    BY <1>g, <2>1 DEF FilteredList
  <2>4. Listed' = Listed /\ F \subseteq Listed
    BY <2>1 DEF Listed
  <2> HIDE DEF F
  <2>3. InList' = F
    BY <1>g, <2>2, ListedAfter DEF InList
  <2> QED
    BY <1>g, <2>1, <2>2, <2>3, <2>4 DEF TypeInv
<1>4. ASSUME NEW favs, favs \subseteq favorites \cup {GetSelectedRom}, Mark(favs)
      PROVE  TypeInv'
  <2>1. UNCHANGED <<card, roms, split, next, least, tab, filtered, selected, disk, failed>>
        /\ favorites' = favs /\ pc' = "open" /\ HasSelection
    BY <1>4 DEF Mark, search
  <2>2. GetSelectedRom \in Listed
    BY <1>g, <2>1, SelectedIsListed
  <2>3. Listed' = Listed /\ InList' = InList
    BY <2>1 DEF Listed, InList
  <2>4. favs \subseteq Listed
    BY <1>4, <1>g, <2>2
  <2> QED
    BY <1>g, <2>1, <2>3, <2>4 DEF TypeInv
<1>5. CASE OpenFavorites
  <2>1. UNCHANGED <<card, roms, split, next, least, favorites, tab, filtered, selected>>
        /\ pc = "open" /\ disk' \in {{}, disk} /\ pc' \in {"write", "menu"} /\ failed' \in {TRUE, failed}
    BY <1>5 DEF OpenFavorites, search
  <2>2. Listed' = Listed /\ InList' = InList
    BY <2>1 DEF Listed, InList
  <2>3. disk' \subseteq card.files /\ failed' \in BOOLEAN
    BY <1>g, <2>1
  <2> QED
    BY <1>g, <2>1, <2>2, <2>3 DEF TypeInv
<1>6. CASE CloseFavorites
  <2>1. UNCHANGED <<card, roms, split, next, least, favorites, tab, filtered, selected>>
        /\ pc' = "menu" /\ pc = "write"
    BY <1>6 DEF CloseFavorites, search
  <2>2. PICK n \in 0..Cardinality(favorites) :
          disk' = Lines(favorites, n) /\ failed' = (n < Cardinality(favorites))
    BY <1>6 DEF CloseFavorites, search
  <2>3. disk' \subseteq favorites
    <3>1. favorites \in SUBSET card.files
      BY <1>g
    <3>2. IsFiniteSet(favorites) /\ favorites \subseteq Nat
      BY <1>g, <3>1, CardSets
    <3> QED
      BY <2>2, <3>2, LinesAre
  <2>4. Listed' = Listed /\ InList' = InList
    BY <2>1 DEF Listed, InList
  <2>5. failed' \in BOOLEAN
    BY <2>2
  <2> QED
    BY <1>g, <2>1, <2>3, <2>4, <2>5 DEF TypeInv
<1>7. CASE PowerCut
  <2>1. /\ UNCHANGED <<card, disk>> /\ pc' = "off" /\ roms' = <<>> /\ filtered' = <<>>
        /\ favorites' = {} /\ tab' = 0 /\ selected' = 0 /\ failed' = FALSE
        /\ split' = DefaultSplit /\ next' = FirstSplit /\ least' = FarOff
    BY <1>7 DEF PowerCut
  <2>2. Len(<<>>) = 0 /\ 1..0 = {}
    OBVIOUS
  <2>3. Listed' = {} /\ InList' = {}
    BY <2>1, <2>2 DEF Listed, InList
  <2>4. Cardinality({}) = 0 /\ MAX_ROMS \in Nat
    BY FS_EmptySet, CardAssumption
  <2>5. Cardinality(Listed') <= MAX_ROMS
    BY <2>3, <2>4
  <2>6. split' \in Nat \X Nat /\ next' \in Nat \X Nat /\ least' \in Nat
    BY <2>1 DEF DefaultSplit, FirstSplit, FarOff
  <2>7. roms' = Ascending(Listed') /\ filtered' = Ascending(InList')
    BY <2>1, <2>3, AscendingEmpty
  <2>8. Listed' \subseteq card'.files /\ InList' \subseteq Listed' /\ favorites' \subseteq Listed'
    BY <2>1, <2>3
  <2>9. /\ card' \in Libraries /\ disk' \subseteq card'.files
        /\ pc' \in {"off", "split", "menu", "open", "write"} /\ tab' \in 0..5 /\ selected' \in Nat
    BY <1>g, <2>1
  <2>10. failed' \in BOOLEAN
    BY <2>1
  <2> QED
    BY <2>1, <2>5, <2>6, <2>7, <2>8, <2>9, <2>10, Zenon DEF TypeInv
<1>8. CASE UNCHANGED vars
  <2>1. UNCHANGED <<card, roms, split, next, least, favorites, tab, filtered, selected, pc, disk, failed>>
    BY <1>8 DEF vars, memory, search
  <2>2. Listed' = Listed /\ InList' = InList
    BY <2>1 DEF Listed, InList
  <2> QED
    BY <1>g, <2>1, <2>2 DEF TypeInv
<1> QED
  BY <1>1, <1>2, <1>3, <1>4, <1>5, <1>6, <1>7, <1>8, <1>9, <1>10, Steps

------------------------------------------------------------------------------
(* The search, step by step                                                  *)

LEMMA StepSearch ==
  TypeInv /\ CursorOnList /\ SearchInv /\ [Next]_vars => SearchInv'
<1> SUFFICES ASSUME TypeInv, CursorOnList, SearchInv, [Next]_vars PROVE SearchInv'
  OBVIOUS
<1>1. CASE ScanRoms
  <2>1. pc' = "split" /\ UNCHANGED <<split, next, least>> /\ pc = "off"
    BY <1>1 DEF ScanRoms, search
  <2>2. split = DefaultSplit /\ next = FirstSplit /\ least = FarOff
    BY <2>1 DEF TypeInv
  <2> QED
    BY <2>1, <2>2, PlacesAtTheEnds DEF SearchInv
<1>2. CASE TrySplit
  <2>1. UNCHANGED <<card, roms, pc>> /\ pc = "split" /\ AnyGame /\ next' = NextSplit(next)
    BY <1>2 DEF TrySplit
  <2>2. next' \in Splits \/ next' = LastPlace
    BY <1>2, <2>1, TriedIsSplit, NextPlace
  <2>3. next' # FirstSplit
    BY <1>2, <2>1, TriedIsSplit, NextPlace
  <2>4. BestOfTried(Counts, split', least', next')
    BY <1>2, RoundKeepsBest
  <2>5. Counts' = Counts /\ AnyGame'
    BY <2>1, CountsStay
  <2>6. BestOfTried(Counts', split', least', next')
    BY <2>4, <2>5
  <2> QED
    BY <2>1, <2>2, <2>3, <2>5, <2>6 DEF SearchInv, BestOfTried
<1>3. CASE ShowMenu
  <2>1. UNCHANGED <<card, roms, split>> /\ pc = "split" /\ pc' = "menu"
        /\ (AnyGame => next[1] = LastLetter - 1)
    BY <1>3 DEF ShowMenu
  <2>2. Counts' = Counts /\ (AnyGame' <=> AnyGame)
    BY <2>1, CountsStay
  <2>3. Chosen
    <3>1. CASE ~AnyGame
      BY <2>1, <3>1 DEF SearchInv, Chosen
    <3>2. CASE AnyGame
      <4>1. next = LastPlace
        <5>1. ASSUME next \in Splits PROVE FALSE
          <6>1. next[1] \in Nat /\ next[2] \in Nat /\ next[1] < next[2] /\ next[2] < LastLetter
                /\ LastLetter \in Nat
            BY <5>1, SplitsAre, SplitAssumption
          <6> QED
            BY <2>1, <3>2, <6>1
        <5> QED
          BY <2>1, <5>1 DEF SearchInv
      <4>2. BestOfTried(Counts, split, least, LastPlace)
        BY <2>1, <3>2, <4>1, PlacesAtTheEnds DEF SearchInv
      <4>3. IsBestSplit(Counts, split)
        BY <4>2, PlacesAtTheEnds DEF BestOfTried, IsBestSplit
      <4> QED
        BY <3>2, <4>3 DEF Chosen
    <3> QED
      BY <3>1, <3>2
  <2>4. Chosen'
    BY <2>1, <2>2, <2>3 DEF Chosen
  <2> QED
    BY <2>1, <2>4 DEF SearchInv
<1>4. ASSUME UNCHANGED <<card, roms, split>>, pc' \in {"menu", "open", "write"},
             pc \in {"menu", "open", "write"}
      PROVE  SearchInv'
  <2>1. Counts' = Counts /\ (AnyGame' <=> AnyGame)
    BY <1>4, CountsStay
  <2>2. Chosen
    BY <1>4 DEF SearchInv
  <2>3. Chosen'
    BY <1>4, <2>1, <2>2 DEF Chosen
  <2> QED
    BY <1>4, <2>3 DEF SearchInv
<1>5. ASSUME NEW to \in Nat, Move(to) PROVE SearchInv'
  BY <1>4, <1>5 DEF Move
<1>6. ASSUME NEW t \in 0..5, SwitchTab(t) PROVE SearchInv'
  BY <1>4, <1>6 DEF SwitchTab
<1>7. ASSUME NEW favs, Mark(favs) PROVE SearchInv'
  BY <1>4, <1>7 DEF Mark
<1>8. CASE OpenFavorites
  BY <1>4, <1>8 DEF OpenFavorites
<1>9. CASE CloseFavorites
  BY <1>4, <1>9 DEF CloseFavorites
<1>10. CASE PowerCut
  <2>1. pc' = "off"
    BY <1>10 DEF PowerCut
  <2> QED
    BY <2>1 DEF SearchInv
<1>11. CASE UNCHANGED vars
  <2>1. UNCHANGED <<card, roms, split, next, least, pc>>
    BY <1>11 DEF vars, memory, search
  <2>2. Counts' = Counts /\ (AnyGame' <=> AnyGame)
    BY <2>1, CountsStay
  <2>3. Chosen' <=> Chosen
    BY <2>1, <2>2 DEF Chosen
  <2>4. BestOfTried(Counts, split, least, next)' <=> BestOfTried(Counts, split, least, next)
    BY <2>1, <2>2 DEF BestOfTried
  <2> QED
    BY <2>1, <2>2, <2>3, <2>4 DEF SearchInv
<1> QED
  BY <1>1, <1>2, <1>3, <1>5, <1>6, <1>7, <1>8, <1>9, <1>10, <1>11, Steps

------------------------------------------------------------------------------
(* The cursor and the screen                                                 *)

LEMMA FilteredLength ==
  ASSUME TypeInv
  PROVE  /\ Len(filtered) = Cardinality(InList) /\ Len(filtered) \in Nat
         /\ filtered \in Seq(InList)
         /\ filtered # <<>> => Len(filtered) > 0
<1>1. IsFiniteSet(InList) /\ InList \subseteq Nat
  BY CardSets DEF TypeInv
<1>2. Len(filtered) = Cardinality(InList) /\ filtered \in Seq(InList)
  BY <1>1, AscendingLists DEF TypeInv
<1> QED
  BY <1>2

LEMMA StepCursor == TypeInv /\ TypeInv' /\ CursorOnList /\ [Next]_vars => CursorOnList'
<1> SUFFICES ASSUME TypeInv, TypeInv', CursorOnList, [Next]_vars PROVE CursorOnList'
  OBVIOUS
<1>n. Len(filtered') \in Nat /\ (filtered' # <<>> => 0 < Len(filtered'))
  <2>1. /\ card' \in Libraries /\ InList' \in SUBSET card'.files
        /\ filtered' = Ascending(InList')
    BY DEF TypeInv
  <2>2. IsFiniteSet(InList') /\ InList' \subseteq Nat
    BY <2>1, CardSetsOf
  <2>3. filtered' \in Seq(InList')
    BY <2>1, <2>2, AscendingLists
  <2> QED
    BY <2>3
<1>1. ASSUME ScanRoms \/ TrySplit \/ ShowMenu PROVE CursorOnList'
  <2>1. pc \in {"off", "split"} /\ selected' = selected
    BY <1>1 DEF ScanRoms, TrySplit, ShowMenu
  <2>2. selected' = 0
    BY <2>1 DEF TypeInv
  <2> QED
    BY <1>n, <2>2 DEF CursorOnList
<1>2. ASSUME NEW to \in Nat, to < Len(filtered), Move(to) PROVE CursorOnList'
  BY <1>2 DEF Move, CursorOnList
<1>3. ASSUME NEW t \in 0..5, SwitchTab(t) PROVE CursorOnList'
  <2>1. selected' = 0
    BY <1>3 DEF SwitchTab
  <2> QED
    BY <1>n, <2>1 DEF CursorOnList
<1>4. ASSUME NEW favs, Mark(favs) PROVE CursorOnList'
  BY <1>4 DEF Mark, CursorOnList
<1>5. CASE OpenFavorites
  BY <1>5 DEF OpenFavorites, CursorOnList
<1>6. CASE CloseFavorites
  BY <1>6 DEF CloseFavorites, CursorOnList
<1>7. CASE PowerCut
  BY <1>7 DEF PowerCut, CursorOnList
<1>8. CASE UNCHANGED vars
  BY <1>8 DEF vars, memory, CursorOnList
<1> QED
  BY <1>1, <1>2, <1>3, <1>4, <1>5, <1>6, <1>7, <1>8, Steps

LEMMA StepScreen == TypeInv /\ CursorOnList /\ ScreenIsCurrent /\ [Next]_vars => ScreenIsCurrent'
<1> SUFFICES ASSUME TypeInv, CursorOnList, ScreenIsCurrent, [Next]_vars PROVE ScreenIsCurrent'
  OBVIOUS
<1>1. Update => ScreenIsCurrent'
  BY DEF Update, ScreenIsCurrent
<1>2. ASSUME NEW to, Move(to) PROVE Update
  BY <1>2 DEF Move
<1>3. ASSUME NEW t, SwitchTab(t) PROVE Update
  BY <1>3 DEF SwitchTab
<1>4. ASSUME NEW favs, Mark(favs) PROVE ScreenIsCurrent'
  BY <1>4 DEF Mark, ScreenIsCurrent
<1>5. CASE OpenFavorites
  <2>1. UNCHANGED <<favorites, tab, filtered, selected>>
    BY <1>5 DEF OpenFavorites
  <2>2. pc' = "write" \/ shown' = Screen(filtered, favorites, selected, tab)
    BY <1>5 DEF OpenFavorites
  <2> QED
    BY <2>1, <2>2 DEF ScreenIsCurrent
<1>6. ASSUME ShowMenu \/ CloseFavorites \/ PowerCut PROVE Update
  BY <1>6 DEF ShowMenu, CloseFavorites, PowerCut
<1>7. CASE UNCHANGED vars
  BY <1>7 DEF vars, memory, ScreenIsCurrent
<1>8. ASSUME ScanRoms \/ TrySplit PROVE ScreenIsCurrent'
  BY <1>8 DEF ScanRoms, TrySplit, ScreenIsCurrent
<1> QED
  BY <1>1, <1>2, <1>3, <1>4, <1>5, <1>6, <1>7, <1>8, Steps

------------------------------------------------------------------------------
(* The list and the file                                                     *)

\* The list is the tab's; a favourite taken away stays on the FAV tab.
OfTab == IF tab = 1 THEN favorites \subseteq InList
         ELSE InList = {f \in Listed : InTab(f, tab)}
ListInv == pc # "split" => OfTab

LEMMA ListKept ==
  ASSUME OfTab, UNCHANGED <<card, roms, split, favorites, tab, filtered>>
  PROVE  OfTab'
<1>1. \A f, t : InTab(f, t)' <=> InTab(f, t)
  BY DEF InTab, IsCD, Letter
<1>2. Listed' = Listed /\ InList' = InList
  BY DEF Listed, InList
<1>3. {f \in Listed : InTab(f, tab)}' = {f \in Listed : InTab(f, tab)}
  BY <1>1, <1>2
<1> QED
  BY <1>2, <1>3 DEF OfTab

LEMMA StepList == TypeInv /\ CursorOnList /\ ListInv /\ [Next]_vars => ListInv'
<1> SUFFICES ASSUME TypeInv, CursorOnList, ListInv, [Next]_vars PROVE ListInv'
  OBVIOUS
<1>0. \A f : InTab(f, 0) /\ (InTab(f, 0))'
  BY DEF InTab
<1>p. pc # "split" => OfTab
  BY DEF ListInv
<1>1. ASSUME ScanRoms \/ TrySplit PROVE ListInv'
  BY <1>1 DEF ScanRoms, TrySplit, ListInv
<1>7. CASE ShowMenu
  <2>1. filtered' = roms /\ roms' = roms /\ tab' = tab /\ pc = "split"
    BY <1>7 DEF ShowMenu
  <2>2. InList' = Listed'
    BY <2>1 DEF InList, Listed
  <2>3. tab' = 0
    BY <2>1 DEF TypeInv
  <2> QED
    BY <1>0, <2>2, <2>3 DEF ListInv, OfTab
<1>2. ASSUME NEW to, Move(to) PROVE ListInv'
  BY <1>2, <1>p, ListKept DEF Move, ListInv
<1>3. ASSUME NEW t \in 0..5, SwitchTab(t) PROVE ListInv'
  <2>1. UNCHANGED <<card, roms, split, favorites>> /\ tab' = t /\ filtered' = FilteredList(t)
    BY <1>3 DEF SwitchTab
  <2> DEFINE F == {f \in Listed : InTab(f, t)}
  <2>2. F \in SUBSET card.files /\ filtered' = Ascending(F) /\ card \in Libraries
    BY <2>1 DEF FilteredList, TypeInv
  <2> HIDE DEF F
  <2>3. InList' = F
    BY <2>2, ListedAfter DEF InList
  <2>4. Listed' = Listed
    BY <2>1 DEF Listed
  <2>5. \A f : InTab(f, t)' <=> InTab(f, t)
    BY <2>1 DEF InTab, IsCD, Letter
  <2>6. F = {f \in Listed' : InTab(f, t)'}
    BY <2>4, <2>5 DEF F
  <2>7. t = 1 => F = favorites
    BY DEF F, InTab, TypeInv
  <2> QED
    BY <2>1, <2>3, <2>6, <2>7 DEF ListInv, OfTab
<1>4. ASSUME NEW favs, favs \subseteq favorites \cup {GetSelectedRom}, Mark(favs) PROVE ListInv'
  <2>1. UNCHANGED <<card, roms, split, tab, filtered>> /\ favorites' = favs /\ HasSelection /\ OfTab
    BY <1>4, <1>p DEF Mark
  <2>2. Listed' = Listed /\ InList' = InList
    BY <2>1 DEF Listed, InList
  <2>3. CASE tab = 1
    <3>1. GetSelectedRom \in InList
      BY <2>1, SelectedIsListed
    <3> QED
      BY <1>4, <2>1, <2>2, <2>3, <3>1 DEF ListInv, OfTab
  <2>4. CASE tab # 1
    <3>1. \A f : InTab(f, tab)' <=> InTab(f, tab)
      BY <2>1, <2>4 DEF InTab, IsCD, Letter, TypeInv
    <3> QED
      BY <2>1, <2>2, <2>4, <3>1 DEF ListInv, OfTab
  <2> QED
    BY <2>3, <2>4
<1>5. ASSUME OpenFavorites \/ CloseFavorites \/ UNCHANGED vars PROVE ListInv'
  <2>1. UNCHANGED <<card, roms, split, favorites, tab, filtered>>
    BY <1>5 DEF OpenFavorites, CloseFavorites, vars, memory
  <2>2. pc' # "split" => pc # "split"
    BY <1>5 DEF OpenFavorites, CloseFavorites, vars
  <2> QED
    BY <1>p, <2>1, <2>2, ListKept DEF ListInv
<1>6. CASE PowerCut
  <2>1. roms' = <<>> /\ filtered' = <<>> /\ tab' = 0
    BY <1>6 DEF PowerCut
  <2>2. Listed' = InList'
    BY <2>1 DEF Listed, InList
  <2> QED
    BY <1>0, <2>1, <2>2 DEF ListInv, OfTab
<1> QED
  BY <1>1, <1>2, <1>3, <1>4, <1>5, <1>6, <1>7, Steps

\* Already when the favourites have been read, before the menu is shown.
DiskInv == pc \in {"split", "menu"} /\ ~failed => Listed \cap disk = favorites

LEMMA StepDisk == TypeInv /\ CursorOnList /\ DiskInv /\ [Next]_vars => DiskInv'
<1> SUFFICES ASSUME TypeInv, CursorOnList, DiskInv, [Next]_vars PROVE DiskInv'
  OBVIOUS
<1>1. CASE ScanRoms
  <2>1. PICK S \in SUBSET card.files :
          roms' = Ascending(S) /\ failed' = (favorites' # S \cap disk)
    BY <1>1 DEF ScanRoms, Scans
  <2>2. disk' = disk
    BY <1>1 DEF ScanRoms
  <2>3. Listed' = S
    BY <2>1, ListedAfter DEF Listed, TypeInv
  <2>4. ~failed' => favorites' = S \cap disk
    BY <2>1
  <2> QED
    BY <2>2, <2>3, <2>4 DEF DiskInv
<1>2. ASSUME NEW to, Move(to) PROVE DiskInv'
  BY <1>2 DEF Move, DiskInv, Listed
<1>3. ASSUME NEW t, SwitchTab(t) PROVE DiskInv'
  BY <1>3 DEF SwitchTab, DiskInv, Listed
<1>4. ASSUME NEW favs, Mark(favs) PROVE DiskInv'
  BY <1>4 DEF Mark, DiskInv
<1>5. CASE OpenFavorites
  <2>1. pc' = "write" \/ failed' = TRUE
    BY <1>5 DEF OpenFavorites
  <2> QED
    BY <2>1 DEF DiskInv
<1>6. CASE CloseFavorites
  <2>1. UNCHANGED <<roms, favorites>>
    BY <1>6 DEF CloseFavorites
  <2>2. PICK n \in 0..Cardinality(favorites) :
          disk' = Lines(favorites, n) /\ failed' = (n < Cardinality(favorites))
    BY <1>6 DEF CloseFavorites
  <2>3. favorites \in SUBSET card.files /\ favorites \subseteq Listed /\ card \in Libraries
    BY DEF TypeInv
  <2>4. IsFiniteSet(favorites) /\ favorites \subseteq Nat /\ Cardinality(favorites) \in Nat
    BY <2>3, CardSets
  <2>5. n = Cardinality(favorites) => disk' = favorites
    BY <2>2, <2>4, LinesAre
  <2>6. ~(n < Cardinality(favorites)) => n = Cardinality(favorites)
    BY <2>4
  <2>7. ~failed' => ~(n < Cardinality(favorites))
    BY <2>2, Zenon
  <2>8. ~failed' => disk' = favorites
    BY <2>5, <2>6, <2>7
  <2>9. Listed' = Listed
    BY <2>1 DEF Listed
  <2> QED
    BY <2>1, <2>3, <2>8, <2>9 DEF DiskInv
<1>7. CASE PowerCut
  BY <1>7 DEF PowerCut, DiskInv
<1>8. CASE UNCHANGED vars
  BY <1>8 DEF vars, memory, DiskInv, Listed
<1>9. ASSUME TrySplit \/ ShowMenu PROVE DiskInv'
  <2>1. UNCHANGED <<roms, favorites, disk, failed>> /\ pc = "split"
    BY <1>9 DEF TrySplit, ShowMenu
  <2> QED
    BY <2>1 DEF DiskInv, Listed
<1> QED
  BY <1>1, <1>2, <1>3, <1>4, <1>5, <1>6, <1>7, <1>8, <1>9, Steps

------------------------------------------------------------------------------
(* The theorems                                                              *)

MenuInv == TypeInv /\ SearchInv /\ CursorOnList /\ ScreenIsCurrent /\ ListInv /\ DiskInv

LEMMA MenuHolds == Spec => []MenuInv
<1>1. Init => MenuInv
  <2> SUFFICES ASSUME Init PROVE MenuInv
    OBVIOUS
  <2>1. CursorOnList /\ ScreenIsCurrent /\ DiskInv /\ SearchInv
    BY DEF Init, CursorOnList, ScreenIsCurrent, DiskInv, SearchInv
  <2>2. ListInv
    BY DEF Init, ListInv, OfTab, Listed, InList, InTab
  <2> QED
    BY <2>1, <2>2, InitType DEF MenuInv
<1>2. MenuInv /\ [Next]_vars => MenuInv'
  BY StepType, StepSearch, StepCursor, StepScreen, StepList, StepDisk DEF MenuInv
<1> QED
  BY <1>1, <1>2, PTL DEF Spec

\* TypeOK: among others the favourites are always listed files, and the list
\* is never longer than MAX_ROMS.
THEOREM TypeCorrect == Spec => []TypeOK
<1>1. MenuInv => TypeOK
  <2> SUFFICES ASSUME TypeInv PROVE TypeOK
    BY DEF MenuInv
  <2>1. IsFiniteSet(Listed) /\ Listed \subseteq Nat
    BY CardSets DEF TypeInv
  <2>2. Len(roms) = Cardinality(Listed)
    BY <2>1, AscendingLists DEF TypeInv
  <2>3. Len(roms) <= MAX_ROMS
    BY <2>2 DEF TypeInv
  <2>4. filtered \in Seq(Listed)
    <3>1. filtered \in Seq(InList) /\ InList \subseteq Listed
      BY FilteredLength DEF TypeInv
    <3> QED
      BY <3>1
  <2> QED
    BY <2>3, <2>4 DEF TypeInv, TypeOK
<1> QED
  BY <1>1, MenuHolds, PTL

\* CursorOnList.
THEOREM CursorStaysOnList == Spec => []CursorOnList
BY MenuHolds, PTL DEF MenuInv

\* ScreenIsCurrent: what A and Start boot is the line that is highlighted.
THEOREM ScreenShowsTheMenu == Spec => []ScreenIsCurrent
BY MenuHolds, PTL DEF MenuInv

\* FavoritesOnDisk: without an error the file and the menu agree.
THEOREM FavoritesAreKept == Spec => []FavoritesOnDisk
<1>1. MenuInv => FavoritesOnDisk
  BY DEF MenuInv, DiskInv, FavoritesOnDisk
<1> QED
  BY <1>1, MenuHolds, PTL

\* ListIsOfTab: no file twice, none missing.
THEOREM ListsAreComplete == Spec => []ListIsOfTab
<1>1. MenuInv => ListIsOfTab
  <2> SUFFICES ASSUME TypeInv, ListInv PROVE ListIsOfTab
    BY DEF MenuInv
  <2>1. Cardinality(InList) = Len(filtered)
    BY FilteredLength
  <2> QED
    BY <2>1 DEF ListIsOfTab, ListInv, OfTab, InList
<1> QED
  BY <1>1, MenuHolds, PTL

\* The three ranges of a split whose ends are in order: each letter is in one.
LEMMA OnePart ==
  ASSUME NEW s \in Nat \X Nat, s[1] < s[2], NEW l \in Letters
  PROVE  \E p \in 0..2 : \A q \in 0..2 : InPart(s, q, l) <=> q = p
<1>1. l \in Nat /\ s[1] \in Nat /\ s[2] \in Nat
  BY SplitAssumption DEF Letters
<1>2. CASE l <= s[1]
  BY <1>1, <1>2 DEF InPart
<1>3. CASE s[1] < l /\ l <= s[2]
  BY <1>1, <1>3 DEF InPart
<1>4. CASE s[2] < l
  BY <1>1, <1>4 DEF InPart
<1> QED
  BY <1>1, <1>2, <1>3, <1>4

\* AlphabetIsDivided: the search ends with the best of all splits; a split that
\* it leaves has its ends in order, so that the three ranges that are tested
\* one by one neither overlap nor leave a letter out.
THEOREM EveryRomHasATab == Spec => []AlphabetIsDivided
<1>1. MenuInv => AlphabetIsDivided
  <2> SUFFICES ASSUME TypeInv, SearchInv, pc \in {"menu", "open", "write"}
               PROVE  /\ \A f \in Listed : Cardinality({t \in 2..5 : InTab(f, t)}) = 1
                      /\ Chosen
    BY DEF MenuInv, AlphabetIsDivided, Chosen
  <2>1. Chosen
    BY DEF SearchInv
  <2>2. split \in Nat \X Nat /\ split[1] < split[2]
    <3>1. CASE AnyGame
      BY <2>1, <3>1, SplitsAre DEF Chosen, IsBestSplit
    <3>2. CASE ~AnyGame
      BY <2>1, <3>2 DEF Chosen, DefaultSplit
    <3> QED
      BY <3>1, <3>2
  <2>3. ASSUME NEW f \in Listed PROVE Cardinality({t \in 2..5 : InTab(f, t)}) = 1
    <3>1. Letter(f) \in Letters
      BY CardAssumption DEF Letter, TypeInv
    <3>2. PICK p \in 0..2 : \A q \in 0..2 : InPart(split, q, Letter(f)) <=> q = p
      BY <2>2, <3>1, OnePart
    <3> DEFINE home == IF IsCD(f) THEN 5 ELSE p + 2
    <3>3. home \in 2..5
      OBVIOUS
    <3>4. ASSUME NEW t \in 2..4 PROVE InTab(f, t) <=> t = home
      <4>1. t # 0 /\ t # 1 /\ t # 5 /\ t - 2 \in 0..2 /\ t \in 2..4
        OBVIOUS
      <4>2. InTab(f, t) <=> ~IsCD(f) /\ InPart(split, t - 2, Letter(f))
        BY <4>1, Zenon DEF InTab
      <4>3. InPart(split, t - 2, Letter(f)) <=> t - 2 = p
        BY <3>2, <4>1
      <4> QED
        BY <4>2, <4>3
    <3>5. InTab(f, 5) <=> 5 = home
      <4>1. InTab(f, 5) <=> IsCD(f)
        BY DEF InTab
      <4> QED
        BY <4>1
    <3> HIDE DEF home
    <3>6. \A t \in 2..5 : t \in 2..4 \/ t = 5
      OBVIOUS
    <3>7. \A t \in 2..5 : InTab(f, t) <=> t = home
      BY <3>4, <3>5, <3>6
    <3>8. {t \in 2..5 : InTab(f, t)} = {home}
      BY <3>3, <3>7
    <3> QED
      BY <3>8, FS_Singleton
  <2> QED
    BY <2>1, <2>3
<1> QED
  BY <1>1, MenuHolds, PTL

\* What that gives who has games: three tabs of the same size whenever the
\* letters allow them, and never a tab that is starved.
THEOREM TabsAreFair ==
  Spec => [](pc = "menu" /\ AnyGame =>
               EqualThirdsFound(Counts, split) /\ NoTabStarves(Counts, split))
<1> DEFINE Fair == pc = "menu" /\ AnyGame =>
                     EqualThirdsFound(Counts, split) /\ NoTabStarves(Counts, split)
<1>1. MenuInv => Fair
  <2> SUFFICES ASSUME TypeInv, SearchInv, pc = "menu", AnyGame
               PROVE  EqualThirdsFound(Counts, split) /\ NoTabStarves(Counts, split)
    BY DEF MenuInv
  <2>1. IsBestSplit(Counts, split)
    BY DEF SearchInv, Chosen
  <2>2. Counts \in [Letters -> Nat]
    BY CountsType
  <2> QED
    BY <2>1, <2>2, EqualThirds, NoTabIsStarved DEF AnyGame
<1> QED
  BY <1>1, MenuHolds, PTL
==============================================================================
