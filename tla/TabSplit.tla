------------------------------ MODULE TabSplit ------------------------------
(****************************************************************************)
(* COSDMenu::CalculateTabLabels (emulator/osd.cpp): how the Mega Drive      *)
(* games are divided over three alphabetical tabs.  Letters are 0 ('#',     *)
(* everything that is not a letter) to LastLetter (26 in the code); counts  *)
(* maps a letter to its number of games.  OSDMenu takes the search round by *)
(* round; here are its parts, and what it should find.                      *)
(****************************************************************************)
EXTENDS Integers, FiniteSets, FiniteSetsExt

CONSTANT LastLetter

ASSUME SplitAssumption == LastLetter \in Nat /\ LastLetter >= 2

Letters == 0..LastLetter

\* The number of games under these letters: one pair for each of them.
GamesIn(counts, letters) == Cardinality(UNION {{l} \X (1..counts[l]) : l \in letters})

\* The sizes of the three tabs when the first ends at k1 and the second at k2.
Sizes(counts, k1, k2) ==
  <<GamesIn(counts, 0..k1), GamesIn(counts, (k1 + 1)..k2), GamesIn(counts, (k2 + 1)..LastLetter)>>

Distance(a, b) == IF a < b THEN b - a ELSE a - b

\* How far a split is from three tabs of the ideal size.
Diff(counts, s) ==
  LET ideal == GamesIn(counts, Letters) \div 3
      sizes == Sizes(counts, s[1], s[2])
  IN Distance(sizes[1], ideal) + Distance(sizes[2], ideal) + Distance(sizes[3], ideal)

\* The two loops over the ends of the first and the second tab, the one inside
\* the other: the pair at which they begin and the one that follows a pair.
FirstSplit == <<0, 1>>
NextSplit(s) ==
  IF s[2] < LastLetter - 1 THEN <<s[1], s[2] + 1>> ELSE <<s[1] + 1, s[1] + 2>>

\* #-H, I-P and Q-Z, where the search begins.
DefaultSplit == <<8, 16>>

\* min_diff, as it begins.
FarOff == 1000000

\* The three tests of BuildFilteredList: which letters a part (0, 1, 2) takes.
InPart(split, part, letter) ==
  \/ part = 0 /\ letter <= split[1]
  \/ part = 1 /\ split[1] < letter /\ letter <= split[2]
  \/ part = 2 /\ split[2] < letter

------------------------------------------------------------------------------
(* What the split promises                                                   *)

\* Every way to end the first tab before the second, and each with a letter
\* left for the third.
Splits == {s \in (0..(LastLetter - 2)) \X (1..(LastLetter - 1)) : s[1] < s[2]}

\* The split that the loops should leave: none is nearer to three tabs of the
\* ideal size, and of those that are as near it is the smallest.
IsBestSplit(counts, s) ==
  /\ s \in Splits
  /\ LET best == Diff(counts, s) IN
       \A t \in Splits : LET diff == Diff(counts, t) IN
         best < diff \/ (best = diff /\ (s[1] < t[1] \/ (s[1] = t[1] /\ s[2] <= t[2])))

SizesOf(counts, split) == Sizes(counts, split[1], split[2])
Smallest(sizes) == Min({sizes[t] : t \in 1..3})
Largest(sizes)  == Max({sizes[t] : t \in 1..3})

\* Three tabs of the same size are found whenever the letters allow them.
EqualThirdsFound(counts, split) ==
  (\E s \in Splits : Smallest(SizesOf(counts, s)) = Largest(SizesOf(counts, s)))
    => Smallest(SizesOf(counts, split)) = Largest(SizesOf(counts, split))

\* No tab is short of a third of the games by as much as the fullest letter:
\* the greedy-looking sum of distances never starves one of the tabs.
NoTabStarves(counts, split) ==
  Smallest(SizesOf(counts, split))
    > GamesIn(counts, Letters) \div 3 - Max({counts[l] : l \in Letters})
=============================================================================
