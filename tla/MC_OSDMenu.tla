----------------------------- MODULE MC_OSDMenu -----------------------------
(****************************************************************************)
(* Three cards for the menu: one with Mega Drive and CD games under several *)
(* letters, one with CD games only, one that is empty.                      *)
(****************************************************************************)
EXTENDS OSDMenu

Mixed == [files |-> 1..5, letter |-> <<0, 1, 1, 2, 4>>, cd |-> {4}]
OnlyCD == [files |-> 1..2, letter |-> <<1, 3>>, cd |-> {1, 2}]
Empty == [files |-> {}, letter |-> <<>>, cd |-> {}]

Cards == {Mixed, OnlyCD, Empty}

\* What the best split is worth, for every division of up to three games under
\* each letter; there is always one.
ASSUME SplitIsFair ==
  \A counts \in [Letters -> 0..3] : \E s \in Splits :
     /\ IsBestSplit(counts, s)
     /\ GamesIn(counts, Letters) > 0 => EqualThirdsFound(counts, s) /\ NoTabStarves(counts, s)
=============================================================================
