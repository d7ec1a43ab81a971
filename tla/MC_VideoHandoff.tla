--------------------------- MODULE MC_VideoHandoff ---------------------------
(****************************************************************************)
(* A short and a long list, and four lines of the frame buffer: one that    *)
(* only the high mode draws, two that both draw, and one that only a mix of  *)
(* the modes reaches.                                                        *)
(****************************************************************************)
EXTENDS VideoHandoff

FourLines == {0, 8, 231, 240}
TwoLines  == {0, 8}
TwoLists  == [k \in 1..2 |-> IF k = 1 THEN 1 ELSE 4]
TwoTabs   == [k \in 1..2 |-> k]
OneTab    == [k \in 1..1 |-> 0]
OneList   == [k \in 1..1 |-> 2]
=============================================================================
