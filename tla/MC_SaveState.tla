----------------------------- MODULE MC_SaveState -----------------------------
(****************************************************************************)
(* A CD game and a cartridge that has the same name before the dot, so that  *)
(* both use one slot.  One disc has a track between its files that has none, *)
(* the other one a track behind toc.last.                                    *)
(****************************************************************************)
EXTENDS SaveState

CONSTANTS cd, cart

TwoRoms == {cd, cart}
OneSlot == [r \in TwoRoms |-> "game.s0"]
Kinds   == [r \in TwoRoms |-> r = cd]
TwoDiscs == {[files |-> {0, 1, 3}, last |-> 4], [files |-> {0, 1}, last |-> 1]}
=============================================================================
