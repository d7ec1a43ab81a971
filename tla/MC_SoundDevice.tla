--------------------------- MODULE MC_SoundDevice ---------------------------
(****************************************************************************)
(* Two bytes to a frame, so that a frame can be split by the end of the     *)
(* queue; a queue of three frames, so that a chunk of two does not empty    *)
(* it and a batch of two may not fit.  Two frames that differ, written in   *)
(* an order that shows when one is lost, repeated or overtaken.             *)
(****************************************************************************)
EXTENDS SoundDevice

CONSTANTS f1, f2

TwoFrames  == {f1, f2}
Pairs      == {<<f1, f2>>}
=============================================================================
