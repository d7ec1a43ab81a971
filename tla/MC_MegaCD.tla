------------------------------ MODULE MC_MegaCD ------------------------------
(****************************************************************************)
(* The gate array with two PRG RAM banks and a poll limit of two counted reads.      *)
(****************************************************************************)
EXTENDS MegaCD
==============================================================================
