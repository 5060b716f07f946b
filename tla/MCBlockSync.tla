---------------------------- MODULE MCBlockSync ----------------------------
(***************************************************************************)
(* Where the proof-of-work blocks are.                                     *)
(***************************************************************************)
EXTENDS BlockSync

WorkOnTop == {0, 1, 7, 8, 9}
OnlyFirst == {0, 1}
=============================================================================
