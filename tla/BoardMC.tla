------------------------------ MODULE BoardMC ------------------------------
(***************************************************************************)
(* Instance of Board for TLC.                                              *)
(***************************************************************************)
EXTENDS Board

CONSTANTS a1, a2

Two == {a1, a2}
Three == 0..2
Ends == {0, 1}
Turns == 0..(Word - 1)
=============================================================================
