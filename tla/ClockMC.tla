------------------------------ MODULE ClockMC ------------------------------
(***************************************************************************)
(* Instance of Clock in which settimeofday is called late.                 *)
(***************************************************************************)
EXTENDS Clock

\* Two seconds and a half.
Late == {[tv_sec |-> 2, tv_usec |-> 3]}
=============================================================================
