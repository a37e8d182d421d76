------------------------------ MODULE SystemMC ------------------------------
(***************************************************************************)
(* An instance of System for TLC.                                          *)
(***************************************************************************)
EXTENDS System

\* A vector of the 0 alone, and one longer than the cache.
SmallSizes == <<1, 3>>
Terms == P!Terms
=============================================================================
