------------------------------ MODULE FofXMC --------------------------------
(***************************************************************************)
(* Instances of FofX for TLC.                                              *)
(***************************************************************************)
EXTENDS FofXInv

CONSTANTS x1, x2
Terms == {x1, x2}

\* The latencies written in the code agree in the way that the modules assume of their
\* constants (TermConstants, LanesBalanced, CyclesMatch, BusConstants), so that the
\* theorems, which hold for all that do, hold for them.
MulOfCode == 4       \* fp_mult
AddOfCode == 5       \* fp_add
StagesOfCode == 6    \* pipeline_stages of cosine.sv
AccOfCode == 2 + 1 + 4    \* fp_acc: to its accumulator, in it, and to its output

ASSUME LatenciesOfCode ==
  /\ MulOfCode + 2 = StagesOfCode
  /\ MulOfCode + 6 = StagesOfCode + MulOfCode
  /\ 15 = StagesOfCode + MulOfCode + AddOfCode
  /\ 7 = AccOfCode
  /\ 23 = 15 + 7 + 1
=============================================================================
