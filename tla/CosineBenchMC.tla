---------------------------- MODULE CosineBenchMC ----------------------------
(***************************************************************************)
(* Instances of CosineBench for TLC.                                       *)
(***************************************************************************)
EXTENDS CosineBench

\* The inputs of cosine_tb.v: 1, 2^-24, 0, 0.5, 0x3f1b74ee, 0x3f0a9594, 255,
\* 128, 100 and 192.
BenchInputs ==
  {[E |-> 127, M |-> 0], [E |-> 103, M |-> 0], [E |-> 0, M |-> 0],
   [E |-> 126, M |-> 0], [E |-> 126, M |-> 1799406], [E |-> 126, M |-> 693652],
   [E |-> 134, M |-> 8323072], [E |-> 134, M |-> 0], [E |-> 133, M |-> 4718592],
   [E |-> 134, M |-> 4194304]}
=============================================================================
