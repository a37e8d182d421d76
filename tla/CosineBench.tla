---------------------------- MODULE CosineBench -----------------------------
(***************************************************************************)
(* The test benches of cosine.sv, cosine_tb.v and monte_carlo_tb.sv: they  *)
(* present an input, wait WaitEdges edges of the clock and display the     *)
(* result beside the input it is taken for.                                *)
(***************************************************************************)
EXTENDS Cosine

CONSTANT WaitEdges        \* edges between an input and its display

VARIABLES
  angle,      \* the input presented
  waited      \* edges since

benchVars == <<vars, angle, waited>>

\* The bench leaves reset low and clk_en high.
BenchInit == Init /\ angle \in Inputs /\ waited = 0

Wait ==
  /\ waited < WaitEdges
  /\ Edge(angle, TRUE, FALSE)
  /\ waited' = waited + 1
  /\ UNCHANGED angle

\* $display, and the next input.
Display ==
  /\ waited = WaitEdges
  /\ angle' \in Inputs
  /\ waited' = 0
  /\ UNCHANGED vars

BenchSpec == BenchInit /\ [][Wait \/ Display]_benchVars

\* The line displayed holds an input and its cosine.
LineRight == waited = WaitEdges => result = Cos(angle)
=============================================================================
