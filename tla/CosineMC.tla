------------------------------ MODULE CosineMC -------------------------------
(***************************************************************************)
(* Instances of Cosine and of Cordic for TLC. They share nothing: a        *)
(* behaviour is one of the pipeline, with three inputs, or of the rotation *)
(* of one of many.                                                         *)
(***************************************************************************)
EXTENDS Cosine, Cordic

CONSTANTS Steps, Largest     \* inputs k / Steps for k in 0..Largest

VARIABLE part                \* whose behaviour it is

\* The floating-point word of k / Steps, Steps a power of two.
Lead(k) == CHOOSE e \in 0..24 : pow2[e + 1] <= k /\ k < pow2[e + 2]
ToFloat(k) ==
  IF k = 0 THEN [E |-> 0, M |-> 0]
  ELSE LET e == Lead(k)
           s == CHOOSE h \in 0..24 : pow2[h + 1] = Steps
       IN  [E |-> 127 + e - s, M |-> (k - pow2[e + 1]) * pow2[24 - e]]

\* The smallest inputs of the test benches, and the largest of the program's.
Smallest == [E |-> 103, M |-> 0]
Corners == {Smallest, [E |-> 104, M |-> 0], [E |-> 105, M |-> 0],
            [E |-> 104, M |-> 8388607], [E |-> 134, M |-> 8388607]}

Grid == {ToFloat(k) : k \in 0..Largest} \cup Corners

\* 255, 128 and 0.5: a large, a zero and a negative angle.
Three == {[E |-> 134, M |-> 8323072], [E |-> 134, M |-> 0], [E |-> 126, M |-> 0]}

InitMC ==
  /\ Init
  /\ \/ part = "pipeline" /\ data = Smallest /\ i = 0 /\ r = Zeros
     \/ part = "rotation" /\ CordicInit

NextMC ==
  \/ /\ part = "pipeline" /\ UNCHANGED <<part, cordicVars>>
     /\ \E angle \in Three, clk_en, reset \in BOOLEAN : Edge(angle, clk_en, reset)
  \/ part = "rotation" /\ Rotate /\ UNCHANGED <<part, vars>>

SpecMC == InitMC /\ [][NextMC]_<<part, vars, cordicVars>>
=============================================================================
