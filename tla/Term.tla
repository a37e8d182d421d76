-------------------------------- MODULE Term --------------------------------
(***************************************************************************)
(* src/hardware/custom/term.sv: the three-lane datapath that computes      *)
(*     f(x) = 0.5 * x + x^2 * cos((x - 128) / 128)                         *)
(* with the registers of cosine.sv and the pipelines of the generated      *)
(* fp_mult and fp_add cores.                                               *)
(*                                                                         *)
(* The token x stands for x*x in the middle lane, for the rotation of x in *)
(* the top lane, for x/2 in the bottom lane and for f(x) at the result.    *)
(* Where two lanes meet, words of different inputs give Garbage; 0 times   *)
(* anything is 0.                                                          *)
(***************************************************************************)
EXTENDS Registers

CONSTANTS
  Cleared,          \* an all-zero rotation register: the rotation of no input
  MulLatency,       \* edges from the operands to the product in fp_mult
  AddLatency,       \* edges from the operands to the sum in fp_add
  pipeline_stages,  \* edges through cosine.sv, its angle register included
  MidDelay,         \* registers of x_2_delay_line
  BottomDelay       \* registers of half_x_delay_line

ASSUME TermConstants ==
  /\ Cleared \notin Word
  /\ MulLatency \in Nat \ {0} /\ AddLatency \in Nat \ {0}
  /\ pipeline_stages \in Nat /\ pipeline_stages > 1
  /\ MidDelay \in Nat \ {0} /\ BottomDelay \in Nat \ {0}

\* The lanes have the same length where they meet, as the sizes of the two
\* delay lines are chosen to make them.
ASSUME LanesBalanced ==
  /\ MulLatency + MidDelay = pipeline_stages
  /\ MulLatency + BottomDelay = pipeline_stages + MulLatency

Angle == Input \cup {Cleared}

VARIABLES
  sqr,                     \* fp_mul_sqr, the middle lane's multiplier
  x_2_delay_line,          \* x_2_delay_line[1..MidDelay]
  halve,                   \* half_x, the bottom lane's multiplier
  half_x_delay_line,       \* half_x_delay_line[1..BottomDelay]
  fixedFractionalAngle,    \* the angle register of cosine.sv
  xyw_p,                   \* x_p, y_p, w_p [1..pipeline_stages-1]
  combine_top_mid,         \* the multiplier where top and middle lane meet
  final_adder              \* the adder where the bottom lane joins

termVars == <<sqr, x_2_delay_line, halve, half_x_delay_line,
              fixedFractionalAngle, xyw_p, combine_top_mid, final_adder>>

TermTypeOK ==
  /\ sqr \in [1..MulLatency -> Word]
  /\ x_2_delay_line \in [1..MidDelay -> Word]
  /\ halve \in [1..MulLatency -> Word]
  /\ half_x_delay_line \in [1..BottomDelay -> Word]
  /\ fixedFractionalAngle \in Angle
  /\ xyw_p \in [1..pipeline_stages-1 -> Angle]
  /\ combine_top_mid \in [1..MulLatency -> Word]
  /\ final_adder \in [1..AddLatency -> Word]

\* Registers of the FPGA power up low.
TermInit ==
  /\ sqr = [k \in 1..MulLatency |-> Zero]
  /\ x_2_delay_line = [k \in 1..MidDelay |-> Zero]
  /\ halve = [k \in 1..MulLatency |-> Zero]
  /\ half_x_delay_line = [k \in 1..BottomDelay |-> Zero]
  /\ fixedFractionalAngle = Cleared
  /\ xyw_p = [k \in 1..pipeline_stages-1 |-> Cleared]
  /\ combine_top_mid = [k \in 1..MulLatency |-> Zero]
  /\ final_adder = [k \in 1..AddLatency |-> Zero]

\* x^2 * cos(..): the product of a rotation and a square.
Times(c, s) == IF s = Zero \/ c = s THEN s ELSE Garbage

\* x^2 * cos(..) + x/2.
Plus(p, h) == IF p = h THEN p ELSE Garbage

\* The word on term's result output.
result == final_adder[AddLatency]

\* The last block of iterations and the packer are combinational, so the
\* last rotation register is the cosine that meets the middle lane.
cos_angle == xyw_p[pipeline_stages - 1]

\* FAULTY: the angle register is bypassed.
CosineEdgeShort(x, clk_en, reset) ==
  /\ fixedFractionalAngle' = x
  /\ xyw_p' = IF reset \/ ~clk_en
                THEN [k \in DOMAIN xyw_p |-> Cleared]
                ELSE Shift(xyw_p, x)

\* The rotation pipeline of cosine.sv: the angle register is neither gated
\* nor reset; the stages are cleared by the reset and whenever the clock
\* enable is low.
CosineEdge(x, clk_en, reset) ==
  /\ fixedFractionalAngle' = x
  /\ xyw_p' = IF reset \/ ~clk_en
                THEN [k \in DOMAIN xyw_p |-> Cleared]
                ELSE Shift(xyw_p, fixedFractionalAngle)

\* One rising edge of term: the generated cores are gated by clk_en and
\* cleared by the reset, the two delay lines are neither.
TermEdge(x, clk_en, reset) ==
  /\ sqr' = Delay(sqr, x, clk_en, reset, Zero)
  /\ x_2_delay_line' =
       Shift(x_2_delay_line, DelayOut(sqr, MulLatency, reset, Zero))
  /\ halve' = Delay(halve, x, clk_en, reset, Zero)
  /\ half_x_delay_line' =
       Shift(half_x_delay_line, DelayOut(halve, MulLatency, reset, Zero))
  /\ CosineEdge(x, clk_en, reset)
  /\ combine_top_mid' =
       Delay(combine_top_mid, Times(cos_angle, x_2_delay_line[MidDelay]),
             clk_en, reset, Zero)
  /\ final_adder' =
       Delay(final_adder,
             Plus(combine_top_mid[MulLatency], half_x_delay_line[BottomDelay]),
             clk_en, reset, Zero)
=============================================================================
