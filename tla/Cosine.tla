------------------------------- MODULE Cosine -------------------------------
(***************************************************************************)
(* src/hardware/custom/cordic/RTL/cosine.sv: the sixteen engines, cut by   *)
(* registers into six blocks.  A step is one rising edge of clk with any   *)
(* input and any values of reset and clk_en.  The history variable token   *)
(* holds what module Term puts into these registers instead of numbers:    *)
(* the input that is rotated, or Cleared.  InStep says that this is a      *)
(* sound abstraction.                                                      *)
(***************************************************************************)
EXTENDS Engine

CONSTANT Cleared          \* a register cleared by reset or by ~clk_en

ASSUME ClearedConstant == Cleared \notin Float

pipeline_stages == 6

\* FAULTY: the last block stops one engine short.
blocks_per_stageShort == <<0, 3, 6, 8, 11, 14, 15>>

\* The engines in front of each register, cumulated.
blocks_per_stage == <<0, 3, 6, 8, 11, 14, 16>>

VARIABLES
  fixedFractionalAngle,   \* the angle register
  p,                      \* p[k] = x_p[k], y_p[k], w_p[k]
  token                   \* token[0]: in fixedFractionalAngle; token[k]: in p[k]

vars == <<fixedFractionalAngle, p, token>>

Zeros == [x |-> 0, y |-> 0, w |-> 0]

\* Registers of the FPGA power up low.
Init ==
  /\ fixedFractionalAngle = 0
  /\ p = [k \in 1..pipeline_stages-1 |-> Zeros]
  /\ token = [k \in 0..pipeline_stages-1 |-> Cleared]

\* The engines from first to last - 1, one after the other.
Engines(first, last, v) ==
  LET f[k \in first..last] == IF k = first THEN v ELSE engine(k - 1, f[k - 1])
  IN  f[last]

\* FAULTY: every block counts its engines from 0.
BlockFromZero(s, v) ==
  Engines(0, blocks_per_stage[s + 2] - blocks_per_stage[s + 1], v)

\* gen_cordic_engines of block s.
Block(s, v) == Engines(blocks_per_stage[s + 1], blocks_per_stage[s + 2], v)

\* The input of block s.
stage_in(s) == IF s = 0 THEN Start(fixedFractionalAngle) ELSE p[s]

Edge(angle, clk_en, reset) ==
  /\ fixedFractionalAngle' = sdiv(unpacker(angle))
  /\ p' = [k \in DOMAIN p |-> IF reset \/ ~clk_en THEN Zeros
                              ELSE Block(k - 1, stage_in(k - 1))]
  /\ token' = [k \in DOMAIN token |->
                 IF k = 0 THEN angle
                 ELSE IF reset \/ ~clk_en THEN Cleared ELSE token[k - 1]]

Next == \E angle \in Inputs, clk_en, reset \in BOOLEAN : Edge(angle, clk_en, reset)

Spec == Init /\ [][Next]_vars

\* The last block is combinational; its x goes to the packer.
result == packer(Block(pipeline_stages - 1, stage_in(pipeline_stages - 1)).x)

-----------------------------------------------------------------------------
\* Properties

\* The cosine of an input, all engines in one go.
Cos(angle) == packer(Engines(0, iterations, Start(sdiv(unpacker(angle)))).x)

\* The register that holds the token of an input holds its vector as far as
\* it has been rotated by then, whatever was presented before and after it and
\* whenever the pipeline was cleared: cutting the engines into blocks neither
\* skips nor repeats one, and no vector is mixed with the remains of another.
InStep ==
  \A k \in 1..pipeline_stages-1 :
    token[k] # Cleared =>
      p[k] = Engines(0, blocks_per_stage[k + 1], Start(sdiv(unpacker(token[k]))))

\* What leaves the pipeline is the cosine of the input that entered it six
\* edges ago.
ResultIsCosine ==
  token[pipeline_stages - 1] # Cleared => result = Cos(token[pipeline_stages - 1])
=============================================================================
