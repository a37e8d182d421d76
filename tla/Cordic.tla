------------------------------- MODULE Cordic -------------------------------
(***************************************************************************)
(* The rotation of cosine.sv from an input to its cosine.  A step is one   *)
(* engine; where the registers between the engines are is the subject of   *)
(* module Cosine.                                                          *)
(***************************************************************************)
EXTENDS Engine

VARIABLES
  data,      \* the input
  i,         \* engines the vector has passed
  r          \* the vector x, y and the remaining angle w

cordicVars == <<data, i, r>>

TypeOK ==
  /\ data \in Float
  /\ i \in 0..iterations
  /\ r \in Rotation

CordicInit == data \in Inputs /\ i = 0 /\ r = Start(sdiv(unpacker(data)))

Rotate ==
  /\ i < iterations
  /\ r' = engine(i, r)
  /\ i' = i + 1
  /\ UNCHANGED data

CordicSpec == CordicInit /\ [][Rotate]_cordicVars

-----------------------------------------------------------------------------
\* Properties

Abs(v) == IF v < 0 THEN -v ELSE v

\* What is left of the angle after i engines is at most what the engines to
\* come can turn, and 133 units of 2^-22 in the end: the table, although
\* truncated, leaves no gap.
residual == <<4194304, 4017672, 2072993, 1045478, 523896, 262093, 131064, 65534,
              32767, 16384, 8193, 4098, 2051, 1027, 516, 261, 133>>
Converges == Abs(r.w) <= residual[i + 1]

\* The coordinates stay below this, far from the 2^23 at which 24 bits wrap.
growth == <<2547003, 2547004, 3820507, 4775634, 5372589, 5708376, 5886763,
            5978744, 6025453, 6048990, 6060805, 6066724, 6069687, 6071169,
            6071911, 6072282, 6072468>>
NoOverflow == Abs(r.x) <= growth[i + 1] /\ Abs(r.y) <= growth[i + 1]

\* The reference, in units of 2^-15, rounded to the nearest: the angle
\* (x - 128) / 128 from the value of the word, and the Taylor polynomial of
\* degree 8.
AngleRef(d) ==
  (IF d.E < 118 THEN 0 ELSE (Shr(8388608 + d.M, 141 - d.E) + 1) \div 2) - 32768
Mul(a, b) == (a * b + 16384) \div 32768
CosRef(t) ==
  LET t2 == Mul(t, t)
      c6 == 32768 - t2 \div 56
      c4 == 32768 - Mul(t2, c6) \div 30
      c2 == 32768 - Mul(t2, c4) \div 12
  IN  (32768 - Mul(t2, c2) \div 2) * 128

\* The value of a word with exponent 126 or 127, in units of 2^-22.
FloatValue(f) ==
  (IF f.S THEN -1 ELSE 1) * ((8388608 + f.M) \div (IF f.E = 127 THEN 2 ELSE 4))

\* The word that leaves the packer is the cosine of the angle up to three
\* units of the reference.
Accurate ==
  i = iterations =>
    Abs(FloatValue(packer(r.x)) - CosRef(AngleRef(data))) <= 384
=============================================================================
