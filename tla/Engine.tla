------------------------------- MODULE Engine -------------------------------
(***************************************************************************)
(* src/hardware/custom/cordic/RTL: the combinational parts of the cosine,  *)
(* bit by bit.  unpacker.sv and sdiv.sv turn the floating-point word x     *)
(* into the fixed-point angle (x - 128) / 128, sixteen copies of engine.sv *)
(* rotate a vector towards it, packer.sv makes a floating-point word of    *)
(* its first coordinate.                                                   *)
(*                                                                         *)
(* The wires of the rotation are 24 bits wide (WIDTH = 22 fractional bits, *)
(* one integer bit and the sign) and are read as signed integers: 1.0 is   *)
(* 2^22 = 4194304.                                                         *)
(***************************************************************************)
EXTENDS Integers, Sequences

CONSTANT Inputs     \* the floating-point words presented to the cosine

\* A positive word is its exponent and its mantissa field.  x < 256, as the
\* note in unpacker.sv says, so the exponent is at most 134.
Float == {d \in [E : 0..134, M : Nat] : d.M < 8388608}

ASSUME InputsInRange == Inputs \subseteq Float

-----------------------------------------------------------------------------
\* The arithmetic of the wires.

\* 24-bit two's complement.
Wrap(v) == ((v + 8388608) % 16777216) - 8388608

pow2 == <<1, 2, 4, 8, 16, 32, 64, 128, 256, 512, 1024, 2048, 4096, 8192,
          16384, 32768, 65536, 131072, 262144, 524288, 1048576, 2097152,
          4194304, 8388608, 16777216>>

\* v >>> i
Shr(v, i) == v \div pow2[i + 1]

\* The parameter LIMIT of cosine.sv, the product of the cosines of all angles.
LIMIT == 2547003

\* FAULTY: the row of the table for one fractional bit less.
anglesHalved ==
  <<1647099, 972339, 513757, 260791, 130901, 65514, 32765, 16383, 8191, 4095,
    2047, 1023, 512, 255, 127, 64>>

\* arctan(2^-i), the low sixteen entries of the table in cosine.sv.
angles ==
  <<3294198, 1944679, 1027515, 521582, 261803, 131029, 65530, 32767, 16383,
    8191, 4095, 2047, 1024, 511, 255, 128>>

iterations == 16

-----------------------------------------------------------------------------
\* FAULTY: inputs below 2 are shifted out.
unpackerShort(data) ==
  LET one == 8388608 + data.M
  IN  IF data.E > 127 THEN one * pow2[data.E - 126] ELSE Shr(one, 24)

\* unpacker.sv with its default parameters: 23 fractional and 9 integer bits.
\* An exponent of at most 104 shifts the mantissa out.
unpacker(data) ==
  LET one == 8388608 + data.M
  IN  IF data = [E |-> 0, M |-> 0] THEN 0
      ELSE IF data.E > 127 THEN one * pow2[data.E - 126]
      ELSE IF data.E > 104 THEN Shr(one, 127 - data.E)
      ELSE Shr(one, 24)

\* sdiv.sv: subtract 128 and divide by 128, dropping the bits below 2^-22.
sdiv(data) == Wrap((data - 1073741824) \div 256)

\* FAULTY: the vector is not shifted.
engineUnshifted(i, r) ==
  [x |-> Wrap(IF r.w < 0 THEN r.x + r.y ELSE r.x - r.y),
   y |-> Wrap(IF r.w < 0 THEN r.y - r.x ELSE r.y + r.x),
   w |-> Wrap(IF r.w < 0 THEN r.w + angles[i + 1] ELSE r.w - angles[i + 1])]

\* engine.sv: rotate by arctan(2^-i) in the direction that brings w to 0.
engine(i, r) ==
  IF r.w < 0
    THEN [x |-> Wrap(r.x + Shr(r.y, i)),
          y |-> Wrap(r.y - Shr(r.x, i)),
          w |-> Wrap(r.w + angles[i + 1])]
    ELSE [x |-> Wrap(r.x - Shr(r.y, i)),
          y |-> Wrap(r.y + Shr(r.x, i)),
          w |-> Wrap(r.w - angles[i + 1])]

\* packer.sv: the exponent is that of [0.5, 1) unless bit 22 is set, which
\* gives 1.0 whatever the bits below it.
packer(v) ==
  [S |-> v < 0,
   E |-> IF (v \div 4194304) % 2 = 1 THEN 127 ELSE 126,
   M |-> IF (v \div 4194304) % 2 = 1 THEN 0 ELSE (v % 2097152) * 4]

\* The vector and the angle that is left; where the engines start.
Rotation == [x : Int, y : Int, w : Int]
Start(angle) == [x |-> LIMIT, y |-> 0, w |-> angle]
=============================================================================
