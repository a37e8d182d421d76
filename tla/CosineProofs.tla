---------------------------- MODULE CosineProofs ----------------------------
(***************************************************************************)
(* The rotation converges and does not overflow, for every input: the      *)
(* bounds residual and growth hold of every one of the 2^23 angles, not    *)
(* only of the inputs that TLC can try.  What it computes is, but for what *)
(* its shifts cut off, a point of the unit circle, reached by turns whose  *)
(* angles in the table make up the angle of the input.  And it is the      *)
(* cosine: each engine turns the Taylor polynomials of cosine and sine by  *)
(* its angle, but for sixteenths of a unit, and so the word that leaves    *)
(* the packer is the reference of module Cordic, for every input.          *)
(*                                                                         *)
(* Cutting it into blocks is sound: the vector in a register is what the   *)
(* engines in front of it, in one go, make of the input whose token is     *)
(* there.  So the bounds hold in every register as well.                   *)
(*                                                                         *)
(* Engines is a function defined by recursion. That its equations hold,    *)
(* and what follows from them by induction, is proved from the theorem     *)
(* that the finite sets of naturals are well-founded.                      *)
(***************************************************************************)
EXTENDS Cosine, Cordic, FiniteSetTheorems, TLAPS

\* A number that fits 24 bits is not changed by them.
LEMMA WrapFits ==
  ASSUME NEW v \in Int, -8388608 <= v, v < 8388608
  PROVE  Wrap(v) = v
BY SMT DEF Wrap

\* The entries of the tables.
LEMMA AngleTable ==
  \A k \in 0..15 :
    /\ angles[k + 1] \in Nat /\ residual[k + 1] \in Nat /\ residual[k + 2] \in Nat
    /\ angles[k + 1] <= residual[k + 2]
    /\ residual[k + 1] - angles[k + 1] <= residual[k + 2]
    /\ residual[k + 2] < 8388608
BY SMTT(30) DEF angles, residual

LEMMA GrowthTable ==
  /\ growth[1] = 2547003
  /\ \A k \in 1..17 : growth[k] \in Nat /\ growth[k] < 8388608
BY SMTT(30) DEF growth

\* A shift to the right keeps a number within its bound, rounded down.
LEMMA ShrBound ==
  ASSUME NEW k \in Nat, k <= 15, NEW g \in Nat, NEW v \in Int, -g <= v, v <= g
  PROVE  /\ Shr(v, k) \in Int /\ Shr(g, k) \in Nat
         /\ -(Shr(g, k) + 1) <= Shr(v, k)
         /\ Shr(v, k) <= Shr(g, k)
<1>1. k \in 0..15
  BY SMT
<1>. QED BY <1>1, SMTT(30) DEF Shr, pow2

\* One engine makes room for the next.
LEMMA Grows ==
  \A k \in 1..15 : growth[k + 1] + Shr(growth[k + 1], k) + 1 <= growth[k + 2]
BY SMTT(30) DEF Shr, pow2, growth

-----------------------------------------------------------------------------
\* The angle of every input is in [-1, 1): 2^22 units at most.
LEMMA MantissaShifts ==
  ASSUME NEW m \in Nat, m < 16777216, NEW k \in Nat, k <= 24
  PROVE  Shr(m, k) \in Nat /\ Shr(m, k) < 16777216
<1>1. k \in 0..24
  BY SMT
<1>. QED BY <1>1, SMTT(30) DEF Shr, pow2

LEMMA MantissaGrows ==
  ASSUME NEW m \in Nat, m < 16777216, NEW e \in 128..134
  PROVE  m * pow2[e - 126] \in Nat /\ m * pow2[e - 126] < 2147483648
<1>1. pow2[e - 126] \in Nat /\ pow2[e - 126] <= 128
  BY SMTT(30) DEF pow2
<1>2. \A z \in Nat : z <= 128 => m * z \in Nat /\ m * z <= m * 128
  BY SMTT(30)
<1>. QED BY <1>1, <1>2, SMT

LEMMA Unpacked ==
  ASSUME NEW d \in Float
  PROVE  unpacker(d) \in Nat /\ unpacker(d) < 2147483648
<1>. DEFINE one == 8388608 + d.M
<1>1. d.E \in 0..134 /\ one \in Nat /\ one < 16777216
  BY SMT DEF Float
<1>. HIDE DEF one
<1>0. unpacker(d) =
        IF d = [E |-> 0, M |-> 0] THEN 0
        ELSE IF d.E > 127 THEN one * pow2[d.E - 126]
        ELSE IF d.E > 104 THEN Shr(one, 127 - d.E)
        ELSE Shr(one, 24)
  BY DEF unpacker, one
<1>2. CASE d = [E |-> 0, M |-> 0]
  BY <1>0, <1>2, SMT
<1>3. CASE d # [E |-> 0, M |-> 0] /\ d.E > 127
  <2>1. /\ one * pow2[d.E - 126] \in Nat
        /\ one * pow2[d.E - 126] < 2147483648
    <3>1. PICK e \in 128..134 : d.E = e
      BY <1>1, <1>3, SMT
    <3>2. one * pow2[e - 126] \in Nat /\ one * pow2[e - 126] < 2147483648
      BY <1>1, MantissaGrows, SMTT(30)
    <3>. QED BY <3>1, <3>2, SMT
  <2>. QED BY <1>0, <1>3, <2>1, SMT
<1>4. CASE d # [E |-> 0, M |-> 0] /\ ~(d.E > 127) /\ d.E > 104
  <2>1. /\ Shr(one, 127 - d.E) \in Nat
        /\ Shr(one, 127 - d.E) < 16777216
    <3>1. 127 - d.E \in Nat /\ 127 - d.E <= 24
      BY <1>1, <1>4, SMT
    <3>. QED BY <1>1, <3>1, MantissaShifts, SMT
  <2>. QED BY <1>0, <1>4, <2>1, SMT
<1>5. CASE d # [E |-> 0, M |-> 0] /\ ~(d.E > 104)
  <2>1. Shr(one, 24) \in Nat /\ Shr(one, 24) < 16777216
    <3>1. 24 \in Nat /\ 24 <= 24
      BY SMT
    <3>. QED BY <1>1, <3>1, MantissaShifts, SMT
  <2>. QED BY <1>0, <1>1, <1>5, <2>1, SMT
<1>. QED BY <1>2, <1>3, <1>4, <1>5, SMT

LEMMA AngleExact ==
  ASSUME NEW d \in Float
  PROVE  sdiv(unpacker(d)) = (unpacker(d) - 1073741824) \div 256
<1>. DEFINE a == (unpacker(d) - 1073741824) \div 256
<1>1. a \in Int /\ -4194304 <= a /\ a < 4194304
  BY Unpacked, SMT
<1>2. Wrap(a) = a
  BY <1>1, WrapFits, SMT
<1>. QED BY <1>2, SMT DEF sdiv

LEMMA AngleInRange ==
  ASSUME NEW d \in Float
  PROVE  /\ sdiv(unpacker(d)) \in Int
         /\ -4194304 <= sdiv(unpacker(d)) /\ sdiv(unpacker(d)) <= 4194304
<1>1. unpacker(d) \in Nat /\ unpacker(d) < 2147483648
  BY Unpacked
<1>. QED BY <1>1, AngleExact, SMT

-----------------------------------------------------------------------------
\* The bounds of a vector that k engines have turned. Before the first it is on the axis,
\* which the bound of the second relies on.
Bounds(k, v) ==
  /\ v \in Rotation
  /\ Abs(v.w) <= residual[k + 1]
  /\ Abs(v.x) <= growth[k + 1] /\ Abs(v.y) <= growth[k + 1]
  /\ k = 0 => v.x = LIMIT /\ v.y = 0

LEMMA StartBounded ==
  ASSUME NEW d \in Float
  PROVE  Bounds(0, Start(sdiv(unpacker(d))))
<1>. DEFINE v == Start(sdiv(unpacker(d)))
<1>1. /\ v.w \in Int /\ Abs(v.w) <= 4194304
      /\ v.x = LIMIT /\ v.y = 0 /\ v \in Rotation
  BY AngleInRange, SMT DEF Start, Abs, Rotation, LIMIT
<1>2. residual[1] = 4194304
  BY SMT DEF residual
<1>3. Abs(v.x) <= growth[1] /\ Abs(v.y) <= growth[1]
  BY <1>1, GrowthTable, SMT DEF Abs, LIMIT
<1>. HIDE DEF v
<1>4. Bounds(0, v)
  BY <1>1, <1>2, <1>3, SMT DEF Bounds
<1>. QED BY <1>4 DEF v

\* What is left of the angle after one more engine.
LEMMA AngleStep ==
  ASSUME NEW k \in 0..15, NEW w \in Int, Abs(w) <= residual[k + 1],
         NEW v, v = IF w < 0 THEN Wrap(w + angles[k + 1])
                             ELSE Wrap(w - angles[k + 1])
  PROVE  /\ v \in Int /\ Abs(v) <= residual[k + 2]
         /\ v = IF w < 0 THEN w + angles[k + 1] ELSE w - angles[k + 1]
<1>. DEFINE u == IF w < 0 THEN w + angles[k + 1] ELSE w - angles[k + 1]
<1>1. u \in Int /\ -residual[k + 2] <= u /\ u <= residual[k + 2]
  BY AngleTable, SMT DEF Abs
<1>2. -8388608 <= u /\ u < 8388608
  BY <1>1, AngleTable, SMT
<1>3. Wrap(u) = u
  BY <1>1, <1>2, WrapFits, SMT
<1>4. v = u
  BY <1>3, SMT
<1>. QED BY <1>1, <1>4, AngleTable, SMT DEF Abs

\* A coordinate after one more engine: a, bounded by g, and the other one,
\* shifted to d and bounded by t.
Fits(h) == h \in Nat /\ h < 8388608

LEMMA VectorStep ==
  ASSUME NEW g \in Nat, NEW t \in Nat, NEW h, Fits(h), NEW a \in Int, NEW d \in Int,
         -g <= a, a <= g, -(t + 1) <= d, d <= t, g + t + 1 <= h
  PROVE  /\ Wrap(a + d) \in Int /\ Abs(Wrap(a + d)) <= h
         /\ Wrap(a - d) \in Int /\ Abs(Wrap(a - d)) <= h
<1>. DEFINE u == a + d
            v == a - d
<1>1. u \in Int /\ v \in Int /\ -h <= u /\ u <= h /\ -h <= v /\ v <= h
  BY SMT DEF Fits
<1>. HIDE DEF u, v
<1>2. Wrap(u) = u
  BY <1>1, WrapFits, SMT DEF Fits
<1>3. Wrap(v) = v
  BY <1>1, WrapFits, SMT DEF Fits
<1>4. Wrap(u) \in Int /\ Abs(Wrap(u)) <= h /\ Wrap(v) \in Int /\ Abs(Wrap(v)) <= h
  BY <1>1, <1>2, <1>3, SMT DEF Abs, Fits
<1>. QED BY <1>4 DEF u, v

\* A sum that the cut to 24 bits leaves as it is.
Whole(c) == Wrap(c) = c

LEMMA VectorFits ==
  ASSUME NEW g \in Nat, NEW t \in Nat, NEW h, Fits(h), NEW a \in Int, NEW d \in Int,
         -g <= a, a <= g, -(t + 1) <= d, d <= t, g + t + 1 <= h
  PROVE  Whole(a + d) /\ Whole(a - d)
<1>. DEFINE u == a + d
            v == a - d
<1>1. u \in Int /\ v \in Int /\ -h <= u /\ u <= h /\ -h <= v /\ v <= h
  BY SMT DEF Fits
<1>. HIDE DEF u, v
<1>2. Wrap(u) = u /\ Wrap(v) = v
  BY <1>1, WrapFits, SMT DEF Fits
<1>. QED BY <1>2 DEF u, v, Whole

\* The first engine turns the vector off the axis.
LEMMA FirstStep ==
  /\ Shr(0, 0) = 0 /\ Shr(LIMIT, 0) = LIMIT
  /\ Wrap(LIMIT + 0) = LIMIT /\ Wrap(LIMIT - 0) = LIMIT
  /\ Wrap(0 + LIMIT) = LIMIT /\ Wrap(0 - LIMIT) = -LIMIT
  /\ LIMIT \in Int /\ Abs(LIMIT) <= growth[2] /\ Abs(-LIMIT) <= growth[2]
BY SMTT(30) DEF Shr, pow2, LIMIT, Wrap, Abs, growth

\* An engine without the cut to 24 bits.
unwrapped(k, v) ==
  IF v.w < 0
    THEN [x |-> v.x + Shr(v.y, k), y |-> v.y - Shr(v.x, k), w |-> v.w + angles[k + 1]]
    ELSE [x |-> v.x - Shr(v.y, k), y |-> v.y + Shr(v.x, k), w |-> v.w - angles[k + 1]]

\* An engine keeps the bounds, and its sums fit.
LEMMA EngineBounded ==
  ASSUME NEW k \in 0..15, NEW v, Bounds(k, v)
  PROVE  Bounds(k + 1, engine(k, v)) /\ engine(k, v) = unwrapped(k, v)
<1>. DEFINE u == engine(k, v)
<1>1. v.x \in Int /\ v.y \in Int /\ v.w \in Int
  BY SMT DEF Bounds, Rotation
<1>2. /\ u.w \in Int /\ Abs(u.w) <= residual[k + 2]
      /\ u.w = IF v.w < 0 THEN v.w + angles[k + 1] ELSE v.w - angles[k + 1]
  <2>1. u.w = IF v.w < 0 THEN Wrap(v.w + angles[k + 1]) ELSE Wrap(v.w - angles[k + 1])
    BY SMT DEF engine
  <2>. QED BY <1>1, <2>1, AngleStep, SMT DEF Bounds
<1>3. \/ v.w < 0 /\ u.x = Wrap(v.x + Shr(v.y, k)) /\ u.y = Wrap(v.y - Shr(v.x, k))
      \/ ~(v.w < 0) /\ u.x = Wrap(v.x - Shr(v.y, k)) /\ u.y = Wrap(v.y + Shr(v.x, k))
  BY SMT DEF engine
<1>4. u = [x |-> u.x, y |-> u.y, w |-> u.w]
  BY SMT DEF engine
<1>. HIDE DEF u
<1>5. /\ u.x \in Int /\ Abs(u.x) <= growth[k + 2]
      /\ u.y \in Int /\ Abs(u.y) <= growth[k + 2]
      /\ \/ v.w < 0 /\ u.x = v.x + Shr(v.y, k) /\ u.y = v.y - Shr(v.x, k)
         \/ ~(v.w < 0) /\ u.x = v.x - Shr(v.y, k) /\ u.y = v.y + Shr(v.x, k)
  <2>1. CASE k = 0
    BY <1>3, <2>1, FirstStep, SMT DEF Bounds
  <2>2. CASE k # 0
    <3>1. /\ k \in 1..15 /\ k \in Nat /\ k <= 15
          /\ growth[k + 1] + Shr(growth[k + 1], k) + 1 <= growth[k + 2]
      BY <2>2, Grows, SMT
    <3>2. growth[k + 1] \in Nat /\ growth[k + 2] \in Nat /\ growth[k + 2] < 8388608
      BY <3>1, GrowthTable, SMT
    <3>. DEFINE g  == growth[k + 1]
                h  == growth[k + 2]
                t  == Shr(g, k)
                dx == Shr(v.x, k)
                dy == Shr(v.y, k)
    <3>3. g \in Nat /\ Fits(h) /\ g + t + 1 <= h
      BY <3>1, <3>2 DEF Fits
    <3>4. -g <= v.x /\ v.x <= g /\ -g <= v.y /\ v.y <= g
      BY <1>1, <3>2, SMT DEF Abs, Bounds
    <3>. HIDE DEF g, h
    <3>5. dx \in Int /\ t \in Nat /\ -(t + 1) <= dx /\ dx <= t
      BY <1>1, <3>1, <3>3, <3>4, ShrBound, Zenon
    <3>6. dy \in Int /\ -(t + 1) <= dy /\ dy <= t
      BY <1>1, <3>1, <3>3, <3>4, ShrBound, Zenon
    <3>. HIDE DEF t, dx, dy
    <3>7. /\ Wrap(v.x + dy) \in Int /\ Abs(Wrap(v.x + dy)) <= h
          /\ Wrap(v.x - dy) \in Int /\ Abs(Wrap(v.x - dy)) <= h
      BY <1>1, <3>3, <3>4, <3>5, <3>6, VectorStep, Zenon
    <3>8. /\ Wrap(v.y + dx) \in Int /\ Abs(Wrap(v.y + dx)) <= h
          /\ Wrap(v.y - dx) \in Int /\ Abs(Wrap(v.y - dx)) <= h
      BY <1>1, <3>3, <3>4, <3>5, VectorStep, Zenon
    <3>9. Whole(v.x + dy) /\ Whole(v.x - dy)
      BY <1>1, <3>3, <3>4, <3>5, <3>6, VectorFits, Zenon
    <3>10. Whole(v.y + dx) /\ Whole(v.y - dx)
      BY <1>1, <3>3, <3>4, <3>5, VectorFits, Zenon
    <3>. USE DEF t, dx, dy
    <3>11. u.x \in Int /\ Abs(u.x) <= h /\ u.y \in Int /\ Abs(u.y) <= h
      BY <1>3, <3>7, <3>8, Zenon
    <3>12. \/ v.w < 0 /\ u.x = v.x + dy /\ u.y = v.y - dx
           \/ ~(v.w < 0) /\ u.x = v.x - dy /\ u.y = v.y + dx
      BY <1>3, <3>9, <3>10, SMT DEF Whole
    <3>. QED BY <3>11, <3>12 DEF h
  <2>. QED BY <2>1, <2>2
<1>6. u \in Rotation
  BY <1>2, <1>4, <1>5, SMT DEF Rotation
<1>7. (k + 1) + 1 = k + 2 /\ k + 1 # 0
  BY SMT
<1>8. Bounds(k + 1, u)
  BY <1>2, <1>5, <1>6, <1>7, SMT DEF Bounds
<1>9. u = unwrapped(k, v)
  BY <1>2, <1>4, <1>5, SMT DEF unwrapped
<1>. QED BY <1>8, <1>9 DEF u

-----------------------------------------------------------------------------
\* The rotation of one input.
CordicInv == TypeOK /\ Bounds(i, r)

LEMMA RotationStarts == CordicInit => CordicInv
<1>. SUFFICES ASSUME CordicInit PROVE CordicInv
  OBVIOUS
<1>1. data \in Float
  BY InputsInRange DEF CordicInit
<1>2. Bounds(i, r)
  BY <1>1, StartBounded DEF CordicInit
<1>. QED BY <1>1, <1>2, SMT DEF CordicInv, TypeOK, CordicInit, Bounds, iterations

LEMMA RotationStep == CordicInv /\ [Rotate]_cordicVars => CordicInv'
<1>. SUFFICES ASSUME CordicInv, [Rotate]_cordicVars PROVE CordicInv'
  OBVIOUS
<1>1. CASE Rotate
  <2>1. i \in 0..15 /\ i' = i + 1 /\ i' \in 0..16 /\ data' = data /\ r' = engine(i, r)
    BY <1>1, SMT DEF CordicInv, TypeOK, Rotate, iterations
  <2>2. Bounds(i', r')
    BY <2>1, EngineBounded DEF CordicInv
  <2>. QED BY <2>1, <2>2, SMT DEF CordicInv, TypeOK, Bounds, iterations
<1>2. CASE UNCHANGED cordicVars
  BY <1>2 DEF cordicVars, CordicInv, TypeOK, Bounds
<1>. QED BY <1>1, <1>2

LEMMA RotationInvariance == CordicSpec => []CordicInv
BY RotationStarts, RotationStep, PTL DEF CordicSpec

\* Whatever the input, the engines bring the angle down to 133 units of 2^-22.
THEOREM Convergence == CordicSpec => []Converges
<1>1. CordicInv => Converges
  BY DEF CordicInv, Bounds, Converges
<1>. QED BY <1>1, RotationInvariance, PTL

\* Whatever the input, no sum in any engine leaves its 24 bits.
THEOREM Bounded == CordicSpec => []NoOverflow
<1>1. CordicInv => NoOverflow
  BY DEF CordicInv, Bounds, NoOverflow
<1>. QED BY <1>1, RotationInvariance, PTL

-----------------------------------------------------------------------------
\* Induction.

LEMMA LeastNatural ==
  ASSUME NEW T \in SUBSET Nat, T # {}
  PROVE  \E n \in T : \A m \in T : n <= m
<1>. DEFINE D == {0..m : m \in T}
<1>1. IsWellFoundedOn(StrictSubsetOrdering(Nat), FiniteSubsetsOf(Nat))
  BY FS_StrictSubsetOrderingWellFounded
<1>2. D \subseteq FiniteSubsetsOf(Nat) /\ D # {}
  <2>1. ASSUME NEW m \in T PROVE 0..m \in SUBSET Nat /\ IsFiniteSet(0..m)
    <3>1. m \in Int /\ 0 \in Int
      OBVIOUS
    <3>. QED BY <3>1, FS_Interval
  <2>. QED BY <2>1 DEF FiniteSubsetsOf
<1>3. PICK x \in D : \A y \in D : ~ (<<y, x>> \in StrictSubsetOrdering(Nat))
  BY <1>1, <1>2, WFMin
<1>4. PICK n \in T : x = 0..n
  OBVIOUS
<1>5. ASSUME NEW m \in T, m < n PROVE FALSE
  <2>1. <<0..m, 0..n>> \in StrictSubsetOrdering(Nat)
    <3>1. 0..m \subseteq 0..n /\ n \in 0..n /\ n \notin 0..m
      BY <1>5
    <3>. QED BY <3>1 DEF StrictSubsetOrdering
  <2>. QED BY <1>3, <1>4, <2>1
<1>. QED BY <1>5

-----------------------------------------------------------------------------
\* The engines, one after the other.

\* f[k] is the vector in front of engine k.
Chain(f, first, last, v) ==
  f = [k \in first..last |-> IF k = first THEN v ELSE engine(k - 1, f[k - 1])]

LEMMA ChainExists ==
  ASSUME NEW a \in Nat, NEW n \in Nat, NEW v
  PROVE  \E f : Chain(f, a, a + n, v)
<1>. DEFINE T == {m \in Nat : ~ \E f : Chain(f, a, a + m, v)}
<1>1. SUFFICES ASSUME T # {} PROVE FALSE
  OBVIOUS
<1>2. PICK m \in T : \A l \in T : m <= l
  BY <1>1, LeastNatural
<1>3. CASE m = 0
  <2>. DEFINE f == [k \in a..a |-> v]
  <2>1. f = [k \in a..a |-> IF k = a THEN v ELSE engine(k - 1, f[k - 1])]
    OBVIOUS
  <2>2. Chain(f, a, a + m, v)
    BY <1>3, <2>1 DEF Chain
  <2>. QED BY <2>2
<1>4. CASE m # 0
  <2>1. m - 1 \in Nat /\ m - 1 \notin T
    BY <1>2, <1>4
  <2>2. PICK g : Chain(g, a, a + (m - 1), v)
    BY <2>1
  <2>. DEFINE h == [k \in a..(a + m) |-> IF k = a + m THEN engine(k - 1, g[k - 1]) ELSE g[k]]
  <2>3. ASSUME NEW k \in a..(a + m)
        PROVE  h[k] = IF k = a THEN v ELSE engine(k - 1, h[k - 1])
    <3>1. CASE k = a + m
      <4>1. h[k] = engine(k - 1, g[k - 1]) /\ k # a
        BY <3>1, <1>4
      <4>2. h[k - 1] = g[k - 1]
        BY <3>1, <1>4
      <4>. QED BY <4>1, <4>2
    <3>2. CASE k # a + m
      <4>1. k \in a..(a + (m - 1)) /\ h[k] = g[k]
        BY <3>2
      <4>2. g[k] = IF k = a THEN v ELSE engine(k - 1, g[k - 1])
        BY <2>2, <4>1, Zenon DEF Chain
      <4>3. k # a => h[k - 1] = g[k - 1]
        BY <3>2
      <4>. QED BY <4>1, <4>2, <4>3
    <3>. QED BY <3>1, <3>2
  <2>4. h = [k \in a..(a + m) |-> IF k = a THEN v ELSE engine(k - 1, h[k - 1])]
    BY <2>3
  <2>5. Chain(h, a, a + m, v)
    BY <2>4 DEF Chain
  <2>. QED BY <2>5
<1>. QED BY <1>3, <1>4

\* Shorter and longer chains from the same vector agree.
LEMMA ChainUnique ==
  ASSUME NEW a \in Nat, NEW b \in Int, NEW c \in Int, NEW v, NEW f, NEW g,
         Chain(f, a, b, v), Chain(g, a, c, v), NEW k \in a..b, k <= c
  PROVE  f[k] = g[k]
<1>. DEFINE T == {m \in a..b : m <= c /\ f[m] # g[m]}
<1>1. SUFFICES ASSUME T # {} PROVE FALSE
  OBVIOUS
<1>2. PICK m \in T : \A l \in T : m <= l
  <2>1. T \in SUBSET Nat
    OBVIOUS
  <2>. QED BY <1>1, <2>1, LeastNatural
<1>3. m \in a..b /\ m \in a..c
  BY <1>2
<1>4. f[m] = IF m = a THEN v ELSE engine(m - 1, f[m - 1])
  BY <1>3, Zenon DEF Chain
<1>5. g[m] = IF m = a THEN v ELSE engine(m - 1, g[m - 1])
  BY <1>3, Zenon DEF Chain
<1>6. m # a => f[m - 1] = g[m - 1]
  BY <1>2
<1>. QED BY <1>2, <1>4, <1>5, <1>6

LEMMA ChainChosen ==
  ASSUME NEW a \in Nat, NEW b \in Nat, a <= b, NEW v
  PROVE  \E f : Chain(f, a, b, v) /\ Engines(a, b, v) = f[b]
<1>. DEFINE F == CHOOSE f : f = [k \in a..b |-> IF k = a THEN v ELSE engine(k - 1, f[k - 1])]
<1>1. b - a \in Nat /\ a + (b - a) = b
  OBVIOUS
<1>2. \E f : Chain(f, a, b, v)
  BY <1>1, ChainExists
<1>3. F = [k \in a..b |-> IF k = a THEN v ELSE engine(k - 1, F[k - 1])]
  BY <1>2, Zenon DEF Chain
<1>4. Engines(a, b, v) = F[b]
  BY Zenon DEF Engines
<1>. QED BY <1>3, <1>4, Zenon DEF Chain

LEMMA EnginesNone ==
  ASSUME NEW a \in Nat, NEW v
  PROVE  Engines(a, a, v) = v
<1>1. PICK f : Chain(f, a, a, v) /\ Engines(a, a, v) = f[a]
  BY ChainChosen
<1>2. f[a] = v
  BY <1>1, a \in a..a, Zenon DEF Chain
<1>. QED BY <1>1, <1>2

LEMMA EnginesMore ==
  ASSUME NEW a \in Nat, NEW b \in Nat, a <= b, NEW v
  PROVE  Engines(a, b + 1, v) = engine(b, Engines(a, b, v))
<1>1. PICK f : Chain(f, a, b, v) /\ Engines(a, b, v) = f[b]
  BY ChainChosen
<1>2. PICK g : Chain(g, a, b + 1, v) /\ Engines(a, b + 1, v) = g[b + 1]
  BY ChainChosen
<1>3. b + 1 \in a..(b + 1) /\ b + 1 # a /\ (b + 1) - 1 = b /\ b \in a..b /\ b <= b + 1
  OBVIOUS
<1>4. g[b + 1] = engine((b + 1) - 1, g[(b + 1) - 1])
  BY <1>2, <1>3, Zenon DEF Chain
<1>5. f[b] = g[b]
  BY <1>1, <1>2, <1>3, ChainUnique
<1>. QED BY <1>1, <1>2, <1>3, <1>4, <1>5

\* Two blocks, one behind the other, are one block.
LEMMA EnginesJoin ==
  ASSUME NEW a \in Nat, NEW b \in Nat, NEW c \in Nat, a <= b, b <= c, NEW v
  PROVE  Engines(b, c, Engines(a, b, v)) = Engines(a, c, v)
<1>. DEFINE u == Engines(a, b, v)
            T == {m \in b..c : Engines(b, m, u) # Engines(a, m, v)}
<1>1. SUFFICES ASSUME T # {} PROVE FALSE
  <2>1. c \notin T
    BY <1>1
  <2>. QED BY <2>1
<1>2. PICK m \in T : \A l \in T : m <= l
  <2>1. T \in SUBSET Nat
    OBVIOUS
  <2>. QED BY <1>1, <2>1, LeastNatural
<1>3. CASE m = b
  BY <1>2, <1>3, EnginesNone
<1>4. CASE m # b
  <2>1. m - 1 \in b..c /\ m - 1 \notin T /\ (m - 1) + 1 = m
        /\ m - 1 \in Nat /\ b <= m - 1 /\ a <= m - 1
    BY <1>2, <1>4
  <2>2. Engines(b, m - 1, u) = Engines(a, m - 1, v)
    BY <2>1
  <2>. HIDE DEF u
  <2>3. Engines(b, m, u) = engine(m - 1, Engines(b, m - 1, u))
    BY <2>1, EnginesMore
  <2>4. Engines(a, m, v) = engine(m - 1, Engines(a, m - 1, v))
    BY <2>1, EnginesMore
  <2>. QED BY <1>2, <2>2, <2>3, <2>4
<1>. QED BY <1>3, <1>4

\* The engines keep the bounds.
LEMMA EnginesBounded ==
  ASSUME NEW v, Bounds(0, v), NEW c \in 0..16
  PROVE  Bounds(c, Engines(0, c, v))
<1>. DEFINE T == {m \in 0..16 : ~ Bounds(m, Engines(0, m, v))}
<1>1. SUFFICES ASSUME T # {} PROVE FALSE
  OBVIOUS
<1>2. PICK m \in T : \A l \in T : m <= l
  <2>1. T \in SUBSET Nat
    OBVIOUS
  <2>. QED BY <1>1, <2>1, LeastNatural
<1>3. CASE m = 0
  BY <1>2, <1>3, EnginesNone
<1>4. CASE m # 0
  <2>1. m - 1 \in 0..15 /\ m - 1 \notin T /\ (m - 1) + 1 = m /\ m - 1 \in Nat /\ 0 <= m - 1
    BY <1>2, <1>4
  <2>2. Bounds(m - 1, Engines(0, m - 1, v))
    BY <2>1
  <2>3. Engines(0, m, v) = engine(m - 1, Engines(0, m - 1, v))
    BY <2>1, EnginesMore
  <2>4. Bounds(m, Engines(0, m, v))
    BY <2>1, <2>2, <2>3, EngineBounded
  <2>. QED BY <1>2, <2>4
<1>. QED BY <1>3, <1>4

-----------------------------------------------------------------------------
\* The pipeline.

\* The angle register is in step as well.
IInv ==
  /\ DOMAIN p = 1..5 /\ DOMAIN token = 0..5
  /\ \A k \in 0..5 : token[k] \in Float \cup {Cleared}
  /\ token[0] # Cleared => fixedFractionalAngle = sdiv(unpacker(token[0]))
  /\ InStep

Angle(x) == Start(sdiv(unpacker(x)))

LEMMA Starts == Init => IInv
BY DEF Init, IInv, InStep, pipeline_stages

\* The blocks are adjacent, the first begins with engine 0 and the last ends with the last.
LEMMA Adjacent ==
  /\ blocks_per_stage[1] = 0 /\ blocks_per_stage[7] = iterations
  /\ \A s \in 0..5 : /\ blocks_per_stage[s + 1] \in Nat /\ blocks_per_stage[s + 2] \in Nat
                     /\ blocks_per_stage[s + 1] <= blocks_per_stage[s + 2]
BY DEF blocks_per_stage, iterations

\* Block s continues what the engines in front of its input have done.
LEMMA BlockContinues ==
  ASSUME IInv, NEW s \in 0..5, token[s] # Cleared
  PROVE  Block(s, stage_in(s)) = Engines(0, blocks_per_stage[s + 2], Angle(token[s]))
<1>1. CASE s = 0
  <2>1. stage_in(s) = Angle(token[0])
    BY <1>1 DEF stage_in, IInv, Angle
  <2>. QED BY <1>1, <2>1, Adjacent DEF Block
<1>2. CASE s # 0
  <2>1. stage_in(s) = p[s] /\ s \in 1..5
    BY <1>2 DEF stage_in
  <2>2. p[s] = Engines(0, blocks_per_stage[s + 1], Angle(token[s]))
    BY <2>1 DEF IInv, InStep, pipeline_stages, Angle
  <2>. QED BY <2>1, <2>2, Adjacent, EnginesJoin DEF Block
<1>. QED BY <1>1, <1>2

LEMMA StepInvariant == IInv /\ [Next]_vars => IInv'
<1>. SUFFICES ASSUME IInv, [Next]_vars PROVE IInv'
  OBVIOUS
<1>1. CASE UNCHANGED vars
  BY <1>1 DEF vars, IInv, InStep
<1>2. ASSUME NEW angle \in Inputs, NEW clk_en \in BOOLEAN, NEW reset \in BOOLEAN,
             Edge(angle, clk_en, reset)
      PROVE  IInv'
  <2>1. DOMAIN p' = 1..5 /\ DOMAIN token' = 0..5
    BY <1>2 DEF Edge, IInv
  <2>2. token'[0] = angle /\ fixedFractionalAngle' = sdiv(unpacker(angle))
    BY <1>2 DEF Edge, IInv
  <2>3. ASSUME NEW k \in 1..5, token'[k] # Cleared
        PROVE  p'[k] = Engines(0, blocks_per_stage[k + 1], Angle(token'[k]))
    <3>1. ~(reset \/ ~clk_en)
      BY <1>2, <2>3 DEF Edge, IInv
    <3>2. token'[k] = token[k - 1]
      BY <1>2, <3>1 DEF Edge, IInv
    <3>3. p'[k] = Block(k - 1, stage_in(k - 1))
      BY <1>2, <3>1, Zenon DEF Edge, IInv
    <3>4. k - 1 \in 0..5 /\ (k - 1) + 2 = k + 1
      OBVIOUS
    <3>. QED BY <2>3, <3>2, <3>3, <3>4, BlockContinues
  <2>4. InStep'
    BY <2>3 DEF InStep, pipeline_stages, Angle
  <2>5. ASSUME NEW k \in 0..5 PROVE token'[k] \in Float \cup {Cleared}
    <3>1. CASE k = 0
      BY <2>2, <3>1, InputsInRange
    <3>2. CASE k # 0
      <4>1. token'[k] = IF reset \/ ~clk_en THEN Cleared ELSE token[k - 1]
        BY <1>2, <3>2 DEF Edge, IInv
      <4>2. k - 1 \in 0..5
        BY <3>2
      <4>. QED BY <4>1, <4>2 DEF IInv
    <3>. QED BY <3>1, <3>2
  <2>. QED BY <2>1, <2>2, <2>4, <2>5 DEF IInv
<1>. QED BY <1>1, <1>2 DEF Next

LEMMA Invariance == Spec => []IInv
BY Starts, StepInvariant, PTL DEF Spec

\* Whatever is presented before and after an input, and whenever the pipeline is cleared,
\* the registers hold its vector as far as the engines in front of them have turned it.
THEOREM AlwaysInStep == Spec => []InStep
<1>1. IInv => InStep
  BY DEF IInv
<1>. QED BY <1>1, Invariance, PTL

\* The cosine in blocks is the cosine: what leaves the pipeline is what all sixteen
\* engines in one go make of the input.
THEOREM CosineOut == Spec => []ResultIsCosine
<1>1. IInv => ResultIsCosine
  <2>. SUFFICES ASSUME IInv, token[5] # Cleared PROVE result = Cos(token[5])
    BY DEF ResultIsCosine, pipeline_stages
  <2>1. Block(5, stage_in(5)) = Engines(0, iterations, Angle(token[5]))
    BY BlockContinues, Adjacent
  <2>. QED BY <2>1 DEF result, Cos, Angle, pipeline_stages
<1>. QED BY <1>1, Invariance, PTL

\* No vector in the registers of the pipeline, and not the one behind its last engine,
\* leaves the bounds: the angle that is left is what the engines to come can turn, and
\* the coordinates are far from their 24 bits, whatever inputs, bubbles and resets come.
PipelineBounded ==
  /\ \A k \in 1..5 : token[k] # Cleared => Bounds(blocks_per_stage[k + 1], p[k])
  /\ token[5] # Cleared => Bounds(iterations, Block(5, stage_in(5)))

\* So no wire of the sixteen engines overflows, in any cycle that carries an input.
THEOREM BoundedInPipeline == Spec => []PipelineBounded
<1>1. IInv => PipelineBounded
  <2>. SUFFICES ASSUME IInv PROVE PipelineBounded
    OBVIOUS
  <2>1. ASSUME NEW k \in 0..5, token[k] # Cleared, NEW c \in 0..16
        PROVE  Bounds(c, Engines(0, c, Angle(token[k])))
    <3>1. token[k] \in Float
      BY <2>1 DEF IInv
    <3>2. Bounds(0, Angle(token[k]))
      BY <3>1, StartBounded DEF Angle
    <3>. QED BY <3>2, EnginesBounded
  <2>2. ASSUME NEW k \in 1..5, token[k] # Cleared
        PROVE  Bounds(blocks_per_stage[k + 1], p[k])
    <3>1. p[k] = Engines(0, blocks_per_stage[k + 1], Angle(token[k]))
      BY <2>2 DEF IInv, InStep, pipeline_stages, Angle
    <3>2. blocks_per_stage[k + 1] \in 0..16
      BY DEF blocks_per_stage
    <3>3. k \in 0..5
      OBVIOUS
    <3>. QED BY <2>1, <2>2, <3>1, <3>2, <3>3
  <2>3. ASSUME token[5] # Cleared
        PROVE  Bounds(iterations, Block(5, stage_in(5)))
    <3>1. Block(5, stage_in(5)) = Engines(0, iterations, Angle(token[5]))
      BY <2>3, BlockContinues, Adjacent
    <3>2. iterations \in 0..16
      BY DEF iterations
    <3>. QED BY <2>1, <2>3, <3>1, <3>2
  <2>. QED BY <2>2, <2>3 DEF PipelineBounded
<1>. QED BY <1>1, Invariance, PTL

-----------------------------------------------------------------------------
\* The rotation of Cordic is what the pipeline computes: the theorems about the one are
\* about the results of the other.
SameRotation == r = Engines(0, i, Angle(data))

THEOREM RotationIsEngines == CordicSpec => []SameRotation
<1>1. CordicInit => SameRotation
  BY EnginesNone DEF CordicInit, SameRotation, Angle
<1>2. CordicInv /\ SameRotation /\ [Rotate]_cordicVars => SameRotation'
  <2>. SUFFICES ASSUME CordicInv, SameRotation, [Rotate]_cordicVars PROVE SameRotation'
    OBVIOUS
  <2>1. CASE Rotate
    <3>1. i \in Nat /\ 0 <= i /\ i' = i + 1 /\ data' = data /\ r' = engine(i, r)
      BY <2>1 DEF CordicInv, TypeOK, Rotate, iterations
    <3>2. Engines(0, i + 1, Angle(data)) = engine(i, Engines(0, i, Angle(data)))
      BY <3>1, EnginesMore
    <3>. QED BY <3>1, <3>2 DEF SameRotation, Angle
  <2>2. CASE UNCHANGED cordicVars
    BY <2>2 DEF cordicVars, SameRotation, Angle
  <2>. QED BY <2>1, <2>2
<1>. QED BY <1>1, <1>2, RotationInvariance, PTL DEF CordicSpec

-----------------------------------------------------------------------------
\* What the sixteen engines compute. An engine without the bits it cuts off turns its
\* vector by the angle whose tangent is 2^-k, and stretches it.
Vector == [x : Int, y : Int, scale : Nat \ {0}, w : Int]

\* The turn of engine k with nothing cut off: the vector is (x / scale, y / scale).
Turn(k, s, v) ==
  [x |-> pow2[k + 1] * v.x - s * v.y, y |-> pow2[k + 1] * v.y + s * v.x,
   scale |-> pow2[k + 1] * v.scale, w |-> v.w - s * angles[k + 1]]

\* v[k] is the vector after the first k of these turns.
Exactly(angle, turns, v, n) ==
  /\ v[0] = [x |-> LIMIT, y |-> 0, scale |-> 1, w |-> angle]
  /\ \A k \in 0..(n - 1) : v[k + 1] = Turn(k, turns[k], v[k])

\* What is cut off by k engines, in sixteenths of a unit.
rounding == <<0, 0, 8, 22, 39, 57, 75, 92, 109, 126, 143, 160, 177, 194, 211, 228, 245>>

\* c is e / scale but for m sixteenths.
About(c, e, scale, m) ==
  -(m * scale) <= 16 * (c * scale - e) /\ 16 * (c * scale - e) <= m * scale

\* There are exact turns that leave the angle that the engines leave, and whose vector
\* the engines' is but for what they cut off.
RoundingBounded ==
  \E turns \in [0..15 -> {-1, 1}], v \in [0..16 -> Vector] :
    /\ Exactly(sdiv(unpacker(data)), turns, v, i)
    /\ r.w = v[i].w
    /\ About(r.x, v[i].x, v[i].scale, rounding[i + 1])
    /\ About(r.y, v[i].y, v[i].scale, rounding[i + 1])

LEMMA RoundingTable ==
  \A k \in 0..15 :
    /\ pow2[k + 1] \in Nat \ {0} /\ rounding[k + 1] \in Nat /\ rounding[k + 2] \in Nat
    /\ pow2[k + 1] * rounding[k + 1] + rounding[k + 1] + 16 * (pow2[k + 1] - 1)
         <= pow2[k + 1] * rounding[k + 2]
BY SMTT(30) DEF rounding, pow2

\* One turn, and what it cuts off: q is b / p rounded down.
LEMMA TurnRounds ==
  ASSUME NEW p1 \in Nat \ {0}, NEW a \in Int, NEW b \in Int, NEW q \in Int,
         0 <= b - p1 * q, b - p1 * q <= p1 - 1,
         NEW z \in Nat, NEW ea \in Int, NEW eb \in Int, NEW m \in Nat, NEW n \in Nat,
         About(a, ea, z, m), About(b, eb, z, m),
         p1 * m + m + 16 * (p1 - 1) <= p1 * n
  PROVE  /\ About(a - q, p1 * ea - eb, p1 * z, n)
         /\ About(a + q, p1 * ea + eb, p1 * z, n)
<1>. DEFINE rest == b - p1 * q
            da == a * z - ea
            db == b * z - eb
            g  == z * rest
            N  == z * n
            K  == z * m
<1>1. da \in Int /\ db \in Int /\ g \in Int /\ N \in Int /\ K \in Int
  OBVIOUS
<1>2. -K <= 16 * da /\ 16 * da <= K /\ -K <= 16 * db /\ 16 * db <= K
  BY SMT DEF About
<1>3. 0 <= g /\ g <= z * (p1 - 1)
  BY SMT
<1>4. p1 * K + K + 16 * (z * (p1 - 1)) <= p1 * N
  <2>1. z * (p1 * m + m + 16 * (p1 - 1)) <= z * (p1 * n)
    BY SMT
  <2>. QED BY <2>1, SMT
<1>5. (a - q) * (p1 * z) - (p1 * ea - eb) = p1 * da - db + g
  <2>1. b * z = p1 * (q * z) + g
    BY SMT
  <2>. QED BY <2>1, SMT
<1>6. (a + q) * (p1 * z) - (p1 * ea + eb) = p1 * da + db - g
  <2>1. b * z = p1 * (q * z) + g
    BY SMT
  <2>. QED BY <2>1, SMT
<1>7. n * (p1 * z) = p1 * N
  BY SMT
<1>. HIDE DEF da, db, g, N, K
<1>8. -(p1 * K) <= 16 * (p1 * da) /\ 16 * (p1 * da) <= p1 * K
  BY <1>1, <1>2, SMT
<1>. QED BY <1>1, <1>2, <1>3, <1>4, <1>5, <1>6, <1>7, <1>8, SMT DEF About

\* What a shift cuts off.
LEMMA ShrRest ==
  ASSUME NEW k \in 0..15, NEW b \in Int
  PROVE  /\ Shr(b, k) \in Int
         /\ 0 <= b - pow2[k + 1] * Shr(b, k)
         /\ b - pow2[k + 1] * Shr(b, k) <= pow2[k + 1] - 1
BY SMTT(30) DEF Shr, pow2

\* One engine beside the exact turn in its direction.
LEMMA EngineRounds ==
  ASSUME NEW k \in 0..15, NEW v, Bounds(k, v), NEW e \in Vector, v.w = e.w,
         About(v.x, e.x, e.scale, rounding[k + 1]), About(v.y, e.y, e.scale, rounding[k + 1])
  PROVE  \E s \in {-1, 1} :
           /\ Turn(k, s, e) \in Vector
           /\ engine(k, v).w = Turn(k, s, e).w
           /\ About(engine(k, v).x, Turn(k, s, e).x, Turn(k, s, e).scale, rounding[k + 2])
           /\ About(engine(k, v).y, Turn(k, s, e).y, Turn(k, s, e).scale, rounding[k + 2])
<1>. DEFINE p1 == pow2[k + 1]
            u == unwrapped(k, v)
            s == IF v.w < 0 THEN -1 ELSE 1
            t == Turn(k, s, e)
            dx == Shr(v.x, k)
            dy == Shr(v.y, k)
<1>1. v.x \in Int /\ v.y \in Int /\ v.w \in Int
  BY SMT DEF Bounds, Rotation
<1>2. e.x \in Int /\ e.y \in Int /\ e.w \in Int /\ e.scale \in Nat \ {0}
  BY SMT DEF Vector
<1>3. /\ p1 \in Nat \ {0} /\ rounding[k + 1] \in Nat /\ rounding[k + 2] \in Nat
      /\ p1 * rounding[k + 1] + rounding[k + 1] + 16 * (p1 - 1) <= p1 * rounding[k + 2]
  BY RoundingTable
<1>4. angles[k + 1] \in Nat
  BY AngleTable
<1>5. /\ u.w = IF v.w < 0 THEN v.w + angles[k + 1] ELSE v.w - angles[k + 1]
      /\ u.x = IF v.w < 0 THEN v.x + dy ELSE v.x - dy
      /\ u.y = IF v.w < 0 THEN v.y - dx ELSE v.y + dx
  BY SMT DEF unwrapped
<1>6. /\ t.x = p1 * e.x - s * e.y /\ t.y = p1 * e.y + s * e.x
      /\ t.scale = p1 * e.scale /\ t.w = e.w - s * angles[k + 1]
      /\ t = [x |-> t.x, y |-> t.y, scale |-> t.scale, w |-> t.w]
  BY SMT DEF Turn
<1>7. /\ About(v.x, e.x, e.scale, rounding[k + 1])
      /\ About(v.y, e.y, e.scale, rounding[k + 1])
  OBVIOUS
<1>. HIDE DEF p1, u, t, dx, dy
<1>8. t \in Vector
  <2>1. t.x \in Int /\ t.y \in Int /\ t.scale \in Nat \ {0} /\ t.w \in Int
    BY <1>2, <1>3, <1>4, <1>6, SMT
  <2>. QED BY <1>6, <2>1, SMT DEF Vector
<1>9. u.w = t.w
  BY <1>1, <1>2, <1>4, <1>5, <1>6, SMT
<1>10. /\ About(v.x - dy, p1 * e.x - e.y, p1 * e.scale, rounding[k + 2])
       /\ About(v.x + dy, p1 * e.x + e.y, p1 * e.scale, rounding[k + 2])
  <2>1. dy \in Int /\ 0 <= v.y - p1 * dy /\ v.y - p1 * dy <= p1 - 1
    BY <1>1, ShrRest DEF p1, dy
  <2>. QED BY <1>1, <1>2, <1>3, <1>7, <2>1, TurnRounds, Zenon
<1>11. /\ About(v.y - dx, p1 * e.y - e.x, p1 * e.scale, rounding[k + 2])
       /\ About(v.y + dx, p1 * e.y + e.x, p1 * e.scale, rounding[k + 2])
  <2>1. dx \in Int /\ 0 <= v.x - p1 * dx /\ v.x - p1 * dx <= p1 - 1
    BY <1>1, ShrRest DEF p1, dx
  <2>. QED BY <1>1, <1>2, <1>3, <1>7, <2>1, TurnRounds, Zenon
<1>12. /\ About(u.x, t.x, t.scale, rounding[k + 2])
       /\ About(u.y, t.y, t.scale, rounding[k + 2])
  <2>1. CASE v.w < 0
    <3>1. /\ u.x = v.x + dy /\ t.x = p1 * e.x + e.y
          /\ u.y = v.y - dx /\ t.y = p1 * e.y - e.x
      BY <1>1, <1>2, <1>3, <1>5, <1>6, <2>1, SMT
    <3>. QED BY <1>6, <1>10, <1>11, <3>1
  <2>2. CASE ~(v.w < 0)
    <3>1. /\ u.x = v.x - dy /\ t.x = p1 * e.x - e.y
          /\ u.y = v.y + dx /\ t.y = p1 * e.y + e.x
      BY <1>1, <1>2, <1>3, <1>5, <1>6, <2>2, SMT
    <3>. QED BY <1>6, <1>10, <1>11, <3>1
  <2>. QED BY <2>1, <2>2
<1>13. engine(k, v) = u
  BY EngineBounded DEF u
<1>14. s \in {-1, 1}
  OBVIOUS
<1>. QED BY <1>8, <1>9, <1>12, <1>13, <1>14 DEF t

RoundInv == CordicInv /\ RoundingBounded

LEMMA RoundStarts == CordicInit => RoundInv
<1>. SUFFICES ASSUME CordicInit PROVE RoundInv
  OBVIOUS
<1>1. CordicInv
  BY RotationStarts
<1>. DEFINE angle == sdiv(unpacker(data))
            e == [x |-> LIMIT, y |-> 0, scale |-> 1, w |-> angle]
            turns == [k \in 0..15 |-> 1]
            v == [k \in 0..16 |-> e]
<1>2. i = 0 /\ r = Start(angle) /\ angle \in Int
  <2>1. data \in Float
    BY InputsInRange DEF CordicInit
  <2>. QED BY <2>1, AngleInRange DEF CordicInit
<1>. HIDE DEF angle
<1>3. e \in Vector
  BY <1>2, SMT DEF Vector, LIMIT
<1>4. turns \in [0..15 -> {-1, 1}] /\ v \in [0..16 -> Vector] /\ v[0] = e
  BY <1>3
<1>5. Exactly(angle, turns, v, i)
  BY <1>2, <1>4, SMT DEF Exactly
<1>6. /\ r.w = e.w
      /\ About(r.x, e.x, e.scale, rounding[i + 1])
      /\ About(r.y, e.y, e.scale, rounding[i + 1])
  BY <1>2, SMT DEF Start, About, rounding, LIMIT
<1>7. RoundingBounded
  <2>. HIDE DEF e, turns, v
  <2>. QED BY <1>2, <1>4, <1>5, <1>6 DEF RoundingBounded, angle
<1>. QED BY <1>1, <1>7 DEF RoundInv

LEMMA RoundStep == RoundInv /\ [Rotate]_cordicVars => RoundInv'
<1>. SUFFICES ASSUME RoundInv, [Rotate]_cordicVars PROVE RoundInv'
  OBVIOUS
<1>0. CordicInv'
  BY RotationStep DEF RoundInv
<1>1. CASE Rotate
  <2>. DEFINE angle == sdiv(unpacker(data))
  <2>1. PICK turns \in [0..15 -> {-1, 1}], v \in [0..16 -> Vector] :
          /\ Exactly(angle, turns, v, i)
          /\ r.w = v[i].w
          /\ About(r.x, v[i].x, v[i].scale, rounding[i + 1])
          /\ About(r.y, v[i].y, v[i].scale, rounding[i + 1])
    BY DEF RoundInv, RoundingBounded
  <2>. HIDE DEF angle
  <2>2. i \in 0..15 /\ i' = i + 1 /\ data' = data /\ r' = engine(i, r) /\ v[i] \in Vector
    BY <1>1, SMT DEF RoundInv, CordicInv, TypeOK, Rotate, iterations
  <2>3. Bounds(i, r)
    BY DEF RoundInv, CordicInv
  <2>4. PICK s \in {-1, 1} :
          /\ Turn(i, s, v[i]) \in Vector
          /\ r'.w = Turn(i, s, v[i]).w
          /\ About(r'.x, Turn(i, s, v[i]).x, Turn(i, s, v[i]).scale, rounding[i + 2])
          /\ About(r'.y, Turn(i, s, v[i]).y, Turn(i, s, v[i]).scale, rounding[i + 2])
    BY <2>1, <2>2, <2>3, EngineRounds
  <2>. DEFINE f == [turns EXCEPT ![i] = s]
              g == [v EXCEPT ![i + 1] = Turn(i, s, v[i])]
  <2>5. f \in [0..15 -> {-1, 1}] /\ g \in [0..16 -> Vector]
    BY <2>2, <2>4
  <2>6. g[i + 1] = Turn(i, s, v[i]) /\ f[i] = s /\ g[i] = v[i]
    BY <2>2
  <2>7. \A k \in 0..i : g[k] = v[k]
    BY <2>2
  <2>8. \A k \in 0..(i - 1) : f[k] = turns[k]
    BY <2>2
  <2>. HIDE DEF f, g
  <2>9. Exactly(angle, f, g, i + 1)
    <3>1. g[0] = [x |-> LIMIT, y |-> 0, scale |-> 1, w |-> angle]
      BY <2>1, <2>2, <2>7 DEF Exactly
    <3>2. ASSUME NEW k \in 0..i PROVE g[k + 1] = Turn(k, f[k], g[k])
      <4>1. CASE k = i
        BY <2>6, <4>1
      <4>2. CASE k # i
        <5>1. k \in 0..(i - 1) /\ k + 1 \in 0..i
          BY <2>2, <4>2
        <5>2. v[k + 1] = Turn(k, turns[k], v[k])
          BY <2>1, <5>1 DEF Exactly
        <5>. QED BY <2>7, <2>8, <5>1, <5>2
      <4>. QED BY <4>1, <4>2
    <3>3. (i + 1) - 1 = i
      BY <2>2
    <3>. QED BY <3>1, <3>2, <3>3 DEF Exactly
  <2>10. i' + 1 = i + 2
    BY <2>2
  <2>11. /\ r'.w = g[i'].w
         /\ About(r'.x, g[i'].x, g[i'].scale, rounding[i' + 1])
         /\ About(r'.y, g[i'].y, g[i'].scale, rounding[i' + 1])
    BY <2>2, <2>4, <2>6, <2>10
  <2>12. angle = sdiv(unpacker(data'))
    BY <2>2 DEF angle
  <2>13. RoundingBounded'
    BY <2>2, <2>5, <2>9, <2>11, <2>12 DEF RoundingBounded
  <2>. QED BY <1>0, <2>13 DEF RoundInv
<1>2. CASE UNCHANGED cordicVars
  BY <1>0, <1>2 DEF cordicVars, RoundInv, RoundingBounded
<1>. QED BY <1>1, <1>2

\* The square of the length.
Square(v) == v.x * v.x + v.y * v.y

\* What it is after k turns, but for k units of 2^-44.
square == <<6487224282009, 12974448564018, 16218060705022, 17231689499085, 17500934647508,
            17569297673474, 17586455190733, 17590748758894, 17591822412993, 17592090842900,
            17592157951400, 17592174728589, 17592178922890, 17592179971465, 17592180233608,
            17592180299143, 17592180315526>>

Long(v, k) ==
  /\ square[k + 1] * (v.scale * v.scale) <= Square(v)
  /\ Square(v) <= (square[k + 1] + k) * (v.scale * v.scale)

LEMMA SquareTable ==
  \A k \in 0..15 :
    /\ square[k + 1] \in Nat /\ square[k + 2] \in Nat
    /\ square[k + 2] * (pow2[k + 1] * pow2[k + 1])
         <= square[k + 1] * (pow2[k + 1] * pow2[k + 1] + 1)
    /\ (square[k + 1] + k) * (pow2[k + 1] * pow2[k + 1] + 1)
         <= (square[k + 2] + (k + 1)) * (pow2[k + 1] * pow2[k + 1])
BY SMTT(60) DEF square, pow2

\* One turn more.
LEMMA Longer ==
  ASSUME NEW q \in Nat, NEW n \in Nat, NEW z \in Nat, NEW l \in Nat, NEW l2 \in Nat,
         NEW h \in Nat, NEW h2 \in Nat, l * z <= n, n <= h * z,
         l2 * q <= l * (q + 1), h * (q + 1) <= h2 * q
  PROVE  l2 * (q * z) <= (q + 1) * n /\ (q + 1) * n <= h2 * (q * z)
<1>1. (l2 * q) * z <= (l * (q + 1)) * z /\ (h * (q + 1)) * z <= (h2 * q) * z
  BY SMT
<1>2. (q + 1) * (l * z) <= (q + 1) * n /\ (q + 1) * n <= (q + 1) * (h * z)
  BY SMT
<1>. QED BY <1>1, <1>2, SMT

LEMMA Pythagoras ==
  ASSUME NEW p1 \in Int, NEW a \in Int, NEW b \in Int
  PROVE  (p1 * a - b) * (p1 * a - b) + (p1 * b + a) * (p1 * b + a)
           = (p1 * p1 + 1) * (a * a + b * b)
<1>. DEFINE A == p1 * a
            B == p1 * b
<1>1. A \in Int /\ B \in Int /\ A * b = B * a
  BY SMT
<1>2. A * A = (p1 * p1) * (a * a) /\ B * B = (p1 * p1) * (b * b)
  BY SMT
<1>. HIDE DEF A, B
<1>3. (A - b) * (A - b) = A * A - 2 * (A * b) + b * b
  BY <1>1, SMT
<1>4. (B + a) * (B + a) = B * B + 2 * (B * a) + a * a
  BY <1>1, SMT
<1>5. (p1 * p1 + 1) * (a * a + b * b)
        = (p1 * p1) * (a * a) + (p1 * p1) * (b * b) + a * a + b * b
  BY SMT
<1>6. (A - b) * (A - b) + (B + a) * (B + a) = (p1 * p1 + 1) * (a * a + b * b)
  BY <1>1, <1>2, <1>3, <1>4, <1>5, SMT
<1>. QED BY <1>6 DEF A, B

LEMMA TurnSquare ==
  ASSUME NEW k \in 0..15, NEW s \in {-1, 1}, NEW v \in Vector
  PROVE  /\ Square(Turn(k, s, v)) = (pow2[k + 1] * pow2[k + 1] + 1) * Square(v)
         /\ Turn(k, s, v).scale * Turn(k, s, v).scale
              = (pow2[k + 1] * pow2[k + 1]) * (v.scale * v.scale)
<1>. DEFINE p1 == pow2[k + 1]
<1>1. p1 \in Nat /\ v.x \in Int /\ v.y \in Int /\ v.scale \in Nat
  BY RoundingTable, SMT DEF Vector
<1>2. /\ Turn(k, s, v).x = p1 * v.x - s * v.y /\ Turn(k, s, v).y = p1 * v.y + s * v.x
      /\ Turn(k, s, v).scale = p1 * v.scale
  BY SMT DEF Turn
<1>. HIDE DEF p1
<1>3. Square(Turn(k, s, v)) = (p1 * p1 + 1) * Square(v)
  <2>. DEFINE a == v.x
              b == s * v.y
  <2>1. a \in Int /\ b \in Int /\ b * b = v.y * v.y
    BY <1>1, SMT
  <2>2. Turn(k, s, v).x = p1 * a - b /\ Turn(k, s, v).y = s * (p1 * b + a)
    <3>1. s * (p1 * b + a) = p1 * v.y + s * v.x
      <4>1. CASE s = 1
        BY <1>1, <4>1, SMT
      <4>2. CASE s = -1
        BY <1>1, <4>2, SMT
      <4>. QED BY <4>1, <4>2
    <3>. QED BY <1>2, <3>1
  <2>. HIDE DEF a, b
  <2>. DEFINE c == p1 * b + a
  <2>3. (s * c) * (s * c) = c * c
    <3>1. c \in Int
      BY <1>1, <2>1, SMT
    <3>. HIDE DEF c
    <3>. QED BY <3>1, SMT
  <2>4. (p1 * a - b) * (p1 * a - b) + c * c = (p1 * p1 + 1) * (a * a + b * b)
    BY <1>1, <2>1, Pythagoras
  <2>5. Square(v) = a * a + b * b
    BY <2>1 DEF Square, a
  <2>. QED BY <2>2, <2>3, <2>4, <2>5, Zenon DEF Square
<1>4. (p1 * v.scale) * (p1 * v.scale) = (p1 * p1) * (v.scale * v.scale)
  BY <1>1, SMT
<1>. QED BY <1>2, <1>3, <1>4 DEF p1

LEMMA TurnLong ==
  ASSUME NEW k \in 0..15, NEW s \in {-1, 1}, NEW v \in Vector, Long(v, k)
  PROVE  Long(Turn(k, s, v), k + 1)
<1>. DEFINE q == pow2[k + 1] * pow2[k + 1]
            z == v.scale * v.scale
            n == Square(v)
            l == square[k + 1]
            l2 == square[k + 2]
            h == square[k + 1] + k
            h2 == square[k + 2] + (k + 1)
<1>1. q \in Nat /\ z \in Nat /\ n \in Nat
  <2>1. pow2[k + 1] \in Nat /\ v.scale \in Nat /\ v.x \in Int /\ v.y \in Int
    BY RoundingTable, SMT DEF Vector
  <2>2. v.x * v.x >= 0 /\ v.y * v.y >= 0
    BY <2>1, SMT
  <2>3. n = v.x * v.x + v.y * v.y
    BY DEF Square
  <2>. QED BY <2>1, <2>2, <2>3, SMT
<1>2. l \in Nat /\ l2 \in Nat /\ h \in Nat /\ h2 \in Nat
      /\ l2 * q <= l * (q + 1) /\ h * (q + 1) <= h2 * q
  BY SquareTable
<1>3. l * z <= n /\ n <= h * z
  BY DEF Long
<1>4. Square(Turn(k, s, v)) = (q + 1) * n /\ Turn(k, s, v).scale * Turn(k, s, v).scale = q * z
  BY TurnSquare
<1>5. square[(k + 1) + 1] = l2
  OBVIOUS
<1>. HIDE DEF q, z, n, l, l2, h, h2
<1>6. l2 * (q * z) <= (q + 1) * n /\ (q + 1) * n <= h2 * (q * z)
  BY <1>1, <1>2, <1>3, Longer
<1>7. square[(k + 1) + 1] + (k + 1) = h2
  BY <1>5 DEF l2, h2
<1>. QED BY <1>4, <1>5, <1>6, <1>7, Zenon DEF Long

\* Any turns in these directions end on the unit circle: what LIMIT is for.
LEMMA OnCircle ==
  ASSUME NEW angle, NEW turns \in [0..15 -> {-1, 1}], NEW v \in [0..16 -> Vector],
         Exactly(angle, turns, v, 16)
  PROVE  Long(v[16], 16)
<1>. DEFINE T == {m \in 0..16 : ~ Long(v[m], m)}
<1>1. SUFFICES ASSUME T # {} PROVE FALSE
  BY 16 \in 0..16
<1>2. PICK m \in T : \A l \in T : m <= l
  <2>1. T \in SUBSET Nat
    OBVIOUS
  <2>. QED BY <1>1, <2>1, LeastNatural
<1>3. CASE m = 0
  <2>1. v[0].x = LIMIT /\ v[0].y = 0 /\ v[0].scale = 1
    BY DEF Exactly
  <2>2. square[1] = LIMIT * LIMIT
    BY SMT DEF square, LIMIT
  <2>3. Long(v[0], 0)
    BY <2>1, <2>2, SMT DEF Long, Square, LIMIT
  <2>. QED BY <1>2, <1>3, <2>3
<1>4. CASE m # 0
  <2>1. m - 1 \in 0..15 /\ m - 1 \in 0..16 /\ m - 1 \notin T /\ (m - 1) + 1 = m
        /\ m - 1 \in 0..(16 - 1)
    BY <1>2, <1>4
  <2>2. Long(v[m - 1], m - 1) /\ v[m - 1] \in Vector /\ turns[m - 1] \in {-1, 1}
    BY <2>1
  <2>3. v[m] = Turn(m - 1, turns[m - 1], v[m - 1])
    BY <2>1 DEF Exactly
  <2>4. Long(v[m], m)
    BY <2>1, <2>2, <2>3, TurnLong
  <2>. QED BY <1>2, <2>4
<1>. QED BY <1>3, <1>4

\* Within one unit, on the inside.
OnUnitCircle(v) ==
  /\ (4194303 * 4194303) * (v.scale * v.scale) <= Square(v)
  /\ Square(v) <= (4194304 * 4194304) * (v.scale * v.scale)

\* The result: exact turns by angles of the table, which make up the angle of the input
\* but for 133 units, lead to a point of the unit circle, and the engines' vector is that
\* point but for 245 sixteenths of a unit.
TurnedExactly ==
  i = iterations =>
    \E turns \in [0..15 -> {-1, 1}], v \in [0..16 -> Vector] :
      /\ Exactly(sdiv(unpacker(data)), turns, v, 16)
      /\ OnUnitCircle(v[16])
      /\ -133 <= v[16].w /\ v[16].w <= 133
      /\ About(r.x, v[16].x, v[16].scale, 245)
      /\ About(r.y, v[16].y, v[16].scale, 245)

\* So for every input the engines rotate, and LIMIT undoes what they stretch.
THEOREM ExactTurns == CordicSpec => []TurnedExactly
<1>1. RoundInv => TurnedExactly
  <2>. SUFFICES ASSUME RoundInv, i = 16 PROVE TurnedExactly
    BY DEF TurnedExactly, iterations
  <2>1. PICK turns \in [0..15 -> {-1, 1}], v \in [0..16 -> Vector] :
          /\ Exactly(sdiv(unpacker(data)), turns, v, 16)
          /\ r.w = v[16].w
          /\ About(r.x, v[16].x, v[16].scale, rounding[16 + 1])
          /\ About(r.y, v[16].y, v[16].scale, rounding[16 + 1])
    BY DEF RoundInv, RoundingBounded
  <2>2. rounding[16 + 1] = 245 /\ residual[16 + 1] = 133
    BY SMT DEF rounding, residual
  <2>3. OnUnitCircle(v[16])
    <3>1. Long(v[16], 16)
      BY <2>1, OnCircle
    <3>. DEFINE z == v[16].scale * v[16].scale
    <3>2. z \in Nat /\ Square(v[16]) \in Int
      <4>1. v[16] \in Vector
        OBVIOUS
      <4>2. v[16].scale \in Nat /\ v[16].x \in Int /\ v[16].y \in Int
        BY <4>1, SMT DEF Vector
      <4>. QED BY <4>2, SMT DEF Square
    <3>3. /\ square[16 + 1] * z <= Square(v[16])
          /\ Square(v[16]) <= (square[16 + 1] + 16) * z
      BY <3>1 DEF Long
    <3>4. square[16 + 1] = 17592180315526
      BY SMT DEF square
    <3>. HIDE DEF z
    <3>5. /\ (4194303 * 4194303) * z <= Square(v[16])
          /\ Square(v[16]) <= (4194304 * 4194304) * z
      BY <3>2, <3>3, <3>4, SMT
    <3>. QED BY <3>5 DEF OnUnitCircle, z
  <2>4. -133 <= v[16].w /\ v[16].w <= 133
    BY <2>1, <2>2, SMT DEF RoundInv, CordicInv, Bounds, Rotation, Abs
  <2>. QED BY <2>1, <2>2, <2>3, <2>4, Zenon DEF TurnedExactly
<1>. QED BY <1>1, RoundStarts, RoundStep, PTL DEF CordicSpec

\* What the packer takes for 1.0 exceeds it by 15 units at most.
ClippedLittle == i = iterations => r.x <= 4194304 + 15

LEMMA RootBound ==
  ASSUME NEW e \in Int, NEW z \in Nat \ {0}, NEW b \in Nat, e * e <= (b * b) * (z * z)
  PROVE  e <= b * z
<1>. DEFINE c == b * z
<1>1. c \in Nat /\ e * e <= c * c
  BY SMT
<1>. HIDE DEF c
<1>2. ASSUME e > c PROVE FALSE
  <2>1. e * e > c * c
    BY <1>1, <1>2, SMT
  <2>. QED BY <1>1, <2>1, SMT
<1>. QED BY <1>1, <1>2, SMT DEF c

\* So for every input the bits that packer.sv drops above 1.0 are rounding errors.
THEOREM PackerClipsLittle == CordicSpec => []ClippedLittle
<1>1. TypeOK /\ TurnedExactly => ClippedLittle
  <2>. SUFFICES ASSUME TypeOK, TurnedExactly, i = iterations PROVE r.x <= 4194304 + 15
    BY DEF ClippedLittle
  <2>1. PICK v \in [0..16 -> Vector] :
          OnUnitCircle(v[16]) /\ About(r.x, v[16].x, v[16].scale, 245)
    BY DEF TurnedExactly
  <2>. DEFINE e == v[16].x
              f == v[16].y
              z == v[16].scale
  <2>2. e \in Int /\ f \in Int /\ z \in Nat \ {0} /\ r.x \in Int
    <3>1. v[16] \in Vector
      OBVIOUS
    <3>. QED BY <3>1, SMT DEF Vector, TypeOK, Rotation
  <2>3. e * e + f * f <= (4194304 * 4194304) * (z * z)
    BY <2>1 DEF OnUnitCircle, Square
  <2>4. 16 * (r.x * z - e) <= 245 * z
    BY <2>1 DEF About
  <2>. HIDE DEF e, f, z
  <2>5. e <= 4194304 * z
    <3>1. e * e <= (4194304 * 4194304) * (z * z)
      <4>1. f * f >= 0 /\ e * e \in Int /\ z * z \in Int /\ f * f \in Int
        BY <2>2, SMT
      <4>. QED BY <2>3, <4>1, SMT
    <3>. QED BY <2>2, <3>1, RootBound
  <2>6. (16 * r.x) * z <= (16 * 4194304 + 245) * z
    BY <2>2, <2>4, <2>5, SMT
  <2>7. 16 * r.x <= 16 * 4194304 + 245
    BY <2>2, <2>6, SMT
  <2>. QED BY <2>2, <2>7, SMT
<1>2. CordicInv => TypeOK
  BY DEF CordicInv
<1>. QED BY <1>1, <1>2, ExactTurns, RotationInvariance, PTL
-----------------------------------------------------------------------------
\* The cosine. What the engines' vector is compared with are the Taylor polynomials of the
\* cosine, of degree 10, and of the sine, of degree 11. The constants have hundreds of
\* bits; they are products that are only ever applied to something.

\* u to the n-th, times x.
Pow2(u, x) == u * (u * x)
Pow3(u, x) == u * Pow2(u, x)
Pow4(u, x) == u * Pow3(u, x)
Pow5(u, x) == u * Pow4(u, x)
Pow6(u, x) == u * Pow5(u, x)
Pow7(u, x) == u * Pow6(u, x)
Pow8(u, x) == u * Pow7(u, x)
Pow9(u, x) == u * Pow8(u, x)
Pow10(u, x) == u * Pow9(u, x)
Pow11(u, x) == u * Pow10(u, x)

\* 2^22 to the (11 - n)-th times 11! / n!, times x.
Coef10(x) == 11 * (4194304 * x)
Coef9(x) == 10 * (4194304 * Coef10(x))
Coef8(x) == 9 * (4194304 * Coef9(x))
Coef7(x) == 8 * (4194304 * Coef8(x))
Coef6(x) == 7 * (4194304 * Coef7(x))
Coef5(x) == 6 * (4194304 * Coef6(x))
Coef4(x) == 5 * (4194304 * Coef5(x))
Coef3(x) == 4 * (4194304 * Coef4(x))
Coef2(x) == 3 * (4194304 * Coef3(x))
Coef1(x) == 2 * (4194304 * Coef2(x))
Coef0(x) == 1 * (4194304 * Coef1(x))

\* 1, which only some of the proofs need to know.
unit == 1

\* What stands for 1 beside the polynomials.
unity == Coef0(unit)

CosP(u) ==
  unity - Coef2(Pow2(u, unit)) + Coef4(Pow4(u, unit)) - Coef6(Pow6(u, unit))
    + Coef8(Pow8(u, unit)) - Coef10(Pow10(u, unit))

SinP(u) ==
  Coef1(u * unit) - Coef3(Pow3(u, unit)) + Coef5(Pow5(u, unit)) - Coef7(Pow7(u, unit))
    + Coef9(Pow9(u, unit)) - Pow11(u, unit)

LEMMA UnitIsOne == unit \in Nat \ {0} /\ unit \in Int /\ \A u \in Int : u * unit = u
BY DEF unit

LEMMA CoefsWhole ==
  ASSUME NEW x \in Int
  PROVE  /\ Coef0(x) \in Int /\ Coef1(x) \in Int /\ Coef2(x) \in Int /\ Coef3(x) \in Int
         /\ Coef4(x) \in Int /\ Coef5(x) \in Int /\ Coef6(x) \in Int /\ Coef7(x) \in Int
         /\ Coef8(x) \in Int /\ Coef9(x) \in Int /\ Coef10(x) \in Int
<1>1. \A n \in Int : \A y \in Int : n * (4194304 * y) \in Int
  BY SMT
<1>2. Coef10(x) \in Int /\ Coef9(x) \in Int /\ Coef8(x) \in Int
  BY <1>1, SMT DEF Coef10, Coef9, Coef8
<1>3. Coef7(x) \in Int /\ Coef6(x) \in Int /\ Coef5(x) \in Int
  BY <1>1, <1>2, SMT DEF Coef7, Coef6, Coef5
<1>4. Coef4(x) \in Int /\ Coef3(x) \in Int /\ Coef2(x) \in Int
  BY <1>1, <1>3, SMT DEF Coef4, Coef3, Coef2
<1>5. Coef1(x) \in Int /\ Coef0(x) \in Int
  BY <1>1, <1>4, SMT DEF Coef1, Coef0
<1>. QED BY <1>2, <1>3, <1>4, <1>5

LEMMA CoefsOdd ==
  ASSUME NEW x \in Int
  PROVE  /\ Coef1(-x) = -Coef1(x) /\ Coef3(-x) = -Coef3(x) /\ Coef5(-x) = -Coef5(x)
         /\ Coef7(-x) = -Coef7(x) /\ Coef9(-x) = -Coef9(x)
<1>1. \A n \in Int : \A y \in Int : n * (4194304 * (-y)) = -(n * (4194304 * y))
  BY SMT
<1>10. Coef10(-x) = -Coef10(x)
  BY SMT DEF Coef10
<1>11. Coef9(-x) = -Coef9(x)
  BY <1>1, <1>10, CoefsWhole, SMT DEF Coef9
<1>12. Coef8(-x) = -Coef8(x)
  BY <1>1, <1>11, CoefsWhole, SMT DEF Coef8
<1>13. Coef7(-x) = -Coef7(x)
  BY <1>1, <1>12, CoefsWhole, SMT DEF Coef7
<1>14. Coef6(-x) = -Coef6(x)
  BY <1>1, <1>13, CoefsWhole, SMT DEF Coef6
<1>15. Coef5(-x) = -Coef5(x)
  BY <1>1, <1>14, CoefsWhole, SMT DEF Coef5
<1>16. Coef4(-x) = -Coef4(x)
  BY <1>1, <1>15, CoefsWhole, SMT DEF Coef4
<1>17. Coef3(-x) = -Coef3(x)
  BY <1>1, <1>16, CoefsWhole, SMT DEF Coef3
<1>18. Coef2(-x) = -Coef2(x)
  BY <1>1, <1>17, CoefsWhole, SMT DEF Coef2
<1>19. Coef1(-x) = -Coef1(x)
  BY <1>1, <1>18, CoefsWhole, SMT DEF Coef1
<1>. QED BY <1>11, <1>13, <1>15, <1>17, <1>19

LEMMA UnityPositive == unity \in Nat \ {0}
<1>1. \A n \in Nat \ {0} : \A y \in Nat \ {0} : n * (4194304 * y) \in Nat \ {0}
  BY SMT
<1>2. unit \in Nat \ {0}
  BY UnitIsOne
<1>3. Coef10(unit) \in Nat \ {0} /\ Coef9(unit) \in Nat \ {0} /\ Coef8(unit) \in Nat \ {0}
  BY <1>1, <1>2, SMT DEF Coef10, Coef9, Coef8
<1>4. Coef7(unit) \in Nat \ {0} /\ Coef6(unit) \in Nat \ {0} /\ Coef5(unit) \in Nat \ {0}
  BY <1>1, <1>3, SMT DEF Coef7, Coef6, Coef5
<1>5. Coef4(unit) \in Nat \ {0} /\ Coef3(unit) \in Nat \ {0} /\ Coef2(unit) \in Nat \ {0}
  BY <1>1, <1>4, SMT DEF Coef4, Coef3, Coef2
<1>6. Coef1(unit) \in Nat \ {0} /\ Coef0(unit) \in Nat \ {0}
  BY <1>1, <1>5, SMT DEF Coef1, Coef0
<1>. QED BY <1>6 DEF unity

LEMMA PowersWhole ==
  ASSUME NEW u \in Int, NEW x \in Int
  PROVE  /\ u * x \in Int /\ Pow2(u, x) \in Int /\ Pow3(u, x) \in Int /\ Pow4(u, x) \in Int
         /\ Pow5(u, x) \in Int /\ Pow6(u, x) \in Int /\ Pow7(u, x) \in Int
         /\ Pow8(u, x) \in Int /\ Pow9(u, x) \in Int /\ Pow10(u, x) \in Int
         /\ Pow11(u, x) \in Int
<1>1. \A v \in Int : u * v \in Int
  OBVIOUS
<1>2. Pow2(u, x) \in Int
  BY <1>1 DEF Pow2
<1>3. Pow3(u, x) \in Int
  BY <1>1, <1>2 DEF Pow3
<1>4. Pow4(u, x) \in Int
  BY <1>1, <1>3 DEF Pow4
<1>5. Pow5(u, x) \in Int
  BY <1>1, <1>4 DEF Pow5
<1>6. Pow6(u, x) \in Int
  BY <1>1, <1>5 DEF Pow6
<1>7. Pow7(u, x) \in Int
  BY <1>1, <1>6 DEF Pow7
<1>8. Pow8(u, x) \in Int
  BY <1>1, <1>7 DEF Pow8
<1>9. Pow9(u, x) \in Int
  BY <1>1, <1>8 DEF Pow9
<1>10. Pow10(u, x) \in Int
  BY <1>1, <1>9 DEF Pow10
<1>11. Pow11(u, x) \in Int
  BY <1>1, <1>10 DEF Pow11
<1>. QED BY <1>1, <1>2, <1>3, <1>4, <1>5, <1>6, <1>7, <1>8, <1>9, <1>10, <1>11

\* An even power does not see the sign, an odd one has it.
LEMMA PowersSign ==
  ASSUME NEW u \in Int, NEW x \in Int
  PROVE  /\ (-u) * x = -(u * x) /\ Pow2(-u, x) = Pow2(u, x) /\ Pow3(-u, x) = -Pow3(u, x)
         /\ Pow4(-u, x) = Pow4(u, x) /\ Pow5(-u, x) = -Pow5(u, x)
         /\ Pow6(-u, x) = Pow6(u, x) /\ Pow7(-u, x) = -Pow7(u, x)
         /\ Pow8(-u, x) = Pow8(u, x) /\ Pow9(-u, x) = -Pow9(u, x)
         /\ Pow10(-u, x) = Pow10(u, x) /\ Pow11(-u, x) = -Pow11(u, x)
<1>1. \A v \in Int : (-u) * v = -(u * v) /\ (-u) * (-v) = u * v
  BY SMT
<1>2. Pow2(-u, x) = Pow2(u, x)
  BY <1>1, PowersWhole DEF Pow2
<1>3. Pow3(-u, x) = -Pow3(u, x)
  BY <1>1, <1>2, PowersWhole DEF Pow3
<1>4. Pow4(-u, x) = Pow4(u, x)
  BY <1>1, <1>3, PowersWhole DEF Pow4
<1>5. Pow5(-u, x) = -Pow5(u, x)
  BY <1>1, <1>4, PowersWhole DEF Pow5
<1>6. Pow6(-u, x) = Pow6(u, x)
  BY <1>1, <1>5, PowersWhole DEF Pow6
<1>7. Pow7(-u, x) = -Pow7(u, x)
  BY <1>1, <1>6, PowersWhole DEF Pow7
<1>8. Pow8(-u, x) = Pow8(u, x)
  BY <1>1, <1>7, PowersWhole DEF Pow8
<1>9. Pow9(-u, x) = -Pow9(u, x)
  BY <1>1, <1>8, PowersWhole DEF Pow9
<1>10. Pow10(-u, x) = Pow10(u, x)
  BY <1>1, <1>9, PowersWhole DEF Pow10
<1>11. Pow11(-u, x) = -Pow11(u, x)
  BY <1>1, <1>10, PowersWhole DEF Pow11
<1>. QED BY <1>1, <1>2, <1>3, <1>4, <1>5, <1>6, <1>7, <1>8, <1>9, <1>10, <1>11

LEMMA SeriesWhole ==
  ASSUME NEW u \in Int
  PROVE  /\ CosP(u) \in Int /\ SinP(u) \in Int
         /\ CosP(-u) = CosP(u) /\ SinP(-u) = -SinP(u)
<1>1. unit \in Int /\ unity \in Int
  BY UnitIsOne, UnityPositive
<1>2. CosP(u) \in Int
  <2>1. /\ Coef2(Pow2(u, unit)) \in Int /\ Coef4(Pow4(u, unit)) \in Int
        /\ Coef6(Pow6(u, unit)) \in Int /\ Coef8(Pow8(u, unit)) \in Int
        /\ Coef10(Pow10(u, unit)) \in Int
    BY <1>1, PowersWhole, CoefsWhole
  <2>. QED BY <1>1, <2>1 DEF CosP
<1>3. CosP(-u) = CosP(u)
  BY <1>1, PowersSign DEF CosP
<1>4. SinP(u) \in Int /\ SinP(-u) = -SinP(u)
  <2>1. /\ Coef1(u * unit) \in Int /\ Coef3(Pow3(u, unit)) \in Int
        /\ Coef5(Pow5(u, unit)) \in Int /\ Coef7(Pow7(u, unit)) \in Int
        /\ Coef9(Pow9(u, unit)) \in Int /\ Pow11(u, unit) \in Int
    BY <1>1, PowersWhole, CoefsWhole
  <2>2. /\ Coef1((-u) * unit) = -Coef1(u * unit)
        /\ Coef3(Pow3(-u, unit)) = -Coef3(Pow3(u, unit))
        /\ Coef5(Pow5(-u, unit)) = -Coef5(Pow5(u, unit))
        /\ Coef7(Pow7(-u, unit)) = -Coef7(Pow7(u, unit))
        /\ Coef9(Pow9(-u, unit)) = -Coef9(Pow9(u, unit))
        /\ Pow11(-u, unit) = -Pow11(u, unit)
    <3>1. u * unit \in Int /\ (-u) * unit = -(u * unit)
      BY <1>1, PowersSign
    <3>. QED BY <1>1, <3>1, PowersWhole, PowersSign, CoefsOdd
  <2>. QED BY <2>1, <2>2, SMT DEF SinP
<1>. QED BY <1>2, <1>3, <1>4

LEMMA ProductBound ==
  ASSUME NEW b \in Nat, NEW c \in Nat, NEW u \in Int, NEW v \in Int,
         -b <= u, u <= b, -c <= v, v <= c
  PROVE  -(b * c) <= u * v /\ u * v <= b * c /\ b * c \in Nat
BY SMTT(30)

\* Between the bound and its negation.
Within(v, b) == b \in Nat /\ -b <= v /\ v <= b

LEMMA PowersBounded ==
  ASSUME NEW b \in Nat, NEW u \in Int, -b <= u, u <= b, NEW x \in Nat
  PROVE  /\ Within(u * x, b * x) /\ Within(Pow2(u, x), Pow2(b, x))
         /\ Within(Pow3(u, x), Pow3(b, x)) /\ Within(Pow4(u, x), Pow4(b, x))
         /\ Within(Pow5(u, x), Pow5(b, x)) /\ Within(Pow6(u, x), Pow6(b, x))
         /\ Within(Pow7(u, x), Pow7(b, x)) /\ Within(Pow8(u, x), Pow8(b, x))
         /\ Within(Pow9(u, x), Pow9(b, x)) /\ Within(Pow10(u, x), Pow10(b, x))
         /\ Within(Pow11(u, x), Pow11(b, x))
<1>0. x \in Int
  OBVIOUS
<1>1. \A c \in Nat : \A v \in Int : Within(v, c) => Within(u * v, b * c)
  BY ProductBound DEF Within
<1>2. Within(u * x, b * x) /\ u * x \in Int /\ b * x \in Nat
  BY <1>1 DEF Within
<1>3. Within(Pow2(u, x), Pow2(b, x))
  BY <1>1, <1>2 DEF Pow2
<1>4. Within(Pow3(u, x), Pow3(b, x))
  <2>1. Pow2(b, x) \in Nat
    BY <1>3 DEF Within
  <2>. QED BY <1>0, <1>1, <1>3, <2>1, PowersWhole DEF Pow3
<1>5. Within(Pow4(u, x), Pow4(b, x))
  <2>1. Pow3(b, x) \in Nat
    BY <1>4 DEF Within
  <2>. QED BY <1>0, <1>1, <1>4, <2>1, PowersWhole DEF Pow4
<1>6. Within(Pow5(u, x), Pow5(b, x))
  <2>1. Pow4(b, x) \in Nat
    BY <1>5 DEF Within
  <2>. QED BY <1>0, <1>1, <1>5, <2>1, PowersWhole DEF Pow5
<1>7. Within(Pow6(u, x), Pow6(b, x))
  <2>1. Pow5(b, x) \in Nat
    BY <1>6 DEF Within
  <2>. QED BY <1>0, <1>1, <1>6, <2>1, PowersWhole DEF Pow6
<1>8. Within(Pow7(u, x), Pow7(b, x))
  <2>1. Pow6(b, x) \in Nat
    BY <1>7 DEF Within
  <2>. QED BY <1>0, <1>1, <1>7, <2>1, PowersWhole DEF Pow7
<1>9. Within(Pow8(u, x), Pow8(b, x))
  <2>1. Pow7(b, x) \in Nat
    BY <1>8 DEF Within
  <2>. QED BY <1>0, <1>1, <1>8, <2>1, PowersWhole DEF Pow8
<1>10. Within(Pow9(u, x), Pow9(b, x))
  <2>1. Pow8(b, x) \in Nat
    BY <1>9 DEF Within
  <2>. QED BY <1>0, <1>1, <1>9, <2>1, PowersWhole DEF Pow9
<1>11. Within(Pow10(u, x), Pow10(b, x))
  <2>1. Pow9(b, x) \in Nat
    BY <1>10 DEF Within
  <2>. QED BY <1>0, <1>1, <1>10, <2>1, PowersWhole DEF Pow10
<1>12. Within(Pow11(u, x), Pow11(b, x))
  <2>1. Pow10(b, x) \in Nat
    BY <1>11 DEF Within
  <2>. QED BY <1>0, <1>1, <1>11, <2>1, PowersWhole DEF Pow11
<1>. QED BY <1>2, <1>3, <1>4, <1>5, <1>6, <1>7, <1>8, <1>9, <1>10, <1>11, <1>12

\* The binomial theorem.
Expansion(u, a, x) ==
  /\ (u + a) * x = u * x + a * x
  /\ Pow2(u + a, x) = Pow2(u, x) + 2 * (a * (u * x)) + Pow2(a, x)
  /\ Pow3(u + a, x) = Pow3(u, x) + 3 * (a * Pow2(u, x)) + 3 * Pow2(a, u * x) + Pow3(a, x)
  /\ Pow4(u + a, x) = Pow4(u, x) + 4 * (a * Pow3(u, x)) + 6 * Pow2(a, Pow2(u, x))
            + 4 * Pow3(a, u * x) + Pow4(a, x)
  /\ Pow5(u + a, x) = Pow5(u, x) + 5 * (a * Pow4(u, x)) + 10 * Pow2(a, Pow3(u, x))
            + 10 * Pow3(a, Pow2(u, x)) + 5 * Pow4(a, u * x) + Pow5(a, x)
  /\ Pow6(u + a, x) = Pow6(u, x) + 6 * (a * Pow5(u, x)) + 15 * Pow2(a, Pow4(u, x))
            + 20 * Pow3(a, Pow3(u, x)) + 15 * Pow4(a, Pow2(u, x)) + 6 * Pow5(a, u * x)
            + Pow6(a, x)
  /\ Pow7(u + a, x) = Pow7(u, x) + 7 * (a * Pow6(u, x)) + 21 * Pow2(a, Pow5(u, x))
            + 35 * Pow3(a, Pow4(u, x)) + 35 * Pow4(a, Pow3(u, x)) + 21 * Pow5(a, Pow2(u, x))
            + 7 * Pow6(a, u * x) + Pow7(a, x)
  /\ Pow8(u + a, x) = Pow8(u, x) + 8 * (a * Pow7(u, x)) + 28 * Pow2(a, Pow6(u, x))
            + 56 * Pow3(a, Pow5(u, x)) + 70 * Pow4(a, Pow4(u, x)) + 56 * Pow5(a, Pow3(u, x))
            + 28 * Pow6(a, Pow2(u, x)) + 8 * Pow7(a, u * x) + Pow8(a, x)
  /\ Pow9(u + a, x) = Pow9(u, x) + 9 * (a * Pow8(u, x)) + 36 * Pow2(a, Pow7(u, x))
            + 84 * Pow3(a, Pow6(u, x)) + 126 * Pow4(a, Pow5(u, x))
            + 126 * Pow5(a, Pow4(u, x)) + 84 * Pow6(a, Pow3(u, x))
            + 36 * Pow7(a, Pow2(u, x)) + 9 * Pow8(a, u * x) + Pow9(a, x)
  /\ Pow10(u + a, x) = Pow10(u, x) + 10 * (a * Pow9(u, x)) + 45 * Pow2(a, Pow8(u, x))
            + 120 * Pow3(a, Pow7(u, x)) + 210 * Pow4(a, Pow6(u, x))
            + 252 * Pow5(a, Pow5(u, x)) + 210 * Pow6(a, Pow4(u, x))
            + 120 * Pow7(a, Pow3(u, x)) + 45 * Pow8(a, Pow2(u, x)) + 10 * Pow9(a, u * x)
            + Pow10(a, x)
  /\ Pow11(u + a, x) = Pow11(u, x) + 11 * (a * Pow10(u, x)) + 55 * Pow2(a, Pow9(u, x))
            + 165 * Pow3(a, Pow8(u, x)) + 330 * Pow4(a, Pow7(u, x))
            + 462 * Pow5(a, Pow6(u, x)) + 462 * Pow6(a, Pow5(u, x))
            + 330 * Pow7(a, Pow4(u, x)) + 165 * Pow8(a, Pow3(u, x))
            + 55 * Pow9(a, Pow2(u, x)) + 11 * Pow10(a, u * x) + Pow11(a, x)

LEMMA Binomial ==
  ASSUME NEW u \in Int, NEW a \in Int, NEW x \in Int
  PROVE  Expansion(u, a, x)
BY SMTT(60) DEF Expansion, Pow2, Pow3, Pow4, Pow5, Pow6, Pow7, Pow8, Pow9, Pow10, Pow11

-----------------------------------------------------------------------------
\* How far k engines may have turned the vector, how long it is then, in sixteenths of a
\* unit, and how many sixteenths it may be beside the cosine and the sine. drift is what
\* one engine's angle, which the table truncates, adds to that.
reach == <<0, 3294198, 5238877, 5239782, 4718200, 4456397, 4325368, 4259838, 4227071,
           4210689, 4202497, 4198402, 4196355, 4195331, 4194820, 4194565, 4194437>>

gain == <<40752048, 57632099, 64434645, 66417712, 66934589, 67065194, 67097932, 67106123,
          67108170, 67108682, 67108810, 67108842, 67108850, 67108852, 67108853, 67108853,
          67108853>>

drift == <<7, 3, 16, 23, 15, 10, 19, 10, 23, 25, 25, 25, 1, 26, 25, 1>>

error == <<0, 7, 22, 56, 100, 137, 167, 205, 233, 273, 315, 357, 399, 417, 460, 502, 520>>

LEMMA SeriesTable ==
  \A k \in 0..15 :
    /\ reach[k + 1] \in Nat /\ gain[k + 1] \in Nat /\ gain[k + 2] \in Nat
    /\ drift[k + 1] \in Nat /\ error[k + 1] \in Nat /\ error[k + 2] \in Nat
    /\ \/ reach[k + 1] + angles[k + 1] <= reach[k + 2]
       \/ 4194304 + residual[k + 2] <= reach[k + 2]
    /\ pow2[k + 1] * error[k + 1] + error[k + 1] + 16 * (pow2[k + 1] - 1)
         <= pow2[k + 1] * (error[k + 2] - drift[k + 1])
BY SMTT(60) DEF reach, gain, drift, error, angles, residual, pow2

\* x and y turned by the angle of engine k, and stretched by it, are x1 and y1.
Close(p1, g, h, d, x, y, x1, y1) ==
  /\ -(p1 * (d * unity)) <= (p1 * (g * x) - g * y) - p1 * (h * x1)
  /\ (p1 * (g * x) - g * y) - p1 * (h * x1) <= p1 * (d * unity)
  /\ -(p1 * (d * unity)) <= (p1 * (g * y) + g * x) - p1 * (h * y1)
  /\ (p1 * (g * y) + g * x) - p1 * (h * y1) <= p1 * (d * unity)

\* Anything within its reach is turned by engine k.
LEMMA SeriesTurn ==
  ASSUME NEW k \in 0..15, NEW u \in Int, -reach[k + 1] <= u, u <= reach[k + 1]
  PROVE  Close(pow2[k + 1], gain[k + 1], gain[k + 2], drift[k + 1],
               CosP(u), SinP(u), CosP(u + angles[k + 1]), SinP(u + angles[k + 1]))
<1>. DEFINE a == angles[k + 1]
            b == reach[k + 1]
            e == unit
            u1 == u * e
            u2 == Pow2(u, e)
            u3 == Pow3(u, e)
            u4 == Pow4(u, e)
            u5 == Pow5(u, e)
            u6 == Pow6(u, e)
            u7 == Pow7(u, e)
            u8 == Pow8(u, e)
            u9 == Pow9(u, e)
            u10 == Pow10(u, e)
            u11 == Pow11(u, e)
            v1 == (u + a) * e
            v2 == Pow2(u + a, e)
            v3 == Pow3(u + a, e)
            v4 == Pow4(u + a, e)
            v5 == Pow5(u + a, e)
            v6 == Pow6(u + a, e)
            v7 == Pow7(u + a, e)
            v8 == Pow8(u + a, e)
            v9 == Pow9(u + a, e)
            v10 == Pow10(u + a, e)
            v11 == Pow11(u + a, e)
<1>1. a \in Nat /\ b \in Nat /\ -b <= u /\ u <= b /\ u + a \in Int
  BY AngleTable, SeriesTable
<1>2. e \in Nat /\ e \in Int /\ e >= 1
  BY UnitIsOne
<1>3. /\ u1 \in Int /\ u2 \in Int /\ u3 \in Int /\ u4 \in Int /\ u5 \in Int /\ u6 \in Int
      /\ u7 \in Int /\ u8 \in Int /\ u9 \in Int /\ u10 \in Int /\ u11 \in Int /\ v1 \in Int
      /\ v2 \in Int /\ v3 \in Int /\ v4 \in Int /\ v5 \in Int /\ v6 \in Int /\ v7 \in Int
      /\ v8 \in Int /\ v9 \in Int /\ v10 \in Int /\ v11 \in Int
  <2>. HIDE DEF a, e
  <2>. QED BY <1>1, <1>2, PowersWhole
<1>4. /\ Within(u1, b * e) /\ Within(u2, Pow2(b, e)) /\ Within(u3, Pow3(b, e))
      /\ Within(u4, Pow4(b, e)) /\ Within(u5, Pow5(b, e)) /\ Within(u6, Pow6(b, e))
      /\ Within(u7, Pow7(b, e)) /\ Within(u8, Pow8(b, e)) /\ Within(u9, Pow9(b, e))
      /\ Within(u10, Pow10(b, e)) /\ Within(u11, Pow11(b, e))
  <2>. HIDE DEF b, e
  <2>. QED BY <1>1, <1>2, PowersBounded
<1>5. /\ v1 = u1 + a * e
      /\ v2 = u2 + 2 * (a * u1) + Pow2(a, e)
      /\ v3 = u3 + 3 * (a * u2) + 3 * Pow2(a, u1) + Pow3(a, e)
      /\ v4 = u4 + 4 * (a * u3) + 6 * Pow2(a, u2) + 4 * Pow3(a, u1) + Pow4(a, e)
      /\ v5 = u5 + 5 * (a * u4) + 10 * Pow2(a, u3) + 10 * Pow3(a, u2) + 5 * Pow4(a, u1)
              + Pow5(a, e)
      /\ v6 = u6 + 6 * (a * u5) + 15 * Pow2(a, u4) + 20 * Pow3(a, u3) + 15 * Pow4(a, u2)
              + 6 * Pow5(a, u1) + Pow6(a, e)
      /\ v7 = u7 + 7 * (a * u6) + 21 * Pow2(a, u5) + 35 * Pow3(a, u4) + 35 * Pow4(a, u3)
              + 21 * Pow5(a, u2) + 7 * Pow6(a, u1) + Pow7(a, e)
      /\ v8 = u8 + 8 * (a * u7) + 28 * Pow2(a, u6) + 56 * Pow3(a, u5) + 70 * Pow4(a, u4)
              + 56 * Pow5(a, u3) + 28 * Pow6(a, u2) + 8 * Pow7(a, u1) + Pow8(a, e)
      /\ v9 = u9 + 9 * (a * u8) + 36 * Pow2(a, u7) + 84 * Pow3(a, u6) + 126 * Pow4(a, u5)
              + 126 * Pow5(a, u4) + 84 * Pow6(a, u3) + 36 * Pow7(a, u2) + 9 * Pow8(a, u1)
              + Pow9(a, e)
      /\ v10 = u10 + 10 * (a * u9) + 45 * Pow2(a, u8) + 120 * Pow3(a, u7)
              + 210 * Pow4(a, u6) + 252 * Pow5(a, u5) + 210 * Pow6(a, u4)
              + 120 * Pow7(a, u3) + 45 * Pow8(a, u2) + 10 * Pow9(a, u1) + Pow10(a, e)
      /\ v11 = u11 + 11 * (a * u10) + 55 * Pow2(a, u9) + 165 * Pow3(a, u8)
              + 330 * Pow4(a, u7) + 462 * Pow5(a, u6) + 462 * Pow6(a, u5)
              + 330 * Pow7(a, u4) + 165 * Pow8(a, u3) + 55 * Pow9(a, u2) + 11 * Pow10(a, u1)
              + Pow11(a, e)
  <2>. HIDE DEF a, e
  <2>1. Expansion(u, a, e)
    BY <1>1, <1>2, Binomial
  <2>. QED BY <2>1 DEF Expansion
<1>. DEFINE x == Coef0(e) - Coef2(u2) + Coef4(u4) - Coef6(u6) + Coef8(u8) - Coef10(u10)
            y == Coef1(u1) - Coef3(u3) + Coef5(u5) - Coef7(u7) + Coef9(u9) - u11
            x1 == Coef0(e) - Coef2(v2) + Coef4(v4) - Coef6(v6) + Coef8(v8) - Coef10(v10)
            y1 == Coef1(v1) - Coef3(v3) + Coef5(v5) - Coef7(v7) + Coef9(v9) - v11
<1>6. CosP(u) = x /\ SinP(u) = y /\ CosP(u + a) = x1 /\ SinP(u + a) = y1 /\ unity = Coef0(e)
  BY DEF CosP, SinP, unity
<1>. HIDE DEF a, b, e,
       u1, u2, u3, u4, u5, u6, u7, u8, u9, u10, u11,
       v1, v2, v3, v4, v5, v6, v7, v8, v9, v10, v11
<1>. DEFINE Turns(p1, g, h, d) ==
              /\ -(p1 * (d * Coef0(e))) <= (p1 * (g * x) - g * y) - p1 * (h * x1)
              /\ (p1 * (g * x) - g * y) - p1 * (h * x1) <= p1 * (d * Coef0(e))
              /\ -(p1 * (d * Coef0(e))) <= (p1 * (g * y) + g * x) - p1 * (h * y1)
              /\ (p1 * (g * y) + g * x) - p1 * (h * y1) <= p1 * (d * Coef0(e))
            At(a0, b0, p1, g, h, d) == a = a0 /\ b = b0 => Turns(p1, g, h, d)
<1>7. /\ At(3294198, 0, 1, 40752048, 57632099, 7)
      /\ At(1944679, 3294198, 2, 57632099, 64434645, 3)
      /\ At(1027515, 5238877, 4, 64434645, 66417712, 16)
      /\ At(521582, 5239782, 8, 66417712, 66934589, 23)
      /\ At(261803, 4718200, 16, 66934589, 67065194, 15)
      /\ At(131029, 4456397, 32, 67065194, 67097932, 10)
      /\ At(65530, 4325368, 64, 67097932, 67106123, 19)
      /\ At(32767, 4259838, 128, 67106123, 67108170, 10)
      /\ At(16383, 4227071, 256, 67108170, 67108682, 23)
      /\ At(8191, 4210689, 512, 67108682, 67108810, 25)
      /\ At(4095, 4202497, 1024, 67108810, 67108842, 25)
      /\ At(2047, 4198402, 2048, 67108842, 67108850, 25)
      /\ At(1024, 4196355, 4096, 67108850, 67108852, 1)
      /\ At(511, 4195331, 8192, 67108852, 67108853, 26)
      /\ At(255, 4194820, 16384, 67108853, 67108853, 25)
      /\ At(128, 4194565, 32768, 67108853, 67108853, 1)
  <2>. USE <1>2, <1>3, <1>4, <1>5
  <2>. USE DEF Within, Pow2, Pow3, Pow4, Pow5, Pow6, Pow7, Pow8, Pow9, Pow10, Pow11,
                Coef0, Coef1, Coef2, Coef3, Coef4, Coef5, Coef6, Coef7, Coef8, Coef9, Coef10
  <2>1. At(3294198, 0, 1, 40752048, 57632099, 7)
    BY SMTT(60)
  <2>2. At(1944679, 3294198, 2, 57632099, 64434645, 3)
    BY SMTT(60)
  <2>3. At(1027515, 5238877, 4, 64434645, 66417712, 16)
    BY SMTT(60)
  <2>4. At(521582, 5239782, 8, 66417712, 66934589, 23)
    BY SMTT(60)
  <2>5. At(261803, 4718200, 16, 66934589, 67065194, 15)
    BY SMTT(60)
  <2>6. At(131029, 4456397, 32, 67065194, 67097932, 10)
    BY SMTT(60)
  <2>7. At(65530, 4325368, 64, 67097932, 67106123, 19)
    BY SMTT(60)
  <2>8. At(32767, 4259838, 128, 67106123, 67108170, 10)
    BY SMTT(60)
  <2>9. At(16383, 4227071, 256, 67108170, 67108682, 23)
    BY SMTT(60)
  <2>10. At(8191, 4210689, 512, 67108682, 67108810, 25)
    BY SMTT(60)
  <2>11. At(4095, 4202497, 1024, 67108810, 67108842, 25)
    BY SMTT(60)
  <2>12. At(2047, 4198402, 2048, 67108842, 67108850, 25)
    BY SMTT(60)
  <2>13. At(1024, 4196355, 4096, 67108850, 67108852, 1)
    BY SMTT(60)
  <2>14. At(511, 4195331, 8192, 67108852, 67108853, 26)
    BY SMTT(60)
  <2>15. At(255, 4194820, 16384, 67108853, 67108853, 25)
    BY SMTT(60)
  <2>16. At(128, 4194565, 32768, 67108853, 67108853, 1)
    BY SMTT(60)
  <2>. HIDE DEF Turns, At
  <2>. QED BY ONLY <2>1, <2>2, <2>3, <2>4, <2>5, <2>6, <2>7, <2>8, <2>9, <2>10, <2>11,
                  <2>12, <2>13, <2>14, <2>15, <2>16, SMT
<1>. HIDE DEF Turns
<1>8. Turns(pow2[k + 1], gain[k + 1], gain[k + 2], drift[k + 1])
  <2>1. CASE k = 0
    BY <1>7, <2>1, SMT DEF a, b, angles, reach, pow2, gain, drift
  <2>2. CASE k = 1
    BY <1>7, <2>2, SMT DEF a, b, angles, reach, pow2, gain, drift
  <2>3. CASE k = 2
    BY <1>7, <2>3, SMT DEF a, b, angles, reach, pow2, gain, drift
  <2>4. CASE k = 3
    BY <1>7, <2>4, SMT DEF a, b, angles, reach, pow2, gain, drift
  <2>5. CASE k = 4
    BY <1>7, <2>5, SMT DEF a, b, angles, reach, pow2, gain, drift
  <2>6. CASE k = 5
    BY <1>7, <2>6, SMT DEF a, b, angles, reach, pow2, gain, drift
  <2>7. CASE k = 6
    BY <1>7, <2>7, SMT DEF a, b, angles, reach, pow2, gain, drift
  <2>8. CASE k = 7
    BY <1>7, <2>8, SMT DEF a, b, angles, reach, pow2, gain, drift
  <2>9. CASE k = 8
    BY <1>7, <2>9, SMT DEF a, b, angles, reach, pow2, gain, drift
  <2>10. CASE k = 9
    BY <1>7, <2>10, SMT DEF a, b, angles, reach, pow2, gain, drift
  <2>11. CASE k = 10
    BY <1>7, <2>11, SMT DEF a, b, angles, reach, pow2, gain, drift
  <2>12. CASE k = 11
    BY <1>7, <2>12, SMT DEF a, b, angles, reach, pow2, gain, drift
  <2>13. CASE k = 12
    BY <1>7, <2>13, SMT DEF a, b, angles, reach, pow2, gain, drift
  <2>14. CASE k = 13
    BY <1>7, <2>14, SMT DEF a, b, angles, reach, pow2, gain, drift
  <2>15. CASE k = 14
    BY <1>7, <2>15, SMT DEF a, b, angles, reach, pow2, gain, drift
  <2>16. CASE k = 15
    BY <1>7, <2>16, SMT DEF a, b, angles, reach, pow2, gain, drift
  <2>. QED BY <2>1, <2>2, <2>3, <2>4, <2>5, <2>6, <2>7, <2>8, <2>9, <2>10, <2>11,
             <2>12, <2>13, <2>14, <2>15, <2>16, SMT
<1>. QED BY <1>6, <1>8 DEF Close, Turns, a

\* From what one turn makes of one number to another number close to it.
LEMMA Nearer ==
  ASSUME NEW p1 \in Nat \ {0}, NEW c \in Int, NEW e \in Int, NEW f \in Int, NEW y \in Nat,
         NEW n \in Nat, NEW d \in Nat, About(c, e, p1 * (16 * y), n),
         -(p1 * (d * y)) <= e - p1 * f, e - p1 * f <= p1 * (d * y)
  PROVE  About(c, f, 16 * y, n + d)
<1>. DEFINE z == 16 * y
            g == c * z
            N == n * z
            D == d * y
<1>1. z \in Int /\ g \in Int /\ N \in Int /\ D \in Int
  OBVIOUS
<1>2. c * (p1 * z) = p1 * g /\ n * (p1 * z) = p1 * N
  BY SMT
<1>3. (n + d) * z = N + 16 * D
  BY SMT
<1>4. -(p1 * N) <= 16 * (p1 * g - e) /\ 16 * (p1 * g - e) <= p1 * N
  BY <1>2 DEF About
<1>5. -(p1 * D) <= e - p1 * f /\ e - p1 * f <= p1 * D
  OBVIOUS
<1>. HIDE DEF z, g, N, D
<1>. DEFINE h == 16 * (g - f)
            M == N + 16 * D
<1>6. h \in Int /\ M \in Int
  BY <1>1
<1>7. p1 * h <= p1 * M /\ p1 * (-M) <= p1 * h
  BY <1>1, <1>4, <1>5, SMT
<1>8. h <= M /\ -M <= h
  <2>. HIDE DEF h, M
  <2>1. \A v, w \in Int : p1 * v <= p1 * w => v <= w
    BY SMT
  <2>2. -M \in Int
    BY <1>6
  <2>. QED BY <1>6, <1>7, <2>1, <2>2
<1>. QED BY <1>3, <1>8 DEF About, z, g

\* A vector that k engines have turned by u.
Turned(k, v, u) ==
  /\ -reach[k + 1] <= u /\ u <= reach[k + 1]
  /\ About(v.x, gain[k + 1] * CosP(u), 16 * unity, error[k + 1])
  /\ About(v.y, gain[k + 1] * SinP(u), 16 * unity, error[k + 1])

AnAngle(angle) == angle \in Int /\ -4194304 <= angle /\ angle <= 4194304

LEMMA EngineTurns ==
  ASSUME NEW k \in 0..15, NEW v, Bounds(k, v), NEW angle \in Int, AnAngle(angle),
         Turned(k, v, angle - v.w)
  PROVE  Turned(k + 1, engine(k, v), angle - engine(k, v).w)
<1>. DEFINE p1 == pow2[k + 1]
            a  == angles[k + 1]
            u  == angle - v.w
            t  == engine(k, v)
            u1 == angle - t.w
            dx == Shr(v.x, k)
            dy == Shr(v.y, k)
            m  == error[k + 1]
            n  == error[k + 2]
            d  == drift[k + 1]
            z  == 16 * unity
            c  == gain[k + 1] * CosP(u)
            s  == gain[k + 1] * SinP(u)
            c1 == gain[k + 2] * CosP(u1)
            s1 == gain[k + 2] * SinP(u1)
<1>1. v.x \in Int /\ v.y \in Int /\ v.w \in Int
  BY SMT DEF Bounds, Rotation
<1>2. a \in Nat /\ residual[k + 2] \in Nat /\ p1 \in Nat \ {0} /\ reach[k + 1] \in Nat
      /\ m \in Nat /\ n \in Nat /\ d \in Nat /\ gain[k + 1] \in Nat /\ gain[k + 2] \in Nat
  BY AngleTable, RoundingTable, SeriesTable
<1>3. \/ v.w < 0 /\ t.x = v.x + dy /\ t.y = v.y - dx /\ t.w = v.w + a
      \/ ~(v.w < 0) /\ t.x = v.x - dy /\ t.y = v.y + dx /\ t.w = v.w - a
  BY EngineBounded, SMT DEF unwrapped
<1>4. t.w \in Int /\ -residual[k + 2] <= t.w /\ t.w <= residual[k + 2]
  <2>1. Bounds(k + 1, t) /\ (k + 1) + 1 = k + 2
    BY EngineBounded
  <2>. HIDE DEF t
  <2>. QED BY <1>2, <2>1, SMT DEF Bounds, Rotation, Abs
<1>. HIDE DEF p1, a, t, dx, dy, m, n, d
<1>5. u \in Int /\ u1 \in Int /\ (v.w < 0 => u1 = u - a) /\ (~(v.w < 0) => u1 = u + a)
  BY <1>1, <1>2, <1>3, <1>4, SMT
<1>6. -reach[k + 1] <= u /\ u <= reach[k + 1] /\ About(v.x, c, z, m) /\ About(v.y, s, z, m)
  BY DEF Turned, m
<1>7. -reach[k + 2] <= u1 /\ u1 <= reach[k + 2]
  <2>1. \/ reach[k + 1] + a <= reach[k + 2]
        \/ 4194304 + residual[k + 2] <= reach[k + 2]
    BY SeriesTable DEF a
  <2>2. reach[k + 2] \in Int
    BY SMT DEF reach
  <2>. QED BY <1>2, <1>4, <1>5, <1>6, <2>1, <2>2, SMT DEF AnAngle
<1>. HIDE DEF u, u1
<1>8. About(t.x, c1, z, n) /\ About(t.y, s1, z, n)
  <2>1. p1 * m + m + 16 * (p1 - 1) <= p1 * (n - d)
    BY SeriesTable DEF p1, m, n, d
  <2>2. n - d \in Nat /\ (n - d) + d = n
    <3>1. 0 <= p1 * (n - d)
      BY <1>2, <2>1, SMT
    <3>. QED BY <1>2, <3>1, SMT
  <2>3. c \in Int /\ s \in Int /\ c1 \in Int /\ s1 \in Int /\ z \in Nat
    BY <1>2, <1>5, SeriesWhole, UnityPositive
  <2>4. dx \in Int /\ 0 <= v.x - p1 * dx /\ v.x - p1 * dx <= p1 - 1
        /\ dy \in Int /\ 0 <= v.y - p1 * dy /\ v.y - p1 * dy <= p1 - 1
    BY <1>1, ShrRest DEF p1, dx, dy
  <2>. DEFINE l == n - d
  <2>5. l \in Nat /\ p1 * m + m + 16 * (p1 - 1) <= p1 * l
    BY <2>1, <2>2
  <2>. HIDE DEF c, s, c1, s1, z, l
  <2>6. /\ About(v.x - dy, p1 * c - s, p1 * z, l) /\ About(v.x + dy, p1 * c + s, p1 * z, l)
    BY <1>1, <1>2, <1>6, <2>3, <2>4, <2>5, TurnRounds, Zenon
  <2>7. /\ About(v.y - dx, p1 * s - c, p1 * z, l) /\ About(v.y + dx, p1 * s + c, p1 * z, l)
    BY <1>1, <1>2, <1>6, <2>3, <2>4, <2>5, TurnRounds, Zenon
  <2>8. /\ unity \in Nat /\ z = 16 * unity /\ l + d = n
        /\ p1 * (d * unity) \in Int
    BY <1>2, <2>2, UnityPositive, SMT DEF z, l
  <2>9. CASE v.w < 0
    <3>1. t.x = v.x + dy /\ t.y = v.y - dx /\ u1 = u - a
      BY <1>3, <1>5, <2>9
    <3>2. Close(p1, gain[k + 1], gain[k + 2], d,
                CosP(-u), SinP(-u), CosP(-u + a), SinP(-u + a))
      <4>1. -u \in Int /\ -reach[k + 1] <= -u /\ -u <= reach[k + 1]
        BY <1>2, <1>5, <1>6, SMT
      <4>. QED BY <4>1, SeriesTurn DEF p1, a, d
    <3>3. /\ CosP(-u) = CosP(u) /\ SinP(-u) = -SinP(u)
          /\ CosP(-u + a) = CosP(u1) /\ SinP(-u + a) = -SinP(u1)
      <4>1. -u + a = -u1
        BY <1>2, <1>5, <3>1, SMT
      <4>. QED BY <1>5, <4>1, SeriesWhole
    <3>4. /\ -(p1 * (d * unity)) <= (p1 * c - (-s)) - p1 * c1
          /\ (p1 * c - (-s)) - p1 * c1 <= p1 * (d * unity)
          /\ -(p1 * (d * unity)) <= (p1 * (-s) + c) - p1 * (-s1)
          /\ (p1 * (-s) + c) - p1 * (-s1) <= p1 * (d * unity)
      <4>1. gain[k + 1] * SinP(-u) = -s /\ gain[k + 2] * SinP(-u + a) = -s1
        BY <1>2, <1>5, <3>3, SeriesWhole, SMT DEF s, s1
      <4>2. gain[k + 1] * CosP(-u) = c /\ gain[k + 2] * CosP(-u + a) = c1
        BY <3>3 DEF c, c1
      <4>. QED BY <3>2, <4>1, <4>2 DEF Close, p1, d, a
    <3>5. /\ -(p1 * (d * unity)) <= (p1 * c + s) - p1 * c1
          /\ (p1 * c + s) - p1 * c1 <= p1 * (d * unity)
          /\ -(p1 * (d * unity)) <= (p1 * s - c) - p1 * s1
          /\ (p1 * s - c) - p1 * s1 <= p1 * (d * unity)
      BY <1>2, <2>3, <2>8, <3>4, SMT
    <3>6. p1 * c + s \in Int /\ p1 * s - c \in Int /\ v.x + dy \in Int /\ v.y - dx \in Int
      BY <1>1, <1>2, <2>3, <2>4
    <3>7. About(v.x + dy, c1, 16 * unity, l + d) /\ About(v.y - dx, s1, 16 * unity, l + d)
      BY <1>2, <2>3, <2>5, <2>6, <2>7, <2>8, <3>5, <3>6, Nearer, Zenon
    <3>. QED BY <2>8, <3>1, <3>7
  <2>10. CASE ~(v.w < 0)
    <3>1. t.x = v.x - dy /\ t.y = v.y + dx /\ u1 = u + a
      BY <1>3, <1>5, <2>10
    <3>2. Close(p1, gain[k + 1], gain[k + 2], d, CosP(u), SinP(u), CosP(u + a), SinP(u + a))
      BY <1>5, <1>6, SeriesTurn DEF p1, a, d
    <3>3. /\ -(p1 * (d * unity)) <= (p1 * c - s) - p1 * c1
          /\ (p1 * c - s) - p1 * c1 <= p1 * (d * unity)
          /\ -(p1 * (d * unity)) <= (p1 * s + c) - p1 * s1
          /\ (p1 * s + c) - p1 * s1 <= p1 * (d * unity)
      BY <3>1, <3>2, Zenon DEF Close, p1, d, a, c, s, c1, s1
    <3>4. p1 * c - s \in Int /\ p1 * s + c \in Int /\ v.x - dy \in Int /\ v.y + dx \in Int
      BY <1>1, <1>2, <2>3, <2>4
    <3>5. About(v.x - dy, c1, 16 * unity, l + d) /\ About(v.y + dx, s1, 16 * unity, l + d)
      BY <1>2, <2>3, <2>5, <2>6, <2>7, <2>8, <3>3, <3>4, Nearer, Zenon
    <3>. QED BY <2>8, <3>1, <3>5
  <2>. QED BY <2>9, <2>10
<1>9. (k + 1) + 1 = k + 2
  OBVIOUS
<1>. QED BY <1>7, <1>8, <1>9 DEF Turned, t, n, u1

\* However far the engines are, they have turned the vector by what is gone of the angle.
TurnedSoFar == Turned(i, r, sdiv(unpacker(data)) - r.w)

TurnInv == CordicInv /\ TurnedSoFar

LEMMA StartTurned ==
  ASSUME NEW angle \in Int
  PROVE  Turned(0, Start(angle), angle - Start(angle).w)
<1>. DEFINE z == 16 * unity
            v == Start(angle)
<1>1. v.x = LIMIT /\ v.y = 0 /\ angle - v.w = 0
  BY SMT DEF Start
<1>2. CosP(0) = unity /\ SinP(0) = 0
  <2>1. \A x \in Int : 0 * x = 0
    OBVIOUS
  <2>2. unit \in Int /\ unity \in Int
    BY UnitIsOne, UnityPositive
  <2>3. 0 * unit = 0 /\ Pow2(0, unit) = 0 /\ Pow3(0, unit) = 0 /\ Pow4(0, unit) = 0
        /\ Pow5(0, unit) = 0 /\ Pow6(0, unit) = 0 /\ Pow7(0, unit) = 0 /\ Pow8(0, unit) = 0
        /\ Pow9(0, unit) = 0 /\ Pow10(0, unit) = 0 /\ Pow11(0, unit) = 0
    BY <2>1, <2>2, PowersWhole
       DEF Pow2, Pow3, Pow4, Pow5, Pow6, Pow7, Pow8, Pow9, Pow10, Pow11
  <2>4. Coef10(0) = 0 /\ Coef9(0) = 0 /\ Coef8(0) = 0 /\ Coef7(0) = 0 /\ Coef6(0) = 0
        /\ Coef5(0) = 0 /\ Coef4(0) = 0 /\ Coef3(0) = 0 /\ Coef2(0) = 0 /\ Coef1(0) = 0
    BY SMT DEF Coef10, Coef9, Coef8, Coef7, Coef6, Coef5, Coef4, Coef3, Coef2, Coef1
  <2>. QED BY <2>2, <2>3, <2>4, SMT DEF CosP, SinP
<1>3. reach[0 + 1] = 0 /\ gain[0 + 1] = 16 * LIMIT /\ error[0 + 1] = 0
  BY SMT DEF reach, gain, error, LIMIT
<1>4. About(LIMIT, (16 * LIMIT) * unity, z, 0) /\ About(0, (16 * LIMIT) * 0, z, 0)
  BY UnityPositive, SMT DEF About, LIMIT
<1>. HIDE DEF v
<1>5. Turned(0, v, angle - v.w)
  BY <1>1, <1>2, <1>3, <1>4 DEF Turned
<1>. QED BY <1>5 DEF v

LEMMA TurnStarts == CordicInit => TurnInv
<1>. SUFFICES ASSUME CordicInit PROVE TurnInv
  OBVIOUS
<1>1. data \in Float /\ i = 0 /\ r = Start(sdiv(unpacker(data)))
  BY InputsInRange DEF CordicInit
<1>2. sdiv(unpacker(data)) \in Int
  BY <1>1, AngleInRange
<1>. QED BY <1>1, <1>2, StartTurned, RotationStarts DEF TurnInv, TurnedSoFar

LEMMA TurnStep == TurnInv /\ [Rotate]_cordicVars => TurnInv'
<1>. SUFFICES ASSUME TurnInv, [Rotate]_cordicVars PROVE TurnInv'
  OBVIOUS
<1>0. CordicInv'
  BY RotationStep DEF TurnInv
<1>1. CASE Rotate
  <2>. DEFINE angle == sdiv(unpacker(data))
  <2>1. i \in 0..15 /\ i' = i + 1 /\ data' = data /\ r' = engine(i, r)
    BY <1>1, SMT DEF TurnInv, CordicInv, TypeOK, Rotate, iterations
  <2>2. angle \in Int /\ AnAngle(angle)
    <3>1. data \in Float
      BY DEF TurnInv, CordicInv, TypeOK
    <3>. QED BY <3>1, AngleInRange DEF AnAngle
  <2>3. Bounds(i, r) /\ Turned(i, r, angle - r.w)
    BY DEF TurnInv, TurnedSoFar, CordicInv
  <2>. HIDE DEF angle
  <2>4. Turned(i + 1, engine(i, r), angle - engine(i, r).w)
    BY <2>1, <2>2, <2>3, EngineTurns
  <2>5. angle = sdiv(unpacker(data'))
    BY <2>1 DEF angle
  <2>. QED BY <1>0, <2>1, <2>4, <2>5 DEF TurnInv, TurnedSoFar
<1>2. CASE UNCHANGED cordicVars
  BY <1>0, <1>2 DEF cordicVars, TurnInv, TurnedSoFar
<1>. QED BY <1>1, <1>2

\* So for every input and after every engine: the vector is the cosine and the sine, as long
\* as gain says and but for error, of the angle that has been turned.
THEOREM EnginesRotate == CordicSpec => []TurnedSoFar
<1>1. TurnInv => TurnedSoFar
  BY DEF TurnInv
<1>. QED BY <1>1, TurnStarts, TurnStep, PTL DEF CordicSpec

-----------------------------------------------------------------------------
\* The cosines of angles that are close are close.

\* The differences of the powers of two squares, a and b, as the exponent grows.
Apart(q, a, b, m, n) ==
  /\ b * n <= a * m
  /\ a * m - b * n <= 2 * (q * (m - n))
  /\ (a - b) * (b * n) <= b * (a * m - b * n)

LEMMA Gap ==
  ASSUME NEW q \in Nat, NEW a \in Nat, a <= q, NEW b \in Nat, b <= a,
         NEW m \in Nat, NEW n \in Nat, n <= m, (a - b) * n <= b * (m - n)
  PROVE  Apart(q, a, b, m, n)
<1>. DEFINE d == m - n
            f == (a - b) * n
<1>1. d \in Nat /\ f \in Nat /\ f <= b * d
  <2>1. a - b \in Nat
    OBVIOUS
  <2>. QED BY <2>1, SMT
<1>2. a * m - b * n = a * d + f
  BY SMT
<1>3. (a - b) * (b * n) = b * f
  BY SMT
<1>4. a * m \in Int /\ b * n \in Int
  OBVIOUS
<1>. HIDE DEF d, f
<1>5. a * d <= q * d /\ b * d <= q * d /\ 0 <= a * d
  <2>1. \A v, w \in Nat : v <= w => v * d <= w * d
    BY <1>1, SMT
  <2>. QED BY <1>1, <2>1, SMT
<1>6. b * f <= b * (a * d + f)
  <2>1. f <= a * d + f /\ a * d \in Int
    BY <1>1, <1>5, SMT
  <2>2. \A v, w \in Int : v <= w => b * v <= b * w
    BY SMT
  <2>3. a * d + f \in Int
    BY <1>1, <2>1
  <2>. QED BY <1>1, <2>1, <2>2, <2>3
<1>7. a * d + f <= 2 * (q * d)
  BY <1>1, <1>5, SMT
<1>8. 0 <= a * d + f
  BY <1>1, <1>5, SMT
<1>9. b * n <= a * m
  BY <1>2, <1>4, <1>8, SMT
<1>. QED BY <1>2, <1>3, <1>6, <1>7, <1>9 DEF Apart, d

LEMMA EvenPowers ==
  ASSUME NEW w \in Int, NEW e \in Int
  PROVE  /\ Pow2(w, e) = (w * w) * e
         /\ Pow4(w, e) = (w * w) * ((w * w) * e)
         /\ Pow6(w, e) = (w * w) * ((w * w) * ((w * w) * e))
         /\ Pow8(w, e) = (w * w) * ((w * w) * ((w * w) * ((w * w) * e)))
         /\ Pow10(w, e) = (w * w) * ((w * w) * ((w * w) * ((w * w) * ((w * w) * e))))
<1>1. \A x \in Int : w * (w * x) = (w * w) * x
  BY SMT
<1>2. /\ Pow2(w, e) \in Int /\ Pow4(w, e) \in Int /\ Pow6(w, e) \in Int
      /\ Pow8(w, e) \in Int
  BY PowersWhole
<1>3. Pow2(w, e) = (w * w) * e
  BY <1>1 DEF Pow2
<1>4. Pow4(w, e) = (w * w) * Pow2(w, e)
  BY <1>1, <1>2 DEF Pow4, Pow3
<1>5. Pow6(w, e) = (w * w) * Pow4(w, e)
  BY <1>1, <1>2 DEF Pow6, Pow5
<1>6. Pow8(w, e) = (w * w) * Pow6(w, e)
  BY <1>1, <1>2 DEF Pow8, Pow7
<1>7. Pow10(w, e) = (w * w) * Pow8(w, e)
  BY <1>1, <1>2 DEF Pow10, Pow9
<1>. QED BY <1>3, <1>4, <1>5, <1>6, <1>7

Near(u) == u \in Int /\ -4194502 <= u /\ u <= 4194502

LEMMA CosFalls ==
  ASSUME NEW u \in Int, Near(u), NEW v \in Int, Near(v), v * v <= u * u,
         -198 <= u - v, u - v <= 198
  PROVE  /\ 0 <= CosP(v) - CosP(u)
         /\ 4194304 * (CosP(v) - CosP(u)) <= 199 * unity
<1>. DEFINE e == unit
            q == 4194502
            a == u * u
            b == v * v
            m1 == a * e
            m2 == a * m1
            m3 == a * m2
            m4 == a * m3
            m5 == a * m4
            n1 == b * e
            n2 == b * n1
            n3 == b * n2
            n4 == b * n3
            n5 == b * n4
<1>1. e \in Nat /\ e \in Int /\ q \in Nat
  BY UnitIsOne, SMT
<1>. HIDE DEF q
<1>2. /\ CosP(u) = Coef0(e) - Coef2(m1) + Coef4(m2) - Coef6(m3) + Coef8(m4) - Coef10(m5)
      /\ CosP(v) = Coef0(e) - Coef2(n1) + Coef4(n2) - Coef6(n3) + Coef8(n4) - Coef10(n5)
  BY <1>1, EvenPowers DEF CosP, unity
<1>. HIDE DEF e
<1>3. a \in Nat /\ b \in Nat /\ b <= a /\ a <= q * q /\ q * q \in Nat
  <2>1. -q <= u /\ u <= q
    BY SMT DEF Near, q
  <2>2. u * u <= q * q
    BY <1>1, <2>1, ProductBound
  <2>3. \A w \in Int : w * w \in Nat
    BY SMT
  <2>. QED BY <1>1, <2>2, <2>3
<1>4. m1 - n1 <= 198 * (2 * (4194502 * e))
  <2>1. -198 <= u - v /\ u - v <= 198 /\ -(2 * q) <= u + v /\ u + v <= 2 * q
    BY SMT DEF Near, q
  <2>2. (u - v) * (u + v) <= 198 * (2 * q)
    <3>1. u - v \in Int /\ u + v \in Int /\ 198 \in Nat /\ 2 * q \in Nat
      BY <1>1
    <3>. QED BY <2>1, <3>1, ProductBound
  <2>3. a - b = (u - v) * (u + v)
    BY SMT
  <2>4. a - b <= 198 * (2 * q)
    BY <2>2, <2>3
  <2>. HIDE DEF a, b
  <2>5. m1 - n1 = (a - b) * e
    BY <1>1, <1>3, SMT
  <2>6. (a - b) * e <= (198 * (2 * q)) * e
    <3>1. \A x, y \in Int : x <= y => x * e <= y * e
      BY <1>1, SMT
    <3>. QED BY <1>1, <1>3, <2>4, <3>1
  <2>7. (198 * (2 * q)) * e = 198 * (2 * (q * e))
    BY <1>1, SMT
  <2>8. m1 - n1 <= 198 * (2 * (q * e))
    BY <2>5, <2>6, <2>7
  <2>. QED BY <2>8, SMT DEF q
<1>. HIDE DEF a, b
<1>5. \A x \in Int : 2 * ((q * q) * x) = 2 * (q * (q * x))
  BY <1>1, SMT
<1>6. /\ m1 \in Nat /\ n1 \in Nat /\ m2 \in Nat /\ n2 \in Nat /\ m3 \in Nat /\ n3 \in Nat
      /\ m4 \in Nat /\ n4 \in Nat /\ m5 \in Nat /\ n5 \in Nat
  <2>1. \A x, y \in Nat : x * y \in Nat
    OBVIOUS
  <2>. QED BY <1>1, <1>3, <2>1
<1>7. n1 <= m1 /\ (a - b) * n1 <= b * (m1 - n1)
  <2>1. m1 - n1 = (a - b) * e /\ a - b \in Nat
    BY <1>1, <1>3, SMT
  <2>2. (a - b) * n1 = b * ((a - b) * e)
    BY <1>1, <1>3, SMT
  <2>3. 0 <= (a - b) * e
    BY <1>1, <2>1, SMT
  <2>4. n1 <= m1
    BY <1>6, <2>1, <2>3, SMT
  <2>. QED BY <1>6, <2>1, <2>2, <2>4
<1>. HIDE DEF m1, n1
<1>8. n2 <= m2 /\ m2 - n2 <= 2 * (q * (q * (m1 - n1))) /\ (a - b) * n2 <= b * (m2 - n2)
  <2>1. Apart(q * q, a, b, m1, n1)
    BY <1>3, <1>6, <1>7, Gap
  <2>2. m1 - n1 \in Int
    BY <1>6
  <2>. QED BY <1>5, <2>1, <2>2, Zenon DEF Apart
<1>. HIDE DEF m2, n2
<1>9. n3 <= m3 /\ m3 - n3 <= 2 * (q * (q * (m2 - n2))) /\ (a - b) * n3 <= b * (m3 - n3)
  <2>1. Apart(q * q, a, b, m2, n2)
    BY <1>3, <1>6, <1>8, Gap
  <2>2. m2 - n2 \in Int
    BY <1>6
  <2>. QED BY <1>5, <2>1, <2>2, Zenon DEF Apart
<1>. HIDE DEF m3, n3
<1>10. n4 <= m4 /\ m4 - n4 <= 2 * (q * (q * (m3 - n3))) /\ (a - b) * n4 <= b * (m4 - n4)
  <2>1. Apart(q * q, a, b, m3, n3)
    BY <1>3, <1>6, <1>9, Gap
  <2>2. m3 - n3 \in Int
    BY <1>6
  <2>. QED BY <1>5, <2>1, <2>2, Zenon DEF Apart
<1>. HIDE DEF m4, n4
<1>11. n5 <= m5 /\ m5 - n5 <= 2 * (q * (q * (m4 - n4)))
  <2>1. Apart(q * q, a, b, m4, n4)
    BY <1>3, <1>6, <1>10, Gap
  <2>2. m4 - n4 \in Int
    BY <1>6
  <2>. QED BY <1>5, <2>1, <2>2, Zenon DEF Apart
<1>. HIDE DEF m5, n5
<1>. DEFINE x == Coef0(e) - Coef2(m1) + Coef4(m2) - Coef6(m3) + Coef8(m4) - Coef10(m5)
            y == Coef0(e) - Coef2(n1) + Coef4(n2) - Coef6(n3) + Coef8(n4) - Coef10(n5)
<1>12. 0 <= y - x /\ 4194304 * (y - x) <= 199 * Coef0(e)
  BY <1>1, <1>4, <1>6, <1>7, <1>8, <1>9, <1>10, <1>11, SMTT(60)
     DEF q, Coef0, Coef1, Coef2, Coef3, Coef4, Coef5, Coef6, Coef7, Coef8, Coef9, Coef10
<1>13. Coef0(e) = unity
  BY DEF unity, e
<1>. HIDE DEF x, y
<1>14. CosP(u) = x /\ CosP(v) = y
  BY ONLY <1>2 DEF x, y
<1>. QED BY <1>12, <1>13, <1>14, SMT

LEMMA CosFlat ==
  ASSUME NEW u \in Int, Near(u), NEW v \in Int, Near(v), -198 <= u - v, u - v <= 198
  PROVE  /\ -(199 * unity) <= 4194304 * (CosP(v) - CosP(u))
         /\ 4194304 * (CosP(v) - CosP(u)) <= 199 * unity
<1>1. CosP(u) \in Int /\ CosP(v) \in Int /\ unity \in Nat
  BY SeriesWhole, UnityPositive
<1>2. CASE v * v <= u * u
  <2>1. 0 <= CosP(v) - CosP(u) /\ 4194304 * (CosP(v) - CosP(u)) <= 199 * unity
    BY <1>2, CosFalls
  <2>. QED BY <1>1, <2>1, SMT
<1>3. CASE u * u <= v * v
  <2>1. 0 <= CosP(u) - CosP(v) /\ 4194304 * (CosP(u) - CosP(v)) <= 199 * unity
    <3>1. -198 <= v - u /\ v - u <= 198
      BY SMT
    <3>. QED BY <1>3, <3>1, CosFalls
  <2>. QED BY <1>1, <2>1, SMT
<1>4. v * v <= u * u \/ u * u <= v * v
  BY SMT
<1>. QED BY <1>2, <1>3, <1>4

-----------------------------------------------------------------------------
\* The reference is close to the cosine. It is the polynomial of degree 8 in Horner's form,
\* whose every stage rounds: c is H / Z but for -lo / 64 and hi / 64.
Off(c, Z, H, lo, hi) == -(lo * Z) <= 64 * (c * Z - H) /\ 64 * (c * Z - H) <= hi * Z

\* One stage. S stands for 1, q for the square of the angle, which s is rounded, m for the
\* product of s and c, rounded, and d for its n-th part, rounded down.
LEMMA Stage ==
  ASSUME NEW S \in Nat \ {0}, NEW q \in Nat, q <= S * S, NEW s \in Nat,
         NEW c \in Nat, c <= S, NEW m \in Int, NEW n \in Nat \ {0}, NEW d \in Int,
         NEW Z \in Nat, NEW H \in Int,
         NEW lo \in Nat, NEW hi \in Nat, NEW lo1 \in Nat, NEW hi1 \in Nat,
         -S <= 2 * (S * s - q), 2 * (S * s - q) <= S,
         -S <= 2 * (S * m - s * c), 2 * (S * m - s * c) <= S,
         0 <= m - n * d, m - n * d <= n - 1,
         Off(c, Z, H, lo, hi), hi + 64 <= n * lo1, lo + 64 * n <= n * hi1
  PROVE  Off(S - d, n * (S * (S * Z)), n * (S * (S * (S * Z))) - q * H, lo1, hi1)
<1>. DEFINE K == S * S
            a == S * s - q
            b == S * m - s * c
            f == m - n * d
            G == (K * f - a * c) - S * b
            R == c * Z - H
            Y == K * Z
            Z1 == n * (S * (S * Z))
            H1 == n * (S * (S * (S * Z))) - q * H
<1>1. /\ K \in Nat /\ a \in Int /\ b \in Int /\ f \in Nat /\ f <= n - 1 /\ R \in Int
      /\ Y \in Nat /\ G \in Int
  <2>1. \A x, y \in Nat : x * y \in Nat
    OBVIOUS
  <2>2. K \in Nat /\ a \in Int /\ b \in Int /\ f \in Nat /\ f <= n - 1 /\ R \in Int
    BY <2>1
  <2>. HIDE DEF K, a, b, f, R
  <2>. QED BY <2>1, <2>2
<1>2. (S - d) * Z1 - H1 = G * Z - q * R
  <2>. DEFINE x == n * d
  <2>1. x \in Int
    OBVIOUS
  <2>2. (S - d) * Z1 = n * (S * (S * (S * Z))) - x * Y
    BY SMT
  <2>3. G = q * c - x * K
    <3>. HIDE DEF x
    <3>1. a * c = S * (s * c) - q * c
      BY SMT
    <3>2. S * b = K * m - S * (s * c)
      BY SMT
    <3>3. K * f = K * m - x * K
      BY <2>1, SMT DEF x
    <3>4. G = (K * f - a * c) - S * b
      OBVIOUS
    <3>5. q * c \in Int /\ K * m \in Int /\ x * K \in Int /\ S * (s * c) \in Int
      BY <1>1, <2>1
    <3>. HIDE DEF K, a, b, f, G
    <3>. QED BY <3>1, <3>2, <3>3, <3>4, <3>5, SMT
  <2>4. (q * c - x * K) * Z = q * (c * Z) - x * Y
    BY SMT
  <2>5. q * R = q * (c * Z) - q * H
    BY SMT
  <2>6. q * (c * Z) \in Int /\ x * Y \in Int /\ q * H \in Int
        /\ n * (S * (S * (S * Z))) \in Int
    BY <1>1
  <2>. HIDE DEF x, Z1, G, R, Y, K
  <2>7. (S - d) * Z1 - H1 = q * H - x * Y
    BY <2>2, <2>6, SMT
  <2>8. G * Z - q * R = q * H - x * Y
    BY <2>3, <2>4, <2>5, <2>6, SMT
  <2>. QED BY <2>7, <2>8
<1>3. -K <= 2 * (a * c) /\ 2 * (a * c) <= K
  <2>1. -S <= 2 * a /\ 2 * a <= S /\ -S <= c /\ c <= S /\ 2 * a \in Int
    BY <1>1
  <2>2. -(S * S) <= (2 * a) * c /\ (2 * a) * c <= S * S
    <3>. HIDE DEF a
    <3>. QED BY <2>1, ProductBound
  <2>3. (2 * a) * c = 2 * (a * c)
    <3>. HIDE DEF a
    <3>. QED BY <1>1, SMT
  <2>. QED BY <2>2, <2>3
<1>4. -K <= 2 * (S * b) /\ 2 * (S * b) <= K
  <2>1. -S <= 2 * b /\ 2 * b <= S /\ -S <= S /\ S <= S /\ 2 * b \in Int
    BY <1>1
  <2>2. -(S * S) <= S * (2 * b) /\ S * (2 * b) <= S * S
    <3>. HIDE DEF b
    <3>. QED BY <2>1, ProductBound
  <2>3. S * (2 * b) = 2 * (S * b)
    <3>. HIDE DEF b
    <3>. QED BY <1>1, SMT
  <2>. QED BY <2>2, <2>3
<1>5. 0 <= K * f /\ K * f <= K * n - K
  <2>. HIDE DEF K, f
  <2>1. K * (n - 1) = K * n - K
    BY <1>1, SMT
  <2>2. K * f <= K * (n - 1)
    BY <1>1, SMT
  <2>3. 0 <= K * f
    BY <1>1, SMT
  <2>. QED BY <2>1, <2>2, <2>3
<1>6. -K <= G /\ G <= K * n
  <2>1. a * c \in Int /\ S * b \in Int /\ K * f \in Int /\ K * n \in Int
    BY <1>1
  <2>. DEFINE x == a * c
              y == S * b
              w == K * f
              v == K * n
  <2>2. G = (w - x) - y
    OBVIOUS
  <2>. HIDE DEF G, K, x, y, w, v
  <2>. QED BY <1>1, <1>3, <1>4, <1>5, <2>1, <2>2, SMT DEF x, y, w, v
<1>7. -(hi * Y) <= -(64 * (q * R)) /\ -(64 * (q * R)) <= lo * Y
  <2>. DEFINE x == 64 * R
  <2>1. x \in Int /\ -(lo * Z) <= x /\ x <= hi * Z
    BY <1>1 DEF Off
  <2>2. \A y \in Nat : q * y <= K * y
    BY <1>1, SMT
  <2>. HIDE DEF R, K
  <2>3. q * x = 64 * (q * R)
    BY <1>1, SMT
  <2>. HIDE DEF x
  <2>4. lo * Z \in Nat /\ hi * Z \in Nat
    OBVIOUS
  <2>5. -(q * (lo * Z)) <= q * x /\ q * x <= q * (hi * Z)
    <3>1. \A y, w \in Int : y <= w => q * y <= q * w
      BY SMT
    <3>2. q * (-(lo * Z)) = -(q * (lo * Z))
      BY SMT
    <3>. QED BY <2>1, <2>4, <3>1, <3>2
  <2>6. q * (lo * Z) <= K * (lo * Z) /\ q * (hi * Z) <= K * (hi * Z)
    BY <2>2, <2>4
  <2>7. K * (lo * Z) = lo * Y /\ K * (hi * Z) = hi * Y
    BY <1>1, SMT
  <2>8. q * (lo * Z) \in Int /\ q * (hi * Z) \in Int /\ q * x \in Int
        /\ lo * Y \in Int /\ hi * Y \in Int
    BY <1>1, <2>1
  <2>. HIDE DEF Y
  <2>. QED BY <2>3, <2>5, <2>6, <2>7, <2>8, SMT
<1>8. -Y <= G * Z /\ G * Z <= n * Y
  <2>. HIDE DEF K, G
  <2>1. \A y, w \in Int : y <= w => y * Z <= w * Z
    BY SMT
  <2>2. (-K) * Z = -Y /\ (K * n) * Z = n * Y
    BY <1>1, SMT
  <2>3. -K \in Int /\ K * n \in Int
    BY <1>1
  <2>. QED BY <1>1, <1>6, <2>1, <2>2, <2>3
<1>9. Z1 = n * Y /\ lo1 * Z1 = (n * lo1) * Y /\ hi1 * Z1 = (n * hi1) * Y
  <2>1. Z1 = n * Y
    BY SMT
  <2>. HIDE DEF Z1, Y
  <2>. QED BY <1>1, <2>1, SMT
<1>. HIDE DEF K, a, b, f, G, R, Y, Z1, H1
<1>10. (hi + 64) * Y <= (n * lo1) * Y /\ (lo + 64 * n) * Y <= (n * hi1) * Y
  <2>1. \A y, w \in Int : y <= w => y * Y <= w * Y
    BY <1>1, SMT
  <2>. QED BY <2>1
<1>11. (hi + 64) * Y = hi * Y + 64 * Y /\ (lo + 64 * n) * Y = lo * Y + 64 * (n * Y)
  BY <1>1, SMT
<1>12. 64 * ((S - d) * Z1 - H1) = 64 * (G * Z) - 64 * (q * R)
  <2>1. G * Z \in Int /\ q * R \in Int
    BY <1>1
  <2>. QED BY <1>2, <2>1, SMT
<1>13. Off(S - d, Z1, H1, lo1, hi1)
  <2>1. G * Z \in Int /\ q * R \in Int /\ n * Y \in Int /\ lo * Y \in Int /\ hi * Y \in Int
        /\ (n * lo1) * Y \in Int /\ (n * hi1) * Y \in Int
    BY <1>1
  <2>. QED BY <1>1, <1>7, <1>8, <1>9, <1>10, <1>11, <1>12, <2>1, SMT DEF Off
<1>. QED BY <1>13 DEF Z1, H1

\* 1 of the reference.
one == 32768

Ones2(x) == one * (one * x)
Ones3(x) == one * Ones2(x)

\* What each stage of the reference is a fraction of, and the fraction's numerator; e stands
\* for 1 and q for the square of the angle.
Denom6(e) == 56 * Ones2(e)
Denom4(e) == 30 * Ones2(Denom6(e))
Denom2(e) == 12 * Ones2(Denom4(e))
Denom0(e) == 2 * Ones2(Denom2(e))
Numer6(q, e) == 56 * Ones3(e) - q * (one * e)
Numer4(q, e) == 30 * Ones3(Denom6(e)) - q * Numer6(q, e)
Numer2(q, e) == 12 * Ones3(Denom4(e)) - q * Numer4(q, e)
Numer0(q, e) == 2 * Ones3(Denom2(e)) - q * Numer2(q, e)

LEMMA OneIs == one \in Nat \ {0} /\ one = 32768
BY SMT DEF one

LEMMA FractionsWhole ==
  ASSUME NEW q \in Int, NEW e \in Nat
  PROVE  /\ Denom6(e) \in Nat /\ Denom4(e) \in Nat /\ Denom2(e) \in Nat /\ Denom0(e) \in Nat
         /\ Numer6(q, e) \in Int /\ Numer4(q, e) \in Int /\ Numer2(q, e) \in Int
         /\ Numer0(q, e) \in Int
<1>1. \A n, x \in Nat : n * (one * (one * x)) \in Nat /\ n * (one * (one * (one * x))) \in Nat
  BY OneIs
<1>2. Denom6(e) \in Nat /\ Denom4(e) \in Nat /\ Denom2(e) \in Nat /\ Denom0(e) \in Nat
  <2>1. Denom6(e) \in Nat
    BY <1>1 DEF Denom6, Ones2
  <2>2. Denom4(e) \in Nat
    BY <1>1, <2>1 DEF Denom4, Ones2
  <2>3. Denom2(e) \in Nat
    BY <1>1, <2>2 DEF Denom2, Ones2
  <2>. QED BY <1>1, <2>1, <2>2, <2>3 DEF Denom0, Ones2
<1>3. Numer6(q, e) \in Int
  BY <1>1, OneIs DEF Numer6, Ones3, Ones2
<1>4. Numer4(q, e) \in Int
  BY <1>1, <1>2, <1>3 DEF Numer4, Ones3, Ones2
<1>5. Numer2(q, e) \in Int
  BY <1>1, <1>2, <1>4 DEF Numer2, Ones3, Ones2
<1>6. Numer0(q, e) \in Int
  BY <1>1, <1>2, <1>5 DEF Numer0, Ones3, Ones2
<1>. QED BY <1>2, <1>3, <1>4, <1>5, <1>6

\* Mul rounds to the nearest.
LEMMA Rounded ==
  ASSUME NEW a \in Int, NEW b \in Int
  PROVE  /\ Mul(a, b) \in Int
         /\ -one <= 2 * (one * Mul(a, b) - a * b) /\ 2 * (one * Mul(a, b) - a * b) <= one
<1>. DEFINE x == a * b
            m == (x + 16384) \div 32768
<1>1. x \in Int /\ Mul(a, b) = m
  BY DEF Mul
<1>. HIDE DEF x
<1>2. m \in Int /\ -32768 <= 2 * (32768 * m - x) /\ 2 * (32768 * m - x) <= 32768
  BY <1>1, SMT
<1>. QED BY <1>1, <1>2, OneIs, SMT DEF x

LEMMA RoundedFraction ==
  ASSUME NEW a \in Nat, a <= one, NEW b \in Nat, b <= one
  PROVE  Mul(a, b) \in Nat /\ Mul(a, b) <= one
<1>1. a * b \in Nat /\ a * b <= one * one
  <2>1. -one <= a /\ -one <= b /\ one \in Nat
    BY OneIs, SMT
  <2>. QED BY <2>1, ProductBound
<1>. DEFINE x == a * b
            m == Mul(a, b)
<1>2. m \in Int /\ -one <= 2 * (one * m - x) /\ 2 * (one * m - x) <= one
  BY Rounded
<1>. HIDE DEF x, m
<1>3. m \in Nat /\ m <= 32768
  <2>1. x \in Nat /\ x <= 1073741824
    BY <1>1, OneIs, SMT DEF x
  <2>2. m \in Int /\ -32768 <= 2 * (32768 * m - x) /\ 2 * (32768 * m - x) <= 32768
    BY <1>2, OneIs, SMT
  <2>. QED BY <2>1, <2>2, SMT
<1>. QED BY <1>3, OneIs, SMT DEF m

\* The square, which the reference rounds too.
LEMMA RoundedSquare ==
  ASSUME NEW t \in Int, -one <= t, t <= one
  PROVE  /\ t * t \in Int /\ t * t \in Nat /\ t * t <= one * one
         /\ Mul(t, t) \in Int /\ Mul(t, t) \in Nat /\ Mul(t, t) <= one
<1>1. t * t <= one * one /\ one \in Nat
  BY OneIs, ProductBound
<1>2. t * t \in Nat
  BY SMT
<1>. DEFINE x == t * t
            m == Mul(t, t)
<1>3. m \in Int /\ -one <= 2 * (one * m - x) /\ 2 * (one * m - x) <= one
  BY Rounded
<1>. HIDE DEF x, m
<1>4. m \in Nat /\ m <= 32768
  <2>1. x \in Nat /\ x <= 1073741824
    BY <1>1, <1>2, OneIs, SMT DEF x
  <2>2. m \in Int /\ -32768 <= 2 * (32768 * m - x) /\ 2 * (32768 * m - x) <= 32768
    BY <1>3, OneIs, SMT
  <2>. QED BY <2>1, <2>2, SMT
<1>. QED BY <1>1, <1>2, <1>4, OneIs, SMT DEF m

\* What is divided, and left over.
LEMMA Part ==
  ASSUME NEW m \in Nat, m <= one, NEW n \in {2, 12, 30, 56}
  PROVE  /\ m \div n \in Int /\ 0 <= m - n * (m \div n) /\ m - n * (m \div n) <= n - 1
         /\ one - m \div n \in Int /\ one - m \div n \in Nat /\ one - m \div n <= one
<1>1. CASE n = 2
  BY <1>1, OneIs, SMT
<1>2. CASE n = 12
  BY <1>2, OneIs, SMT
<1>3. CASE n = 30
  BY <1>3, OneIs, SMT
<1>4. CASE n = 56
  BY <1>4, OneIs, SMT
<1>. QED BY <1>1, <1>2, <1>3, <1>4

\* Each stage of the reference as a fraction, and what it is off by, in 64ths of a unit.
LEMMA CosRefOff ==
  ASSUME NEW t \in Int, -one <= t, t <= one, NEW e \in Nat
  PROVE  \E c \in Nat : /\ c <= one /\ CosRef(t) = c * 128
                        /\ Off(c, Denom0(e), Numer0(t * t, e), 65, 70)
<1>. DEFINE q == t * t
            s == Mul(t, t)
            c6 == one - s \div 56
            m4 == Mul(s, c6)
            c4 == one - m4 \div 30
            m2 == Mul(s, c4)
            c2 == one - m2 \div 12
            m0 == Mul(s, c2)
            c0 == one - m0 \div 2
<1>1. CosRef(t) = c0 * 128
  BY DEF CosRef, one
<1>2. q \in Int /\ s \in Int /\ q \in Nat /\ q <= one * one /\ s \in Nat /\ s <= one
      /\ -one <= 2 * (one * s - q) /\ 2 * (one * s - q) <= one
  BY RoundedSquare, Rounded
<1>3. one \in Nat \ {0} /\ one \in Int /\ one <= one
  BY OneIs
<1>. HIDE DEF q, s
<1>4. s \in Int /\ c6 \in Int /\ c6 \in Nat /\ c6 <= one /\ s \div 56 \in Int
      /\ 0 <= s - 56 * (s \div 56) /\ s - 56 * (s \div 56) <= 56 - 1
  BY <1>2, Part
<1>. HIDE DEF c6
<1>5. m4 \in Nat /\ m4 <= one /\ m4 \in Int
      /\ -one <= 2 * (one * m4 - s * c6) /\ 2 * (one * m4 - s * c6) <= one
  BY <1>2, <1>4, RoundedFraction, Rounded
<1>. HIDE DEF m4
<1>6. c4 \in Int /\ c4 \in Nat /\ c4 <= one /\ m4 \div 30 \in Int
      /\ 0 <= m4 - 30 * (m4 \div 30) /\ m4 - 30 * (m4 \div 30) <= 30 - 1
  BY <1>5, Part
<1>. HIDE DEF c4
<1>7. m2 \in Nat /\ m2 <= one /\ m2 \in Int
      /\ -one <= 2 * (one * m2 - s * c4) /\ 2 * (one * m2 - s * c4) <= one
  BY <1>2, <1>4, <1>6, RoundedFraction, Rounded
<1>. HIDE DEF m2
<1>8. c2 \in Int /\ c2 \in Nat /\ c2 <= one /\ m2 \div 12 \in Int
      /\ 0 <= m2 - 12 * (m2 \div 12) /\ m2 - 12 * (m2 \div 12) <= 12 - 1
  BY <1>7, Part
<1>. HIDE DEF c2
<1>9. m0 \in Nat /\ m0 <= one /\ m0 \in Int
      /\ -one <= 2 * (one * m0 - s * c2) /\ 2 * (one * m0 - s * c2) <= one
  BY <1>2, <1>4, <1>8, RoundedFraction, Rounded
<1>. HIDE DEF m0
<1>10. c0 \in Nat /\ c0 <= one /\ m0 \div 2 \in Int
       /\ 0 <= m0 - 2 * (m0 \div 2) /\ m0 - 2 * (m0 \div 2) <= 2 - 1
  BY <1>9, Part
<1>. HIDE DEF c0
<1>11. Off(one, e, one * e, 0, 0)
  <2>. DEFINE x == one * e
  <2>1. x \in Int
    BY <1>3
  <2>. HIDE DEF x
  <2>2. -(0 * e) <= 64 * (x - x) /\ 64 * (x - x) <= 0 * e
    BY <2>1, SMT
  <2>. QED BY <2>2 DEF Off, x
<1>12. Off(c6, Denom6(e), Numer6(q, e), 2, 64)
  <2>1. -one <= 2 * (one * s - s * one) /\ 2 * (one * s - s * one) <= one
    <3>1. one * s - s * one = 0
      BY <1>2, <1>3, SMT
    <3>. QED BY <1>3, <3>1, SMT
  <2>2. one * e \in Int
    BY <1>3
  <2>3. 0 + 64 <= 56 * 2 /\ 0 + 64 * 56 <= 56 * 64 /\ 56 \in Nat \ {0}
    OBVIOUS
  <2>4. Off(one - s \div 56, 56 * (one * (one * e)),
            56 * (one * (one * (one * e))) - q * (one * e), 2, 64)
    BY <1>2, <1>3, <1>4, <1>11, <2>1, <2>2, <2>3, Stage
  <2>. QED BY <2>4 DEF Denom6, Numer6, Ones2, Ones3, c6
<1>13. Off(c4, Denom4(e), Numer4(q, e), 5, 65)
  <2>1. Denom6(e) \in Nat /\ Numer6(q, e) \in Int
    BY <1>2, FractionsWhole
  <2>2. 64 + 64 <= 30 * 5 /\ 2 + 64 * 30 <= 30 * 65 /\ 30 \in Nat \ {0}
    OBVIOUS
  <2>. DEFINE Z == Denom6(e)
              H == Numer6(q, e)
  <2>. HIDE DEF Z, H
  <2>3. Off(one - m4 \div 30, 30 * (one * (one * Z)),
            30 * (one * (one * (one * Z))) - q * H, 5, 65)
    BY <1>2, <1>3, <1>4, <1>5, <1>6, <1>12, <2>1, <2>2, Stage DEF Z, H
  <2>. QED BY <2>3 DEF Denom4, Numer4, Ones2, Ones3, c4, Z, H
<1>14. Off(c2, Denom2(e), Numer2(q, e), 11, 65)
  <2>1. Denom4(e) \in Nat /\ Numer4(q, e) \in Int
    BY <1>2, FractionsWhole
  <2>2. 65 + 64 <= 12 * 11 /\ 5 + 64 * 12 <= 12 * 65 /\ 12 \in Nat \ {0}
    OBVIOUS
  <2>. DEFINE Z == Denom4(e)
              H == Numer4(q, e)
  <2>. HIDE DEF Z, H
  <2>3. Off(one - m2 \div 12, 12 * (one * (one * Z)),
            12 * (one * (one * (one * Z))) - q * H, 11, 65)
    BY <1>2, <1>3, <1>6, <1>7, <1>8, <1>13, <2>1, <2>2, Stage DEF Z, H
  <2>. QED BY <2>3 DEF Denom2, Numer2, Ones2, Ones3, c2, Z, H
<1>15. Off(c0, Denom0(e), Numer0(q, e), 65, 70)
  <2>1. Denom2(e) \in Nat /\ Numer2(q, e) \in Int
    BY <1>2, FractionsWhole
  <2>2. 65 + 64 <= 2 * 65 /\ 11 + 64 * 2 <= 2 * 70 /\ 2 \in Nat \ {0}
    OBVIOUS
  <2>. DEFINE Z == Denom2(e)
              H == Numer2(q, e)
  <2>. HIDE DEF Z, H
  <2>3. Off(one - m0 \div 2, 2 * (one * (one * Z)),
            2 * (one * (one * (one * Z))) - q * H, 65, 70)
    BY <1>2, <1>3, <1>8, <1>9, <1>10, <1>14, <2>1, <2>2, Stage DEF Z, H
  <2>. QED BY <2>3 DEF Denom0, Numer0, Ones2, Ones3, c0, Z, H
<1>16. CosRef(t) = c0 * 128
  BY <1>1 DEF c0, m0, c2, m2, c4, m4, c6, s
<1>. QED BY <1>10, <1>15, <1>16 DEF q

LEMMA FractionsScale ==
  ASSUME NEW a \in Int, NEW x \in Int
  PROVE  /\ a * Ones3(x) = Ones3(a * x) /\ a * Denom6(x) = Denom6(a * x)
         /\ a * Denom4(x) = Denom4(a * x) /\ a * Denom2(x) = Denom2(a * x)
         /\ a * Denom0(x) = Denom0(a * x)
         /\ Ones3(x) \in Int /\ Denom6(x) \in Int /\ Denom4(x) \in Int /\ Denom2(x) \in Int
         /\ Denom0(x) \in Int
<1>1. \A n, y \in Int : a * (n * y) = n * (a * y) /\ n * y \in Int
  BY SMT
<1>2. one \in Int
  BY OneIs
<1>3. \A y \in Int : a * Ones2(y) = Ones2(a * y) /\ Ones2(y) \in Int
  BY <1>1, <1>2 DEF Ones2
<1>4. \A y \in Int : a * Ones3(y) = Ones3(a * y) /\ Ones3(y) \in Int
  BY <1>1, <1>2, <1>3 DEF Ones3
<1>5. a * Denom6(x) = Denom6(a * x) /\ Denom6(x) \in Int
  BY <1>1, <1>3 DEF Denom6
<1>6. a * Denom4(x) = Denom4(a * x) /\ Denom4(x) \in Int
  BY <1>1, <1>3, <1>5 DEF Denom4
<1>7. a * Denom2(x) = Denom2(a * x) /\ Denom2(x) \in Int
  BY <1>1, <1>3, <1>6 DEF Denom2
<1>8. a * Denom0(x) = Denom0(a * x) /\ Denom0(x) \in Int
  BY <1>1, <1>3, <1>7 DEF Denom0
<1>. QED BY <1>4, <1>5, <1>6, <1>7, <1>8

LEMMA CoefsScale ==
  ASSUME NEW a \in Int, NEW x \in Int
  PROVE  a * Coef0(x) = Coef0(a * x)
<1>1. \A n, y \in Int : a * (n * (4194304 * y)) = n * (4194304 * (a * y))
  BY SMT
<1>2. a * Coef10(x) = Coef10(a * x)
  BY <1>1, SMT DEF Coef10
<1>3. a * Coef9(x) = Coef9(a * x)
  BY <1>1, <1>2, CoefsWhole, SMT DEF Coef9
<1>4. a * Coef8(x) = Coef8(a * x)
  BY <1>1, <1>3, CoefsWhole, SMT DEF Coef8
<1>5. a * Coef7(x) = Coef7(a * x)
  BY <1>1, <1>4, CoefsWhole, SMT DEF Coef7
<1>6. a * Coef6(x) = Coef6(a * x)
  BY <1>1, <1>5, CoefsWhole, SMT DEF Coef6
<1>7. a * Coef5(x) = Coef5(a * x)
  BY <1>1, <1>6, CoefsWhole, SMT DEF Coef5
<1>8. a * Coef4(x) = Coef4(a * x)
  BY <1>1, <1>7, CoefsWhole, SMT DEF Coef4
<1>9. a * Coef3(x) = Coef3(a * x)
  BY <1>1, <1>8, CoefsWhole, SMT DEF Coef3
<1>10. a * Coef2(x) = Coef2(a * x)
  BY <1>1, <1>9, CoefsWhole, SMT DEF Coef2
<1>11. a * Coef1(x) = Coef1(a * x)
  BY <1>1, <1>10, CoefsWhole, SMT DEF Coef1
<1>. QED BY <1>1, <1>11, CoefsWhole, SMT DEF Coef0

\* The numerator is a polynomial in the square of the angle.
LEMMA NumerTerms ==
  ASSUME NEW q \in Int, NEW e \in Nat
  PROVE  Numer0(q, e)
           = 2 * Ones3(Denom2(e)) - 12 * Ones3(Denom4(q * e)) + 30 * Ones3(Denom6(q * (q * e)))
               - 56 * Ones3(q * (q * (q * e))) + one * (q * (q * (q * (q * e))))
<1>. DEFINE t1 == q * e
            t2 == q * t1
            t3 == q * t2
            t4 == q * t3
<1>1. e \in Int /\ t1 \in Int /\ t2 \in Int /\ t3 \in Int /\ t4 \in Int /\ one \in Int
  BY OneIs
<1>2. \A n, x \in Int : q * (n * x) = n * (q * x) /\ n * x \in Int
  BY SMT
<1>3. \A x, y \in Int : q * (x - y) = q * x - q * y
  BY SMT
<1>4. /\ Ones3(e) \in Int /\ q * Ones3(e) = Ones3(t1)
      /\ Ones3(t1) \in Int /\ q * Ones3(t1) = Ones3(t2)
      /\ Ones3(t2) \in Int /\ q * Ones3(t2) = Ones3(t3) /\ Ones3(t3) \in Int
  <2>. HIDE DEF t1, t2, t3
  <2>1. t1 = q * e /\ t2 = q * t1 /\ t3 = q * t2
    BY DEF t1, t2, t3
  <2>. QED BY <1>1, <2>1, FractionsScale
<1>5. /\ Denom6(e) \in Int /\ q * Denom6(e) = Denom6(t1)
      /\ Denom6(t1) \in Int /\ q * Denom6(t1) = Denom6(t2) /\ Denom6(t2) \in Int
      /\ Denom4(e) \in Int /\ q * Denom4(e) = Denom4(t1) /\ Denom4(t1) \in Int
      /\ Denom2(e) \in Int
  <2>. HIDE DEF t1, t2
  <2>1. t1 = q * e /\ t2 = q * t1
    BY DEF t1, t2
  <2>. QED BY <1>1, <2>1, FractionsScale
<1>6. /\ Ones3(Denom6(e)) \in Int /\ q * Ones3(Denom6(e)) = Ones3(Denom6(t1))
      /\ Ones3(Denom6(t1)) \in Int /\ q * Ones3(Denom6(t1)) = Ones3(Denom6(t2))
      /\ Ones3(Denom6(t2)) \in Int
      /\ Ones3(Denom4(e)) \in Int /\ q * Ones3(Denom4(e)) = Ones3(Denom4(t1))
      /\ Ones3(Denom4(t1)) \in Int /\ Ones3(Denom2(e)) \in Int
  <2>. HIDE DEF t1, t2
  <2>. QED BY <1>5, FractionsScale
<1>7. q * (q * (one * e)) = one * t2 /\ q * (q * (q * (one * e))) = one * t3
      /\ q * (q * (q * (q * (one * e)))) = one * t4 /\ q * (one * e) = one * t1
      /\ one * t1 \in Int /\ one * t2 \in Int /\ one * t3 \in Int /\ one * t4 \in Int
  BY <1>1, <1>2
<1>. HIDE DEF t1, t2, t3, t4
<1>8. Numer6(q, e) = 56 * Ones3(e) - one * t1
  BY <1>7 DEF Numer6
<1>9. q * Numer6(q, e) = 56 * Ones3(t1) - one * t2
  <2>1. q * (56 * Ones3(e)) = 56 * Ones3(t1) /\ q * (one * t1) = one * t2
        /\ 56 * Ones3(e) \in Int
    BY <1>1, <1>2, <1>4 DEF t2
  <2>. QED BY <1>3, <1>7, <1>8, <2>1
<1>10. q * Numer4(q, e) = 30 * Ones3(Denom6(t1)) - (56 * Ones3(t2) - one * t3)
  <2>1. /\ q * (30 * Ones3(Denom6(e))) = 30 * Ones3(Denom6(t1))
        /\ q * (56 * Ones3(t1)) = 56 * Ones3(t2) /\ q * (one * t2) = one * t3
        /\ 30 * Ones3(Denom6(e)) \in Int /\ 56 * Ones3(t1) \in Int
        /\ 56 * Ones3(t1) - one * t2 \in Int
    BY <1>1, <1>2, <1>4, <1>6, <1>7 DEF t3
  <2>2. q * (56 * Ones3(t1) - one * t2) = 56 * Ones3(t2) - one * t3
    BY <1>3, <1>7, <2>1
  <2>. QED BY <1>3, <1>9, <2>1, <2>2 DEF Numer4
<1>11. q * Numer2(q, e)
         = 12 * Ones3(Denom4(t1)) - (30 * Ones3(Denom6(t2)) - (56 * Ones3(t3) - one * t4))
  <2>1. /\ q * (12 * Ones3(Denom4(e))) = 12 * Ones3(Denom4(t1))
        /\ q * (30 * Ones3(Denom6(t1))) = 30 * Ones3(Denom6(t2))
        /\ q * (56 * Ones3(t2)) = 56 * Ones3(t3) /\ q * (one * t3) = one * t4
        /\ 12 * Ones3(Denom4(e)) \in Int /\ 30 * Ones3(Denom6(t1)) \in Int
        /\ 56 * Ones3(t2) \in Int /\ 56 * Ones3(t2) - one * t3 \in Int
        /\ 30 * Ones3(Denom6(t1)) - (56 * Ones3(t2) - one * t3) \in Int
    BY <1>1, <1>2, <1>4, <1>6, <1>7 DEF t4
  <2>2. q * (56 * Ones3(t2) - one * t3) = 56 * Ones3(t3) - one * t4
    BY <1>3, <1>7, <2>1
  <2>3. q * (30 * Ones3(Denom6(t1)) - (56 * Ones3(t2) - one * t3))
          = 30 * Ones3(Denom6(t2)) - (56 * Ones3(t3) - one * t4)
    BY <1>3, <2>1, <2>2
  <2>. QED BY <1>3, <1>10, <2>1, <2>3 DEF Numer2
<1>12. Numer0(q, e)
         = 2 * Ones3(Denom2(e)) - 12 * Ones3(Denom4(t1)) + 30 * Ones3(Denom6(t2))
             - 56 * Ones3(t3) + one * t4
  <2>. DEFINE x0 == Ones3(Denom2(e))
              x1 == Ones3(Denom4(t1))
              x2 == Ones3(Denom6(t2))
              x3 == Ones3(t3)
              x4 == one * t4
  <2>1. x0 \in Int /\ x1 \in Int /\ x2 \in Int /\ x3 \in Int /\ x4 \in Int
    BY <1>4, <1>6, <1>7
  <2>2. Numer0(q, e) = 2 * x0 - (12 * x1 - (30 * x2 - (56 * x3 - x4)))
    BY <1>11 DEF Numer0
  <2>. HIDE DEF x0, x1, x2, x3, x4
  <2>3. Numer0(q, e) = 2 * x0 - 12 * x1 + 30 * x2 - 56 * x3 + x4
    BY <2>1, <2>2, SMT
  <2>. QED BY <2>3 DEF x0, x1, x2, x3, x4
<1>. QED BY <1>12 DEF t1, t2, t3, t4

LEMMA RefIsCos ==
  ASSUME NEW t \in Int, -one <= t, t <= one
  PROVE  /\ -(142 * unity) <= CosRef(t) * unity - 4194304 * CosP(128 * t)
         /\ CosRef(t) * unity - 4194304 * CosP(128 * t) <= 142 * unity
<1>. DEFINE e == unit
            q == t * t
            t1 == q * e
            t2 == q * t1
            t3 == q * t2
            t4 == q * t3
            t5 == q * t4
<1>1. e \in Nat /\ e \in Int
  BY UnitIsOne
<1>2. PICK c \in Nat : CosRef(t) = c * 128 /\ Off(c, Denom0(e), Numer0(q, e), 65, 70)
  <2>. HIDE DEF e
  <2>. QED BY <1>1, CosRefOff
<1>. DEFINE g == c * e
<1>3. q \in Nat /\ q \in Int /\ q <= one * one
  BY RoundedSquare
<1>4. CosP(128 * t)
        = Coef0(e) - Coef2(16384 * t1) + Coef4(16384 * (16384 * t2))
            - Coef6(16384 * (16384 * (16384 * t3)))
            + Coef8(16384 * (16384 * (16384 * (16384 * t4))))
            - Coef10(16384 * (16384 * (16384 * (16384 * (16384 * t5)))))
  <2>. DEFINE w == 128 * t
  <2>1. w \in Int /\ w * w = 16384 * q
    BY SMT
  <2>. HIDE DEF q, w, e
  <2>2. \A x \in Int : (16384 * q) * x = 16384 * (q * x) /\ q * (16384 * x) = 16384 * (q * x)
                       /\ q * x \in Int /\ 16384 * x \in Int
    BY <1>3, SMT
  <2>3. /\ t1 \in Int /\ t2 \in Int /\ t3 \in Int /\ t4 \in Int /\ t5 \in Int
    BY <1>1, <2>2
  <2>. DEFINE k == 16384 * q
  <2>4. /\ Pow2(w, e) = k * e /\ Pow4(w, e) = k * (k * e) /\ Pow6(w, e) = k * (k * (k * e))
        /\ Pow8(w, e) = k * (k * (k * (k * e)))
        /\ Pow10(w, e) = k * (k * (k * (k * (k * e))))
    <3>1. w * w = k /\ w \in Int
      BY <2>1
    <3>. HIDE DEF k
    <3>. QED BY <1>1, <3>1, EvenPowers, Zenon
  <2>5. \A x \in Int : k * (16384 * x) = 16384 * (16384 * (q * x))
    BY <2>2
  <2>6. k * e = 16384 * t1
    BY <1>1, <2>2
  <2>. HIDE DEF k
  <2>7. k * (k * e) = 16384 * (16384 * t2)
    BY <2>3, <2>5, <2>6
  <2>8. k * (k * (k * e)) = 16384 * (16384 * (16384 * t3))
    BY <2>2, <2>3, <2>5, <2>7
  <2>9. k * (k * (k * (k * e))) = 16384 * (16384 * (16384 * (16384 * t4)))
    BY <2>2, <2>3, <2>5, <2>8
  <2>10. k * (k * (k * (k * (k * e))))
           = 16384 * (16384 * (16384 * (16384 * (16384 * t5))))
    BY <2>2, <2>3, <2>5, <2>9
  <2>. QED BY <2>4, <2>6, <2>7, <2>8, <2>9, <2>10 DEF CosP, unity, e, w
<1>. HIDE DEF e, q
<1>5. \A x \in Nat : q * x \in Nat /\ q * x <= one * (one * x)
  <2>. SUFFICES ASSUME NEW x \in Nat PROVE q * x \in Nat /\ q * x <= one * (one * x)
    OBVIOUS
  <2>. DEFINE k == one * one
  <2>1. k \in Nat /\ q <= k /\ k * x = one * (one * x)
    BY <1>3, OneIs, SMT
  <2>. HIDE DEF k
  <2>2. q * x <= k * x /\ q * x \in Nat
    BY <1>3, <2>1, SMT
  <2>. QED BY <2>1, <2>2
<1>6. /\ t1 \in Nat /\ t1 <= one * (one * e) /\ t2 \in Nat /\ t2 <= one * (one * t1)
      /\ t3 \in Nat /\ t3 <= one * (one * t2) /\ t4 \in Nat /\ t4 <= one * (one * t3)
      /\ t5 \in Nat /\ t5 <= one * (one * t4)
  BY <1>1, <1>5
<1>7. Numer0(q, e)
        = 2 * Ones3(Denom2(e)) - 12 * Ones3(Denom4(t1)) + 30 * Ones3(Denom6(t2))
            - 56 * Ones3(t3) + one * t4
  BY <1>1, <1>3, NumerTerms
<1>8. g \in Nat /\ c * Denom0(e) = Denom0(g) /\ c * Coef0(e) = Coef0(g)
  <2>1. c \in Int /\ g \in Nat
    BY <1>1
  <2>2. c * Denom0(e) = Denom0(g)
    BY <1>1, <2>1, FractionsScale
  <2>3. c * Coef0(e) = Coef0(g)
    BY <1>1, <2>1, CoefsScale
  <2>. QED BY <2>1, <2>2, <2>3
<1>. HIDE DEF t1, t2, t3, t4, t5, g
<1>. DEFINE H == 2 * Ones3(Denom2(e)) - 12 * Ones3(Denom4(t1)) + 30 * Ones3(Denom6(t2))
                   - 56 * Ones3(t3) + one * t4
            x == Coef0(e) - Coef2(16384 * t1) + Coef4(16384 * (16384 * t2))
                   - Coef6(16384 * (16384 * (16384 * t3)))
                   + Coef8(16384 * (16384 * (16384 * (16384 * t4))))
                   - Coef10(16384 * (16384 * (16384 * (16384 * (16384 * t5)))))
<1>9. -(65 * Denom0(e)) <= 64 * (Denom0(g) - H) /\ 64 * (Denom0(g) - H) <= 70 * Denom0(e)
  BY <1>2, <1>7, <1>8 DEF Off
<1>10. -(142 * Coef0(e)) <= 128 * Coef0(g) - 4194304 * x
       /\ 128 * Coef0(g) - 4194304 * x <= 142 * Coef0(e)
  BY <1>1, <1>6, <1>8, <1>9, SMTT(60)
     DEF one, Denom0, Denom2, Denom4, Denom6, Ones3, Ones2, Coef0, Coef1, Coef2, Coef3,
         Coef4, Coef5, Coef6, Coef7, Coef8, Coef9, Coef10
<1>11. CosRef(t) * unity = 128 * Coef0(g)
  <2>1. unity = Coef0(e) /\ unity \in Int
    BY UnityPositive DEF unity, e
  <2>2. (c * 128) * unity = 128 * (c * unity)
    BY <2>1, SMT
  <2>. QED BY <1>2, <1>8, <2>1, <2>2
<1>12. CosP(128 * t) = x /\ unity = Coef0(e)
  BY <1>4 DEF unity, e
<1>. HIDE DEF x
<1>. QED BY <1>10, <1>11, <1>12, SMT

-----------------------------------------------------------------------------
\* The angle of the reference is the engines', rounded.

\* What unpacker.sv makes of a mantissa f with exponent k.
Unshifted(f, k) == IF k > 127 THEN f * pow2[k - 126] ELSE Shr(f, 127 - k)

\* The angle of U and of the reference.
Alike(U, t) ==
  /\ t \in Int /\ -32768 <= t /\ t <= 32768
  /\ -65 <= (U - 1073741824) \div 256 - 128 * t
  /\ (U - 1073741824) \div 256 - 128 * t <= 65

LEMMA ExponentsAlike ==
  ASSUME NEW f \in Nat, 8388608 <= f, f < 16777216, NEW k \in 118..134
  PROVE  Alike(Unshifted(f, k), (Shr(f, 141 - k) + 1) \div 2 - 32768)
<1>1. CASE k = 118
  <2>1. Unshifted(f, k) = f \div 512 /\ Shr(f, 141 - k) = f \div 8388608
    BY <1>1, SMT DEF Unshifted, Shr, pow2
  <2>2. Alike(f \div 512, (f \div 8388608 + 1) \div 2 - 32768)
    BY SMTT(30) DEF Alike
  <2>. QED BY <2>1, <2>2
<1>2. CASE k = 119
  <2>1. Unshifted(f, k) = f \div 256 /\ Shr(f, 141 - k) = f \div 4194304
    BY <1>2, SMT DEF Unshifted, Shr, pow2
  <2>2. Alike(f \div 256, (f \div 4194304 + 1) \div 2 - 32768)
    BY SMTT(30) DEF Alike
  <2>. QED BY <2>1, <2>2
<1>3. CASE k = 120
  <2>1. Unshifted(f, k) = f \div 128 /\ Shr(f, 141 - k) = f \div 2097152
    BY <1>3, SMT DEF Unshifted, Shr, pow2
  <2>2. Alike(f \div 128, (f \div 2097152 + 1) \div 2 - 32768)
    BY SMTT(30) DEF Alike
  <2>. QED BY <2>1, <2>2
<1>4. CASE k = 121
  <2>1. Unshifted(f, k) = f \div 64 /\ Shr(f, 141 - k) = f \div 1048576
    BY <1>4, SMT DEF Unshifted, Shr, pow2
  <2>2. Alike(f \div 64, (f \div 1048576 + 1) \div 2 - 32768)
    BY SMTT(30) DEF Alike
  <2>. QED BY <2>1, <2>2
<1>5. CASE k = 122
  <2>1. Unshifted(f, k) = f \div 32 /\ Shr(f, 141 - k) = f \div 524288
    BY <1>5, SMT DEF Unshifted, Shr, pow2
  <2>2. Alike(f \div 32, (f \div 524288 + 1) \div 2 - 32768)
    BY SMTT(30) DEF Alike
  <2>. QED BY <2>1, <2>2
<1>6. CASE k = 123
  <2>1. Unshifted(f, k) = f \div 16 /\ Shr(f, 141 - k) = f \div 262144
    BY <1>6, SMT DEF Unshifted, Shr, pow2
  <2>2. Alike(f \div 16, (f \div 262144 + 1) \div 2 - 32768)
    BY SMTT(30) DEF Alike
  <2>. QED BY <2>1, <2>2
<1>7. CASE k = 124
  <2>1. Unshifted(f, k) = f \div 8 /\ Shr(f, 141 - k) = f \div 131072
    BY <1>7, SMT DEF Unshifted, Shr, pow2
  <2>2. Alike(f \div 8, (f \div 131072 + 1) \div 2 - 32768)
    BY SMTT(30) DEF Alike
  <2>. QED BY <2>1, <2>2
<1>8. CASE k = 125
  <2>1. Unshifted(f, k) = f \div 4 /\ Shr(f, 141 - k) = f \div 65536
    BY <1>8, SMT DEF Unshifted, Shr, pow2
  <2>2. Alike(f \div 4, (f \div 65536 + 1) \div 2 - 32768)
    BY SMTT(30) DEF Alike
  <2>. QED BY <2>1, <2>2
<1>9. CASE k = 126
  <2>1. Unshifted(f, k) = f \div 2 /\ Shr(f, 141 - k) = f \div 32768
    BY <1>9, SMT DEF Unshifted, Shr, pow2
  <2>2. Alike(f \div 2, (f \div 32768 + 1) \div 2 - 32768)
    BY SMTT(30) DEF Alike
  <2>. QED BY <2>1, <2>2
<1>10. CASE k = 127
  <2>1. Unshifted(f, k) = f \div 1 /\ Shr(f, 141 - k) = f \div 16384
    BY <1>10, SMT DEF Unshifted, Shr, pow2
  <2>2. Alike(f \div 1, (f \div 16384 + 1) \div 2 - 32768)
    BY SMTT(30) DEF Alike
  <2>. QED BY <2>1, <2>2
<1>11. CASE k = 128
  <2>1. Unshifted(f, k) = f * 2 /\ Shr(f, 141 - k) = f \div 8192
    BY <1>11, SMT DEF Unshifted, Shr, pow2
  <2>2. Alike(f * 2, (f \div 8192 + 1) \div 2 - 32768)
    BY SMTT(30) DEF Alike
  <2>. QED BY <2>1, <2>2
<1>12. CASE k = 129
  <2>1. Unshifted(f, k) = f * 4 /\ Shr(f, 141 - k) = f \div 4096
    BY <1>12, SMT DEF Unshifted, Shr, pow2
  <2>2. Alike(f * 4, (f \div 4096 + 1) \div 2 - 32768)
    BY SMTT(30) DEF Alike
  <2>. QED BY <2>1, <2>2
<1>13. CASE k = 130
  <2>1. Unshifted(f, k) = f * 8 /\ Shr(f, 141 - k) = f \div 2048
    BY <1>13, SMT DEF Unshifted, Shr, pow2
  <2>2. Alike(f * 8, (f \div 2048 + 1) \div 2 - 32768)
    BY SMTT(30) DEF Alike
  <2>. QED BY <2>1, <2>2
<1>14. CASE k = 131
  <2>1. Unshifted(f, k) = f * 16 /\ Shr(f, 141 - k) = f \div 1024
    BY <1>14, SMT DEF Unshifted, Shr, pow2
  <2>2. Alike(f * 16, (f \div 1024 + 1) \div 2 - 32768)
    BY SMTT(30) DEF Alike
  <2>. QED BY <2>1, <2>2
<1>15. CASE k = 132
  <2>1. Unshifted(f, k) = f * 32 /\ Shr(f, 141 - k) = f \div 512
    BY <1>15, SMT DEF Unshifted, Shr, pow2
  <2>2. Alike(f * 32, (f \div 512 + 1) \div 2 - 32768)
    BY SMTT(30) DEF Alike
  <2>. QED BY <2>1, <2>2
<1>16. CASE k = 133
  <2>1. Unshifted(f, k) = f * 64 /\ Shr(f, 141 - k) = f \div 256
    BY <1>16, SMT DEF Unshifted, Shr, pow2
  <2>2. Alike(f * 64, (f \div 256 + 1) \div 2 - 32768)
    BY SMTT(30) DEF Alike
  <2>. QED BY <2>1, <2>2
<1>17. CASE k = 134
  <2>1. Unshifted(f, k) = f * 128 /\ Shr(f, 141 - k) = f \div 128
    BY <1>17, SMT DEF Unshifted, Shr, pow2
  <2>2. Alike(f * 128, (f \div 128 + 1) \div 2 - 32768)
    BY SMTT(30) DEF Alike
  <2>. QED BY <2>1, <2>2
<1>. QED BY <1>1, <1>2, <1>3, <1>4, <1>5, <1>6, <1>7, <1>8, <1>9,
            <1>10, <1>11, <1>12, <1>13, <1>14, <1>15, <1>16, <1>17, SMT

LEMMA AngleNear ==
  ASSUME NEW d \in Float
  PROVE  Alike(unpacker(d), AngleRef(d))
<1>. DEFINE f == 8388608 + d.M
            k == d.E
<1>1. f \in Nat /\ 8388608 <= f /\ f < 16777216 /\ k \in 0..134
  BY SMT DEF Float
<1>2. unpacker(d) = IF d = [E |-> 0, M |-> 0] THEN 0
                    ELSE IF k > 104 THEN Unshifted(f, k) ELSE Shr(f, 24)
  BY <1>1, SMT DEF unpacker, Unshifted
<1>3. AngleRef(d) = (IF k < 118 THEN 0 ELSE (Shr(f, 141 - k) + 1) \div 2) - 32768
  BY SMT DEF AngleRef
<1>4. d = [E |-> 0, M |-> 0] => k = 0
  OBVIOUS
<1>. HIDE DEF f, k
<1>5. \A U \in Nat : U < 16384 => Alike(U, -32768)
  BY SMT DEF Alike
<1>6. CASE k <= 104
  <2>1. Shr(f, 24) = 0
    BY <1>1, SMT DEF Shr, pow2
  <2>2. unpacker(d) = 0 /\ AngleRef(d) = -32768
    BY <1>1, <1>2, <1>3, <1>6, <2>1, SMT
  <2>3. Alike(0, -32768)
    BY <1>5, SMT
  <2>. QED BY <2>2, <2>3, SMT
<1>7. CASE 104 < k /\ k < 118
  <2>1. Shr(f, 127 - k) \in Nat /\ Shr(f, 127 - k) < 16384
    <3>1. PICK j \in 10..22 : j = 127 - k
      BY <1>1, <1>7, SMT
    <3>2. Shr(f, j) \in Nat /\ Shr(f, j) < 16384
      BY <1>1, SMTT(30) DEF Shr, pow2
    <3>. QED BY <3>1, <3>2, SMT
  <2>2. unpacker(d) = Shr(f, 127 - k) /\ AngleRef(d) = -32768
    BY <1>1, <1>2, <1>3, <1>4, <1>7, SMT DEF Unshifted
  <2>. QED BY <1>5, <2>1, <2>2, SMT
<1>8. CASE 118 <= k
  <2>1. unpacker(d) = Unshifted(f, k) /\ AngleRef(d) = (Shr(f, 141 - k) + 1) \div 2 - 32768
    BY <1>1, <1>2, <1>3, <1>4, <1>8, SMT
  <2>2. Alike(Unshifted(f, k), (Shr(f, 141 - k) + 1) \div 2 - 32768)
    BY <1>1, <1>8, ExponentsAlike, SMT
  <2>. QED BY <2>1, <2>2, SMT
<1>. QED BY <1>1, <1>6, <1>7, <1>8, SMT

\* The reference does not come near 0.5: its last stage subtracts less than a half.
LEMMA RefLarge ==
  ASSUME NEW t \in Int, -one <= t, t <= one
  PROVE  CosRef(t) \in Int /\ 2097152 + 384 <= CosRef(t) /\ CosRef(t) <= 4194304
<1>. DEFINE s == Mul(t, t)
            c6 == 32768 - s \div 56
            m4 == Mul(s, c6)
            c4 == 32768 - m4 \div 30
            m2 == Mul(s, c4)
            c2 == 32768 - m2 \div 12
            m0 == Mul(s, c2)
<1>1. CosRef(t) = (32768 - m0 \div 2) * 128
  BY DEF CosRef
<1>2. s \in Nat /\ s <= one
  BY RoundedSquare
<1>. HIDE DEF s
<1>3. c6 \in Nat /\ c6 <= one
  BY <1>2, OneIs, SMT
<1>. HIDE DEF c6
<1>4. m4 \in Nat /\ m4 <= one
  BY <1>2, <1>3, RoundedFraction
<1>. HIDE DEF m4
<1>5. c4 \in Nat /\ c4 <= one /\ 31675 <= c4
  BY <1>4, OneIs, SMT
<1>. HIDE DEF c4
<1>6. m2 \in Nat /\ m2 <= one
  BY <1>2, <1>5, RoundedFraction
<1>7. CASE s <= 32000
  <2>1. c2 \in Nat /\ c2 <= one
    BY <1>6, OneIs, SMT
  <2>. HIDE DEF c2
  <2>2. m0 \in Nat /\ m0 <= 32100
    <3>1. s * c2 \in Nat /\ s * c2 <= 32000 * one
      <4>1. \A x \in Nat : x <= one => s * x <= 32000 * one /\ s * x \in Nat
        BY <1>2, <1>7, OneIs, SMT
      <4>. QED BY <2>1, <4>1
    <3>. DEFINE x == s * c2
    <3>. HIDE DEF x
    <3>2. x \in Nat /\ x <= 32000 * 32768 /\ m0 = (x + 16384) \div 32768
      BY <3>1, OneIs, SMT DEF Mul, x
    <3>. HIDE DEF m0
    <3>. QED BY <3>2, SMT
  <2>. HIDE DEF m0
  <2>. QED BY <1>1, <2>2, SMT
<1>8. CASE 32000 < s
  <2>1. 30900 <= m2
    <3>1. 32000 * 31675 <= s * c4 /\ s * c4 \in Nat
      <4>1. \A x \in Nat : 31675 <= x => 32000 * 31675 <= s * x /\ s * x \in Nat
        BY <1>2, <1>8, SMT
      <4>. QED BY <1>5, <4>1
    <3>. DEFINE x == s * c4
    <3>. HIDE DEF x
    <3>2. x \in Nat /\ 32000 * 31675 <= x /\ m2 = (x + 16384) \div 32768
      BY <3>1, SMT DEF Mul, x
    <3>. HIDE DEF m2
    <3>. QED BY <3>2, SMT
  <2>. HIDE DEF m2
  <2>2. c2 \in Nat /\ c2 <= 30200
    BY <1>6, <2>1, OneIs, SMT
  <2>. HIDE DEF c2
  <2>3. m0 \in Nat /\ m0 <= 30300
    <3>1. s * c2 \in Nat /\ s * c2 <= 32768 * 30200
      <4>1. \A x \in Nat : x <= 30200 => s * x <= 32768 * 30200 /\ s * x \in Nat
        BY <1>2, OneIs, SMT
      <4>. QED BY <2>2, <4>1
    <3>. DEFINE x == s * c2
    <3>. HIDE DEF x
    <3>2. x \in Nat /\ x <= 32768 * 30200 /\ m0 = (x + 16384) \div 32768
      BY <3>1, SMT DEF Mul, x
    <3>. HIDE DEF m0
    <3>. QED BY <3>2, SMT
  <2>. HIDE DEF m0
  <2>. QED BY <1>1, <2>3, SMT
<1>. QED BY <1>2, <1>7, <1>8, SMT

-----------------------------------------------------------------------------
\* What the engines end with, beside the cosine t / z of what has been turned: they stretch
\* it a little less than to 2^22.
EnginesOff(x, t, z) ==
  -6072468 <= x /\ x <= 6072468 /\ About(x, 67108853 * t, 16 * z, 520)

\* The same in units.
VectorOff(x, t, z) == About(x, 4194304 * t, z, 536)

LEMMA VectorIsCos ==
  ASSUME NEW x \in Int, NEW t \in Int, NEW z \in Nat \ {0}, EnginesOff(x, t, z)
  PROVE  VectorOff(x, t, z)
<1>. DEFINE y == x * z
<1>1. y \in Int /\ -(6072468 * z) <= y /\ y <= 6072468 * z
  <2>1. -6072468 <= x /\ x <= 6072468
    BY DEF EnginesOff
  <2>. QED BY <2>1, SMT
<1>2. x * (16 * z) = 16 * y
  BY SMT
<1>. HIDE DEF y
<1>3. -(520 * (16 * z)) <= 16 * (16 * y - 67108853 * t)
      /\ 16 * (16 * y - 67108853 * t) <= 520 * (16 * z)
  BY <1>2, SMT DEF EnginesOff, About
<1>4. -(536 * z) <= 16 * (y - 4194304 * t) /\ 16 * (y - 4194304 * t) <= 536 * z
  BY <1>1, <1>3, SMT
<1>5. -(536 * z) <= 16 * (x * z - 4194304 * t) /\ 16 * (x * z - 4194304 * t) <= 536 * z
  BY <1>4, SMT DEF y
<1>. QED BY <1>5, SMT DEF VectorOff, About

\* The cosines g / z and t / z of two angles, and the reference c beside the cosine g / z.
AngleOff(g, t, z) == -(199 * z) <= 4194304 * (g - t) /\ 4194304 * (g - t) <= 199 * z
RefOff(c, g, z) == -(142 * z) <= c * z - 4194304 * g /\ c * z - 4194304 * g <= 142 * z

\* Three estimates, one after the other: the vector x is the cosine t of what has been
\* turned, that is the cosine g of the reference's angle, and that is the reference c.
LEMMA Together ==
  ASSUME NEW x \in Int, NEW c \in Int, NEW t \in Int, NEW g \in Int, NEW z \in Nat \ {0},
         VectorOff(x, t, z), AngleOff(g, t, z), RefOff(c, g, z)
  PROVE  -384 <= x - c /\ x - c <= 384
<1>. DEFINE y == x * z
            b == c * z
            d == x - c
<1>1. y \in Int /\ b \in Int /\ d \in Int /\ y - b = d * z
  BY SMT
<1>. HIDE DEF y, b, d
<1>2. 16 * (y - b) <= 6000 * z /\ -(6000 * z) <= 16 * (y - b)
  BY <1>1, SMT DEF y, b, VectorOff, AngleOff, RefOff, About
<1>3. (16 * d) * z <= 6000 * z /\ (-6000) * z <= (16 * d) * z
  BY <1>1, <1>2, SMT
<1>4. 16 * d <= 6000 /\ -6000 <= 16 * d
  BY <1>1, <1>3, SMT
<1>. QED BY <1>1, <1>4, SMT DEF d

\* packer.sv keeps all of a coordinate from 0.5 up to 1.0, and makes 1.0 of more.
LEMMA Packed ==
  ASSUME NEW x \in Int, 2097152 <= x, x <= 6072468
  PROVE  FloatValue(packer(x)) = IF x < 4194304 THEN x ELSE 4194304
<1>. DEFINE s == x < 0
            e == IF (x \div 4194304) % 2 = 1 THEN 127 ELSE 126
            m == IF (x \div 4194304) % 2 = 1 THEN 0 ELSE (x % 2097152) * 4
<1>1. packer(x) = [S |-> s, E |-> e, M |-> m]
  BY SMT DEF packer
<1>2. ~s
  BY SMT
<1>3. CASE x < 4194304
  <2>1. x \div 4194304 = 0
    BY <1>3, SMT
  <2>2. e = 126 /\ m = (x % 2097152) * 4
    BY <2>1, SMT
  <2>3. (8388608 + (x % 2097152) * 4) \div 4 = x
    BY <1>3, SMT
  <2>. HIDE DEF s, e, m
  <2>4. FloatValue(packer(x)) = 1 * ((8388608 + m) \div 4)
    BY <1>1, <1>2, <2>2, SMT DEF FloatValue
  <2>. QED BY <1>3, <2>2, <2>3, <2>4, SMT
<1>4. CASE ~(x < 4194304)
  <2>1. x \div 4194304 = 1
    BY <1>4, SMT
  <2>2. e = 127 /\ m = 0
    BY <2>1, SMT
  <2>. HIDE DEF s, e, m
  <2>3. FloatValue(packer(x)) = 1 * ((8388608 + m) \div 2)
    BY <1>1, <1>2, <2>2, SMT DEF FloatValue
  <2>. QED BY <1>4, <2>2, <2>3, SMT
<1>. QED BY <1>3, <1>4, SMT

\* The packed word of a vector w that sixteen engines have made of the input d. 33.5 of the
\* 384 units are what the engines cut off, 199 the angle that they leave and the angle's
\* rounding in the reference, 142 the reference itself.
IsCosine(f, d) == Abs(FloatValue(f) - CosRef(AngleRef(d))) <= 384

LEMMA PackedIsCosine ==
  ASSUME NEW d \in Float, NEW w, Bounds(16, w), Turned(16, w, sdiv(unpacker(d)) - w.w)
  PROVE  IsCosine(packer(w.x), d)
<1>. DEFINE angle == sdiv(unpacker(d))
            t == AngleRef(d)
            u == angle - w.w
            v == 128 * t
<1>1. w.x \in Int /\ w.w \in Int /\ -133 <= w.w /\ w.w <= 133
      /\ -6072468 <= w.x /\ w.x <= 6072468
  BY SMT DEF Bounds, Rotation, Abs, residual, growth
<1>2. /\ t \in Int /\ -one <= t /\ t <= one /\ angle \in Int
      /\ -65 <= angle - 128 * t /\ angle - 128 * t <= 65
  BY <1>1, AngleNear, AngleExact, AngleInRange, OneIs, SMT DEF Alike
<1>3. /\ u \in Int /\ Near(u) /\ v \in Int /\ Near(v)
      /\ -198 <= u - v /\ u - v <= 198
  <2>. HIDE DEF angle, t
  <2>. QED BY <1>1, <1>2, OneIs, SMT DEF Near
<1>4. About(w.x, 67108853 * CosP(u), 16 * unity, 520)
  <2>1. Turned(16, w, u)
    OBVIOUS
  <2>2. gain[16 + 1] = 67108853 /\ error[16 + 1] = 520
    BY SMT DEF gain, error
  <2>. HIDE DEF u
  <2>. QED BY <2>1, <2>2, SMT DEF Turned
<1>. HIDE DEF angle, t, u, v
<1>. DEFINE z == unity
            p0 == CosP(u)
            p1 == CosP(v)
            c == CosRef(t)
            x == w.x
<1>5. z \in Nat \ {0} /\ p0 \in Int /\ p1 \in Int /\ c \in Int
      /\ 2097152 + 384 <= c /\ c <= 4194304
  BY <1>2, <1>3, UnityPositive, SeriesWhole, RefLarge
<1>6. VectorOff(x, p0, z)
  <2>1. x \in Int /\ EnginesOff(x, p0, z)
    BY <1>1, <1>4, SMT DEF EnginesOff
  <2>. HIDE DEF x, p0, z
  <2>. QED BY <1>5, <2>1, VectorIsCos
<1>7. AngleOff(p1, p0, z)
  BY <1>3, CosFlat DEF AngleOff
<1>8. RefOff(c, p1, z)
  BY <1>2, RefIsCos DEF RefOff, v
<1>. HIDE DEF z, p0, p1, c, x
<1>9. -384 <= x - c /\ x - c <= 384
  <2>1. x \in Int
    BY <1>1 DEF x
  <2>. QED BY <1>5, <1>6, <1>7, <1>8, <2>1, Together
<1>10. x \in Int /\ 2097152 <= x /\ x <= 6072468
  BY <1>1, <1>5, <1>9, SMT DEF x
<1>11. FloatValue(packer(x)) = IF x < 4194304 THEN x ELSE 4194304
  BY <1>10, Packed
<1>12. Abs(FloatValue(packer(x)) - c) <= 384
  BY <1>5, <1>9, <1>10, <1>11, SMT DEF Abs
<1>. QED BY <1>12 DEF IsCosine, x, c, t

\* So for every input the word that leaves the packer is the cosine.
THEOREM CosineAccurate == CordicSpec => []Accurate
<1>1. TurnInv => Accurate
  <2>. SUFFICES ASSUME TurnInv, i = 16 PROVE IsCosine(packer(r.x), data)
    BY DEF Accurate, iterations, IsCosine
  <2>1. data \in Float /\ Bounds(16, r) /\ Turned(16, r, sdiv(unpacker(data)) - r.w)
    BY DEF TurnInv, CordicInv, TurnedSoFar, TypeOK
  <2>. QED BY <2>1, PackedIsCosine
<1>. QED BY <1>1, TurnStarts, TurnStep, PTL DEF CordicSpec

\* All engines in one go, as a state of the rotation: what it proves holds of them.
LEMMA EnginesTurned ==
  ASSUME NEW d \in Float, NEW m \in 0..16
  PROVE  /\ Bounds(m, Engines(0, m, Angle(d)))
         /\ Turned(m, Engines(0, m, Angle(d)), sdiv(unpacker(d)) - Engines(0, m, Angle(d)).w)
<1>. DEFINE angle == sdiv(unpacker(d))
            v(k) == Engines(0, k, Angle(d))
            T == {k \in 0..16 : ~ Turned(k, v(k), angle - v(k).w)}
<1>1. angle \in Int /\ AnAngle(angle) /\ Bounds(0, Angle(d))
  BY AngleInRange, StartBounded DEF AnAngle, Angle
<1>2. \A k \in 0..16 : Bounds(k, v(k))
  BY <1>1, EnginesBounded
<1>3. T = {}
  <2>1. SUFFICES ASSUME T # {} PROVE FALSE
    OBVIOUS
  <2>2. PICK k \in T : \A l \in T : k <= l
    <3>1. T \in SUBSET Nat
      OBVIOUS
    <3>. QED BY <2>1, <3>1, LeastNatural
  <2>3. CASE k = 0
    <3>1. v(0) = Start(angle)
      BY EnginesNone DEF Angle
    <3>. HIDE DEF angle, v
    <3>2. Turned(0, v(0), angle - v(0).w)
      BY <1>1, <3>1, StartTurned
    <3>. QED BY <2>2, <2>3, <3>2
  <2>4. CASE k # 0
    <3>1. k - 1 \in 0..15 /\ k - 1 \in 0..16 /\ k - 1 \notin T /\ (k - 1) + 1 = k
          /\ k - 1 \in Nat /\ 0 <= k - 1
      BY <2>2, <2>4
    <3>2. Turned(k - 1, v(k - 1), angle - v(k - 1).w)
      BY <3>1
    <3>3. v(k) = engine(k - 1, v(k - 1))
      BY <3>1, EnginesMore
    <3>4. Bounds(k - 1, v(k - 1))
      BY <1>2, <3>1
    <3>. HIDE DEF angle, v
    <3>5. Turned(k, v(k), angle - v(k).w)
      BY <1>1, <3>1, <3>2, <3>3, <3>4, EngineTurns
    <3>. QED BY <2>2, <3>5
  <2>. QED BY <2>3, <2>4
<1>. QED BY <1>2, <1>3

\* The word behind the last block is the cosine of the input that entered six edges ago.
AccurateInPipeline ==
  token[pipeline_stages - 1] # Cleared => IsCosine(result, token[pipeline_stages - 1])

\* So the pipeline computes cosines, for all inputs, bubbles and resets.
THEOREM PipelineAccurate == Spec => []AccurateInPipeline
<1>1. IInv /\ ResultIsCosine => AccurateInPipeline
  <2>. SUFFICES ASSUME IInv, ResultIsCosine, token[5] # Cleared
                PROVE  IsCosine(result, token[5])
    BY DEF AccurateInPipeline, pipeline_stages
  <2>1. token[5] \in Float
    BY DEF IInv
  <2>2. result = packer(Engines(0, 16, Angle(token[5])).x)
    BY DEF ResultIsCosine, pipeline_stages, Cos, iterations, Angle
  <2>. QED BY <2>1, <2>2, EnginesTurned, PackedIsCosine
<1>. QED BY <1>1, Invariance, CosineOut, PTL
=============================================================================
