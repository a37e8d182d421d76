------------------------------- MODULE FpAcc --------------------------------
(***************************************************************************)
(* src/hardware/custom/fp_acc/fp_acc_0002.vhd: the generated accumulator.  *)
(* The operand x and the flag n travel through the alignment registers;    *)
(* the accumulator register then loads the operand when the flag that      *)
(* travelled with it is set and adds it otherwise; the normalisation       *)
(* registers bring the sum to r.  Every register is gated by en and        *)
(* cleared by areset.  The overflow and underflow flags, which top.sv      *)
(* leaves unconnected, are left out.                                       *)
(*                                                                         *)
(* A sum is the sequence of the non-zero terms it is made of, in the order *)
(* in which they were added; <<>> is 0.0.                                  *)
(***************************************************************************)
EXTENDS Registers, Sequences

CONSTANTS
  AccInLatency,     \* alignment registers in front of the accumulator
  AccOutLatency     \* normalisation registers behind it

ASSUME AccConstants ==
  /\ AccInLatency \in Nat \ {0} /\ AccOutLatency \in Nat \ {0}

Sum == Seq(X \cup {Garbage})

\* Adding 0.0 changes nothing.
Add(sum, x) == IF x = Zero THEN sum ELSE Append(sum, x)

VARIABLES
  xIn_x,          \* the operand in the alignment registers
  xIn_n,          \* redist18_xIn_n_2, the flag that travels with it
  accumulator,    \* accumulator_uid24, the running sum
  xOut            \* the normalisation registers

accVars == <<xIn_x, xIn_n, accumulator, xOut>>

AccTypeOK ==
  /\ xIn_x \in [1..AccInLatency -> Word]
  /\ xIn_n \in [1..AccInLatency -> BOOLEAN]
  /\ accumulator \in Sum
  /\ xOut \in [1..AccOutLatency -> Sum]

AccInit ==
  /\ xIn_x = [k \in 1..AccInLatency |-> Zero]
  /\ xIn_n = [k \in 1..AccInLatency |-> FALSE]
  /\ accumulator = <<>>
  /\ xOut = [k \in 1..AccOutLatency |-> <<>>]

\* The accumulator's output q in top.sv.
q == xOut[AccOutLatency]

\* The accumulator register: load when the operand's own flag is set.
Accumulate(sum, x, n) == IF n THEN Add(<<>>, x) ELSE Add(sum, x)

\* One rising edge of fp_acc.
AccEdge(x, n, en, areset) ==
  /\ xIn_x' = Delay(xIn_x, x, en, areset, Zero)
  /\ xIn_n' = Delay(xIn_n, n, en, areset, FALSE)
  /\ accumulator' =
       IF areset THEN <<>>
       ELSE IF en THEN Accumulate(accumulator, xIn_x[AccInLatency],
                                  xIn_n[AccInLatency])
       ELSE accumulator
  /\ xOut' = Delay(xOut, accumulator, en, areset, <<>>)
=============================================================================
