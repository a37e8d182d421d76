------------------------------ MODULE FofXInv -------------------------------
(***************************************************************************)
(* The inductive invariant of FofX.  It ties every register that a term    *)
(* passes to the history variable sent: the register a term reaches k      *)
(* edges after it was written holds the token sent[k].  Sums are tied to   *)
(* totals the same way.  Bubbles (sent[k] = NoTerm) say nothing about the  *)
(* registers of term, which may hold anything by then.                     *)
(***************************************************************************)
EXTENDS FofX

InFlight(k) == sent[k] # NoTerm

\* The enables are exactly the terms in flight.  A reset lets the enable in
\* clk_enables[cycles-1] slip into fp_acc without clk_enables[cycles]; its
\* term is Zero.
EnablesInv ==
  /\ \A k \in 0..cycles : clk_enables[k] => InFlight(k)
  /\ \A k \in 0..cycles-1 : InFlight(k) => clk_enables[k]
  /\ InFlight(cycles) => clk_enables[cycles] \/ sent[cycles] = Zero
  /\ \A k \in 0..acc_cycles : acc_clk_enables[k] <=> InFlight(cycles + k)

\* The term in every register of the three lanes.
LaneInv ==
  /\ InFlight(0) => writereg = sent[0]
  /\ \A k \in 1..MulLatency :
       InFlight(k) => sqr[k] = sent[k] /\ halve[k] = sent[k]
  /\ \A k \in 1..MidDelay :
       InFlight(MulLatency + k) => x_2_delay_line[k] = sent[MulLatency + k]
  /\ \A k \in 1..BottomDelay :
       InFlight(MulLatency + k) => half_x_delay_line[k] = sent[MulLatency + k]
  /\ InFlight(1) => fixedFractionalAngle = sent[1]
  /\ \A k \in 1..pipeline_stages-1 : InFlight(k + 1) => xyw_p[k] = sent[k + 1]

\* The term in every register behind the place where the lanes meet.
MeetInv ==
  /\ \A k \in 1..MulLatency :
       InFlight(pipeline_stages + k) =>
         combine_top_mid[k] = sent[pipeline_stages + k]
  /\ \A k \in 1..AddLatency :
       InFlight(pipeline_stages + MulLatency + k) =>
         final_adder[k] = sent[pipeline_stages + MulLatency + k]

\* totals is the running total of sent.
TotalsInv ==
  /\ total = totals[0]
  /\ \A k \in 0..ReadLatency-1 :
       totals[k] = IF InFlight(k) THEN Add(totals[k + 1], sent[k])
                                  ELSE totals[k + 1]

\* The operands in front of the accumulator: between the terms there is 0.
OperandInv ==
  \A j \in 1..AccInLatency :
    xIn_x[j] = IF InFlight(cycles + j) THEN sent[cycles + j] ELSE Zero

\* The flag that makes the accumulator load: whether it still waits in the
\* state machine or travels with an operand, the total it meets is empty.
FlagInv ==
  /\ state = "wait_for_set" =>
       /\ totals[cycles + 1] = <<>>
       /\ \A k \in cycles+1..ReadLatency-1 : sent[k] \notin X
  /\ \A j \in 1..AccInLatency : xIn_n[j] => totals[cycles + j + 1] = <<>>

\* The place in sent and totals that belongs to the accumulator register.
AccAt == cycles + AccInLatency + 1

\* After a restart the accumulator still holds the old sum.  That is of no
\* consequence while nothing has been taken from it and a flag will reach it
\* before the first term does.
Leftover ==
  /\ totals[AccAt] = <<>>
  /\ \A k \in AccAt..ReadLatency-1 : ~InFlight(k)
  /\ \/ /\ state = "wait_for_set"
        /\ \A j \in 1..AccInLatency : ~InFlight(cycles + j)
     \/ \E j \in 1..AccInLatency :
          xIn_n[j] /\ \A i \in j+1..AccInLatency : ~InFlight(cycles + i)

AccumulatorInv == accumulator = totals[AccAt] \/ Leftover

\* The sums on their way to readreg, and readreg itself.
OutInv ==
  /\ \A j \in 1..AccOutLatency :
       InFlight(AccAt + j) => xOut[j] = totals[AccAt + j]
  /\ readreg = totals[ReadLatency]

\* When the program may restart only terms that a reset left behind are in
\* flight, and then every sum is 0.
Quiet ==
  /\ \A k \in 0..ReadLatency-1 : sent[k] \notin X
  /\ (\E k \in 0..ReadLatency-1 : InFlight(k)) =>
       accumulator = <<>> /\ \A k \in 0..ReadLatency : totals[k] = <<>>

SettledInv == settled => Quiet

\* The read on its way through delay_read, what it has to return, and the
\* bubble that follows it as long as nothing is written.
ReadInv ==
  rd = "issued" =>
    /\ delay_read[age]
    /\ totals[age + 1] = expect
    /\ latest => \A k \in 0..age : ~InFlight(k)

\* The inductive invariant.
IInv ==
  /\ TypeOK
  /\ EnablesInv /\ LaneInv /\ MeetInv
  /\ TotalsInv /\ OperandInv /\ FlagInv /\ AccumulatorInv /\ OutInv
  /\ SettledInv /\ ReadInv
=============================================================================
