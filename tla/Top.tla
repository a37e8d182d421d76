--------------------------------- MODULE Top --------------------------------
(***************************************************************************)
(* src/hardware/custom/top.sv: the Avalon slave that feeds every word      *)
(* written at address 0 through term and fp_acc, restarts the sum on a     *)
(* write at address 1, and answers reads with readreg a fixed number of    *)
(* edges later.  There is one operator per always block; ClockEdge is the  *)
(* conjunction of all of them, one rising edge of clk.                     *)
(***************************************************************************)
EXTENDS Term, FpAcc

CONSTANTS cycles, acc_cycles     \* the localparams of the same names

\* cycles and acc_cycles are literals that have to agree with the latency of
\* the datapath and of the accumulator.
ASSUME CyclesMatch ==
  /\ cycles = pipeline_stages + MulLatency + AddLatency
  /\ acc_cycles = AccInLatency + 1 + AccOutLatency

VARIABLES
  clk_enables,      \* clk_enables[0..cycles]: which stages of term are busy
  acc_clk_enables,  \* acc_clk_enables[0..acc_cycles]: those of fp_acc
  state,            \* "idle" or "wait_for_set"
  writereg,         \* the term input
  readreg,          \* the word a read returns
  delay_read        \* delay_read[0..cycles+acc_cycles]

ctrlVars == <<clk_enables, acc_clk_enables, state, writereg, readreg, delay_read>>
topVars  == <<termVars, accVars, ctrlVars>>

ReadStages == cycles + acc_cycles

TopTypeOK ==
  /\ TermTypeOK /\ AccTypeOK
  /\ clk_enables \in [0..cycles -> BOOLEAN]
  /\ acc_clk_enables \in [0..acc_cycles -> BOOLEAN]
  /\ state \in {"idle", "wait_for_set"}
  /\ writereg \in Input
  /\ readreg \in Sum
  /\ delay_read \in [0..ReadStages -> BOOLEAN]

TopInit ==
  /\ TermInit /\ AccInit
  /\ clk_enables = [k \in 0..cycles |-> FALSE]
  /\ acc_clk_enables = [k \in 0..acc_cycles |-> FALSE]
  /\ state = "idle"
  /\ writereg = Zero
  /\ readreg = <<>>
  /\ delay_read = [k \in 0..ReadStages |-> FALSE]

\* FAULTY: the enable falls while a term is in the last adder.
clk_enShort == \E k \in 0..cycles-2 : clk_enables[k]

\* FAULTY: the enable falls before the sum has left the normalisation.
acc_enShort == \E k \in 0..acc_cycles-2 : acc_clk_enables[k]

\* The wires.
clk_en == \E k \in 0..cycles : clk_enables[k]
acc_en == \E k \in 0..acc_cycles-1 : acc_clk_enables[k]
n      == state = "wait_for_set"

\* FAULTY: a bubble is accumulated too.
acc_inUngated == IF clk_en THEN result ELSE Zero

\* In a bubble fp_acc is given the word 0.
acc_in == IF acc_clk_enables[0] /\ clk_en THEN result ELSE Zero

\* A shift register of enables: reset clears it, but bit 0 is assigned after
\* the reset branch and takes its input whatever reset says.
ShiftEnables(enables, in, reset) ==
  [k \in DOMAIN enables |-> IF k = 0 THEN in ELSE ~reset /\ enables[k - 1]]

ClkEnablesEdge(reset, write, address) ==
  clk_enables' = ShiftEnables(clk_enables, write /\ address = 0, reset)

AccClkEnablesEdge(reset) ==
  acc_clk_enables' =
    ShiftEnables(acc_clk_enables, clk_enables[cycles - 1], reset)

\* FAULTY: the flag is dropped one edge late.
next_stateLate(write, address) ==
  IF state = "idle"
    THEN IF write /\ address = 1 THEN "wait_for_set" ELSE "idle"
    ELSE IF acc_clk_enables[1] THEN "idle" ELSE "wait_for_set"

\* FAULTY: the flag is never dropped.
next_stateStuck(write, address) ==
  IF state = "wait_for_set" \/ (write /\ address = 1)
    THEN "wait_for_set" ELSE "idle"

next_state(write, address) ==
  IF state = "idle"
    THEN IF write /\ address = 1 THEN "wait_for_set" ELSE "idle"
    ELSE IF acc_clk_enables[0] THEN "idle" ELSE "wait_for_set"

StateEdge(reset, write, address) ==
  state' = IF reset THEN "idle" ELSE next_state(write, address)

WriteregEdge(reset, write, address, writedata) ==
  writereg' = IF reset THEN Zero
              ELSE IF write /\ address = 0 THEN writedata ELSE writereg

\* FAULTY: a restart leaves the old sum in readreg.
ReadregEdgeKeep(reset, write, address, writedata) ==
  readreg' = IF reset THEN <<>>
             ELSE IF acc_clk_enables[acc_cycles] THEN q ELSE readreg

ReadregEdge(reset, write, address, writedata) ==
  readreg' = IF reset THEN <<>>
             ELSE IF write /\ address = 1 THEN Add(<<>>, writedata)
             ELSE IF acc_clk_enables[acc_cycles] THEN q ELSE readreg

DelayReadEdge(reset, read) ==
  delay_read' = ShiftEnables(delay_read, read, reset)

\* FAULTY: the read answers one edge early.
readdataEarly == IF delay_read[ReadStages - 1] THEN readreg ELSE <<>>

\* The word on the readdata output; <<>> is the word 0.
readdata == IF delay_read[ReadStages] THEN readreg ELSE <<>>

\* One rising edge of clk, with the values of the inputs it samples.
ClockEdge(reset, read, write, address, writedata) ==
  /\ TermEdge(writereg, clk_en, reset)
  /\ AccEdge(acc_in, n, acc_en, reset)
  /\ ClkEnablesEdge(reset, write, address)
  /\ AccClkEnablesEdge(reset)
  /\ StateEdge(reset, write, address)
  /\ WriteregEdge(reset, write, address, writedata)
  /\ ReadregEdge(reset, write, address, writedata)
  /\ DelayReadEdge(reset, read)
=============================================================================
