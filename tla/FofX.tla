-------------------------------- MODULE FofX --------------------------------
(***************************************************************************)
(* The f_of_x_0 peripheral of first_nios2_system.qsys on its bus: top.sv   *)
(* together with the masters that drive it, the data master of the CPU,    *)
(* which runs hello_world.c, and the write master of dma_0.  A step is one *)
(* rising edge of the clock they share; the bus carries at most one        *)
(* command per edge.                                                       *)
(*                                                                         *)
(* The timing of the commands is that of f_of_x_hw.tcl: a write takes one  *)
(* edge; a read is presented on two edges (readWaitTime 1), accepted on    *)
(* the second, and its data is sampled ReadLatency edges later.  The CPU   *)
(* blocks in its IORD, so there is one read at a time, while the DMA       *)
(* master goes on writing terms.  A restart, IOWR(F_OF_X_0_BASE, 1, 0), is *)
(* issued only by a program that has read the sum of all it has written,   *)
(* which is what trigSum and main do.                                      *)
(***************************************************************************)
EXTENDS Top

CONSTANTS
  ReadLatency,   \* readLatency of f_of_x_hw.tcl
  MaxWrites,     \* bound: terms written between two restarts
  NoTerm,        \* no term was written on an edge
  NoSum          \* no sum was asked for or returned

ASSUME BusConstants ==
  /\ ReadLatency = cycles + acc_cycles + 1
  /\ MaxWrites \in Nat \ {0}
  /\ NoTerm \notin Word /\ NoSum \notin Sum

VARIABLES
  rd,        \* the CPU's read: "none", "wait" (wait state) or "issued"
  age,       \* edges since the read was accepted
  answer,    \* the word the CPU sampled on the last edge, or NoSum
  settled,   \* the program has read a sum of everything it has written
  written,   \* terms written since the last restart
  \* History variables: what the edges seen so far amount to.
  total,     \* the non-zero terms written since the last restart
  expect,    \* total when the read was accepted
  latest,    \* no term was written since the read was accepted
  sent,      \* sent[k]: the term written k edges ago, or NoTerm
  totals     \* totals[k]: total k edges ago, or <<>> before the last restart

busVars  == <<rd, age, answer, settled, written>>
histVars == <<total, expect, latest, sent, totals>>
vars     == <<topVars, busVars, histVars>>

BusTypeOK ==
  /\ rd \in {"none", "wait", "issued"}
  /\ age \in 0..ReadLatency-1
  /\ answer \in Sum \cup {NoSum}
  /\ settled \in BOOLEAN /\ latest \in BOOLEAN
  /\ written \in 0..MaxWrites
  /\ total \in Sum /\ expect \in Sum
  /\ sent \in [0..ReadLatency-1 -> Input \cup {NoTerm}]
  /\ totals \in [0..ReadLatency -> Sum]

\* Every register holds a value of its range.
TypeOK == TopTypeOK /\ BusTypeOK

Init ==
  /\ TopInit
  /\ rd = "none" /\ age = 0 /\ answer = NoSum /\ settled = TRUE /\ written = 0
  /\ total = <<>> /\ expect = <<>> /\ latest = FALSE
  /\ sent = [k \in 0..ReadLatency-1 |-> NoTerm]
  /\ totals = [k \in 0..ReadLatency |-> <<>>]

-----------------------------------------------------------------------------
\* One edge with reset_n high and the bus signals it samples; sent remembers
\* the term it carries.
Push(history, v) ==
  [k \in DOMAIN history |-> IF k = 0 THEN v ELSE history[k - 1]]

Edge(read, write, address, data) ==
  /\ ClockEdge(FALSE, read, write, address, data)
  /\ sent' = Push(sent, IF write /\ address = 0 THEN data ELSE NoTerm)

\* History: the total after the edge.  A restart or a reset makes everything
\* before it irrelevant.
Count(newTotal) == total' = newTotal /\ totals' = Push(totals, newTotal)
Forget          == total' = <<>> /\ totals' = [k \in DOMAIN totals |-> <<>>]

\* readLatency edges after the read was accepted the data is on the bus.
Sampling == rd = "issued" /\ age = ReadLatency - 1

\* The CPU's side of an edge on which it presents no read command.
AwaitData ==
  /\ rd # "wait"
  /\ rd' = IF Sampling THEN "none" ELSE rd
  /\ age' = IF rd = "issued" /\ ~Sampling THEN age + 1 ELSE 0
  /\ answer' = IF Sampling THEN readdata ELSE NoSum
  /\ expect' = IF Sampling THEN <<>> ELSE expect

\* FAULTY: any answer settles the sum, also one that a later term outdated.
IdleHasty ==
  /\ Edge(FALSE, FALSE, 0, Zero) /\ Count(total)
  /\ AwaitData
  /\ settled' = (settled \/ Sampling)
  /\ UNCHANGED <<written, latest>>

\* An edge without a command.
Idle ==
  /\ Edge(FALSE, FALSE, 0, Zero) /\ Count(total)
  /\ AwaitData
  /\ settled' = (settled \/ (Sampling /\ latest))
  /\ UNCHANGED <<written, latest>>

\* IOWR(F_OF_X_0_BASE, 0, x) in trigSum, or a beat of the DMA transfer.
WriteEdge(x) ==
  /\ Edge(FALSE, TRUE, 0, x) /\ Count(Add(total, x))
  /\ AwaitData
  /\ settled' = FALSE /\ latest' = FALSE
  /\ written' = written + 1

\* IOWR(F_OF_X_0_BASE, 1, 0x0) in trigSum and main.
RestartEdge ==
  /\ Edge(FALSE, TRUE, 1, Zero) /\ Forget
  /\ written' = 0 /\ answer' = NoSum
  /\ UNCHANGED <<rd, age, settled, expect, latest>>

\* IORD(F_OF_X_0_BASE, 1) presents its read for the wait state.
ReadStartEdge ==
  /\ Edge(TRUE, FALSE, 1, Zero) /\ Count(total)
  /\ rd' = "wait" /\ answer' = NoSum
  /\ UNCHANGED <<age, settled, written, expect, latest>>

\* The read is accepted at the end of its wait state.
ReadAccept ==
  /\ rd = "wait"
  /\ Edge(TRUE, FALSE, 1, Zero) /\ Count(total)
  /\ rd' = "issued" /\ age' = 0 /\ expect' = total /\ latest' = TRUE
  /\ answer' = NoSum
  /\ UNCHANGED <<settled, written>>

\* An edge with reset_n low.  The masters are in reset too, but their command
\* lines may still hold anything.  A write strobe at address 0 sets
\* clk_enables[0] even so, while writereg takes the word 0, and the enable
\* that leaves term enters fp_acc even so; the data and a write at address 1
\* have no effect.
Reset ==
  \E read, write \in BOOLEAN :
    /\ ClockEdge(TRUE, read, write, 0, Zero)
    /\ Forget
    /\ sent' = [k \in DOMAIN sent |->
                 IF (k = 0 /\ write) \/ (k = cycles /\ sent[k - 1] # NoTerm)
                   THEN Zero ELSE NoTerm]
    /\ rd' = "none" /\ age' = 0 /\ answer' = NoSum /\ expect' = <<>>
    /\ settled' = TRUE /\ latest' = FALSE /\ written' = 0

\* When the masters give their commands.
Write(x)  == written < MaxWrites /\ WriteEdge(x)
Restart   == rd = "none" /\ settled /\ RestartEdge
ReadStart == rd = "none" /\ ReadStartEdge

Next == \/ Idle \/ \E x \in Input : Write(x)
        \/ Restart \/ ReadStart \/ ReadAccept \/ Reset

\* The clock never stops.
Spec == Init /\ [][Next]_vars /\ WF_vars(Next)

-----------------------------------------------------------------------------
\* Properties

\* The word the CPU samples is the sum of exactly the terms written, since the
\* last restart, before the read was accepted: neither a term still in the
\* pipeline is missing nor one written later included.  (delay_read against
\* the two enable chains, top.sv:163-176.)
ReadReturnsSum == Sampling => readdata = expect

\* The word the accumulator takes on an enabled edge is f of the input written
\* `cycles` edges earlier: the three lanes of term meet in step whatever
\* pattern of writes opened and closed the clock enable.  (top.sv:114 with
\* term.sv:87-104.)
LanesMeet == (acc_clk_enables[0] /\ clk_en) => result = sent[cycles]

\* The clock enables are high for as long as a term needs them: a term on its
\* way through term, or through the accumulator, is never left standing.
NeverGated ==
  /\ (\E k \in 0..cycles : sent[k] \in X) => clk_en
  /\ (\E k \in cycles..ReadLatency-2 : sent[k] \in X) => acc_en

\* A program that restarts only after reading the sum of its writes finds the
\* pipelines empty, so the n it arms is consumed by the first term of the new
\* sum and the cleared readreg is not overwritten by the old sum.
RestartDrained ==
  (rd = "none" /\ settled) => \A k \in 0..ReadLatency-1 : sent[k] \notin X

\* readreg is the running total as it was ReadLatency edges ago.
ReadregLags == readreg = totals[ReadLatency]

\* A term is consumed by one accumulation only: while the restart flag waits,
\* nothing of the new sum has passed the accumulator's input.
FlagBeforeTerms ==
  state = "wait_for_set" => \A k \in cycles+1..ReadLatency-1 : sent[k] \notin X

\* Whatever is written, readreg catches up with the running total.
Settles == []<>(readreg = total)

\* The peripheral implements the server the programs rely on.
Server == INSTANCE SumServer WITH
  sum <- total, asked <- IF rd = "issued" THEN expect ELSE NoSum
Implements == Server!Spec
=============================================================================
