----------------------------- MODULE FofXProofs -----------------------------
(***************************************************************************)
(* FofX, for all latencies that satisfy the assumptions LanesBalanced,     *)
(* CyclesMatch and BusConstants, any set of inputs and any MaxWrites: its  *)
(* types; what one edge does to every register; from these that IInv is    *)
(* an inductive invariant, which implies the safety properties; and the    *)
(* refinement of SumServer.                                                *)
(***************************************************************************)
EXTENDS FofXInv, TLAPS

-----------------------------------------------------------------------------
\* Types.

\* A clock edge of a register chain keeps its length and its range.
LEMMA ShiftType ==
  ASSUME NEW S, NEW m \in Nat \ {0}, NEW c \in [1..m -> S], NEW in \in S
  PROVE  Shift(c, in) \in [1..m -> S]
BY DEF Shift

\* The same for a chain with an enable and an asynchronous clear.
LEMMA DelayType ==
  ASSUME NEW S, NEW m \in Nat \ {0}, NEW c \in [1..m -> S], NEW in \in S,
         NEW ena, NEW aclr, NEW cleared \in S
  PROVE  Delay(c, in, ena, aclr, cleared) \in [1..m -> S]
<1>1. CASE aclr
  BY <1>1 DEF Delay
<1>2. CASE ~aclr /\ ena
  BY <1>2, ShiftType DEF Delay
<1>3. CASE ~aclr /\ ~ena
  BY <1>3 DEF Delay
<1>. QED BY <1>1, <1>2, <1>3

\* What a chain delivers is in its range.
LEMMA DelayOutType ==
  ASSUME NEW S, NEW m \in Nat \ {0}, NEW c \in [1..m -> S], NEW aclr,
         NEW cleared \in S
  PROVE  DelayOut(c, m, aclr, cleared) \in S
BY DEF DelayOut

\* Adding a word to a sum gives a sum; adding Zero gives the same sum.
LEMMA AddType ==
  ASSUME NEW s \in Sum, NEW x \in Word
  PROVE  Add(s, x) \in Sum
<1>1. CASE x = Zero
  BY <1>1 DEF Add
<1>2. CASE x # Zero
  <2>1. x \in X \cup {Garbage}
    BY <1>2 DEF Word, Input
  <2>. QED BY <1>2, <2>1 DEF Add, Sum
<1>. QED BY <1>1, <1>2

LEMMA EmptySum == <<>> \in Sum
BY DEF Sum

\* The lanes of term.
LEMMA TermEdgeType ==
  ASSUME TermTypeOK, NEW x \in Input, NEW ena, NEW reset,
         TermEdge(x, ena, reset)
  PROVE  TermTypeOK'
<1>. USE TermConstants, WordConstants
<1>0. Zero \in Word /\ x \in Word
  BY DEF Word, Input
<1>1. sqr' \in [1..MulLatency -> Word]
  BY <1>0, DelayType DEF TermEdge, TermTypeOK
<1>2. x_2_delay_line' \in [1..MidDelay -> Word]
  <2>1. DelayOut(sqr, MulLatency, reset, Zero) \in Word
    BY <1>0, DelayOutType DEF TermTypeOK
  <2>. QED BY <2>1, ShiftType DEF TermEdge, TermTypeOK
<1>3. halve' \in [1..MulLatency -> Word]
  BY <1>0, DelayType DEF TermEdge, TermTypeOK
<1>4. half_x_delay_line' \in [1..BottomDelay -> Word]
  <2>1. DelayOut(halve, MulLatency, reset, Zero) \in Word
    BY <1>0, DelayOutType DEF TermTypeOK
  <2>. QED BY <2>1, ShiftType DEF TermEdge, TermTypeOK
<1>5. fixedFractionalAngle' \in Angle
  BY DEF TermEdge, CosineEdge, Angle
<1>6. xyw_p' \in [1..pipeline_stages-1 -> Angle]
  <2>1. Cleared \in Angle
    BY DEF Angle
  <2>2. Shift(xyw_p, fixedFractionalAngle) \in [1..pipeline_stages-1 -> Angle]
    BY ShiftType, pipeline_stages - 1 \in Nat \ {0} DEF TermTypeOK
  <2>. QED BY <2>1, <2>2 DEF TermEdge, CosineEdge, TermTypeOK
<1>7. combine_top_mid' \in [1..MulLatency -> Word]
  <2>1. x_2_delay_line[MidDelay] \in Word
    BY DEF TermTypeOK
  <2>2. Times(cos_angle, x_2_delay_line[MidDelay]) \in Word
    BY <1>0, <2>1 DEF Times, Word
  <2>. QED BY <1>0, <2>2, DelayType DEF TermEdge, TermTypeOK
<1>8. final_adder' \in [1..AddLatency -> Word]
  <2>1. combine_top_mid[MulLatency] \in Word
    BY DEF TermTypeOK
  <2>2. Plus(combine_top_mid[MulLatency], half_x_delay_line[BottomDelay]) \in Word
    BY <2>1 DEF Plus, Word
  <2>. QED BY <1>0, <2>2, DelayType DEF TermEdge, TermTypeOK
<1>. QED BY <1>1, <1>2, <1>3, <1>4, <1>5, <1>6, <1>7, <1>8 DEF TermTypeOK

\* The accumulator.
LEMMA AccEdgeType ==
  ASSUME AccTypeOK, NEW x \in Word, NEW flag \in BOOLEAN, NEW en, NEW reset,
         AccEdge(x, flag, en, reset)
  PROVE  AccTypeOK'
<1>. USE AccConstants, WordConstants
<1>0. Zero \in Word
  BY DEF Word, Input
<1>1. xIn_x' \in [1..AccInLatency -> Word]
  BY <1>0, DelayType DEF AccEdge, AccTypeOK
<1>2. xIn_n' \in [1..AccInLatency -> BOOLEAN]
  <2>1. FALSE \in BOOLEAN
    OBVIOUS
  <2>. QED BY <2>1, DelayType DEF AccEdge, AccTypeOK
<1>3. accumulator' \in Sum
  <2>1. xIn_x[AccInLatency] \in Word
    BY DEF AccTypeOK
  <2>2. Add(<<>>, xIn_x[AccInLatency]) \in Sum
    BY <2>1, EmptySum, AddType
  <2>3. Add(accumulator, xIn_x[AccInLatency]) \in Sum
    BY <2>1, AddType DEF AccTypeOK
  <2>. QED BY <2>2, <2>3, EmptySum DEF AccEdge, Accumulate, AccTypeOK
<1>4. xOut' \in [1..AccOutLatency -> Sum]
  BY EmptySum, DelayType DEF AccEdge, AccTypeOK
<1>. QED BY <1>1, <1>2, <1>3, <1>4 DEF AccTypeOK

\* Every latency is positive, and the sizes of the enable chains follow.
LEMMA Latencies ==
  /\ cycles \in Nat /\ cycles > 3
  /\ acc_cycles \in Nat /\ acc_cycles > 2
  /\ ReadLatency \in Nat /\ ReadLatency = ReadStages + 1
  /\ ReadStages \in Nat /\ ReadStages = cycles + acc_cycles
BY TermConstants, AccConstants, CyclesMatch, BusConstants DEF ReadStages

\* The enables and the read delay stay chains of booleans.
LEMMA EnablesType ==
  ASSUME NEW m \in Nat, NEW e \in [0..m -> BOOLEAN], NEW in \in BOOLEAN,
         NEW reset \in BOOLEAN
  PROVE  ShiftEnables(e, in, reset) \in [0..m -> BOOLEAN]
<1>1. \A k \in 0..m : (IF k = 0 THEN in ELSE ~reset /\ e[k - 1]) \in BOOLEAN
  OBVIOUS
<1>. QED BY <1>1 DEF ShiftEnables

\* One edge of the whole peripheral.
LEMMA ClockEdgeType ==
  ASSUME TopTypeOK, NEW reset \in BOOLEAN, NEW read \in BOOLEAN,
         NEW write \in BOOLEAN, NEW address, NEW data \in Input,
         ClockEdge(reset, read, write, address, data)
  PROVE  TopTypeOK'
<1>. USE WordConstants, Latencies
<1>0. Zero \in Word /\ data \in Word /\ Zero \in Input
  BY DEF Word, Input
<1>1. TermTypeOK'
  BY TermEdgeType DEF ClockEdge, TopTypeOK
<1>2. AccTypeOK'
  <2>1. result \in Word
    BY TermConstants DEF result, TopTypeOK, TermTypeOK
  <2>2. acc_in \in Word
    BY <1>0, <2>1 DEF acc_in
  <2>3. n \in BOOLEAN
    BY DEF n
  <2>. QED BY <2>2, <2>3, AccEdgeType DEF ClockEdge, TopTypeOK
<1>3. clk_enables' \in [0..cycles -> BOOLEAN]
  <2>1. (write /\ address = 0) \in BOOLEAN
    OBVIOUS
  <2>. QED BY <2>1, EnablesType DEF ClockEdge, ClkEnablesEdge, TopTypeOK
<1>4. acc_clk_enables' \in [0..acc_cycles -> BOOLEAN]
  <2>1. clk_enables[cycles - 1] \in BOOLEAN
    BY DEF TopTypeOK
  <2>. QED BY <2>1, EnablesType DEF ClockEdge, AccClkEnablesEdge, TopTypeOK
<1>5. state' \in {"idle", "wait_for_set"}
  BY DEF ClockEdge, StateEdge, next_state, TopTypeOK
<1>6. writereg' \in Input
  BY <1>0 DEF ClockEdge, WriteregEdge, TopTypeOK
<1>7. readreg' \in Sum
  <2>1. q \in Sum
    BY AccConstants DEF q, TopTypeOK, AccTypeOK
  <2>2. Add(<<>>, data) \in Sum
    BY <1>0, EmptySum, AddType
  <2>. QED BY <2>1, <2>2, EmptySum DEF ClockEdge, ReadregEdge, TopTypeOK
<1>8. delay_read' \in [0..ReadStages -> BOOLEAN]
  BY EnablesType DEF ClockEdge, DelayReadEdge, TopTypeOK
<1>. QED BY <1>1, <1>2, <1>3, <1>4, <1>5, <1>6, <1>7, <1>8 DEF TopTypeOK

\* History chains keep their length and range.
LEMMA PushType ==
  ASSUME NEW S, NEW m \in Nat, NEW h \in [0..m -> S], NEW v \in S
  PROVE  Push(h, v) \in [0..m -> S]
BY DEF Push

\* An edge with reset_n high.
LEMMA EdgeType ==
  ASSUME TypeOK, NEW read \in BOOLEAN, NEW write \in BOOLEAN, NEW address,
         NEW data \in Input, Edge(read, write, address, data)
  PROVE  /\ TopTypeOK'
         /\ sent' \in [0..ReadLatency-1 -> Input \cup {NoTerm}]
<1>. USE Latencies
<1>1. TopTypeOK'
  BY ClockEdgeType, FALSE \in BOOLEAN DEF Edge, TypeOK
<1>2. sent' \in [0..ReadLatency-1 -> Input \cup {NoTerm}]
  BY PushType, ReadLatency - 1 \in Nat DEF Edge, TypeOK, BusTypeOK
<1>. QED BY <1>1, <1>2

LEMMA CountType ==
  ASSUME TypeOK, NEW s \in Sum, Count(s)
  PROVE  total' \in Sum /\ totals' \in [0..ReadLatency -> Sum]
BY Latencies, PushType DEF Count, TypeOK, BusTypeOK

LEMMA ForgetType ==
  ASSUME TypeOK, Forget
  PROVE  total' \in Sum /\ totals' \in [0..ReadLatency -> Sum]
BY EmptySum DEF Forget, TypeOK, BusTypeOK

\* The CPU's side of an edge.
LEMMA AwaitDataType ==
  ASSUME TypeOK, AwaitData
  PROVE  /\ rd' \in {"none", "wait", "issued"}
         /\ age' \in 0..ReadLatency-1
         /\ answer' \in Sum \cup {NoSum}
         /\ expect' \in Sum
<1>1. readdata \in Sum
  BY EmptySum DEF readdata, TypeOK, TopTypeOK
<1>2. age' \in 0..ReadLatency-1
  BY Latencies DEF AwaitData, Sampling, TypeOK, BusTypeOK
<1>. QED BY <1>1, <1>2, EmptySum DEF AwaitData, TypeOK, BusTypeOK

\* Init gives every variable a value of its range.
LEMMA TypeInit == Init => TypeOK
<1>. SUFFICES ASSUME Init PROVE TypeOK
  OBVIOUS
<1>. USE Latencies, EmptySum DEF Init, TopInit
<1>0. Zero \in Word /\ Zero \in Input /\ Cleared \in Angle
  BY DEF Word, Input, Angle
<1>1. TermTypeOK
  BY <1>0 DEF TermInit, TermTypeOK
<1>2. AccTypeOK
  BY <1>0 DEF AccInit, AccTypeOK
<1>3. TopTypeOK
  BY <1>0, <1>1, <1>2 DEF TopTypeOK
<1>4. BusTypeOK
  <2>1. sent \in [0..ReadLatency-1 -> Input \cup {NoTerm}]
    OBVIOUS
  <2>2. totals \in [0..ReadLatency -> Sum]
    OBVIOUS
  <2>3. 0 \in 0..MaxWrites /\ 0 \in 0..ReadLatency-1
    BY BusConstants
  <2>. QED BY <2>1, <2>2, <2>3 DEF BusTypeOK
<1>. QED BY <1>3, <1>4 DEF TypeOK

\* Every step keeps every variable in its range.
LEMMA TypeStep == TypeOK /\ [Next]_vars => TypeOK'
<1>. SUFFICES ASSUME TypeOK, [Next]_vars PROVE TypeOK'
  OBVIOUS
<1>. USE Latencies, EmptySum
<1>0. Zero \in Input /\ Zero \in Word /\ total \in Sum
  BY DEF Word, Input, TypeOK, BusTypeOK
<1>1. CASE Idle
  <2>1. TopTypeOK' /\ sent' \in [0..ReadLatency-1 -> Input \cup {NoTerm}]
    BY <1>0, <1>1, EdgeType DEF Idle
  <2>2. total' \in Sum /\ totals' \in [0..ReadLatency -> Sum]
    BY <1>0, <1>1, CountType DEF Idle
  <2>3. settled' \in BOOLEAN /\ latest' \in BOOLEAN /\ written' \in 0..MaxWrites
    BY <1>1 DEF Idle, TypeOK, BusTypeOK, Sampling
  <2>. QED BY <1>1, <2>1, <2>2, <2>3, AwaitDataType DEF Idle, TypeOK, BusTypeOK
<1>2. ASSUME NEW x \in Input, Write(x) PROVE TypeOK'
  <2>0. Add(total, x) \in Sum
    BY <1>0, <1>2, AddType DEF Word
  <2>1. TopTypeOK' /\ sent' \in [0..ReadLatency-1 -> Input \cup {NoTerm}]
    BY <1>2, EdgeType DEF Write, WriteEdge
  <2>2. total' \in Sum /\ totals' \in [0..ReadLatency -> Sum]
    BY <1>2, <2>0, CountType DEF Write, WriteEdge
  <2>3. settled' \in BOOLEAN /\ latest' \in BOOLEAN /\ written' \in 0..MaxWrites
    BY <1>2, BusConstants DEF Write, WriteEdge, TypeOK, BusTypeOK
  <2>. QED BY <1>2, <2>1, <2>2, <2>3, AwaitDataType DEF Write, WriteEdge, TypeOK, BusTypeOK
<1>3. CASE Restart
  <2>1. TopTypeOK' /\ sent' \in [0..ReadLatency-1 -> Input \cup {NoTerm}]
    BY <1>0, <1>3, EdgeType DEF Restart, RestartEdge
  <2>2. total' \in Sum /\ totals' \in [0..ReadLatency -> Sum]
    BY <1>3, ForgetType DEF Restart, RestartEdge
  <2>3. written' \in 0..MaxWrites
    BY <1>3, BusConstants DEF Restart, RestartEdge
  <2>. QED BY <1>3, <2>1, <2>2, <2>3 DEF Restart, RestartEdge, TypeOK, BusTypeOK
<1>4. CASE ReadStart
  <2>1. TopTypeOK' /\ sent' \in [0..ReadLatency-1 -> Input \cup {NoTerm}]
    BY <1>0, <1>4, EdgeType DEF ReadStart, ReadStartEdge
  <2>2. total' \in Sum /\ totals' \in [0..ReadLatency -> Sum]
    BY <1>0, <1>4, CountType DEF ReadStart, ReadStartEdge
  <2>. QED BY <1>4, <2>1, <2>2 DEF ReadStart, ReadStartEdge, TypeOK, BusTypeOK
<1>5. CASE ReadAccept
  <2>1. TopTypeOK' /\ sent' \in [0..ReadLatency-1 -> Input \cup {NoTerm}]
    BY <1>0, <1>5, EdgeType DEF ReadAccept
  <2>2. total' \in Sum /\ totals' \in [0..ReadLatency -> Sum]
    BY <1>0, <1>5, CountType DEF ReadAccept
  <2>. QED BY <1>0, <1>5, <2>1, <2>2 DEF ReadAccept, TypeOK, BusTypeOK
<1>6. CASE Reset
  <2>1. PICK read \in BOOLEAN, write \in BOOLEAN :
          ClockEdge(TRUE, read, write, 0, Zero)
    BY <1>6 DEF Reset
  <2>2. TopTypeOK'
    BY <1>0, <2>1, ClockEdgeType, TRUE \in BOOLEAN DEF TypeOK
  <2>3. sent' \in [0..ReadLatency-1 -> Input \cup {NoTerm}]
    BY <1>0, <1>6 DEF Reset, TypeOK, BusTypeOK
  <2>4. total' \in Sum /\ totals' \in [0..ReadLatency -> Sum]
    BY <1>6, ForgetType DEF Reset
  <2>5. 0 \in 0..MaxWrites /\ 0 \in 0..ReadLatency-1
    BY BusConstants
  <2>. QED BY <1>6, <2>2, <2>3, <2>4, <2>5 DEF Reset, TypeOK, BusTypeOK
<1>7. CASE UNCHANGED vars
  BY <1>7 DEF vars, topVars, termVars, accVars, ctrlVars, busVars, histVars,
              TypeOK, TopTypeOK, BusTypeOK, TermTypeOK, AccTypeOK
<1>. QED BY <1>1, <1>2, <1>3, <1>4, <1>5, <1>6, <1>7 DEF Next

\* Every variable of the peripheral and of its masters stays in its range; in
\* particular nothing but sums of terms is ever read.
THEOREM TypeCorrect == Spec => []TypeOK
BY TypeInit, TypeStep, PTL DEF Spec

-----------------------------------------------------------------------------
\* One edge, register by register.

\* The history after an edge with reset_n high.
LEMMA SentMoves ==
  ASSUME TypeOK, NEW read, NEW write, NEW address, NEW data,
         Edge(read, write, address, data)
  PROVE  /\ sent'[0] = IF write /\ address = 0 THEN data ELSE NoTerm
         /\ \A k \in 1..ReadLatency-1 : sent'[k] = sent[k - 1]
BY Latencies DEF Edge, Push, TypeOK, BusTypeOK

\* The history after a reset.
LEMMA SentResets ==
  ASSUME TypeOK, Reset
  PROVE  /\ sent'[0] \in {Zero, NoTerm}
         /\ sent'[cycles] = IF InFlight(cycles - 1) THEN Zero ELSE NoTerm
         /\ \A k \in 1..ReadLatency-1 : k # cycles => sent'[k] = NoTerm
         /\ \A k \in 0..ReadLatency-1 : sent'[k] \in {Zero, NoTerm}
<1>1. sent \in [0..ReadLatency-1 -> Input \cup {NoTerm}]
  BY DEF TypeOK, BusTypeOK
<1>2. PICK write \in BOOLEAN :
        sent' = [k \in DOMAIN sent |->
                 IF (k = 0 /\ write) \/ (k = cycles /\ sent[k - 1] # NoTerm)
                   THEN Zero ELSE NoTerm]
  BY DEF Reset
<1>. QED BY <1>1, <1>2, Latencies DEF InFlight

\* A chain advances by one register.
LEMMA ShiftMoves ==
  ASSUME NEW m \in Nat \ {0}, NEW c, DOMAIN c = 1..m, NEW in
  PROVE  /\ Shift(c, in)[1] = in
         /\ \A k \in 2..m : Shift(c, in)[k] = c[k - 1]
BY DEF Shift

LEMMA EnablesMove ==
  ASSUME NEW m \in Nat, NEW e \in [0..m -> BOOLEAN], NEW in \in BOOLEAN,
         NEW reset \in BOOLEAN
  PROVE  /\ ShiftEnables(e, in, reset)[0] <=> in
         /\ \A k \in 1..m : ShiftEnables(e, in, reset)[k] <=> ~reset /\ e[k - 1]
<1>1. DOMAIN e = 0..m
  OBVIOUS
<1>2. \A k \in 0..m : ShiftEnables(e, in, reset)[k] =
                         IF k = 0 THEN in ELSE ~reset /\ e[k - 1]
  BY <1>1, Zenon DEF ShiftEnables
<1>3. 0 \in 0..m /\ \A k \in 1..m : k \in 0..m /\ k # 0
  OBVIOUS
<1>4. ShiftEnables(e, in, reset)[0] <=> in
  BY <1>2, <1>3, Zenon
<1>5. ASSUME NEW k \in 1..m
      PROVE  ShiftEnables(e, in, reset)[k] <=> ~reset /\ e[k - 1]
  BY <1>2, <1>3, Zenon
<1>. QED BY <1>4, <1>5

\* While a term is on its way through term the clock enable is high.
LEMMA ClockOn ==
  ASSUME EnablesInv, NEW k \in 0..cycles-1, InFlight(k)
  PROVE  clk_en
BY Latencies DEF EnablesInv, clk_en

\* While one is on its way through fp_acc its enable is high.
LEMMA AccOn ==
  ASSUME EnablesInv
  PROVE  acc_en <=> \E k \in 0..acc_cycles-1 : InFlight(cycles + k)
BY Latencies DEF EnablesInv, acc_en

-----------------------------------------------------------------------------
\* The enables are the terms in flight.
LEMMA EnablesStep ==
  ASSUME TypeOK, EnablesInv, NEW read \in BOOLEAN, NEW write \in BOOLEAN,
         NEW address, NEW data \in Input, Edge(read, write, address, data)
  PROVE  EnablesInv'
<1>. USE Latencies
<1>0. /\ sent'[0] = IF write /\ address = 0 THEN data ELSE NoTerm
      /\ \A k \in 1..ReadLatency-1 : sent'[k] = sent[k - 1]
  BY SentMoves
<1>1. /\ clk_enables'[0] <=> write /\ address = 0
      /\ \A k \in 1..cycles : clk_enables'[k] <=> clk_enables[k - 1]
  <2>1. (write /\ address = 0) \in BOOLEAN
    OBVIOUS
  <2>. QED BY <2>1, EnablesMove
           DEF Edge, ClockEdge, ClkEnablesEdge, TypeOK, TopTypeOK
<1>2. /\ acc_clk_enables'[0] <=> clk_enables[cycles - 1]
      /\ \A k \in 1..acc_cycles : acc_clk_enables'[k] <=> acc_clk_enables[k - 1]
  <2>1. clk_enables[cycles - 1] \in BOOLEAN
    BY DEF TypeOK, TopTypeOK
  <2>. QED BY <2>1, EnablesMove
           DEF Edge, ClockEdge, AccClkEnablesEdge, TypeOK, TopTypeOK
<1>3. data # NoTerm
  BY BusConstants DEF Word
<1>4. \A k \in 0..cycles : clk_enables'[k] => sent'[k] # NoTerm
  BY <1>0, <1>1, <1>3 DEF EnablesInv, InFlight
<1>5. \A k \in 0..cycles : sent'[k] # NoTerm => clk_enables'[k]
  BY <1>0, <1>1, <1>3 DEF EnablesInv, InFlight
<1>6. \A k \in 0..acc_cycles : acc_clk_enables'[k] <=> sent'[cycles + k] # NoTerm
  <2>1. acc_clk_enables'[0] <=> sent'[cycles + 0] # NoTerm
    BY <1>0, <1>2 DEF EnablesInv, InFlight
  <2>2. ASSUME NEW k \in 1..acc_cycles
        PROVE  acc_clk_enables'[k] <=> sent'[cycles + k] # NoTerm
    <3>1. acc_clk_enables'[k] <=> acc_clk_enables[k - 1]
      BY <1>2
    <3>2. sent'[cycles + k] = sent[cycles + (k - 1)]
      BY <1>0
    <3>. QED BY <3>1, <3>2 DEF EnablesInv, InFlight
  <2>. QED BY <2>1, <2>2
<1>. QED BY <1>4, <1>5, <1>6 DEF EnablesInv, InFlight

LEMMA EnablesReset ==
  ASSUME TypeOK, EnablesInv, Reset
  PROVE  EnablesInv'
<1>. USE Latencies
<1>1. PICK write \in BOOLEAN :
        /\ sent' = [k \in DOMAIN sent |->
                 IF (k = 0 /\ write) \/ (k = cycles /\ sent[k - 1] # NoTerm)
                   THEN Zero ELSE NoTerm]
        /\ ClkEnablesEdge(TRUE, write, 0) /\ AccClkEnablesEdge(TRUE)
  BY DEF Reset, ClockEdge
<1>2. \A k \in 0..ReadLatency-1 :
        sent'[k] = IF (k = 0 /\ write) \/ (k = cycles /\ sent[k - 1] # NoTerm)
                   THEN Zero ELSE NoTerm
  BY <1>1 DEF TypeOK, BusTypeOK
<1>3. \A k \in 0..cycles : clk_enables'[k] <=> k = 0 /\ write
  <2>1. (write /\ 0 = 0) \in BOOLEAN /\ TRUE \in BOOLEAN
    OBVIOUS
  <2>2. clk_enables' = ShiftEnables(clk_enables, write /\ 0 = 0, TRUE)
    BY <1>1 DEF ClkEnablesEdge
  <2>3. clk_enables \in [0..cycles -> BOOLEAN]
    BY DEF TypeOK, TopTypeOK
  <2>4. /\ clk_enables'[0] <=> write
        /\ \A k \in 1..cycles : ~clk_enables'[k]
    BY <2>1, <2>2, <2>3, EnablesMove
  <2>. QED BY <2>4
<1>4. \A k \in 0..acc_cycles :
        acc_clk_enables'[k] <=> k = 0 /\ clk_enables[cycles - 1]
  <2>1. clk_enables[cycles - 1] \in BOOLEAN /\ TRUE \in BOOLEAN
    BY DEF TypeOK, TopTypeOK
  <2>2. acc_clk_enables' =
          ShiftEnables(acc_clk_enables, clk_enables[cycles - 1], TRUE)
    BY <1>1 DEF AccClkEnablesEdge
  <2>3. acc_clk_enables \in [0..acc_cycles -> BOOLEAN]
    BY DEF TypeOK, TopTypeOK
  <2>4. /\ acc_clk_enables'[0] <=> clk_enables[cycles - 1]
        /\ \A k \in 1..acc_cycles : ~acc_clk_enables'[k]
    BY <2>1, <2>2, <2>3, EnablesMove
  <2>. QED BY <2>4
<1>5. Zero # NoTerm
  BY BusConstants DEF Word, Input
<1>6. clk_enables[cycles - 1] <=> sent[cycles - 1] # NoTerm
  BY DEF EnablesInv, InFlight
<1>7. \A k \in 0..cycles : clk_enables'[k] => sent'[k] # NoTerm
  BY <1>2, <1>3, <1>5
<1>8. \A k \in 0..cycles-1 : sent'[k] # NoTerm => clk_enables'[k]
  BY <1>2, <1>3
<1>9. sent'[cycles] # NoTerm => sent'[cycles] = Zero
  BY <1>2
<1>10. \A k \in 0..acc_cycles : acc_clk_enables'[k] <=> sent'[cycles + k] # NoTerm
  BY <1>2, <1>4, <1>5, <1>6
<1>. QED BY <1>7, <1>8, <1>9, <1>10 DEF EnablesInv, InFlight

-----------------------------------------------------------------------------
\* The delay lines and the angle register always move, the generated cores
\* and the rotation pipeline while the clock enable is high.
LEMMA TermMoves ==
  ASSUME TypeOK, NEW x, TermEdge(x, clk_en, FALSE)
  PROVE  /\ x_2_delay_line'[1] = sqr[MulLatency]
         /\ \A j \in 2..MidDelay : x_2_delay_line'[j] = x_2_delay_line[j - 1]
         /\ half_x_delay_line'[1] = halve[MulLatency]
         /\ \A j \in 2..BottomDelay : half_x_delay_line'[j] = half_x_delay_line[j - 1]
         /\ fixedFractionalAngle' = x
         /\ clk_en =>
              /\ sqr'[1] = x /\ \A j \in 2..MulLatency : sqr'[j] = sqr[j - 1]
              /\ halve'[1] = x /\ \A j \in 2..MulLatency : halve'[j] = halve[j - 1]
              /\ xyw_p'[1] = fixedFractionalAngle
              /\ \A j \in 2..pipeline_stages-1 : xyw_p'[j] = xyw_p[j - 1]
              /\ combine_top_mid'[1] = Times(cos_angle, x_2_delay_line[MidDelay])
              /\ \A j \in 2..MulLatency : combine_top_mid'[j] = combine_top_mid[j - 1]
              /\ final_adder'[1] =
                   Plus(combine_top_mid[MulLatency], half_x_delay_line[BottomDelay])
              /\ \A j \in 2..AddLatency : final_adder'[j] = final_adder[j - 1]
<1>. USE TermConstants
<1>0. /\ DOMAIN sqr = 1..MulLatency /\ DOMAIN halve = 1..MulLatency
      /\ DOMAIN x_2_delay_line = 1..MidDelay
      /\ DOMAIN half_x_delay_line = 1..BottomDelay
      /\ DOMAIN xyw_p = 1..pipeline_stages-1
      /\ DOMAIN combine_top_mid = 1..MulLatency
      /\ DOMAIN final_adder = 1..AddLatency
  BY DEF TypeOK, TopTypeOK, TermTypeOK
<1>1. /\ x_2_delay_line' = Shift(x_2_delay_line, sqr[MulLatency])
      /\ half_x_delay_line' = Shift(half_x_delay_line, halve[MulLatency])
      /\ fixedFractionalAngle' = x
  BY DEF TermEdge, DelayOut, CosineEdge
<1>2. /\ x_2_delay_line'[1] = sqr[MulLatency]
      /\ \A j \in 2..MidDelay : x_2_delay_line'[j] = x_2_delay_line[j - 1]
      /\ half_x_delay_line'[1] = halve[MulLatency]
      /\ \A j \in 2..BottomDelay : half_x_delay_line'[j] = half_x_delay_line[j - 1]
  BY <1>0, <1>1, ShiftMoves
<1>3. ASSUME clk_en
      PROVE  /\ sqr' = Shift(sqr, x) /\ halve' = Shift(halve, x)
             /\ xyw_p' = Shift(xyw_p, fixedFractionalAngle)
             /\ combine_top_mid' =
                  Shift(combine_top_mid, Times(cos_angle, x_2_delay_line[MidDelay]))
             /\ final_adder' =
                  Shift(final_adder, Plus(combine_top_mid[MulLatency],
                                          half_x_delay_line[BottomDelay]))
  BY <1>3 DEF TermEdge, CosineEdge, Delay
<1>4. pipeline_stages - 1 \in Nat \ {0}
  OBVIOUS
<1>5. ASSUME clk_en
      PROVE  /\ sqr'[1] = x /\ \A j \in 2..MulLatency : sqr'[j] = sqr[j - 1]
             /\ halve'[1] = x /\ \A j \in 2..MulLatency : halve'[j] = halve[j - 1]
             /\ xyw_p'[1] = fixedFractionalAngle
             /\ \A j \in 2..pipeline_stages-1 : xyw_p'[j] = xyw_p[j - 1]
  BY <1>0, <1>3, <1>4, <1>5, ShiftMoves
<1>6. ASSUME clk_en
      PROVE  /\ combine_top_mid'[1] = Times(cos_angle, x_2_delay_line[MidDelay])
             /\ \A j \in 2..MulLatency : combine_top_mid'[j] = combine_top_mid[j - 1]
             /\ final_adder'[1] =
                  Plus(combine_top_mid[MulLatency], half_x_delay_line[BottomDelay])
             /\ \A j \in 2..AddLatency : final_adder'[j] = final_adder[j - 1]
  BY <1>0, <1>3, <1>6, ShiftMoves
<1>. QED BY <1>1, <1>2, <1>5, <1>6

\* The lanes of term.  A term in flight keeps the clock enable high, so the
\* gated registers move exactly when the ungated delay lines do.
LEMMA LaneStep ==
  ASSUME TypeOK, EnablesInv, LaneInv, NEW read \in BOOLEAN,
         NEW write \in BOOLEAN, NEW address, NEW data \in Input,
         Edge(read, write, address, data)
  PROVE  LaneInv'
<1>. USE Latencies, TermConstants, LanesBalanced, CyclesMatch
<1>0. /\ sent'[0] = IF write /\ address = 0 THEN data ELSE NoTerm
      /\ \A k \in 1..ReadLatency-1 : sent'[k] = sent[k - 1]
  BY SentMoves
<1>1. \A k \in 1..cycles : sent'[k] # NoTerm => clk_en
  BY <1>0, ClockOn DEF InFlight
<1>2. TermEdge(writereg, clk_en, FALSE)
  BY DEF Edge, ClockEdge
<1>3. sent'[0] # NoTerm => writereg' = sent'[0]
  BY <1>0 DEF Edge, ClockEdge, WriteregEdge
<1>4. ASSUME NEW k \in 1..MulLatency, sent'[k] # NoTerm
      PROVE  sqr'[k] = sent'[k] /\ halve'[k] = sent'[k]
  <2>1. clk_en /\ sent'[k] = sent[k - 1]
    BY <1>0, <1>1, <1>4
  <2>2. /\ sqr'[1] = writereg /\ \A j \in 2..MulLatency : sqr'[j] = sqr[j - 1]
        /\ halve'[1] = writereg /\ \A j \in 2..MulLatency : halve'[j] = halve[j - 1]
    BY <1>2, <2>1, TermMoves
  <2>. QED BY <1>4, <2>1, <2>2 DEF LaneInv, InFlight
<1>5. ASSUME NEW k \in 1..MidDelay, sent'[MulLatency + k] # NoTerm
      PROVE  x_2_delay_line'[k] = sent'[MulLatency + k]
  <2>1. sent'[MulLatency + k] = sent[MulLatency + k - 1]
    BY <1>0
  <2>2. /\ x_2_delay_line'[1] = sqr[MulLatency]
        /\ \A j \in 2..MidDelay : x_2_delay_line'[j] = x_2_delay_line[j - 1]
    BY <1>2, TermMoves
  <2>3. CASE k = 1
    BY <1>5, <2>1, <2>2, <2>3 DEF LaneInv, InFlight
  <2>4. CASE k # 1
    <3>1. k - 1 \in 1..MidDelay /\ MulLatency + (k - 1) = MulLatency + k - 1
      BY <2>4
    <3>. QED BY <1>5, <2>1, <2>2, <2>4, <3>1 DEF LaneInv, InFlight
  <2>. QED BY <2>3, <2>4
<1>6. ASSUME NEW k \in 1..BottomDelay, sent'[MulLatency + k] # NoTerm
      PROVE  half_x_delay_line'[k] = sent'[MulLatency + k]
  <2>1. sent'[MulLatency + k] = sent[MulLatency + k - 1]
    BY <1>0
  <2>2. /\ half_x_delay_line'[1] = halve[MulLatency]
        /\ \A j \in 2..BottomDelay : half_x_delay_line'[j] = half_x_delay_line[j - 1]
    BY <1>2, TermMoves
  <2>3. CASE k = 1
    BY <1>6, <2>1, <2>2, <2>3 DEF LaneInv, InFlight
  <2>4. CASE k # 1
    <3>1. k - 1 \in 1..BottomDelay /\ MulLatency + (k - 1) = MulLatency + k - 1
      BY <2>4
    <3>. QED BY <1>6, <2>1, <2>2, <2>4, <3>1 DEF LaneInv, InFlight
  <2>. QED BY <2>3, <2>4
<1>7. sent'[1] # NoTerm => fixedFractionalAngle' = sent'[1]
  BY <1>0, <1>2 DEF TermEdge, CosineEdge, LaneInv, InFlight
<1>8. ASSUME NEW k \in 1..pipeline_stages-1, sent'[k + 1] # NoTerm
      PROVE  xyw_p'[k] = sent'[k + 1]
  <2>1. clk_en /\ sent'[k + 1] = sent[k]
    BY <1>0, <1>1, <1>8
  <2>2. /\ xyw_p'[1] = fixedFractionalAngle
        /\ \A j \in 2..pipeline_stages-1 : xyw_p'[j] = xyw_p[j - 1]
    BY <1>2, <2>1, TermMoves
  <2>. QED BY <1>8, <2>1, <2>2 DEF LaneInv, InFlight
<1>. QED BY <1>3, <1>4, <1>5, <1>6, <1>7, <1>8 DEF LaneInv, InFlight

\* Behind the place where the lanes meet.
LEMMA MeetStep ==
  ASSUME TypeOK, EnablesInv, LaneInv, MeetInv, NEW read \in BOOLEAN,
         NEW write \in BOOLEAN, NEW address, NEW data \in Input,
         Edge(read, write, address, data)
  PROVE  MeetInv'
<1>. USE Latencies, TermConstants, LanesBalanced, CyclesMatch
<1>0. \A k \in 1..ReadLatency-1 : sent'[k] = sent[k - 1]
  BY SentMoves
<1>1. \A k \in 1..cycles : sent'[k] # NoTerm => clk_en
  BY <1>0, ClockOn DEF InFlight
<1>2. TermEdge(writereg, clk_en, FALSE)
  BY DEF Edge, ClockEdge
<1>3. ASSUME NEW k \in 1..MulLatency, sent'[pipeline_stages + k] # NoTerm
      PROVE  combine_top_mid'[k] = sent'[pipeline_stages + k]
  <2>1. clk_en /\ sent'[pipeline_stages + k] = sent[pipeline_stages + k - 1]
    BY <1>0, <1>1, <1>3
  <2>2. /\ combine_top_mid'[1] = Times(cos_angle, x_2_delay_line[MidDelay])
        /\ \A j \in 2..MulLatency : combine_top_mid'[j] = combine_top_mid[j - 1]
    BY <1>2, <2>1, TermMoves
  <2>3. CASE k = 1
    <3>1. InFlight(pipeline_stages)
      BY <1>3, <2>1, <2>3 DEF InFlight
    <3>2. x_2_delay_line[MidDelay] = sent[pipeline_stages]
      BY <3>1 DEF LaneInv
    <3>3. cos_angle = sent[pipeline_stages]
      <4>1. /\ pipeline_stages - 1 \in 1..pipeline_stages-1
            /\ (pipeline_stages - 1) + 1 = pipeline_stages
        OBVIOUS
      <4>. QED BY <3>1, <4>1 DEF LaneInv, cos_angle
    <3>. QED BY <2>1, <2>2, <2>3, <3>2, <3>3 DEF Times
  <2>4. CASE k # 1
    <3>1. k - 1 \in 1..MulLatency /\ pipeline_stages + (k - 1) = pipeline_stages + k - 1
      BY <2>4
    <3>. QED BY <1>3, <2>1, <2>2, <2>4, <3>1 DEF MeetInv, InFlight
  <2>. QED BY <2>3, <2>4
<1>4. ASSUME NEW k \in 1..AddLatency,
             sent'[pipeline_stages + MulLatency + k] # NoTerm
      PROVE  final_adder'[k] = sent'[pipeline_stages + MulLatency + k]
  <2>1. /\ clk_en
        /\ sent'[pipeline_stages + MulLatency + k]
             = sent[pipeline_stages + MulLatency + k - 1]
    BY <1>0, <1>1, <1>4
  <2>2. /\ final_adder'[1] =
             Plus(combine_top_mid[MulLatency], half_x_delay_line[BottomDelay])
        /\ \A j \in 2..AddLatency : final_adder'[j] = final_adder[j - 1]
    BY <1>2, <2>1, TermMoves
  <2>3. CASE k = 1
    <3>1. InFlight(pipeline_stages + MulLatency)
      BY <1>4, <2>1, <2>3 DEF InFlight
    <3>2. combine_top_mid[MulLatency] = sent[pipeline_stages + MulLatency]
      BY <3>1 DEF MeetInv
    <3>3. half_x_delay_line[BottomDelay] = sent[pipeline_stages + MulLatency]
      <4>1. MulLatency + BottomDelay = pipeline_stages + MulLatency
        OBVIOUS
      <4>. QED BY <3>1, <4>1 DEF LaneInv
    <3>. QED BY <2>1, <2>2, <2>3, <3>2, <3>3 DEF Plus
  <2>4. CASE k # 1
    <3>1. /\ k - 1 \in 1..AddLatency
          /\ pipeline_stages + MulLatency + (k - 1)
               = pipeline_stages + MulLatency + k - 1
      BY <2>4
    <3>. QED BY <1>4, <2>1, <2>2, <2>4, <3>1 DEF MeetInv, InFlight
  <2>. QED BY <2>3, <2>4
<1>. QED BY <1>3, <1>4 DEF MeetInv, InFlight

\* A reset leaves at most the term Zero at position 0, in writereg, and at
\* position cycles, at the cleared result.
LEMMA LaneReset ==
  ASSUME TypeOK, Reset
  PROVE  LaneInv' /\ MeetInv'
<1>. USE Latencies, TermConstants, LanesBalanced, CyclesMatch
<1>1. /\ sent'[0] \in {Zero, NoTerm}
      /\ sent'[cycles] \in {Zero, NoTerm}
      /\ \A k \in 1..ReadLatency-1 : k # cycles => sent'[k] = NoTerm
  BY SentResets
<1>2. writereg' = Zero
  BY DEF Reset, ClockEdge, WriteregEdge
<1>3. LaneInv'
  BY <1>1, <1>2 DEF LaneInv, InFlight
<1>4. final_adder'[AddLatency] = Zero
  <2>1. TermEdge(writereg, clk_en, TRUE)
    BY DEF Reset, ClockEdge
  <2>. QED BY <2>1 DEF TermEdge, Delay, TypeOK, TopTypeOK, TermTypeOK
<1>5. \A k \in 1..MulLatency : sent'[pipeline_stages + k] = NoTerm
  BY <1>1
<1>6. \A k \in 1..AddLatency : sent'[pipeline_stages + MulLatency + k] # NoTerm
        => k = AddLatency /\ sent'[pipeline_stages + MulLatency + k] = Zero
  BY <1>1
<1>7. MeetInv'
  BY <1>4, <1>5, <1>6 DEF MeetInv, InFlight
<1>. QED BY <1>3, <1>7

-----------------------------------------------------------------------------
\* The running totals.
LEMMA AddZero == \A s : Add(s, Zero) = s
BY DEF Add

\* The histories after an edge that counts what it carries.
LEMMA TotalsMove ==
  ASSUME TypeOK, NEW s, Count(s)
  PROVE  total' = s /\ totals'[0] = s
         /\ \A k \in 1..ReadLatency : totals'[k] = totals[k - 1]
BY Latencies DEF Count, Push, TypeOK, BusTypeOK

LEMMA TotalsForget ==
  ASSUME TypeOK, Forget
  PROVE  total' = <<>> /\ \A k \in 0..ReadLatency : totals'[k] = <<>>
BY Latencies DEF Forget, TypeOK, BusTypeOK

\* An edge that carries a term or nothing, and counts it.
Counted(write, address, data) ==
  /\ ~(write /\ address = 1)
  /\ Count(IF write /\ address = 0 THEN Add(total, data) ELSE total)

LEMMA TotalsStep ==
  ASSUME TypeOK, TotalsInv, NEW read, NEW write, NEW address,
         NEW data \in Input, Edge(read, write, address, data),
         Counted(write, address, data)
  PROVE  TotalsInv'
<1>. USE Latencies
<1>1. /\ sent'[0] = IF write /\ address = 0 THEN data ELSE NoTerm
      /\ \A k \in 1..ReadLatency-1 : sent'[k] = sent[k - 1]
  BY SentMoves
<1>2. /\ total' = totals'[0]
      /\ totals'[0] = IF write /\ address = 0 THEN Add(total, data) ELSE total
      /\ \A k \in 1..ReadLatency : totals'[k] = totals[k - 1]
  BY TotalsMove DEF Counted
<1>3. data # NoTerm
  BY BusConstants DEF Word
<1>4. totals'[0] = IF sent'[0] # NoTerm THEN Add(totals'[1], sent'[0]) ELSE totals'[1]
  BY <1>1, <1>2, <1>3 DEF TotalsInv
<1>5. ASSUME NEW k \in 1..ReadLatency-1
      PROVE  totals'[k] = IF sent'[k] # NoTerm THEN Add(totals'[k + 1], sent'[k])
                                               ELSE totals'[k + 1]
  <2>1. totals'[k] = totals[k - 1] /\ totals'[k + 1] = totals[(k - 1) + 1]
    BY <1>2
  <2>2. sent'[k] = sent[k - 1] /\ k - 1 \in 0..ReadLatency-1
    BY <1>1
  <2>. QED BY <2>1, <2>2 DEF TotalsInv, InFlight
<1>. QED BY <1>2, <1>4, <1>5 DEF TotalsInv, InFlight

\* When only Zero is in flight, forgetting the totals keeps them right.
LEMMA TotalsForgotten ==
  ASSUME TypeOK, TypeOK', Forget, \A k \in 0..ReadLatency-1 : sent'[k] \notin X
  PROVE  TotalsInv'
<1>1. total' = <<>> /\ \A k \in 0..ReadLatency : totals'[k] = <<>>
  BY TotalsForget
<1>2. \A k \in 0..ReadLatency-1 : sent'[k] # NoTerm => sent'[k] = Zero
  BY DEF TypeOK, BusTypeOK, Input
<1>. QED BY <1>1, <1>2, AddZero, Latencies DEF TotalsInv, InFlight

-----------------------------------------------------------------------------
\* The accumulator.
LEMMA AccMoves ==
  ASSUME TypeOK, NEW read, NEW write, NEW address, NEW data,
         Edge(read, write, address, data)
  PROVE  /\ acc_en =>
              /\ xIn_x'[1] = acc_in
              /\ \A j \in 2..AccInLatency : xIn_x'[j] = xIn_x[j - 1]
              /\ xIn_n'[1] <=> n
              /\ \A j \in 2..AccInLatency : xIn_n'[j] <=> xIn_n[j - 1]
              /\ accumulator' = Accumulate(accumulator, xIn_x[AccInLatency],
                                           xIn_n[AccInLatency])
              /\ xOut'[1] = accumulator
              /\ \A j \in 2..AccOutLatency : xOut'[j] = xOut[j - 1]
         /\ ~acc_en => /\ xIn_x' = xIn_x /\ xIn_n' = xIn_n
                       /\ accumulator' = accumulator /\ xOut' = xOut
<1>. USE AccConstants
<1>0. AccEdge(acc_in, n, acc_en, FALSE)
  BY DEF Edge, ClockEdge
<1>1. /\ DOMAIN xIn_x = 1..AccInLatency /\ DOMAIN xIn_n = 1..AccInLatency
      /\ DOMAIN xOut = 1..AccOutLatency
  BY DEF TypeOK, TopTypeOK, AccTypeOK
<1>2. CASE acc_en
  <2>1. /\ xIn_x' = Shift(xIn_x, acc_in) /\ xIn_n' = Shift(xIn_n, n)
        /\ xOut' = Shift(xOut, accumulator)
        /\ accumulator' = Accumulate(accumulator, xIn_x[AccInLatency],
                                     xIn_n[AccInLatency])
    BY <1>0, <1>2 DEF AccEdge, Delay
  <2>2. xOut'[1] = accumulator /\ \A j \in 2..AccOutLatency : xOut'[j] = xOut[j - 1]
    BY <1>1, <2>1, ShiftMoves
  <2>4. /\ xIn_x'[1] = acc_in
        /\ \A j \in 2..AccInLatency : xIn_x'[j] = xIn_x[j - 1]
    BY <1>1, <2>1, ShiftMoves
  <2>3. /\ xIn_n'[1] = n /\ \A j \in 2..AccInLatency : xIn_n'[j] = xIn_n[j - 1]
    BY <1>1, <2>1, ShiftMoves
  <2>. QED BY <1>2, <2>1, <2>2, <2>3, <2>4
<1>3. CASE ~acc_en
  BY <1>0, <1>3 DEF AccEdge, Delay
<1>. QED BY <1>2, <1>3

\* The operand fp_acc takes is the term that reaches it, and 0 in a bubble.
LEMMA OperandIn ==
  ASSUME EnablesInv, MeetInv
  PROVE  acc_in = IF InFlight(cycles) THEN sent[cycles] ELSE Zero
<1>. USE Latencies, TermConstants, CyclesMatch
<1>1. acc_clk_enables[0] <=> InFlight(cycles)
  BY DEF EnablesInv
<1>2. InFlight(cycles) => result = sent[cycles]
  BY DEF MeetInv, result
<1>3. InFlight(cycles) => clk_en \/ sent[cycles] = Zero
  BY DEF EnablesInv, clk_en
<1>. QED BY <1>1, <1>2, <1>3 DEF acc_in

LEMMA OperandStep ==
  ASSUME TypeOK, EnablesInv, MeetInv, OperandInv, NEW read, NEW write,
         NEW address, NEW data, Edge(read, write, address, data)
  PROVE  OperandInv'
<1>. USE Latencies, AccConstants, CyclesMatch
<1>1. \A k \in 1..ReadLatency-1 : sent'[k] = sent[k - 1]
  BY SentMoves
<1>2. /\ acc_en => /\ xIn_x'[1] = acc_in
                   /\ \A j \in 2..AccInLatency : xIn_x'[j] = xIn_x[j - 1]
      /\ ~acc_en => xIn_x' = xIn_x
  BY AccMoves
<1>3. ASSUME NEW j \in 1..AccInLatency
      PROVE  xIn_x'[j] = IF sent'[cycles + j] # NoTerm THEN sent'[cycles + j] ELSE Zero
  <2>1. sent'[cycles + j] = sent[cycles + (j - 1)]
    BY <1>1
  <2>2. CASE acc_en /\ j = 1
    <3>1. acc_in = IF InFlight(cycles) THEN sent[cycles] ELSE Zero
      BY OperandIn
    <3>2. xIn_x'[j] = acc_in /\ sent'[cycles + j] = sent[cycles]
      BY <1>2, <2>1, <2>2
    <3>. QED BY <3>1, <3>2 DEF InFlight
  <2>3. CASE acc_en /\ j # 1
    <3>1. xIn_x'[j] = xIn_x[j - 1] /\ j - 1 \in 1..AccInLatency
      BY <1>2, <2>3
    <3>. QED BY <2>1, <3>1 DEF OperandInv, InFlight
  <2>4. CASE ~acc_en
    <3>1. xIn_x'[j] = xIn_x[j]
      BY <1>2, <2>4
    <3>2. ~InFlight(cycles + j) /\ ~InFlight(cycles + (j - 1))
      <4>1. j \in 0..acc_cycles-1 /\ j - 1 \in 0..acc_cycles-1
        OBVIOUS
      <4>. QED BY <2>4, <4>1, AccOn
    <3>. QED BY <2>1, <3>1, <3>2 DEF OperandInv, InFlight
  <2>. QED BY <2>2, <2>3, <2>4
<1>. QED BY <1>3 DEF OperandInv, InFlight

LEMMA OperandReset ==
  ASSUME TypeOK, Reset
  PROVE  OperandInv'
<1>. USE Latencies, AccConstants, CyclesMatch
<1>1. \A j \in 1..AccInLatency : sent'[cycles + j] = NoTerm
  BY SentResets
<1>2. \A j \in 1..AccInLatency : xIn_x'[j] = Zero
  BY DEF Reset, ClockEdge, AccEdge, Delay, TypeOK, TopTypeOK, AccTypeOK
<1>. QED BY <1>1, <1>2 DEF OperandInv, InFlight

\* Nothing is in flight at a place of fp_acc: the total before it and the
\* total behind it are the same.
LEMMA SameTotal ==
  ASSUME TotalsInv, NEW k \in 0..ReadLatency-1, ~InFlight(k)
  PROVE  totals[k] = totals[k + 1]
BY DEF TotalsInv

\* The flag.
LEMMA FlagStep ==
  ASSUME TypeOK, EnablesInv, TotalsInv, FlagInv, NEW read, NEW write,
         NEW address, NEW data, Edge(read, write, address, data),
         Counted(write, address, data)
  PROVE  FlagInv'
<1>. USE Latencies, AccConstants, CyclesMatch
<1>1. /\ \A k \in 1..ReadLatency-1 : sent'[k] = sent[k - 1]
      /\ \A k \in 1..ReadLatency : totals'[k] = totals[k - 1]
  BY SentMoves, TotalsMove DEF Counted
<1>2. ASSUME state' = "wait_for_set"
      PROVE  /\ totals'[cycles + 1] = <<>>
             /\ \A k \in cycles+1..ReadLatency-1 : sent'[k] \notin X
  <2>1. state = "wait_for_set" /\ ~acc_clk_enables[0]
    BY <1>2 DEF Edge, ClockEdge, StateEdge, next_state, Counted, TypeOK, TopTypeOK
  <2>2. ~InFlight(cycles)
    BY <2>1 DEF EnablesInv
  <2>3. totals'[cycles + 1] = totals[cycles] /\ totals[cycles] = totals[cycles + 1]
    BY <1>1, <2>2, SameTotal
  <2>4. sent[cycles] \notin X
    BY <2>2, BusConstants DEF InFlight, Word, Input
  <2>5. totals'[cycles + 1] = <<>>
    BY <2>1, <2>3 DEF FlagInv
  <2>6. ASSUME NEW k \in cycles+1..ReadLatency-1
        PROVE  sent'[k] \notin X
    <3>1. sent'[k] = sent[k - 1]
      BY <1>1
    <3>2. CASE k = cycles + 1
      BY <2>4, <3>1, <3>2
    <3>3. CASE k # cycles + 1
      <4>1. k - 1 \in cycles+1..ReadLatency-1
        BY <3>3
      <4>. QED BY <2>1, <3>1, <4>1 DEF FlagInv
    <3>. QED BY <3>2, <3>3
  <2>. QED BY <2>5, <2>6
<1>3. ASSUME NEW j \in 1..AccInLatency, xIn_n'[j]
      PROVE  totals'[cycles + j + 1] = <<>>
  <2>1. totals'[cycles + j + 1] = totals[cycles + j]
    BY <1>1
  <2>2. CASE acc_en /\ j = 1
    <3>1. n
      BY <1>3, <2>2, AccMoves
    <3>2. totals[cycles + 1] = <<>>
      BY <3>1 DEF FlagInv, n
    <3>. QED BY <2>1, <2>2, <3>2
  <2>3. CASE acc_en /\ j # 1
    <3>1. j \in 2..AccInLatency /\ j - 1 \in 1..AccInLatency
      BY <2>3
    <3>2. xIn_n[j - 1]
      BY <1>3, <2>3, <3>1, AccMoves
    <3>. QED BY <2>1, <3>1, <3>2 DEF FlagInv
  <2>4. CASE ~acc_en
    <3>1. xIn_n[j]
      BY <1>3, <2>4, AccMoves
    <3>2. j \in 0..acc_cycles-1 /\ cycles + j \in 0..ReadLatency-1
      OBVIOUS
    <3>3. ~InFlight(cycles + j)
      BY <2>4, <3>2, AccOn
    <3>. QED BY <2>1, <3>1, <3>2, <3>3, SameTotal DEF FlagInv
  <2>. QED BY <2>2, <2>3, <2>4
<1>. QED BY <1>2, <1>3 DEF FlagInv

LEMMA FlagForgotten ==
  ASSUME TypeOK, Forget, \A k \in 0..ReadLatency-1 : sent'[k] \notin X
  PROVE  FlagInv'
<1>1. \A k \in 0..ReadLatency : totals'[k] = <<>>
  BY TotalsForget
<1>2. \A j \in 0..AccInLatency : cycles + j + 1 \in 0..ReadLatency
  BY Latencies, AccConstants, CyclesMatch
<1>3. totals'[cycles + 1] = <<>>
  BY <1>1, Latencies
<1>4. \A k \in cycles+1..ReadLatency-1 : sent'[k] \notin X
  BY Latencies
<1>5. \A j \in 1..AccInLatency : totals'[cycles + j + 1] = <<>>
  BY <1>1, <1>2, AccConstants
<1>. QED BY <1>3, <1>4, <1>5 DEF FlagInv

-----------------------------------------------------------------------------
\* The accumulator register: right, or stale without consequence.
LEMMA AccAtRange ==
  /\ AccAt \in Nat /\ AccAt = cycles + AccInLatency + 1
  /\ AccAt \in 1..ReadLatency-1
  /\ ReadLatency = AccAt + AccOutLatency + 1
<1>1. AccAt \in Nat
  BY Latencies, AccConstants DEF AccAt
<1>2. ReadLatency = AccAt + AccOutLatency + 1
  BY Latencies, AccConstants, CyclesMatch, BusConstants DEF AccAt
<1>3. AccAt \in 1..ReadLatency-1
  BY <1>1, <1>2, Latencies, AccConstants DEF AccAt
<1>. QED BY <1>1, <1>2, <1>3 DEF AccAt

\* A register that holds the total of its place holds it after an edge too.
LEMMA AccumulatorRight ==
  ASSUME TypeOK, EnablesInv, TotalsInv, OperandInv, FlagInv,
         accumulator = totals[AccAt], NEW read, NEW write, NEW address,
         NEW data, Edge(read, write, address, data),
         Counted(write, address, data)
  PROVE  accumulator' = totals'[AccAt]
<1>. USE Latencies, AccConstants, CyclesMatch, AccAtRange
<1>1. totals'[AccAt] = totals[AccAt - 1]
  BY TotalsMove DEF Counted
<1>2. AccAt - 1 = cycles + AccInLatency /\ AccAt - 1 \in 0..ReadLatency-1
  OBVIOUS
<1>3. totals[AccAt - 1] = Add(totals[AccAt], xIn_x[AccInLatency])
  <2>1. xIn_x[AccInLatency] = IF InFlight(AccAt - 1) THEN sent[AccAt - 1] ELSE Zero
    BY <1>2 DEF OperandInv
  <2>2. totals[AccAt - 1] = IF InFlight(AccAt - 1)
                             THEN Add(totals[AccAt], sent[AccAt - 1])
                             ELSE totals[AccAt]
    BY <1>2 DEF TotalsInv
  <2>. QED BY <2>1, <2>2, AddZero
<1>4. CASE acc_en
  <2>1. accumulator' = Accumulate(accumulator, xIn_x[AccInLatency], xIn_n[AccInLatency])
    BY <1>4, AccMoves
  <2>2. xIn_n[AccInLatency] => totals[AccAt] = <<>>
    <3>1. AccInLatency \in 1..AccInLatency
      OBVIOUS
    <3>2. xIn_n[AccInLatency] => totals[cycles + AccInLatency + 1] = <<>>
      BY <3>1, Zenon DEF FlagInv
    <3>. QED BY <3>2
  <2>. QED BY <1>1, <1>3, <2>1, <2>2 DEF Accumulate
<1>5. CASE ~acc_en
  <2>1. accumulator' = accumulator
    BY <1>5, AccMoves
  <2>2. AccInLatency \in 0..acc_cycles-1
    OBVIOUS
  <2>3. ~InFlight(AccAt - 1)
    BY <1>2, <1>5, <2>2, AccOn
  <2>. QED BY <1>1, <1>2, <2>1, <2>3, SameTotal
<1>. QED BY <1>4, <1>5

\* A stale register stays stale or is loaded with the first term of the total.
LEMMA AccumulatorStale ==
  ASSUME TypeOK, EnablesInv, TotalsInv, OperandInv, FlagInv, Leftover, NEW read,
         NEW write, NEW address, NEW data, Edge(read, write, address, data),
         Counted(write, address, data)
  PROVE  accumulator' = totals'[AccAt] \/ Leftover'
<1>. USE Latencies, AccConstants, CyclesMatch, AccAtRange
<1>1. /\ \A k \in 1..ReadLatency-1 : sent'[k] = sent[k - 1]
      /\ \A k \in 1..ReadLatency : totals'[k] = totals[k - 1]
  BY SentMoves, TotalsMove DEF Counted
<1>2. /\ totals[AccAt] = <<>>
      /\ \A k \in AccAt..ReadLatency-1 : ~InFlight(k)
  BY DEF Leftover
\* Unless a term is about to enter the register, there is nothing to load.
<1>3. ASSUME ~InFlight(AccAt - 1)
      PROVE  /\ totals'[AccAt] = <<>>
             /\ \A k \in AccAt..ReadLatency-1 : sent'[k] = NoTerm
  <2>1. totals'[AccAt] = totals[AccAt - 1] /\ totals[AccAt - 1] = totals[(AccAt - 1) + 1]
    BY <1>1, <1>3, SameTotal
  <2>2. ASSUME NEW k \in AccAt..ReadLatency-1
        PROVE  sent'[k] = NoTerm
    <3>1. sent'[k] = sent[k - 1] /\ (k - 1 = AccAt - 1 \/ k - 1 \in AccAt..ReadLatency-1)
      BY <1>1
    <3>. QED BY <1>2, <1>3, <3>1 DEF InFlight
  <2>3. totals'[AccAt] = <<>>
    <3>1. (AccAt - 1) + 1 = AccAt
      OBVIOUS
    <3>. QED BY <1>2, <2>1, <3>1
  <2>. QED BY <2>2, <2>3
<1>4. CASE state = "wait_for_set" /\ \A j \in 1..AccInLatency : ~InFlight(cycles + j)
  <2>1. ~InFlight(AccAt - 1)
    <3>1. AccInLatency \in 1..AccInLatency /\ AccAt - 1 = cycles + AccInLatency
      OBVIOUS
    <3>. QED BY <1>4, <3>1
  <2>2. \A j \in 2..AccInLatency : sent'[cycles + j] = NoTerm
    <3>1. ASSUME NEW j \in 2..AccInLatency
          PROVE  sent'[cycles + j] = NoTerm
      <4>1. sent'[cycles + j] = sent[cycles + (j - 1)] /\ j - 1 \in 1..AccInLatency
        BY <1>1
      <4>. QED BY <1>4, <4>1 DEF InFlight
    <3>. QED BY <3>1
  <2>3. sent'[cycles + 1] = sent[cycles]
    BY <1>1
  <2>4. CASE InFlight(cycles)
    <3>1. acc_en
      <4>1. 0 \in 0..acc_cycles-1 /\ InFlight(cycles + 0)
        BY <2>4
      <4>. QED BY <4>1, AccOn
    <3>2. xIn_n'[1]
      BY <1>4, <3>1, AccMoves DEF n
    <3>3. \A i \in 1+1..AccInLatency : sent'[cycles + i] = NoTerm
      BY <2>2
    <3>4. 1 \in 1..AccInLatency
      OBVIOUS
    <3>5. \E j \in 1..AccInLatency :
            xIn_n'[j] /\ \A i \in j+1..AccInLatency : sent'[cycles + i] = NoTerm
      BY <3>2, <3>3, <3>4
    <3>. QED BY <1>3, <2>1, <3>5 DEF Leftover, InFlight
  <2>5. CASE ~InFlight(cycles)
    <3>1. ~acc_clk_enables[0]
      <4>1. acc_clk_enables[0] <=> InFlight(cycles + 0)
        BY DEF EnablesInv
      <4>. QED BY <2>5, <4>1
    <3>2. state' = "wait_for_set"
      BY <1>4, <3>1 DEF Edge, ClockEdge, StateEdge, next_state
    <3>3. \A j \in 1..AccInLatency : sent'[cycles + j] = NoTerm
      BY <2>2, <2>3, <2>5 DEF InFlight
    <3>. QED BY <1>3, <2>1, <3>2, <3>3 DEF Leftover, InFlight
  <2>. QED BY <2>4, <2>5
<1>5. ASSUME NEW j \in 1..AccInLatency, xIn_n[j],
             \A i \in j+1..AccInLatency : ~InFlight(cycles + i)
      PROVE  accumulator' = totals'[AccAt] \/ Leftover'
  <2>1. CASE ~acc_en
    <3>1. xIn_n'[j]
      BY <1>5, <2>1, AccMoves
    <3>2. \A i \in 0..AccInLatency : ~InFlight(cycles + i)
      BY <2>1, AccOn
    <3>3. ~InFlight(AccAt - 1)
      BY <3>2
    <3>4. ASSUME NEW i \in j+1..AccInLatency
          PROVE  sent'[cycles + i] = NoTerm
      <4>1. sent'[cycles + i] = sent[cycles + (i - 1)] /\ i - 1 \in 0..AccInLatency
        BY <1>1
      <4>. QED BY <3>2, <4>1 DEF InFlight
    <3>. QED BY <1>3, <3>1, <3>3, <3>4 DEF Leftover, InFlight
  <2>2. CASE acc_en /\ j = AccInLatency
    <3>1. xIn_n[AccInLatency]
      BY <1>5, <2>2
    <3>2. accumulator' = Add(<<>>, xIn_x[AccInLatency])
      BY <2>2, <3>1, AccMoves DEF Accumulate
    <3>3. cycles + AccInLatency = AccAt - 1 /\ AccInLatency \in 1..AccInLatency
          /\ AccAt - 1 \in 0..ReadLatency-1 /\ (AccAt - 1) + 1 = AccAt
      OBVIOUS
    <3>4. xIn_x[AccInLatency] = IF InFlight(AccAt - 1) THEN sent[AccAt - 1] ELSE Zero
      BY <3>3 DEF OperandInv
    <3>5. totals[AccAt - 1] = IF InFlight(AccAt - 1)
                               THEN Add(totals[AccAt], sent[AccAt - 1])
                               ELSE totals[AccAt]
      BY <3>3 DEF TotalsInv
    <3>6. totals[AccAt - 1] = Add(<<>>, xIn_x[AccInLatency])
      BY <1>2, <3>4, <3>5, AddZero
    <3>7. totals'[AccAt] = totals[AccAt - 1]
      BY <1>1
    <3>. QED BY <3>2, <3>6, <3>7
  <2>3. CASE acc_en /\ j # AccInLatency
    <3>1. j + 1 \in 2..AccInLatency /\ (j + 1) - 1 = j
      BY <2>3
    <3>2. xIn_n'[j + 1]
      BY <1>5, <2>3, <3>1, AccMoves
    <3>3. ~InFlight(AccAt - 1)
      <4>1. AccInLatency \in j+1..AccInLatency /\ AccAt - 1 = cycles + AccInLatency
        BY <2>3
      <4>. QED BY <1>5, <4>1
    <3>4. ASSUME NEW i \in (j+1)+1..AccInLatency
          PROVE  sent'[cycles + i] = NoTerm
      <4>1. sent'[cycles + i] = sent[cycles + (i - 1)] /\ i - 1 \in j+1..AccInLatency
        BY <1>1
      <4>. QED BY <1>5, <4>1 DEF InFlight
    <3>5. j + 1 \in 1..AccInLatency
      BY <3>1
    <3>6. \E i \in 1..AccInLatency :
            xIn_n'[i] /\ \A h \in i+1..AccInLatency : sent'[cycles + h] = NoTerm
      BY <3>2, <3>4, <3>5
    <3>. QED BY <1>3, <3>3, <3>6 DEF Leftover, InFlight
  <2>. QED BY <2>1, <2>2, <2>3
<1>. QED BY <1>4, <1>5 DEF Leftover

\* A quiet pipeline adds nothing to an empty accumulator.
LEMMA AccumulatorQuiet ==
  ASSUME TypeOK, OperandInv, Quiet, accumulator = <<>>, NEW read, NEW write,
         NEW address, NEW data, Edge(read, write, address, data)
  PROVE  accumulator' = <<>>
<1>. USE Latencies, AccConstants, CyclesMatch
<1>1. xIn_x[AccInLatency] = Zero
  <2>1. /\ AccInLatency \in 1..AccInLatency
        /\ cycles + AccInLatency \in 0..ReadLatency-1
    OBVIOUS
  <2>2. sent[cycles + AccInLatency] \in {Zero, NoTerm}
    BY <2>1 DEF Quiet, TypeOK, BusTypeOK, Input
  <2>. QED BY <2>1, <2>2 DEF OperandInv, InFlight
<1>. QED BY <1>1, AccMoves, AddZero DEF Accumulate

\* A restart finds either an empty accumulator or empty pipelines.
LEMMA AccumulatorRestart ==
  ASSUME TypeOK, EnablesInv, OperandInv, Quiet, NEW read, NEW write,
         NEW address, NEW data, Edge(read, write, address, data),
         write /\ address = 1, Forget
  PROVE  AccumulatorInv'
<1>. USE Latencies, AccConstants, CyclesMatch, AccAtRange
<1>1. \A k \in 0..ReadLatency : totals'[k] = <<>>
  BY TotalsForget
<1>2. totals'[AccAt] = <<>>
  BY <1>1
<1>3. CASE \E k \in 0..ReadLatency-1 : InFlight(k)
  BY <1>2, <1>3, AccumulatorQuiet DEF Quiet, AccumulatorInv
<1>4. CASE \A k \in 0..ReadLatency-1 : ~InFlight(k)
  <2>1. /\ sent'[0] = NoTerm
        /\ \A k \in 1..ReadLatency-1 : sent'[k] = sent[k - 1]
    <3>1. address # 0
      OBVIOUS
    <3>. QED BY <3>1, SentMoves
  <2>2. \A k \in 0..ReadLatency-1 : sent'[k] = NoTerm
    BY <1>4, <2>1 DEF InFlight
  <2>3. ~acc_clk_enables[0]
    <3>1. acc_clk_enables[0] <=> InFlight(cycles + 0)
      BY DEF EnablesInv
    <3>. QED BY <1>4, <3>1
  <2>4. state' = "wait_for_set"
    <3>1. state' = next_state(write, address)
      BY DEF Edge, ClockEdge, StateEdge
    <3>. QED BY <2>3, <3>1 DEF next_state
  <2>5. \A j \in 1..AccInLatency : sent'[cycles + j] = NoTerm
    BY <2>2
  <2>6. \A k \in AccAt..ReadLatency-1 : sent'[k] = NoTerm
    BY <2>2
  <2>. QED BY <1>2, <2>4, <2>5, <2>6 DEF AccumulatorInv, Leftover, InFlight
<1>. QED BY <1>3, <1>4

-----------------------------------------------------------------------------
\* The sums behind the accumulator.
LEMMA OutMoves ==
  ASSUME TypeOK, EnablesInv, NEW read, NEW write, NEW address, NEW data,
         Edge(read, write, address, data), NEW j \in 1..AccOutLatency,
         sent'[AccAt + j] # NoTerm
  PROVE  /\ InFlight(AccAt + j - 1)
         /\ j = 1 => xOut'[j] = accumulator
         /\ j # 1 => xOut'[j] = xOut[j - 1]
<1>. USE Latencies, AccConstants, CyclesMatch, AccAtRange
<1>1. sent'[AccAt + j] = sent[AccAt + j - 1]
  BY SentMoves
<1>2. InFlight(AccAt + j - 1)
  BY <1>1 DEF InFlight
<1>3. acc_en
  <2>1. /\ AccInLatency + j \in 0..acc_cycles-1
        /\ cycles + (AccInLatency + j) = AccAt + j - 1
    OBVIOUS
  <2>. QED BY <1>2, <2>1, AccOn
<1>4. j # 1 => j \in 2..AccOutLatency
  OBVIOUS
<1>. QED BY <1>2, <1>3, <1>4, AccMoves

LEMMA OutStep ==
  ASSUME TypeOK, EnablesInv, TotalsInv, AccumulatorInv, OutInv, NEW read,
         NEW write, NEW address, NEW data, Edge(read, write, address, data),
         Counted(write, address, data)
  PROVE  OutInv'
<1>. USE Latencies, AccConstants, CyclesMatch, AccAtRange
<1>1. \A k \in 1..ReadLatency : totals'[k] = totals[k - 1]
  BY TotalsMove DEF Counted
<1>2. ASSUME NEW j \in 1..AccOutLatency, sent'[AccAt + j] # NoTerm
      PROVE  xOut'[j] = totals'[AccAt + j]
  <2>1. totals'[AccAt + j] = totals[AccAt + j - 1]
    BY <1>1
  <2>2. InFlight(AccAt + j - 1)
    BY <1>2, OutMoves
  <2>3. CASE j = 1
    <3>1. AccAt \in AccAt..ReadLatency-1 /\ AccAt + j - 1 = AccAt
      BY <2>3
    <3>2. ~Leftover
      BY <2>2, <3>1 DEF Leftover
    <3>3. xOut'[j] = accumulator
      BY <1>2, <2>3, OutMoves
    <3>. QED BY <2>1, <3>1, <3>2, <3>3 DEF AccumulatorInv
  <2>4. CASE j # 1
    <3>1. /\ j - 1 \in 1..AccOutLatency /\ AccAt + (j - 1) = AccAt + j - 1
          /\ xOut'[j] = xOut[j - 1]
      BY <1>2, <2>4, OutMoves
    <3>. QED BY <2>1, <2>2, <3>1 DEF OutInv
  <2>. QED BY <2>3, <2>4
<1>3. readreg' = totals'[ReadLatency]
  <2>1. /\ totals'[ReadLatency] = totals[ReadLatency - 1]
        /\ cycles + acc_cycles = ReadLatency - 1
        /\ AccAt + AccOutLatency = ReadLatency - 1
        /\ ReadLatency - 1 \in 0..ReadLatency-1
        /\ (ReadLatency - 1) + 1 = ReadLatency
    BY <1>1
  <2>2. readreg' = IF acc_clk_enables[acc_cycles] THEN q ELSE readreg
    BY DEF Edge, ClockEdge, ReadregEdge, Counted
  <2>3. acc_clk_enables[acc_cycles] <=> InFlight(ReadLatency - 1)
    <3>1. acc_clk_enables[acc_cycles] <=> InFlight(cycles + acc_cycles)
      BY DEF EnablesInv
    <3>. QED BY <2>1, <3>1
  <2>4. CASE InFlight(ReadLatency - 1)
    <3>1. q = totals[ReadLatency - 1]
      <4>1. AccOutLatency \in 1..AccOutLatency
        OBVIOUS
      <4>. QED BY <2>1, <2>4, <4>1 DEF OutInv, q
    <3>. QED BY <2>1, <2>2, <2>3, <2>4, <3>1
  <2>5. CASE ~InFlight(ReadLatency - 1)
    <3>1. totals[ReadLatency - 1] = totals[ReadLatency]
      BY <2>1, <2>5, SameTotal
    <3>. QED BY <2>1, <2>2, <2>3, <2>5, <3>1 DEF OutInv
  <2>. QED BY <2>4, <2>5
<1>. QED BY <1>2, <1>3 DEF OutInv, InFlight

LEMMA OutRestart ==
  ASSUME TypeOK, EnablesInv, Quiet, OutInv, NEW read, NEW write, NEW address,
         Edge(read, write, address, Zero), write /\ address = 1, Forget
  PROVE  OutInv'
<1>. USE Latencies, AccConstants, CyclesMatch, AccAtRange
<1>1. \A k \in 0..ReadLatency : totals'[k] = <<>>
  BY TotalsForget
<1>2. ASSUME NEW j \in 1..AccOutLatency, sent'[AccAt + j] # NoTerm
      PROVE  xOut'[j] = totals'[AccAt + j]
  <2>0. /\ AccAt + j \in 0..ReadLatency /\ AccAt + j - 1 \in 0..ReadLatency-1
        /\ AccAt + j - 1 \in 0..ReadLatency
    OBVIOUS
  <2>1. totals'[AccAt + j] = <<>>
    BY <1>1, <2>0
  <2>2. /\ InFlight(AccAt + j - 1)
        /\ j = 1 => xOut'[j] = accumulator
        /\ j # 1 => xOut'[j] = xOut[j - 1]
    BY <1>2, OutMoves
  <2>3. accumulator = <<>> /\ totals[AccAt + j - 1] = <<>>
    BY <2>0, <2>2 DEF Quiet
  <2>4. j # 1 => j - 1 \in 1..AccOutLatency /\ AccAt + (j - 1) = AccAt + j - 1
    OBVIOUS
  <2>. QED BY <2>1, <2>2, <2>3, <2>4 DEF OutInv
<1>3. readreg' = <<>>
  <2>1. readreg' = Add(<<>>, Zero)
    BY DEF Edge, ClockEdge, ReadregEdge
  <2>. QED BY <2>1, AddZero
<1>4. ReadLatency \in 0..ReadLatency
  OBVIOUS
<1>5. readreg' = totals'[ReadLatency]
  BY <1>1, <1>3, <1>4
<1>. QED BY <1>2, <1>5 DEF OutInv, InFlight

\* A reset empties the accumulator and everything behind it.
LEMMA SumsReset ==
  ASSUME TypeOK, Reset
  PROVE  AccumulatorInv' /\ OutInv' /\ Quiet'
<1>. USE Latencies, AccConstants, CyclesMatch, AccAtRange
<1>1. \A k \in 0..ReadLatency : totals'[k] = <<>>
  BY TotalsForget DEF Reset
<1>2. accumulator' = <<>> /\ readreg' = <<>>
  <2>1. PICK read, write \in BOOLEAN : ClockEdge(TRUE, read, write, 0, Zero)
    BY DEF Reset
  <2>. QED BY <2>1 DEF ClockEdge, AccEdge, ReadregEdge
<1>3. AccumulatorInv'
  <2>1. AccAt \in 0..ReadLatency
    OBVIOUS
  <2>2. totals'[AccAt] = <<>>
    BY <1>1, <2>1
  <2>. QED BY <1>2, <2>2 DEF AccumulatorInv
<1>4. ASSUME NEW j \in 1..AccOutLatency
      PROVE  sent'[AccAt + j] = NoTerm
  <2>1. AccAt + j \in 1..ReadLatency-1 /\ AccAt + j # cycles
    OBVIOUS
  <2>. QED BY <2>1, SentResets
<1>5. OutInv'
  <2>1. ReadLatency \in 0..ReadLatency
    OBVIOUS
  <2>2. readreg' = totals'[ReadLatency]
    BY <1>1, <1>2, <2>1
  <2>. QED BY <1>4, <2>2 DEF OutInv, InFlight
<1>6. \A k \in 0..ReadLatency-1 : sent'[k] \notin X
  BY SentResets, WordConstants, BusConstants DEF Word, Input
<1>7. Quiet'
  BY <1>1, <1>2, <1>6 DEF Quiet
<1>. QED BY <1>3, <1>5, <1>7

-----------------------------------------------------------------------------
\* A quiet pipeline stays quiet on an edge that carries no term, whether the
\* edge forgets the totals or not.
LEMMA QuietSent ==
  ASSUME TypeOK, Quiet, NEW read, NEW write, NEW address, NEW data,
         Edge(read, write, address, data), ~(write /\ address = 0)
  PROVE  /\ sent'[0] = NoTerm
         /\ \A k \in 0..ReadLatency-1 : sent'[k] \notin X
         /\ (\E k \in 0..ReadLatency-1 : sent'[k] # NoTerm) =>
              \E k \in 0..ReadLatency-1 : InFlight(k)
<1>. USE Latencies
<1>1. /\ sent'[0] = NoTerm
      /\ \A k \in 1..ReadLatency-1 : sent'[k] = sent[k - 1]
  BY SentMoves
<1>2. NoTerm \notin X
  BY BusConstants DEF Word, Input
<1>. QED BY <1>1, <1>2 DEF Quiet, InFlight

LEMMA QuietStep ==
  ASSUME TypeOK, TotalsInv, OperandInv, Quiet, NEW read, NEW write,
         NEW address, NEW data, Edge(read, write, address, data),
         ~(write /\ address = 0), Count(total) \/ Forget
  PROVE  Quiet'
<1>. USE Latencies
<1>1. ASSUME \E k \in 0..ReadLatency-1 : sent'[k] # NoTerm
      PROVE  accumulator' = <<>> /\ \A k \in 0..ReadLatency : totals'[k] = <<>>
  <2>1. accumulator = <<>> /\ \A k \in 0..ReadLatency : totals[k] = <<>>
    BY <1>1, QuietSent DEF Quiet
  <2>2. accumulator' = <<>>
    BY <2>1, AccumulatorQuiet
  <2>3. CASE Count(total)
    <3>1. /\ totals'[0] = total /\ total = totals[0]
          /\ \A k \in 1..ReadLatency : totals'[k] = totals[k - 1]
      BY <2>3, TotalsMove DEF TotalsInv
    <3>. QED BY <2>1, <2>2, <3>1
  <2>4. CASE Forget
    BY <2>2, <2>4, TotalsForget
  <2>. QED BY <2>3, <2>4
<1>. QED BY <1>1, QuietSent DEF Quiet, InFlight

-----------------------------------------------------------------------------
\* The parts of IInv that speak of the datapath.
DataInv ==
  /\ EnablesInv /\ LaneInv /\ MeetInv
  /\ TotalsInv /\ OperandInv /\ FlagInv /\ AccumulatorInv /\ OutInv

\* An edge that carries a term or nothing preserves them.
LEMMA DataStep ==
  ASSUME TypeOK, DataInv, NEW read \in BOOLEAN, NEW write \in BOOLEAN,
         NEW address, NEW data \in Input, Edge(read, write, address, data),
         Counted(write, address, data)
  PROVE  DataInv'
<1>. USE DEF DataInv
<1>1. EnablesInv'
  BY EnablesStep
<1>2. LaneInv'
  BY LaneStep
<1>3. MeetInv'
  BY MeetStep
<1>4. TotalsInv'
  BY TotalsStep
<1>5. OperandInv'
  BY OperandStep
<1>6. FlagInv'
  BY FlagStep
<1>7. AccumulatorInv'
  BY AccumulatorRight, AccumulatorStale DEF AccumulatorInv
<1>8. OutInv'
  BY OutStep
<1>. QED BY <1>1, <1>2, <1>3, <1>4, <1>5, <1>6, <1>7, <1>8

\* A restart as an edge.
LEMMA RestartIsEdge ==
  ASSUME Restart
  PROVE  \E read \in BOOLEAN, write \in BOOLEAN, address \in {1} :
           write /\ address = 1 /\ Edge(read, write, address, Zero) /\ Forget
<1>1. Edge(FALSE, TRUE, 1, Zero) /\ Forget
  BY DEF Restart, RestartEdge
<1>2. TRUE \in BOOLEAN /\ FALSE \in BOOLEAN /\ 1 \in {1} /\ TRUE /\ 1 = 1
  OBVIOUS
<1>. QED BY <1>1, <1>2, Zenon

\* Quiet pipelines stay so on a restart.
LEMMA QuietRestart ==
  ASSUME TypeOK, TotalsInv, OperandInv, Quiet, Restart
  PROVE  Quiet' /\ \A k \in 0..ReadLatency-1 : sent'[k] \notin X
<1>1. PICK read, write, address :
        ~(write /\ address = 0) /\ Edge(read, write, address, Zero) /\ Forget
  BY RestartIsEdge, 1 # 0
<1>2. Quiet'
  BY <1>1, QuietStep
<1>3. \A k \in 0..ReadLatency-1 : sent'[k] \notin X
  BY <1>1, QuietSent
<1>. QED BY <1>2, <1>3

\* So does a restart of quiet pipelines.
LEMMA DataRestart ==
  ASSUME TypeOK, TypeOK', DataInv, Quiet, Restart
  PROVE  DataInv'
<1>. USE DEF DataInv
<1>0. PICK read \in BOOLEAN, write \in BOOLEAN, address \in {1} :
        write /\ address = 1 /\ Edge(read, write, address, Zero) /\ Forget
  BY RestartIsEdge
<1>1. Zero \in Input
  BY DEF Input
<1>2. EnablesInv'
  BY <1>0, <1>1, EnablesStep
<1>3. LaneInv'
  BY <1>0, <1>1, LaneStep
<1>4. MeetInv'
  BY <1>0, <1>1, MeetStep
<1>5. OperandInv'
  BY <1>0, OperandStep
<1>6. \A k \in 0..ReadLatency-1 : sent'[k] \notin X
  BY QuietRestart
<1>7. TotalsInv' /\ FlagInv'
  BY <1>0, <1>6, TotalsForgotten, FlagForgotten
<1>8. AccumulatorInv'
  BY <1>0, AccumulatorRestart
<1>9. OutInv'
  BY <1>0, OutRestart
<1>. QED BY <1>2, <1>3, <1>4, <1>5, <1>7, <1>8, <1>9

\* And a reset, whatever was in flight.
LEMMA DataReset ==
  ASSUME TypeOK, TypeOK', DataInv, Reset
  PROVE  DataInv'
<1>1. \A k \in 0..ReadLatency-1 : sent'[k] \notin X
  BY SentResets, WordConstants, BusConstants DEF Word, Input
<1>2. TotalsInv' /\ FlagInv'
  BY <1>1, TotalsForgotten, FlagForgotten DEF Reset
<1>. QED BY <1>2, EnablesReset, LaneReset, OperandReset, SumsReset DEF DataInv

-----------------------------------------------------------------------------
\* The read on its way, on an edge on which no command for it is given.
LEMMA ReadWaits ==
  ASSUME TypeOK, ReadInv, NEW write \in BOOLEAN, NEW address, NEW data,
         NEW s, Edge(FALSE, write, address, data), Count(s), AwaitData,
         latest' => latest /\ ~(write /\ address = 0)
  PROVE  ReadInv'
<1>. USE Latencies
<1>. SUFFICES ASSUME rd' = "issued"
              PROVE  /\ delay_read'[age']
                     /\ totals'[age' + 1] = expect'
                     /\ latest' => \A k \in 0..age' : sent'[k] = NoTerm
  BY DEF ReadInv, InFlight
<1>1. rd = "issued" /\ ~Sampling
  BY DEF AwaitData
<1>2. age' = age + 1 /\ expect' = expect
  BY <1>1 DEF AwaitData
<1>3. age \in 0..ReadLatency-2
  BY <1>1 DEF TypeOK, BusTypeOK, Sampling
<1>4. delay_read'[age']
  <2>1. delay_read' = ShiftEnables(delay_read, FALSE, FALSE)
    BY DEF Edge, ClockEdge, DelayReadEdge
  <2>2. delay_read \in [0..ReadStages -> BOOLEAN] /\ FALSE \in BOOLEAN
        /\ ReadStages \in Nat
    BY DEF TypeOK, TopTypeOK
  <2>3. \A k \in 1..ReadStages : delay_read'[k] <=> delay_read[k - 1]
    BY <2>1, <2>2, EnablesMove
  <2>4. age + 1 \in 1..ReadStages /\ (age + 1) - 1 = age
    BY <1>3
  <2>5. delay_read[age]
    BY <1>1 DEF ReadInv
  <2>6. delay_read'[age + 1] <=> delay_read[(age + 1) - 1]
    BY <2>3, <2>4, Zenon
  <2>. QED BY <1>2, <2>4, <2>5, <2>6
<1>5. totals'[age' + 1] = expect'
  <2>1. totals'[age + 2] = totals[age + 1]
    <3>1. age + 2 \in 1..ReadLatency /\ (age + 2) - 1 = age + 1
      BY <1>3
    <3>. QED BY <3>1, TotalsMove
  <2>2. (age + 1) + 1 = age + 2
    BY <1>3
  <2>. QED BY <1>1, <1>2, <2>1, <2>2 DEF ReadInv
<1>6. ASSUME latest', NEW k \in 0..age'
      PROVE  sent'[k] = NoTerm
  <2>1. CASE k = 0
    BY <1>6, <2>1, SentMoves
  <2>2. CASE k # 0
    <3>1. k \in 1..ReadLatency-1 /\ k - 1 \in 0..age
      BY <1>2, <1>3, <2>2
    <3>. QED BY <1>1, <1>6, <3>1, SentMoves DEF ReadInv, InFlight
  <2>. QED BY <2>1, <2>2
<1>. QED BY <1>4, <1>5, <1>6

\* The read that is accepted.
LEMMA ReadStarts ==
  ASSUME TypeOK, TotalsInv, ReadAccept
  PROVE  ReadInv'
<1>. USE Latencies
<1>1. rd' = "issued" /\ age' = 0 /\ expect' = total
  BY DEF ReadAccept
<1>2. delay_read'[0]
  <2>1. delay_read' = ShiftEnables(delay_read, TRUE, FALSE)
    BY DEF ReadAccept, Edge, ClockEdge, DelayReadEdge
  <2>2. delay_read \in [0..ReadStages -> BOOLEAN] /\ ReadStages \in Nat
        /\ TRUE \in BOOLEAN /\ FALSE \in BOOLEAN
    BY DEF TypeOK, TopTypeOK
  <2>. QED BY <2>1, <2>2, EnablesMove
<1>3. totals'[0 + 1] = expect'
  <2>1. 1 \in 1..ReadLatency
    OBVIOUS
  <2>2. totals'[1] = totals[0]
    BY <2>1, TotalsMove DEF ReadAccept
  <2>. QED BY <1>1, <2>2 DEF TotalsInv
<1>4. sent'[0] = NoTerm
  BY SentMoves DEF ReadAccept
<1>5. \A k \in 0..age' : sent'[k] = NoTerm
  BY <1>1, <1>4
<1>. QED BY <1>1, <1>2, <1>3, <1>5 DEF ReadInv, InFlight

\* A read whose answer nothing has outdated finds the pipelines empty.
LEMMA AnsweredQuiet ==
  ASSUME ReadInv, Sampling, latest
  PROVE  Quiet
<1>1. \A k \in 0..ReadLatency-1 : ~InFlight(k)
  BY DEF ReadInv, Sampling
<1>2. NoTerm \notin X
  BY BusConstants DEF Word, Input
<1>. QED BY <1>1, <1>2 DEF Quiet, InFlight

-----------------------------------------------------------------------------
\* The invariant holds initially.
LEMMA InvInit == Init => IInv
<1>. SUFFICES ASSUME Init PROVE IInv
  OBVIOUS
<1>. USE Latencies, AccConstants, TermConstants, CyclesMatch, AccAtRange
<1>1. TypeOK
  BY TypeInit
<1>2. \A k \in 0..ReadLatency-1 : sent[k] = NoTerm
  BY DEF Init
<1>3. \A k \in 0..ReadLatency : totals[k] = <<>>
  BY DEF Init
<1>4. EnablesInv
  <2>1. \A k \in 0..cycles : ~clk_enables[k] /\ sent[k] = NoTerm
    BY <1>2 DEF Init, TopInit
  <2>2. \A k \in 0..acc_cycles : ~acc_clk_enables[k] /\ sent[cycles + k] = NoTerm
    BY <1>2 DEF Init, TopInit
  <2>. QED BY <2>1, <2>2 DEF EnablesInv, InFlight
<1>5. LaneInv
  BY <1>2, LanesBalanced DEF LaneInv, InFlight
<1>6. MeetInv
  BY <1>2 DEF MeetInv, InFlight
<1>7. TotalsInv
  BY <1>2, <1>3 DEF Init, TotalsInv, InFlight
<1>8. OperandInv
  BY <1>2 DEF Init, TopInit, AccInit, OperandInv, InFlight
<1>9. FlagInv
  BY DEF Init, TopInit, AccInit, FlagInv
<1>10. AccumulatorInv
  BY <1>3 DEF Init, TopInit, AccInit, AccumulatorInv
<1>11. OutInv
  BY <1>2, <1>3 DEF Init, TopInit, OutInv, InFlight
<1>12. SettledInv
  <2>1. NoTerm \notin X
    BY BusConstants DEF Word, Input
  <2>. QED BY <1>2, <2>1 DEF SettledInv, Quiet, InFlight
<1>13. ReadInv
  BY DEF Init, ReadInv
<1>. QED BY <1>1, <1>4, <1>5, <1>6, <1>7, <1>8, <1>9, <1>10, <1>11, <1>12,
            <1>13 DEF IInv

\* Every step preserves it.
LEMMA InvStep == IInv /\ [Next]_vars => IInv'
<1>. SUFFICES ASSUME IInv, [Next]_vars PROVE IInv'
  OBVIOUS
<1>0. TypeOK /\ TypeOK' /\ DataInv /\ SettledInv /\ ReadInv
  BY TypeStep DEF IInv, DataInv
<1>00. Zero \in Input /\ FALSE \in BOOLEAN /\ TRUE \in BOOLEAN
  BY DEF Input
<1>1. CASE Idle
  <2>1. /\ Edge(FALSE, FALSE, 0, Zero) /\ Count(total)
        /\ Counted(FALSE, 0, Zero) /\ AwaitData /\ latest' = latest
        /\ settled' = (settled \/ (Sampling /\ latest))
    BY <1>1 DEF Idle, Counted
  <2>2. DataInv'
    BY <1>0, <1>00, <2>1, DataStep
  <2>3. ReadInv'
    BY <1>0, <1>00, <2>1, ReadWaits
  <2>4. ASSUME settled' PROVE Quiet'
    <3>1. Quiet
      BY <1>0, <2>1, <2>4, AnsweredQuiet DEF SettledInv
    <3>. QED BY <1>0, <2>1, <3>1, QuietStep DEF DataInv
  <2>. QED BY <1>0, <2>2, <2>3, <2>4 DEF IInv, DataInv, SettledInv
<1>2. ASSUME NEW x \in Input, Write(x) PROVE IInv'
  <2>0. /\ Edge(FALSE, TRUE, 0, x) /\ Count(Add(total, x))
        /\ AwaitData /\ ~latest' /\ ~settled'
    BY <1>2 DEF Write, WriteEdge
  <2>1. Counted(TRUE, 0, x)
    <3>1. Count(IF TRUE /\ 0 = 0 THEN Add(total, x) ELSE total)
      <4>1. (IF TRUE /\ 0 = 0 THEN Add(total, x) ELSE total) = Add(total, x)
        OBVIOUS
      <4>. QED BY <2>0, <4>1, Zenon
    <3>2. ~(TRUE /\ 0 = 1)
      OBVIOUS
    <3>. QED BY <3>1, <3>2 DEF Counted
  <2>2. DataInv'
    BY <1>0, <1>00, <2>0, <2>1, DataStep
  <2>3. ReadInv'
    BY <1>0, <1>00, <2>0, ReadWaits
  <2>. QED BY <1>0, <2>0, <2>2, <2>3 DEF IInv, DataInv, SettledInv
<1>3. CASE Restart
  <2>1. Quiet /\ rd' # "issued"
    BY <1>0, <1>3 DEF Restart, RestartEdge, SettledInv
  <2>2. DataInv'
    BY <1>0, <1>3, <2>1, DataRestart
  <2>3. Quiet'
    BY <1>0, <1>3, <2>1, QuietRestart DEF DataInv
  <2>. QED BY <1>0, <2>1, <2>2, <2>3 DEF IInv, DataInv, SettledInv, ReadInv
<1>4. CASE ReadStart
  <2>1. /\ Edge(TRUE, FALSE, 1, Zero) /\ Count(total)
        /\ Counted(FALSE, 1, Zero) /\ rd' # "issued" /\ settled' = settled
    BY <1>4 DEF ReadStart, ReadStartEdge, Counted
  <2>2. DataInv'
    BY <1>0, <1>00, <2>1, DataStep
  <2>3. ASSUME settled' PROVE Quiet'
    BY <1>0, <2>1, <2>3, QuietStep DEF DataInv, SettledInv
  <2>. QED BY <1>0, <2>1, <2>2, <2>3 DEF IInv, DataInv, SettledInv, ReadInv
<1>5. CASE ReadAccept
  <2>1. /\ Edge(TRUE, FALSE, 1, Zero) /\ Count(total)
        /\ Counted(FALSE, 1, Zero) /\ settled' = settled
    BY <1>5 DEF ReadAccept, Counted
  <2>2. DataInv'
    BY <1>0, <1>00, <2>1, DataStep
  <2>3. ReadInv'
    BY <1>0, <1>5, ReadStarts DEF DataInv
  <2>4. ASSUME settled' PROVE Quiet'
    BY <1>0, <2>1, <2>4, QuietStep DEF DataInv, SettledInv
  <2>. QED BY <1>0, <2>2, <2>3, <2>4 DEF IInv, DataInv, SettledInv
<1>6. CASE Reset
  <2>1. DataInv'
    BY <1>0, <1>6, DataReset
  <2>2. Quiet'
    BY <1>0, <1>6, SumsReset
  <2>3. rd' # "issued"
    BY <1>6 DEF Reset
  <2>. QED BY <1>0, <2>1, <2>2, <2>3 DEF IInv, DataInv, SettledInv, ReadInv
<1>7. CASE UNCHANGED vars
  BY <1>7 DEF vars, topVars, termVars, accVars, ctrlVars, busVars, histVars,
       IInv, TypeOK, TopTypeOK, BusTypeOK, TermTypeOK, AccTypeOK, EnablesInv,
       LaneInv, MeetInv, TotalsInv, OperandInv, FlagInv, AccumulatorInv, Leftover,
       OutInv, SettledInv, Quiet, ReadInv, InFlight
<1>. QED BY <1>1, <1>2, <1>3, <1>4, <1>5, <1>6, <1>7 DEF Next

\* IInv holds in every reachable state.
THEOREM Invariance == Spec => []IInv
BY InvInit, InvStep, PTL DEF Spec
-----------------------------------------------------------------------------
\* What the invariant says about the properties.

LEMMA InvReads == IInv => ReadReturnsSum
<1>. SUFFICES ASSUME IInv, Sampling PROVE readdata = expect
  BY DEF ReadReturnsSum
<1>1. rd = "issued" /\ age = ReadLatency - 1
  BY DEF Sampling
<1>2. age = ReadStages /\ age + 1 = ReadLatency
  BY <1>1, Latencies
<1>3. delay_read[ReadStages] /\ totals[ReadLatency] = expect
  BY <1>1, <1>2 DEF IInv, ReadInv
<1>. QED BY <1>3 DEF IInv, OutInv, readdata

LEMMA InvLanes == IInv => LanesMeet
<1>. SUFFICES ASSUME IInv, acc_clk_enables[0] PROVE result = sent[cycles]
  BY DEF LanesMeet
<1>1. InFlight(cycles)
  <2>1. 0 \in 0..acc_cycles /\ cycles + 0 = cycles
    BY Latencies
  <2>. QED BY <2>1 DEF IInv, EnablesInv
<1>2. /\ AddLatency \in 1..AddLatency
      /\ pipeline_stages + MulLatency + AddLatency = cycles
  BY TermConstants, CyclesMatch
<1>. QED BY <1>1, <1>2 DEF IInv, MeetInv, result

LEMMA InvEnables == IInv => NeverGated
<1>. SUFFICES ASSUME IInv PROVE NeverGated
  OBVIOUS
<1>. USE Latencies
<1>0. \A k \in 0..ReadLatency-1 : sent[k] \in X => InFlight(k) /\ sent[k] # Zero
  BY WordConstants, BusConstants DEF Word, Input, InFlight
<1>1. ASSUME NEW k \in 0..cycles, sent[k] \in X
      PROVE  clk_en
  <2>1. InFlight(k) /\ sent[k] # Zero
    BY <1>0, <1>1
  <2>2. clk_enables[k]
    <3>1. CASE k = cycles
      BY <2>1, <3>1 DEF IInv, EnablesInv
    <3>2. CASE k # cycles
      BY <2>1, <3>2 DEF IInv, EnablesInv
    <3>. QED BY <3>1, <3>2
  <2>. QED BY <2>2 DEF clk_en
<1>2. ASSUME NEW k \in cycles..ReadLatency-2, sent[k] \in X
      PROVE  acc_en
  <2>1. InFlight(k)
    BY <1>0, <1>2
  <2>2. k - cycles \in 0..acc_cycles-1 /\ cycles + (k - cycles) = k
    OBVIOUS
  <2>. QED BY <2>1, <2>2, AccOn DEF IInv
<1>. QED BY <1>1, <1>2 DEF NeverGated

\* The word the CPU samples is the sum of exactly the terms written since the
\* last restart and before the read was accepted.
THEOREM ReadsRight == Spec => []ReadReturnsSum
BY Invariance, InvReads, PTL

\* The three lanes of term meet in step, for every pattern of writes.
THEOREM LanesInStep == Spec => []LanesMeet
BY Invariance, InvLanes, PTL

\* No term is left standing by a clock enable.
THEOREM EnablesSuffice == Spec => []NeverGated
BY Invariance, InvEnables, PTL

\* A program that restarts only after reading finds the pipelines drained.
THEOREM RestartSafe == Spec => []RestartDrained
<1>1. IInv => RestartDrained
  BY DEF IInv, SettledInv, Quiet, RestartDrained
<1>. QED BY <1>1, Invariance, PTL

\* readreg is the running total as it was ReadLatency edges ago.
THEOREM ReadregExact == Spec => []ReadregLags
<1>1. IInv => ReadregLags
  BY DEF IInv, OutInv, ReadregLags
<1>. QED BY <1>1, Invariance, PTL

\* While the restart flag waits, no term of the new sum has passed it.
THEOREM FlagInTime == Spec => []FlagBeforeTerms
<1>1. IInv => FlagBeforeTerms
  BY DEF IInv, FlagInv, FlagBeforeTerms
<1>. QED BY <1>1, Invariance, PTL

-----------------------------------------------------------------------------
\* The peripheral implements SumServer.

LEMMA ServerInit == Init => Server!Init
BY DEF Init, Server!Init

\* An edge on which no command for the read is given answers it when its
\* latency has passed, and does not before.
LEMMA ServerAnswers ==
  ASSUME IInv, AwaitData, Sampling
  PROVE  Server!Answered
<1>1. expect \in Sum /\ NoSum \notin Sum
  BY BusConstants DEF IInv, TypeOK, BusTypeOK
<1>2. readdata = expect
  BY InvReads DEF ReadReturnsSum
<1>. QED BY <1>1, <1>2 DEF AwaitData, Sampling, Server!Answered

LEMMA ServerWaits ==
  ASSUME AwaitData, ~Sampling
  PROVE  Server!Waiting
BY DEF AwaitData, Server!Waiting

LEMMA SettledTyped == IInv => settled \in BOOLEAN
BY DEF IInv, TypeOK, BusTypeOK

\* Each edge, by what it is to the server.
LEMMA ServerEdges ==
  ASSUME IInv
  PROVE  /\ Idle /\ Sampling => Server!Reply
         /\ Idle /\ ~Sampling => Server!Rest
         /\ \A x : WriteEdge(x) => Server!Write(x)
         /\ RestartEdge => Server!Clear
         /\ ReadStartEdge /\ rd = "none" => Server!Rest
         /\ ReadAccept => Server!Accept
<1>1. ASSUME Idle, Sampling PROVE Server!Reply
  <2>1. Server!Answered /\ total' = total
    BY <1>1, ServerAnswers DEF Idle, Count
  <2>. QED BY <1>1, <2>1 DEF Idle, Server!Reply
<1>2. ASSUME Idle, ~Sampling PROVE Server!Rest
  <2>1. Server!Waiting /\ total' = total
    BY <1>2, ServerWaits DEF Idle, Count
  <2>. QED BY <1>2, <2>1, SettledTyped DEF Idle, Server!Rest
<1>3. ASSUME NEW x, WriteEdge(x) PROVE Server!Write(x)
  <2>1. total' = IF x = Zero THEN total ELSE Append(total, x)
    BY <1>3 DEF WriteEdge, Count, Add
  <2>2. Server!Answered \/ Server!Waiting
    BY <1>3, ServerAnswers, ServerWaits DEF WriteEdge
  <2>. QED BY <1>3, <2>1, <2>2 DEF WriteEdge, Server!Write
<1>4. RestartEdge => Server!Clear
  BY DEF RestartEdge, Forget, Server!Clear, Server!Waiting
<1>5. ReadStartEdge /\ rd = "none" => Server!Rest
  BY DEF ReadStartEdge, Count, Server!Rest, Server!Waiting
<1>6. ReadAccept => Server!Accept
  BY DEF ReadAccept, Count, Server!Accept
<1>. QED BY <1>1, <1>2, <1>3, <1>4, <1>5, <1>6

LEMMA ServerStep == IInv /\ [Next]_vars => [Server!Next]_(Server!vars)
<1>. SUFFICES ASSUME IInv, [Next]_vars PROVE [Server!Next]_(Server!vars)
  OBVIOUS
<1>1. CASE Idle
  BY <1>1, ServerEdges DEF Server!Next
<1>2. ASSUME NEW x \in Input, Write(x) PROVE Server!Next
  BY <1>2, ServerEdges DEF Write, Server!Next, Input
<1>3. CASE Restart
  BY <1>3, ServerEdges DEF Restart, Server!Next, Server!Restart
<1>4. CASE ReadStart
  BY <1>4, ServerEdges DEF ReadStart, Server!Next
<1>5. CASE ReadAccept
  BY <1>5, ServerEdges DEF ReadAccept, Server!Next, Server!Ask
<1>6. CASE Reset
  BY <1>6 DEF Reset, Forget, Server!Next, Server!Reset
<1>7. CASE UNCHANGED vars
  BY <1>7 DEF vars, busVars, histVars, Server!vars
<1>. QED BY <1>1, <1>2, <1>3, <1>4, <1>5, <1>6, <1>7 DEF Next

\* Whatever the latencies, the peripheral is a server of sums: what a program
\* concludes from SumServer holds for the hardware.
THEOREM Refinement == Spec => Implements
BY ServerInit, ServerStep, Invariance, PTL DEF Spec, Implements, Server!Spec
=============================================================================
