---------------------------- MODULE SystemProofs ----------------------------
(***************************************************************************)
(* The program on the peripheral prints the right sums, whatever the       *)
(* latencies, the vectors and the edges between the commands.  Each side   *)
(* is right as long as the other keeps the contract: FofX answers as       *)
(* SumServer does if the program keeps the bus, and the program keeps it   *)
(* if it is answered so.  The invariants of both hold together, one step   *)
(* at a time.                                                              *)
(***************************************************************************)
EXTENDS System, FofXProofs, SequenceTheorems

HP == INSTANCE HelloWorldProofs WITH
  sum <- total, asked <- IF rd = "issued" THEN expect ELSE NoSum

-----------------------------------------------------------------------------
\* What of the bus follows from where the program is.
Link ==
  /\ rd = "wait" => Reading
  /\ pc = "write" => written = i - 1
  /\ pc \in {"check", "checked", "send"} => written = 0
  /\ dma = "busy" => written = pos - 1

SystemInv == IInv /\ HP!IInv /\ Link

-----------------------------------------------------------------------------
\* The constants of one are those of the other.

LEMMA ProgramOK ==
  /\ Sizes \in Seq(Nat \ {0}) /\ Len(Sizes) > 0
  /\ Rounds \in Nat \ {0}
  /\ CacheWords \in Nat /\ CacheWords < HP!N3
  /\ Zero \notin HP!Terms /\ NoSum \notin Seq(HP!Terms)
<1>1. HP!N3 = P!N3 /\ HP!Terms = X
  BY SystemConstants DEF P!N3, P!Last, HP!N3, HP!Last, P!Terms, HP!Terms, P!Term, HP!Term
<1>2. Zero \notin X
  BY WordConstants
<1>3. NoSum \notin Seq(X)
  <2>1. Seq(X) \subseteq Sum
    BY DEF Sum
  <2>. QED BY <2>1, BusConstants
<1>. QED BY <1>1, <1>2, <1>3, SystemConstants

LEMMA SizesFit ==
  /\ \A t \in 1..HP!Last : Sizes[t] \in Nat \ {0} /\ Sizes[t] <= MaxWrites
  /\ HP!N3 \in Nat \ {0} /\ HP!N3 <= MaxWrites
  /\ HP!Terms \cup {Zero} = Input
<1>1. /\ HP!Last \in Nat \ {0} /\ Sizes \in [1..HP!Last -> Nat \ {0}]
      /\ HP!N3 \in Nat \ {0}
  BY ProgramOK, HP!Constants
<1>2. HP!Last = Len(Sizes) /\ HP!N3 = Sizes[HP!Last]
  BY DEF HP!Last, HP!N3
<1>3. HP!Terms = X
  BY SystemConstants DEF P!Terms, HP!Terms, P!Term, HP!Term, P!Last, HP!Last
<1>. QED BY <1>1, <1>2, <1>3, SystemConstants DEF Input

\* The program of System and of HelloWorld's proofs is the same one.
LEMMA SameSteps ==
  /\ P!Rewind <=> HP!Rewind
  /\ P!WriteTerm <=> HP!WriteTerm
  /\ P!Read <=> HP!Read
  /\ P!Return <=> HP!Return
  /\ P!PrintResult <=> HP!PrintResult
  /\ P!Generate <=> HP!Generate
  /\ P!Open <=> HP!Open
  /\ P!Clear <=> HP!Clear
  /\ P!Check <=> HP!Check
  /\ P!Checked <=> HP!Checked
  /\ P!Send <=> HP!Send
  /\ P!DmaBeat <=> HP!DmaBeat
  /\ P!WriteBack <=> HP!WriteBack
  /\ P!dmaISR <=> HP!dmaISR
  /\ P!IsrPrint <=> HP!IsrPrint
<1>1. P!Rewind <=> HP!Rewind
  BY DEF P!Rewind, HP!Rewind, P!dmaVars, HP!dmaVars
<1>2. P!WriteTerm <=> HP!WriteTerm
  BY DEF P!WriteTerm, HP!WriteTerm, P!dmaVars, HP!dmaVars
<1>3. P!Read <=> HP!Read
  BY DEF P!Read, HP!Read, P!dmaVars, HP!dmaVars
<1>4. P!Return <=> HP!Return
  BY DEF P!Return, HP!Return, P!dmaVars, HP!dmaVars
<1>5. P!PrintResult <=> HP!PrintResult
  BY DEF P!PrintResult, HP!PrintResult, P!Last, HP!Last, P!dmaVars, HP!dmaVars
<1>6. P!Generate <=> HP!Generate
  BY DEF P!Generate, HP!Generate, P!N3, HP!N3, P!Last, HP!Last, P!generateVector, HP!generateVector, P!Term, HP!Term
<1>7. P!Open <=> HP!Open
  BY DEF P!Open, HP!Open, P!alt_dma_txchan_open, HP!alt_dma_txchan_open, P!dmaVars, HP!dmaVars
<1>8. P!Clear <=> HP!Clear
  BY DEF P!Clear, HP!Clear, P!dmaVars, HP!dmaVars
<1>9. P!Check <=> HP!Check
  BY DEF P!Check, HP!Check, P!dmaVars, HP!dmaVars
<1>10. P!Checked <=> HP!Checked
  BY DEF P!Checked, HP!Checked, P!dmaVars, HP!dmaVars
<1>11. P!Send <=> HP!Send
  BY DEF P!Send, HP!Send, P!alt_dma_txchan_send, HP!alt_dma_txchan_send, P!N3, HP!N3, P!Last, HP!Last
<1>12. P!DmaBeat <=> HP!DmaBeat
  BY DEF P!DmaBeat, HP!DmaBeat, P!mainVars, HP!mainVars
<1>13. P!WriteBack <=> HP!WriteBack
  BY DEF P!WriteBack, HP!WriteBack, P!N3, HP!N3, P!Last, HP!Last, P!generateVector, HP!generateVector, P!Term, HP!Term, P!mainVars, HP!mainVars
<1>14. P!dmaISR <=> HP!dmaISR
  BY DEF P!dmaISR, HP!dmaISR, P!mainVars, HP!mainVars
<1>15. P!IsrPrint <=> HP!IsrPrint
  BY DEF P!IsrPrint, HP!IsrPrint, P!mainVars, HP!mainVars
<1>. QED BY <1>1, <1>2, <1>3, <1>4, <1>5, <1>6, <1>7, <1>8, <1>9, <1>10, <1>11, <1>12, <1>13, <1>14, <1>15

LEMMA SameServer ==
  /\ Server!Init => P!Server!Init
  /\ P!Server!Init => HP!Server!Init
  /\ Server!Clear => P!Server!Clear
  /\ P!Server!Clear => HP!Server!Clear
  /\ Server!Accept => P!Server!Accept
  /\ P!Server!Accept => HP!Server!Accept
  /\ Server!Reply => P!Server!Reply
  /\ P!Server!Reply => HP!Server!Reply
  /\ Server!Rest => P!Server!Rest
  /\ P!Server!Rest => HP!Server!Rest
  /\ \A x : Server!Write(x) => P!Server!Write(x)
  /\ \A x : P!Server!Write(x) => HP!Server!Write(x)
<1>1. /\ Server!Init => P!Server!Init
      /\ P!Server!Init => HP!Server!Init
  BY DEF Server!Init, P!Server!Init, HP!Server!Init
<1>2. /\ Server!Clear => P!Server!Clear
      /\ P!Server!Clear => HP!Server!Clear
  BY DEF Server!Clear, P!Server!Clear, HP!Server!Clear, Server!Waiting, P!Server!Waiting, HP!Server!Waiting
<1>3. /\ Server!Accept => P!Server!Accept
      /\ P!Server!Accept => HP!Server!Accept
  BY DEF Server!Accept, P!Server!Accept, HP!Server!Accept
<1>4. /\ Server!Reply => P!Server!Reply
      /\ P!Server!Reply => HP!Server!Reply
  BY DEF Server!Reply, P!Server!Reply, HP!Server!Reply, Server!Answered, P!Server!Answered, HP!Server!Answered
<1>5. /\ Server!Rest => P!Server!Rest
      /\ P!Server!Rest => HP!Server!Rest
  BY DEF Server!Rest, P!Server!Rest, HP!Server!Rest, Server!Waiting, P!Server!Waiting, HP!Server!Waiting
<1>6. ASSUME NEW x
      PROVE  /\ Server!Write(x) => P!Server!Write(x)
             /\ P!Server!Write(x) => HP!Server!Write(x)
  BY DEF Server!Write, P!Server!Write, HP!Server!Write, Server!Answered, P!Server!Answered, HP!Server!Answered, Server!Waiting, P!Server!Waiting, HP!Server!Waiting
<1>. QED BY <1>1, <1>2, <1>3, <1>4, <1>5, <1>6

LEMMA SameVectors ==
  \A t, k : P!generateVector(t)[k] = HP!generateVector(t)[k]
BY DEF P!generateVector, HP!generateVector, P!Term, HP!Term

LEMMA SameNext == [P!Next]_(P!vars) => [HP!Next]_(HP!vars)
<1>. SUFFICES ASSUME [P!Next]_(P!vars) PROVE [HP!Next]_(HP!vars)
  OBVIOUS
<1>1. CASE P!Main
  <2>1. P!generateVector(test)[i] = HP!generateVector(test)[i]
    BY SameVectors
  <2>2. HP!Main
    BY <1>1, <2>1, SameSteps, SameServer DEF P!Main, HP!Main
  <2>. QED BY <2>2 DEF HP!Next
<1>2. CASE P!Transfer
  BY <1>2, SameSteps, SameServer DEF P!Transfer, HP!Transfer, HP!Next
<1>3. CASE P!Handler
  BY <1>3, SameSteps, SameServer DEF P!Handler, HP!Handler, HP!Next
<1>4. CASE P!WriteBack /\ P!Server!Rest
  BY <1>4, SameSteps, SameServer DEF HP!Next
<1>5. CASE P!Pause
  BY <1>5, SameServer DEF P!Pause, HP!Pause, HP!Next, P!programVars, HP!programVars,
     P!mainVars, HP!mainVars, P!dmaVars, HP!dmaVars
<1>6. CASE UNCHANGED P!vars
  BY <1>6 DEF P!vars, HP!vars, P!programVars, HP!programVars, P!serverVars, HP!serverVars,
     P!mainVars, HP!mainVars, P!dmaVars, HP!dmaVars
<1>. QED BY <1>1, <1>2, <1>3, <1>4, <1>5, <1>6 DEF P!Next

-----------------------------------------------------------------------------
\* The contract between the two.

\* Where the program gives a command the bus is ready for it.
LEMMA Where ==
  ASSUME SystemInv
  PROVE  /\ rd = "issued" => pc \in {"return", "checked"} \/ dma = "isr"
         /\ dma # "off" => pc = "spin"
         /\ pc \in {"restart", "clear"} => rd = "none" /\ settled
         /\ pc = "write" => written < MaxWrites /\ i = written + 1
         /\ dma = "busy" => written < MaxWrites /\ pos = written + 1
<1>. DEFINE asked == IF rd = "issued" THEN expect ELSE NoSum
<1>1. expect # NoSum /\ rd \in {"none", "wait", "issued"} /\ written \in Nat
  BY BusConstants DEF SystemInv, IInv, TypeOK, BusTypeOK
<1>2. asked = NoSum <=> rd # "issued"
  BY <1>1
<1>3. /\ pc \in {"restart", "write", "read", "print", "generate", "open", "clear", "check",
                 "send", "exit"} => asked = NoSum
      /\ pc = "spin" /\ dma # "isr" => asked = NoSum
      /\ pc \in {"restart", "clear"} => settled
      /\ dma # "off" => pc = "spin"
  BY DEF SystemInv, HP!IInv, HP!TestInv, HP!MainInv, HP!DmaInv
<1>4. pc \in {"restart", "write", "read", "return", "print", "generate", "open", "clear",
              "check", "checked", "send", "exit", "spin"}
  BY DEF SystemInv, HP!IInv, HP!TypeInv, HP!InTest, HP!Before
<1>. HIDE DEF asked
<1>5. rd = "issued" => pc \in {"return", "checked"} \/ dma = "isr"
  BY <1>2, <1>3, <1>4
<1>6. pc \in {"restart", "clear"} => rd = "none" /\ settled
  BY <1>1, <1>2, <1>3 DEF SystemInv, Link, Reading
<1>7. pc = "write" => written < MaxWrites /\ i = written + 1
  <2>. SUFFICES ASSUME pc = "write" PROVE written < MaxWrites /\ i = written + 1
    OBVIOUS
  <2>1. i \in 1..Sizes[test] /\ test \in 1..HP!Last /\ written = i - 1
    BY DEF SystemInv, HP!IInv, HP!TestInv, HP!TypeInv, Link
  <2>. QED BY <2>1, SizesFit, BusConstants
<1>8. dma = "busy" => written < MaxWrites /\ pos = written + 1
  <2>. SUFFICES ASSUME dma = "busy" PROVE written < MaxWrites /\ pos = written + 1
    OBVIOUS
  <2>1. pos \in 1..HP!N3 /\ written = pos - 1
    BY DEF SystemInv, HP!IInv, HP!DmaInv, Link
  <2>. QED BY <2>1, SizesFit, BusConstants
<1>. QED BY <1>3, <1>5, <1>6, <1>7, <1>8

\* So every edge of the system is one that FofX allows its masters.
LEMMA BusStep == SystemInv /\ [SystemNext]_systemVars => [Next]_vars
<1>. SUFFICES ASSUME SystemInv, [SystemNext]_systemVars PROVE [Next]_vars
  OBVIOUS
<1>1. CASE (P!Rewind \/ P!Clear) /\ RestartEdge
  <2>1. pc \in {"restart", "clear"}
    BY <1>1 DEF P!Rewind, P!Clear
  <2>. QED BY <1>1, <2>1, Where DEF Next, Restart
<1>2. CASE P!WriteTerm /\ WriteEdge(P!generateVector(test)[i])
  <2>1. P!generateVector(test)[i] \in Input
    <3>1. HP!WriteTerm => HP!generateVector(test)[i] \in HP!Terms \cup {Zero}
      BY ProgramOK, HP!ServerWrites DEF SystemInv
    <3>. QED BY <1>2, <3>1, SameSteps, SameVectors, SizesFit
  <2>2. pc = "write"
    BY <1>2 DEF P!WriteTerm
  <2>. QED BY <1>2, <2>1, <2>2, Where DEF Next, Write
<1>3. CASE P!DmaBeat /\ WriteEdge(memory[pos])
  <2>1. memory[pos] \in Input
    <3>1. HP!DmaBeat => memory[pos] \in HP!Terms \cup {Zero}
      BY ProgramOK, HP!ServerWrites DEF SystemInv
    <3>. QED BY <1>3, <3>1, SameSteps, SizesFit
  <2>2. dma = "busy"
    BY <1>3 DEF P!DmaBeat
  <2>. QED BY <1>3, <2>1, <2>2, Where DEF Next, Write
<1>4. CASE Take
  BY <1>4 DEF Take, Next, ReadStart
<1>5. CASE Compute \/ Elapse
  BY <1>5 DEF Compute, Elapse, Next
<1>6. CASE UNCHANGED systemVars
  BY <1>6 DEF systemVars
<1>. QED BY <1>1, <1>2, <1>3, <1>4, <1>5, <1>6 DEF SystemNext, Give

\* And every edge is to the program what the server does, or a pause.
LEMMA ServerSteps == SystemInv /\ [SystemNext]_systemVars => [P!Next]_(P!vars)
<1>. SUFFICES ASSUME SystemInv, [SystemNext]_systemVars PROVE [P!Next]_(P!vars)
  OBVIOUS
<1>0. /\ Idle /\ Sampling => P!Server!Reply
      /\ Idle /\ ~Sampling => P!Server!Rest
      /\ \A x : WriteEdge(x) => P!Server!Write(x)
      /\ RestartEdge => P!Server!Clear
      /\ ReadStartEdge /\ rd = "none" => P!Server!Rest
      /\ ReadAccept => P!Server!Accept
  BY ServerEdges, SameServer DEF SystemInv
<1>1. CASE Give
  BY <1>0, <1>1 DEF Give, P!Next, P!Main, P!Transfer
<1>2. ASSUME UNCHANGED programVars PROVE UNCHANGED P!programVars
  BY <1>2 DEF programVars, P!programVars, P!mainVars, P!dmaVars
<1>3. CASE Take
  BY <1>0, <1>2, <1>3 DEF Take, P!Next, P!Main, P!Handler, P!Pause
<1>4. CASE Compute
  BY <1>0, <1>4 DEF Compute, P!Next, P!Main
<1>5. CASE Elapse
  BY <1>0, <1>2, <1>5 DEF Elapse, P!Next, P!Pause
<1>6. CASE UNCHANGED systemVars
  BY <1>2, <1>6 DEF systemVars, P!vars, P!serverVars, vars, busVars, histVars
<1>. QED BY <1>1, <1>3, <1>4, <1>5, <1>6 DEF SystemNext

\* What ties the bus to the program is kept.
LEMMA LinkStep == SystemInv /\ [SystemNext]_systemVars => Link'
<1>. SUFFICES ASSUME SystemInv, [SystemNext]_systemVars PROVE Link'
  OBVIOUS
<1>. USE DEF SystemInv
<1>0. /\ rd \in {"none", "wait", "issued"} /\ written \in Nat
      /\ dma # "off" => pc = "spin"
  BY Where, BusConstants DEF IInv, TypeOK, BusTypeOK
<1>1. CASE (P!Rewind \/ P!Clear) /\ RestartEdge
  BY <1>0, <1>1 DEF Link, Reading, P!Rewind, P!Clear, P!dmaVars, RestartEdge
<1>2. CASE P!WriteTerm /\ WriteEdge(P!generateVector(test)[i])
  BY <1>0, <1>2, Where DEF Link, Reading, P!WriteTerm, P!dmaVars, WriteEdge, AwaitData
<1>3. CASE P!DmaBeat /\ WriteEdge(memory[pos])
  BY <1>0, <1>3, Where DEF Link, Reading, P!DmaBeat, P!mainVars, WriteEdge, AwaitData
<1>4. CASE Reading /\ rd = "none" /\ ReadStartEdge /\ UNCHANGED programVars
  BY <1>4 DEF Link, Reading, ReadStartEdge, programVars
<1>5. CASE (P!Read \/ P!Check \/ P!dmaISR) /\ ReadAccept
  BY <1>0, <1>5 DEF Link, P!Read, P!Check, P!dmaISR, P!mainVars, P!dmaVars, ReadAccept
<1>6. CASE Idle /\ UNCHANGED programVars
  BY <1>6 DEF Link, Reading, Idle, AwaitData, programVars
<1>7. CASE Idle /\ (P!Return \/ P!Checked \/ P!IsrPrint)
  BY <1>0, <1>7 DEF Link, Reading, Idle, AwaitData, P!Return, P!Checked, P!IsrPrint,
                    P!mainVars, P!dmaVars
<1>8. CASE Compute
  BY <1>0, <1>8 DEF Compute, Link, Reading, Idle, AwaitData, P!PrintResult, P!Generate,
                    P!Open, P!Send, P!alt_dma_txchan_open, P!alt_dma_txchan_send, P!dmaVars
<1>9. CASE Idle /\ P!WriteBack
  BY <1>9 DEF Link, Reading, Idle, AwaitData, P!WriteBack, P!mainVars
<1>10. CASE UNCHANGED systemVars
  BY <1>10 DEF systemVars, programVars, vars, busVars, Link, Reading
<1>. QED BY <1>1, <1>2, <1>3, <1>4, <1>5, <1>6, <1>7, <1>8, <1>9, <1>10
         DEF SystemNext, Give, Take, Elapse

-----------------------------------------------------------------------------
\* Both invariants hold of the system.

LEMMA SystemStarts == SystemInit => SystemInv /\ P!Init
<1>. SUFFICES ASSUME SystemInit PROVE SystemInv /\ P!Init
  OBVIOUS
<1>1. IInv
  BY InvInit DEF SystemInit
<1>2. P!Server!Init /\ HP!Server!Init
  BY ServerInit, SameServer DEF SystemInit
<1>3. P!Init
  BY <1>2 DEF SystemInit, P!Init
<1>4. HP!Init
  BY <1>2 DEF SystemInit, P!ProgramInit, HP!Init, HP!ProgramInit, P!N3, HP!N3, P!Last, HP!Last
<1>5. HP!IInv
  BY <1>4, ProgramOK, HP!Starts
<1>6. Link
  BY DEF SystemInit, Init, P!ProgramInit, Link
<1>. QED BY <1>1, <1>3, <1>5, <1>6 DEF SystemInv

LEMMA SystemStep == SystemInv /\ [SystemNext]_systemVars => SystemInv'
<1>. SUFFICES ASSUME SystemInv, [SystemNext]_systemVars PROVE SystemInv'
  OBVIOUS
<1>1. IInv'
  BY BusStep, InvStep DEF SystemInv
<1>2. [HP!Next]_(HP!vars)
  BY ServerSteps, SameNext
<1>3. HP!IInv'
  BY <1>2, ProgramOK, HP!StepInvariant DEF SystemInv
<1>. QED BY <1>1, <1>3, LinkStep DEF SystemInv

\* The registers' invariant and the program's, each of which needs the other.
THEOREM SystemInvariance == SystemSpec => []SystemInv
BY SystemStarts, SystemStep, PTL DEF SystemSpec

\* The program never restarts the peripheral too early, never has two reads, and never
\* exceeds the terms for which FofX was proved right.
THEOREM KeepsBus == SystemSpec => BusKept
<1>1. SystemInit => Init
  BY DEF SystemInit
<1>. QED BY <1>1, BusStep, SystemInvariance, PTL DEF SystemSpec, BusKept

\* On the registers the program does what it does on the server: SumServer may be
\* replaced by the peripheral.
THEOREM ServerReplaced == SystemSpec => OnServer
BY SystemStarts, ServerSteps, SystemInvariance, PTL DEF SystemSpec, OnServer, P!Safe

\* What is printed is right, from main down to the registers.
THEOREM EndToEnd == SystemSpec => []PrintsRight
<1>1. SystemInv => PrintsRight
  <2>. SUFFICES ASSUME SystemInv PROVE PrintsRight
    OBVIOUS
  <2>1. HP!ResultsRight /\ HP!ReadsZero
    BY DEF SystemInv, HP!IInv
  <2>2. HP!TransferRight
    BY ProgramOK, HP!InvTransfer DEF SystemInv
  <2>. QED BY <2>1, <2>2
       DEF PrintsRight, P!ResultsRight, P!ReadsZero, P!TransferRight, HP!ResultsRight,
           HP!ReadsZero, HP!TransferRight, P!WholeSum, HP!WholeSum, P!generateVector,
           HP!generateVector, P!Term, HP!Term, P!N3, HP!N3, P!Last, HP!Last
<1>. QED BY <1>1, SystemInvariance, PTL
=============================================================================
