------------------------------- MODULE System -------------------------------
(***************************************************************************)
(* The program on the peripheral: HelloWorld and the DMA give their        *)
(* commands to the registers of FofX instead of the server SumServer.  A   *)
(* step is one edge of the clock.  The program takes the word its IORD     *)
(* samples, whatever it is, and gives a command whenever it comes to one:  *)
(* neither side is restrained by the contract between them.  Between its   *)
(* commands any number of edges may pass.                                  *)
(***************************************************************************)
EXTENDS FofX

CONSTANTS Sizes, Rounds, CacheWords, Stale    \* of HelloWorld

VARIABLES pc, test, j, i, y, read, results, memory, dma, pos, end

P == INSTANCE HelloWorld WITH
  sum <- total, asked <- IF rd = "issued" THEN expect ELSE NoSum

ASSUME SystemConstants ==
  /\ Sizes \in Seq(Nat \ {0}) /\ Len(Sizes) > 0 /\ Rounds \in Nat \ {0}
  /\ CacheWords \in Nat /\ CacheWords < P!N3
  /\ X = P!Terms /\ \A t \in 1..Len(Sizes) : Sizes[t] <= MaxWrites

programVars == <<pc, test, j, i, y, read, results, memory, dma, pos, end>>
systemVars  == <<vars, programVars>>

SystemInit == Init /\ P!ProgramInit

-----------------------------------------------------------------------------
\* main or dmaISR is at its IORD.
Reading == pc \in {"read", "check"} \/ dma = "irq"

\* A write command, and the word it carries.
Give ==
  \/ (P!Rewind \/ P!Clear) /\ RestartEdge
  \/ P!WriteTerm /\ WriteEdge(P!generateVector(test)[i])
  \/ P!DmaBeat /\ WriteEdge(memory[pos])

\* A read: its wait state, its end, and the edges to the one that brings the answer.
Take ==
  \/ Reading /\ rd = "none" /\ ReadStartEdge /\ UNCHANGED programVars
  \/ (P!Read \/ P!Check \/ P!dmaISR) /\ ReadAccept
  \/ rd = "issued" /\ ~Sampling /\ Idle /\ UNCHANGED programVars
  \/ Sampling /\ Idle /\ (P!Return \/ P!Checked \/ P!IsrPrint)

\* What the program does between its commands.
Compute ==
  /\ ~Sampling /\ Idle
  /\ P!PrintResult \/ P!Generate \/ P!Open \/ P!Send

\* An edge without the program; a cache line may reach the memory.
Elapse == ~Sampling /\ Idle /\ (P!WriteBack \/ UNCHANGED programVars)

SystemNext == Give \/ Take \/ Compute \/ Elapse

SystemSpec == /\ SystemInit /\ [][SystemNext]_systemVars
              /\ WF_systemVars(Give \/ Take \/ Compute)

-----------------------------------------------------------------------------
\* Properties

\* The program drives the bus only as FofX expects of its masters: no restart
\* before the sum is read, one read at a time, no more terms than MaxWrites.
BusKept == Init /\ [][Next]_vars

\* The registers in the server's place: what the program does on them is what
\* it does on SumServer.
OnServer == P!Safe

\* So the sums printed are those of the vectors that were written, main reads
\* 0 after its restart, and the transfer is summed as far as the cache let it.
PrintsRight == P!ResultsRight /\ P!ReadsZero /\ P!TransferRight

\* And all results are printed, in spite of every latency in between.
Finishes == P!Finishes
=============================================================================
