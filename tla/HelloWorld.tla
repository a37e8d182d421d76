----------------------------- MODULE HelloWorld -----------------------------
(***************************************************************************)
(* src/hardware/software/hello_world/hello_world.c: the program that sums  *)
(* f over three vectors by writing them to the peripheral, and then has    *)
(* the DMA controller write the last of them again, from the memory where  *)
(* the CPU built it.  The peripheral is the server of SumServer, which     *)
(* FofX implements; the commands are given whenever the program gives      *)
(* them, and that it keeps its side of the contract is a property.         *)
(*                                                                         *)
(* The DMA controller and its driver are not in the repository.  They are  *)
(* modelled from the call of alt_dma_txchan_send: the words of memory are  *)
(* written to the peripheral one by one, and then the callback is called.  *)
(* What the CPU stores stays in its data cache until it is written back,   *)
(* and the DMA controller reads the memory behind the cache.               *)
(***************************************************************************)
EXTENDS Integers, Sequences

CONSTANTS
  Sizes,         \* <<N1, N2, N3>>
  Rounds,        \* calls of trigSum in runTest, 10
  CacheWords,    \* words the data cache holds, 128
  Zero, NoSum,
  Stale          \* what the memory holds under a word that is not written back

Last == Len(Sizes)
N3   == Sizes[Last]

\* The float that is k steps of test t.
Term(t, k) == <<t, k>>
Terms == {Stale} \cup UNION {{Term(t, k) : k \in 1..Sizes[t]} : t \in 1..Last}

ASSUME ProgramConstants ==
  /\ Sizes \in Seq(Nat \ {0}) /\ Len(Sizes) > 0
  /\ Rounds \in Nat \ {0}
  /\ CacheWords \in Nat /\ CacheWords < N3
  /\ Zero \notin Terms /\ NoSum \notin Seq(Terms)

\* x after generateVector(x, step, N): x[1] is the C program's x[0].
generateVector(t) ==
  [k \in 1..Sizes[t] |-> IF k = 1 THEN Zero ELSE Term(t, k - 1)]

VARIABLES
  pc,        \* where main and the functions it calls are
  test,      \* the test case of runTest
  j, i,      \* the counters of runTest and trigSum
  y,         \* the last sum trigSum returned
  read,      \* main's read of the restarted sum
  results,   \* the sums printed, in order
  memory,    \* the words behind the cache at the address of main's x
  dma,       \* "off", "busy", "irq", "isr" while dmaISR runs, or "refused"
  pos, end,  \* the next word the DMA transfers, and the last
  sum, asked, answer, settled, latest    \* the server

Server == INSTANCE SumServer WITH X <- Terms

mainVars    == <<pc, test, j, i, y, read>>
dmaVars     == <<memory, dma, pos, end>>
programVars == <<mainVars, dmaVars, results>>
serverVars  == <<sum, asked, answer, settled, latest>>
vars        == <<programVars, serverVars>>

ProgramInit ==
  /\ pc = "restart" /\ test = 1 /\ j = 0 /\ i = 1 /\ y = <<>> /\ read = NoSum
  /\ results = <<>>
  /\ memory = [k \in 1..N3 |-> Stale] /\ dma = "off" /\ pos = 1 /\ end = 0

-----------------------------------------------------------------------------
\* runTest(Sizes[test], step) and, in it, trigSum: the program's side of each command.

\* IOWR(F_OF_X_0_BASE, 1, 0x0) in trigSum.
Rewind ==
  /\ pc = "restart"
  /\ i' = 1 /\ pc' = "write"
  /\ UNCHANGED <<test, j, y, read, results, dmaVars>>

\* FAULTY: only the last round reads the sum.
WriteTermUnread ==
  /\ pc = "write" /\ i' = i + 1
  /\ IF i < Sizes[test] THEN pc' = "write" /\ j' = j
     ELSE IF j + 1 < Rounds THEN pc' = "restart" /\ j' = j + 1
                            ELSE pc' = "read" /\ j' = j
  /\ UNCHANGED <<test, y, read, results, dmaVars>>

\* IOWR(F_OF_X_0_BASE, 0, el.i), once for every word of the vector.
WriteTerm ==
  /\ pc = "write" /\ i' = i + 1
  /\ pc' = IF i < Sizes[test] THEN "write" ELSE "read"
  /\ UNCHANGED <<test, j, y, read, results, dmaVars>>

\* IORD(F_OF_X_0_BASE, 1) is accepted.
Read ==
  /\ pc = "read" /\ pc' = "return"
  /\ UNCHANGED <<test, j, i, y, read, results, dmaVars>>

\* FAULTY: the rounds are not counted.
ReturnUncounted ==
  /\ pc = "return"
  /\ y' = answer' /\ pc' = "restart"
  /\ UNCHANGED <<test, j, i, read, results, dmaVars>>

\* FAULTY: the sum is restarted once a test, not once a round.
ReturnToWrite ==
  /\ pc = "return"
  /\ y' = answer' /\ i' = 1 /\ j' = j + 1
  /\ pc' = IF j + 1 < Rounds THEN "write" ELSE "print"
  /\ UNCHANGED <<test, read, results, dmaVars>>

\* trigSum returns the answer; runTest goes on to the next round.
Return ==
  /\ pc = "return"
  /\ y' = answer' /\ j' = j + 1
  /\ pc' = IF j + 1 < Rounds THEN "restart" ELSE "print"
  /\ UNCHANGED <<test, i, read, results, dmaVars>>

\* The end of runTest, and its next call by main.
PrintResult ==
  /\ pc = "print"
  /\ results' = Append(results, y)
  /\ j' = 0
  /\ IF test < Last THEN test' = test + 1 /\ pc' = "restart"
                    ELSE test' = test /\ pc' = "generate"
  /\ UNCHANGED <<i, y, read, dmaVars>>

-----------------------------------------------------------------------------
\* The rest of main.

\* generateVector(x, step3, N3): the cache, direct-mapped, has written back
\* every word but those its last lines hold.
Generate ==
  /\ pc = "generate" /\ pc' = "open"
  /\ memory' = [k \in 1..N3 |-> IF k <= N3 - CacheWords
                                  THEN generateVector(Last)[k] ELSE Stale]
  /\ UNCHANGED <<test, j, i, y, read, results, dma, pos, end>>

\* The channel that alt_find_dev finds, or NULL.
alt_dma_txchan_open(found) == IF found THEN "clear" ELSE "exit"

Open ==
  /\ pc = "open"
  /\ \E found \in BOOLEAN : pc' = alt_dma_txchan_open(found)
  /\ UNCHANGED <<test, j, i, y, read, results, dmaVars>>

\* IOWR(F_OF_X_0_BASE, 1, 0x0) and IORD(F_OF_X_0_BASE, 1) in main.
Clear ==
  /\ pc = "clear" /\ pc' = "check"
  /\ UNCHANGED <<test, j, i, y, read, results, dmaVars>>

Check ==
  /\ pc = "check" /\ pc' = "checked"
  /\ UNCHANGED <<test, j, i, y, read, results, dmaVars>>

Checked ==
  /\ pc = "checked" /\ pc' = "send"
  /\ read' = answer'
  /\ UNCHANGED <<test, j, i, y, results, dmaVars>>

\* The driver takes the request for these words, or answers with an error.
alt_dma_txchan_send(words) ==
  \/ dma' = "busy" /\ pos' = 1 /\ end' = words
  \/ dma' = "refused" /\ UNCHANGED <<pos, end>>

\* FAULTY: the length is given in words where bytes are meant.
SendWords ==
  /\ pc = "send" /\ pc' = "spin"
  /\ alt_dma_txchan_send((N3 + 3) \div 4)
  /\ UNCHANGED <<test, j, i, y, read, results, memory>>

\* alt_dma_txchan_send(txchan, &x, N3 * 4, dmaISR, NULL), whose answer main ignores,
\* and then while (1){}.
Send ==
  /\ pc = "send" /\ pc' = "spin"
  /\ alt_dma_txchan_send((N3 * 4) \div 4)
  /\ UNCHANGED <<test, j, i, y, read, results, memory>>

-----------------------------------------------------------------------------
\* What goes on beside main.

\* One word of the transfer.
DmaBeat ==
  /\ dma = "busy"
  /\ pos' = pos + 1
  /\ dma' = IF pos < end THEN "busy" ELSE "irq"
  /\ UNCHANGED <<mainVars, results, memory, end>>

\* A cache line with a word of x makes room for another.
WriteBack ==
  /\ pc \in {"open", "clear", "check", "checked", "send", "spin", "exit"}
  /\ \E k \in 1..N3 :
       /\ memory[k] = Stale
       /\ memory' = [memory EXCEPT ![k] = generateVector(Last)[k]]
  /\ UNCHANGED <<mainVars, results, dma, pos, end>>

\* dmaISR reads the sum, and prints it.
dmaISR ==
  /\ dma = "irq" /\ dma' = "isr"
  /\ UNCHANGED <<mainVars, results, memory, pos, end>>

IsrPrint ==
  /\ dma = "isr" /\ dma' = "off"
  /\ results' = Append(results, answer')
  /\ UNCHANGED <<mainVars, memory, pos, end>>

-----------------------------------------------------------------------------
\* The program and the server: each command with what it does there.
Main ==
  \/ Rewind /\ Server!Clear
  \/ WriteTerm /\ Server!Write(generateVector(test)[i])
  \/ Read /\ Server!Accept
  \/ Server!Reply /\ Return
  \/ PrintResult /\ Server!Rest
  \/ Generate /\ Server!Rest
  \/ Open /\ Server!Rest
  \/ Clear /\ Server!Clear
  \/ Check /\ Server!Accept
  \/ Server!Reply /\ Checked
  \/ Send /\ Server!Rest

Transfer == DmaBeat /\ Server!Write(memory[pos])
Handler  == \/ dmaISR /\ Server!Accept
            \/ Server!Reply /\ IsrPrint

\* Nothing is asked of the server: the program computes, or is in while (1){} or in
\* the loop that _exit ends in.
Pause == Server!Rest /\ UNCHANGED programVars

Init == ProgramInit /\ Server!Init
Next == Main \/ Transfer \/ Handler \/ (WriteBack /\ Server!Rest) \/ Pause

Safe == Init /\ [][Next]_vars

\* The processor runs, the transfer proceeds, the interrupt is taken.
Spec == Safe /\ WF_vars(Main) /\ WF_vars(Transfer) /\ WF_vars(Handler)

-----------------------------------------------------------------------------
\* Properties

\* The program keeps its side of the contract, on which the peripheral's
\* answers depend: one read at a time, although main and dmaISR both read, and
\* no restart before the sum of all words, the DMA's included, has been
\* returned.
KeepsContract == Server!Spec

\* The sum of a whole vector.
WholeSum(t) == Tail(generateVector(t))

\* Each of the three results printed by runTest is the sum of its vector, once:
\* ten rounds over, nothing of an earlier round or an earlier test is in it.
ResultsRight == \A t \in 1..Last : t <= Len(results) => results[t] = WholeSum(t)

\* The comment in main: "should read 0".
ReadsZero == read \in {NoSum, <<>>}

\* The result of the transfer has one term for every word but the first; it is
\* the word of x, unless it is among those the cache may still hold.
TransferRight ==
  Len(results) = Last + 1 =>
    /\ Len(results[Last + 1]) = N3 - 1
    /\ \A k \in 2..N3 :
         \/ results[Last + 1][k - 1] = generateVector(Last)[k]
         \/ k > N3 - CacheWords /\ results[Last + 1][k - 1] = Stale

\* The program prints all its results, unless there is no DMA channel or the driver
\* refuses the transfer: then it has printed those of runTest, and without a word about
\* the refusal waits for ever.
Finishes ==
  <>(\/ Len(results) = Last + 1
     \/ Len(results) = Last /\ (pc = "exit" \/ dma = "refused"))
=============================================================================
