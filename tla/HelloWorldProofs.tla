-------------------------- MODULE HelloWorldProofs --------------------------
(***************************************************************************)
(* The program HelloWorld keeps its side of the contract and prints the    *)
(* sums of its vectors, whatever the vectors' sizes, the rounds and the    *)
(* order in which cache lines are written back.                            *)
(***************************************************************************)
EXTENDS HelloWorld, SequenceTheorems, TLAPS

-----------------------------------------------------------------------------
\* The inductive invariant.

\* The first n terms of test t, the 0 not counted.
Partial(t, n) == [k \in 1..n |-> Term(t, k)]

\* What the DMA may find as word k of x.
WordRight(k, w) ==
  \/ w = generateVector(Last)[k]
  \/ k > N3 - CacheWords /\ w = Stale

\* s is what the first n words of x add up to.
Transferred(s, n) ==
  /\ s \in Seq(Terms)
  /\ Len(s) = IF n = 0 THEN 0 ELSE n - 1
  /\ \A k \in 2..n : WordRight(k, s[k - 1])

InTest == pc \in {"restart", "write", "read", "return", "print"}
Before == {"generate", "open", "clear", "check", "checked", "send", "exit"}

TypeInv ==
  /\ InTest \/ pc \in Before \/ pc = "spin"
  /\ test \in 1..Last /\ j \in Nat /\ i \in Nat
  /\ sum \in Seq(Terms) /\ y \in Seq(Terms)
  /\ settled \in BOOLEAN /\ latest \in BOOLEAN
  /\ dma \in {"off", "busy", "irq", "isr", "refused"}
  /\ results \in Seq(Seq(Terms))

\* A test: nothing of an earlier round is in the sum, which is whole when it is read.
TestInv ==
  /\ InTest => Len(results) = test - 1
  /\ pc = "restart" => asked = NoSum /\ settled
  /\ pc = "write" =>
       i \in 1..Sizes[test] /\ asked = NoSum /\ sum = Partial(test, i - 2)
  /\ pc = "read" => asked = NoSum /\ sum = WholeSum(test)
  /\ pc = "return" => asked = WholeSum(test) /\ latest
  /\ pc = "print" => asked = NoSum /\ settled /\ y = WholeSum(test)

\* From the last test to the transfer.
MainInv ==
  /\ pc \in Before => Len(results) = Last
  /\ pc \in {"generate", "open", "clear"} => asked = NoSum /\ settled
  /\ pc \in {"check", "send"} => asked = NoSum /\ sum = <<>>
  /\ pc = "checked" => asked = <<>> /\ sum = <<>> /\ latest
  /\ pc = "exit" => asked = NoSum

\* Word 1, the 0, is always in the memory: the cache is smaller than the vector.
MemoryInv ==
  /\ memory \in [1..N3 -> Terms \cup {Zero}]
  /\ ~InTest /\ pc # "generate" => \A k \in 1..N3 : WordRight(k, memory[k])

\* While the transfer and its handler run, main asks for nothing.
DmaInv ==
  /\ dma # "off" => pc = "spin"
  /\ pc = "spin" /\ dma # "off" => Len(results) = Last
  /\ pc = "spin" /\ dma # "isr" => asked = NoSum
  /\ dma = "busy" => pos \in 1..N3 /\ end = N3 /\ Transferred(sum, pos - 1)
  /\ dma = "irq" => Transferred(sum, N3)
  /\ dma = "isr" => Transferred(asked, N3)
  /\ pc = "spin" /\ dma = "off" =>
       Len(results) = Last + 1 /\ Transferred(results[Last + 1], N3)

IInv ==
  /\ TypeInv /\ TestInv /\ MainInv /\ MemoryInv /\ DmaInv
  /\ ResultsRight /\ ReadsZero

-----------------------------------------------------------------------------
\* The vectors and their sums.

LEMMA Constants ==
  /\ Last \in Nat \ {0} /\ Sizes \in [1..Last -> Nat \ {0}]
  /\ N3 \in Nat \ {0} /\ Rounds \in Nat \ {0}
  /\ CacheWords \in Nat /\ CacheWords < N3
<1>1. /\ Len(Sizes) \in Nat \ {0} /\ Sizes \in [1..Len(Sizes) -> Nat \ {0}]
      /\ CacheWords \in Nat /\ CacheWords < N3
  BY ProgramConstants, LenProperties
<1>2. Len(Sizes) \in 1..Len(Sizes)
  BY <1>1
<1>3. Sizes[Len(Sizes)] \in Nat \ {0}
  BY <1>1, <1>2
<1>. QED BY <1>1, <1>3, ProgramConstants DEF Last, N3

LEMMA FunctionIsSeq ==
  ASSUME NEW S, NEW m \in Nat, NEW f \in [1..m -> S]
  PROVE  f \in Seq(S) /\ Len(f) = m
<1>1. f \in Seq(S)
  BY SeqDef
<1>2. Len(f) \in Nat /\ DOMAIN f = 1..Len(f) /\ DOMAIN f = 1..m
  BY <1>1, LenProperties
<1>. QED BY <1>1, <1>2

LEMMA TermType ==
  ASSUME NEW t \in 1..Last, NEW k \in 1..Sizes[t]
  PROVE  Term(t, k) \in Terms
BY DEF Terms

\* After the 0, the words of a vector are its terms.
LEMMA Words ==
  ASSUME NEW t \in 1..Last, NEW k \in 1..Sizes[t]
  PROVE  /\ k = 1 => generateVector(t)[k] = Zero
         /\ k # 1 => generateVector(t)[k] = Term(t, k - 1)
         /\ k # 1 => generateVector(t)[k] \in Terms
<1>1. Sizes[t] \in Nat \ {0}
  BY Constants
<1>2. k # 1 => k - 1 \in 1..Sizes[t]
  BY <1>1
<1>. QED BY <1>2, TermType DEF generateVector

LEMMA PartialType ==
  ASSUME NEW t \in 1..Last, NEW n \in Int, n <= Sizes[t]
  PROVE  /\ Partial(t, n) \in Seq(Terms)
         /\ Len(Partial(t, n)) = IF n < 0 THEN 0 ELSE n
         /\ \A k \in 1..n : Partial(t, n)[k] = Term(t, k)
<1>. DEFINE m == IF n < 0 THEN 0 ELSE n
<1>1. m \in Nat /\ 1..n = 1..m
  OBVIOUS
<1>2. \A k \in 1..m : Term(t, k) \in Terms
  BY TermType, Constants
<1>3. Partial(t, n) \in [1..m -> Terms]
  BY <1>1, <1>2 DEF Partial
<1>. QED BY <1>1, <1>3, FunctionIsSeq DEF Partial

\* Before its first term a sum is empty.
LEMMA PartialEmpty ==
  ASSUME NEW t \in 1..Last, NEW n \in Int, n <= 0
  PROVE  Partial(t, n) = <<>>
<1>1. Sizes[t] \in Nat \ {0}
  BY Constants
<1>. QED BY <1>1, PartialType, EmptySeq

LEMMA PartialGrows ==
  ASSUME NEW t \in 1..Last, NEW n \in Nat, n + 1 <= Sizes[t]
  PROVE  Append(Partial(t, n), Term(t, n + 1)) = Partial(t, n + 1)
<1>1. Partial(t, n) \in Seq(Terms) /\ Len(Partial(t, n)) = n
  BY PartialType, Constants
<1>2. Partial(t, n + 1) \in Seq(Terms) /\ Len(Partial(t, n + 1)) = n + 1
  BY PartialType, Constants
<1>3. Term(t, n + 1) \in Terms
  BY TermType, Constants
<1>. DEFINE s == Append(Partial(t, n), Term(t, n + 1))
<1>4. s \in Seq(Terms) /\ Len(s) = n + 1
  BY <1>1, <1>3, AppendProperties
<1>5. ASSUME NEW k \in 1..(n + 1) PROVE s[k] = Partial(t, n + 1)[k]
  BY <1>1, <1>3, AppendProperties DEF Partial
<1>. HIDE DEF s
<1>6. s = Partial(t, n + 1)
  BY <1>2, <1>4, <1>5, SeqEqual
<1>. QED BY <1>6 DEF s

\* The sum of a vector leaves out its first word only.
LEMMA Whole ==
  ASSUME NEW t \in 1..Last
  PROVE  WholeSum(t) = Partial(t, Sizes[t] - 1) /\ WholeSum(t) \in Seq(Terms)
<1>1. Sizes[t] \in Nat \ {0}
  BY Constants
<1>. DEFINE v == generateVector(t)
<1>2. v \in Seq(Terms \cup {Zero}) /\ Len(v) = Sizes[t]
  <2>1. v \in [1..Sizes[t] -> Terms \cup {Zero}]
    BY Words DEF generateVector
  <2>. QED BY <1>1, <2>1, FunctionIsSeq
<1>3. Tail(v) \in Seq(Terms \cup {Zero}) /\ Len(Tail(v)) = Sizes[t] - 1
      /\ \A k \in 1..(Sizes[t] - 1) : Tail(v)[k] = v[k + 1]
  BY <1>1, <1>2, HeadTailProperties, EmptySeq
<1>4. \A k \in 1..(Sizes[t] - 1) : v[k + 1] = Term(t, k)
  BY <1>1, Words
<1>5. /\ Partial(t, Sizes[t] - 1) \in Seq(Terms)
      /\ Len(Partial(t, Sizes[t] - 1)) = Sizes[t] - 1
      /\ \A k \in 1..(Sizes[t] - 1) : Partial(t, Sizes[t] - 1)[k] = Term(t, k)
  BY <1>1, PartialType
<1>6. Tail(v) = Partial(t, Sizes[t] - 1)
  BY <1>3, <1>4, <1>5, SeqEqual
<1>. QED BY <1>5, <1>6 DEF WholeSum

\* One word of the transfer more.
LEMMA TransferGrows ==
  ASSUME NEW n \in 1..N3, NEW s, Transferred(s, n - 1), NEW w, WordRight(n, w)
  PROVE  Transferred(IF w = Zero THEN s ELSE Append(s, w), n)
<1>1. N3 = Sizes[Last] /\ Last \in 1..Last
  BY Constants DEF N3
<1>2. CASE n = 1
  <2>1. w = Zero
    BY <1>1, <1>2, Constants, Words DEF WordRight
  <2>. QED BY <1>2, <2>1 DEF Transferred
<1>3. CASE n # 1
  <2>1. w \in Terms
    <3>1. generateVector(Last)[n] \in Terms
      BY <1>1, <1>3, Words
    <3>2. Stale \in Terms
      BY DEF Terms
    <3>. QED BY <3>1, <3>2 DEF WordRight
  <2>2. w # Zero
    BY <2>1, ProgramConstants
  <2>3. s \in Seq(Terms) /\ Len(s) = n - 2
    BY <1>3, Constants DEF Transferred
  <2>4. Append(s, w) \in Seq(Terms) /\ Len(Append(s, w)) = n - 1
    BY <2>1, <2>3, AppendProperties
  <2>5. ASSUME NEW k \in 2..n PROVE WordRight(k, Append(s, w)[k - 1])
    <3>1. CASE k = n
      BY <2>1, <2>3, <3>1, AppendProperties
    <3>2. CASE k # n
      <4>1. k \in 2..(n - 1) /\ k - 1 \in 1..Len(s)
        BY <2>3, <3>2, Constants
      <4>. QED BY <2>1, <2>3, <4>1, AppendProperties DEF Transferred
    <3>. QED BY <3>1, <3>2
  <2>. QED BY <1>3, <2>2, <2>4, <2>5, Constants DEF Transferred
<1>. QED BY <1>2, <1>3

-----------------------------------------------------------------------------
\* The invariant holds initially, and every step keeps it.

LEMMA NoSumIsNone == \A s \in Seq(Terms) : s # NoSum
BY ProgramConstants

LEMMA Starts == Init => IInv
<1>. SUFFICES ASSUME Init PROVE IInv
  OBVIOUS
<1>. USE DEF Init, ProgramInit, Server!Init
<1>1. 1 \in 1..Last /\ <<>> \in Seq(Terms) /\ <<>> \in Seq(Seq(Terms)) /\ Len(<<>>) = 0
  BY Constants, EmptySeq
<1>5. TypeInv
  <2>1. settled \in BOOLEAN /\ latest \in BOOLEAN
    OBVIOUS
  <2>2. sum \in Seq(Terms) /\ y \in Seq(Terms) /\ results \in Seq(Seq(Terms))
    BY <1>1
  <2>. QED BY <1>1, <2>1, <2>2 DEF TypeInv, InTest
<1>6. TestInv
  BY <1>1 DEF TestInv, InTest
<1>2. MainInv /\ DmaInv
  BY DEF MainInv, DmaInv, Before
<1>3. MemoryInv
  BY Constants DEF MemoryInv, InTest, Terms
<1>4. ResultsRight /\ ReadsZero
  BY Constants, EmptySeq DEF ResultsRight, ReadsZero
<1>. QED BY <1>2, <1>3, <1>4, <1>5, <1>6 DEF IInv

\* Main in a test: the commands change the sum, and nothing else of the server.
LEMMA StepRewind == IInv /\ Rewind /\ Server!Clear => IInv'
<1>. SUFFICES ASSUME IInv, Rewind, Server!Clear PROVE IInv'
  OBVIOUS
<1>. USE DEF Rewind, Server!Clear, Server!Waiting, mainVars, dmaVars
<1>1. TypeInv'
  BY EmptySeq DEF IInv, TypeInv, InTest
<1>2. Partial(test, -1) = <<>> /\ Sizes[test] \in Nat \ {0}
  BY PartialEmpty, Constants DEF IInv, TypeInv
<1>3. TestInv'
  BY <1>2 DEF IInv, TestInv, InTest, TypeInv, Partial
<1>4. MainInv' /\ DmaInv'
  BY DEF IInv, MainInv, DmaInv, Before
<1>5. MemoryInv' /\ ResultsRight' /\ ReadsZero'
  BY DEF IInv, MemoryInv, InTest, ResultsRight, ReadsZero
<1>. QED BY <1>1, <1>3, <1>4, <1>5 DEF IInv

LEMMA StepWriteTerm == IInv /\ WriteTerm /\ Server!Write(generateVector(test)[i]) => IInv'
<1>. SUFFICES ASSUME IInv, WriteTerm, Server!Write(generateVector(test)[i]) PROVE IInv'
  OBVIOUS
<1>. DEFINE w == generateVector(test)[i]
<1>1. /\ pc = "write" /\ test \in 1..Last /\ i \in 1..Sizes[test] /\ asked = NoSum
      /\ sum = Partial(test, i - 2) /\ Sizes[test] \in Nat \ {0}
  BY Constants DEF IInv, TypeInv, TestInv, WriteTerm
<1>2. asked' = NoSum /\ sum' = IF w = Zero THEN sum ELSE Append(sum, w)
  BY <1>1 DEF WriteTerm, Server!Write, Server!Answered, Server!Waiting
<1>3. sum' = Partial(test, i - 1)
  <2>1. CASE i = 1
    <3>1. w = Zero
      BY <1>1, <2>1, Words
    <3>2. Partial(test, i - 2) = <<>> /\ Partial(test, i - 1) = <<>>
      BY <1>1, <2>1, PartialEmpty
    <3>. QED BY <1>1, <1>2, <3>1, <3>2
  <2>2. CASE i # 1
    <3>1. w = Term(test, i - 1) /\ w # Zero
      BY <1>1, <2>2, Words, ProgramConstants
    <3>2. i - 2 \in Nat /\ (i - 2) + 1 = i - 1 /\ i - 1 <= Sizes[test]
      BY <1>1, <2>2
    <3>3. Append(Partial(test, i - 2), Term(test, i - 1)) = Partial(test, i - 1)
      BY <1>1, <3>2, PartialGrows
    <3>. QED BY <1>1, <1>2, <3>1, <3>3
  <2>. QED BY <2>1, <2>2
<1>4. sum' \in Seq(Terms)
  BY <1>1, <1>3, PartialType
<1>. HIDE DEF w
<1>0. /\ pc' = IF i < Sizes[test] THEN "write" ELSE "read"
      /\ i' = i + 1 /\ settled' = FALSE /\ latest' = FALSE
      /\ UNCHANGED <<test, j, y, read, results, memory, dma, pos, end>>
  BY DEF WriteTerm, Server!Write, mainVars, dmaVars
<1>5. TypeInv'
  <2>1. InTest'
    BY <1>0 DEF InTest
  <2>2. i' \in Nat
    BY <1>0, <1>1 DEF IInv, TypeInv
  <2>3. settled' \in BOOLEAN /\ latest' \in BOOLEAN
    BY <1>0
  <2>4. sum' \in Seq(Terms)
    BY <1>4
  <2>. QED BY <1>0, <2>1, <2>2, <2>3, <2>4 DEF IInv, TypeInv
<1>6. TestInv'
  <2>1. i' = i + 1 /\ test' = test /\ i' - 2 = i - 1
    BY <1>0, <1>1
  <2>2. sum' = Partial(test', i' - 2)
    BY <1>3, <2>1
  <2>3. CASE i < Sizes[test]
    <3>1. pc' = "write" /\ i' \in 1..Sizes[test']
      BY <1>0, <1>1, <2>1, <2>3
    <3>2. Len(results') = test' - 1
      BY <1>0, <1>1 DEF IInv, TestInv, InTest
    <3>. QED BY <1>2, <2>2, <3>1, <3>2 DEF TestInv
  <2>4. CASE ~(i < Sizes[test])
    <3>1. i = Sizes[test]
      BY <1>1, <2>4
    <3>2. sum' = WholeSum(test)
      BY <1>1, <1>3, <3>1, Whole
    <3>. QED BY <1>0, <1>1, <1>2, <2>1, <2>4, <3>2 DEF IInv, TestInv, InTest, WholeSum, generateVector
  <2>. QED BY <2>3, <2>4
<1>7. MainInv' /\ DmaInv'
  BY <1>0, <1>1 DEF IInv, MainInv, DmaInv, Before
<1>8. MemoryInv' /\ ResultsRight' /\ ReadsZero'
  BY <1>0, <1>1 DEF IInv, MemoryInv, InTest, ResultsRight, ReadsZero
<1>. QED BY <1>5, <1>6, <1>7, <1>8 DEF IInv

LEMMA StepRead == IInv /\ Read /\ Server!Accept => IInv'
<1>. SUFFICES ASSUME IInv, Read, Server!Accept PROVE IInv'
  OBVIOUS
<1>. USE DEF Read, Server!Accept, mainVars, dmaVars
<1>1. TypeInv'
  BY DEF IInv, TypeInv, InTest
<1>2. TestInv'
  BY DEF IInv, TestInv, InTest, WholeSum, generateVector
<1>3. MainInv' /\ DmaInv'
  BY DEF IInv, MainInv, DmaInv, Before
<1>4. MemoryInv' /\ ResultsRight' /\ ReadsZero'
  BY DEF IInv, MemoryInv, InTest, ResultsRight, ReadsZero
<1>. QED BY <1>1, <1>2, <1>3, <1>4 DEF IInv

LEMMA StepReturn == IInv /\ Return /\ Server!Reply => IInv'
<1>. SUFFICES ASSUME IInv, Return, Server!Reply PROVE IInv'
  OBVIOUS
<1>1. pc = "return" /\ asked = WholeSum(test) /\ latest /\ test \in 1..Last
  BY DEF IInv, TypeInv, TestInv, Return
<1>2. y' = WholeSum(test) /\ asked' = NoSum /\ settled' = TRUE
  BY <1>1 DEF Return, Server!Reply, Server!Answered
<1>3. WholeSum(test) \in Seq(Terms)
  BY <1>1, Whole
<1>. USE DEF Return, Server!Reply, mainVars, dmaVars
<1>4. TypeInv'
  BY <1>2, <1>3, Constants DEF IInv, TypeInv, InTest
<1>5. TestInv'
  BY <1>1, <1>2 DEF IInv, TestInv, InTest, WholeSum, generateVector
<1>6. MainInv' /\ DmaInv'
  BY <1>1 DEF IInv, MainInv, DmaInv, Before
<1>7. MemoryInv' /\ ResultsRight' /\ ReadsZero'
  BY <1>1 DEF IInv, MemoryInv, InTest, ResultsRight, ReadsZero
<1>. QED BY <1>4, <1>5, <1>6, <1>7 DEF IInv

LEMMA StepPrintResult == IInv /\ PrintResult /\ Server!Rest => IInv'
<1>. SUFFICES ASSUME IInv, PrintResult, Server!Rest PROVE IInv'
  OBVIOUS
<1>1. /\ pc = "print" /\ y = WholeSum(test) /\ test \in 1..Last /\ Last \in Nat \ {0}
      /\ asked = NoSum /\ settled /\ dma = "off" /\ y \in Seq(Terms)
      /\ results \in Seq(Seq(Terms)) /\ Len(results) = test - 1
  BY Constants DEF IInv, TypeInv, TestInv, DmaInv, PrintResult, InTest
<1>2. /\ results' \in Seq(Seq(Terms)) /\ Len(results') = test
      /\ \A t \in 1..(test - 1) : results'[t] = results[t]
      /\ results'[test] = WholeSum(test)
  BY <1>1, AppendProperties DEF PrintResult
<1>. USE DEF PrintResult, Server!Rest, Server!Waiting, mainVars, dmaVars
<1>3. TypeInv'
  BY <1>1, <1>2 DEF IInv, TypeInv, InTest, Before
<1>4. TestInv'
  BY <1>1, <1>2 DEF IInv, TestInv, InTest
<1>5. MainInv' /\ DmaInv'
  BY <1>1, <1>2 DEF IInv, MainInv, DmaInv, Before
<1>6. MemoryInv' /\ ReadsZero'
  BY <1>1 DEF IInv, MemoryInv, InTest, ReadsZero
<1>7. ResultsRight'
  <2>1. ASSUME NEW t \in 1..Last, t <= Len(results') PROVE results'[t] = WholeSum(t)
    <3>1. t = test \/ (t \in 1..(test - 1) /\ t <= Len(results))
      BY <1>1, <1>2, <2>1
    <3>. QED BY <1>2, <3>1 DEF IInv, ResultsRight
  <2>. QED BY <2>1 DEF ResultsRight, WholeSum, generateVector
<1>. QED BY <1>3, <1>4, <1>5, <1>6, <1>7 DEF IInv

\* The rest of main.
LEMMA StepGenerate == IInv /\ Generate /\ Server!Rest => IInv'
<1>. SUFFICES ASSUME IInv, Generate, Server!Rest PROVE IInv'
  OBVIOUS
<1>. USE DEF Generate, Server!Rest, Server!Waiting, mainVars
<1>1. TypeInv' /\ TestInv'
  BY DEF IInv, TypeInv, TestInv, InTest, Before
<1>2. MainInv' /\ DmaInv'
  BY DEF IInv, MainInv, DmaInv, Before
<1>3. MemoryInv'
  <2>1. Last \in 1..Last /\ N3 = Sizes[Last]
    BY Constants DEF N3
  <2>2. \A k \in 1..N3 : generateVector(Last)[k] \in Terms \cup {Zero}
    BY <2>1, Words
  <2>3. Stale \in Terms
    BY DEF Terms
  <2>4. memory' \in [1..N3 -> Terms \cup {Zero}]
    BY <2>2, <2>3
  <2>5. ASSUME NEW k \in 1..N3 PROVE WordRight(k, memory'[k])
    BY Constants DEF WordRight
  <2>. QED BY <2>4, <2>5 DEF MemoryInv
<1>4. ResultsRight' /\ ReadsZero'
  BY DEF IInv, ResultsRight, ReadsZero
<1>. QED BY <1>1, <1>2, <1>3, <1>4 DEF IInv

LEMMA StepOpen == IInv /\ Open /\ Server!Rest => IInv'
<1>. SUFFICES ASSUME IInv, Open, Server!Rest PROVE IInv'
  OBVIOUS
<1>. USE DEF Open, alt_dma_txchan_open, Server!Rest, Server!Waiting, mainVars, dmaVars
<1>1. TypeInv' /\ TestInv'
  BY DEF IInv, TypeInv, TestInv, InTest, Before
<1>2. MainInv' /\ DmaInv'
  BY DEF IInv, MainInv, DmaInv, Before
<1>3. MemoryInv' /\ ResultsRight' /\ ReadsZero'
  BY DEF IInv, MemoryInv, InTest, ResultsRight, ReadsZero
<1>. QED BY <1>1, <1>2, <1>3 DEF IInv

LEMMA StepClear == IInv /\ Clear /\ Server!Clear => IInv'
<1>. SUFFICES ASSUME IInv, Clear, Server!Clear PROVE IInv'
  OBVIOUS
<1>. USE DEF Clear, Server!Clear, Server!Waiting, mainVars, dmaVars
<1>1. TypeInv' /\ TestInv'
  BY EmptySeq DEF IInv, TypeInv, TestInv, InTest, Before
<1>2. MainInv' /\ DmaInv'
  BY DEF IInv, MainInv, DmaInv, Before
<1>3. MemoryInv' /\ ResultsRight' /\ ReadsZero'
  BY DEF IInv, MemoryInv, InTest, ResultsRight, ReadsZero
<1>. QED BY <1>1, <1>2, <1>3 DEF IInv

LEMMA StepCheck == IInv /\ Check /\ Server!Accept => IInv'
<1>. SUFFICES ASSUME IInv, Check, Server!Accept PROVE IInv'
  OBVIOUS
<1>. USE DEF Check, Server!Accept, mainVars, dmaVars
<1>1. TypeInv' /\ TestInv'
  BY DEF IInv, TypeInv, TestInv, InTest, Before
<1>2. MainInv' /\ DmaInv'
  BY DEF IInv, MainInv, DmaInv, Before
<1>3. MemoryInv' /\ ResultsRight' /\ ReadsZero'
  BY DEF IInv, MemoryInv, InTest, ResultsRight, ReadsZero
<1>. QED BY <1>1, <1>2, <1>3 DEF IInv

LEMMA StepChecked == IInv /\ Checked /\ Server!Reply => IInv'
<1>. SUFFICES ASSUME IInv, Checked, Server!Reply PROVE IInv'
  OBVIOUS
<1>. USE DEF Checked, Server!Reply, Server!Answered, mainVars, dmaVars
<1>1. TypeInv' /\ TestInv'
  BY DEF IInv, TypeInv, TestInv, InTest, Before
<1>2. MainInv' /\ DmaInv'
  BY DEF IInv, MainInv, DmaInv, Before
<1>3. MemoryInv' /\ ResultsRight' /\ ReadsZero'
  BY DEF IInv, MainInv, MemoryInv, InTest, ResultsRight, ReadsZero
<1>. QED BY <1>1, <1>2, <1>3 DEF IInv

LEMMA StepSend == IInv /\ Send /\ Server!Rest => IInv'
<1>. SUFFICES ASSUME IInv, Send, Server!Rest PROVE IInv'
  OBVIOUS
<1>1. (N3 * 4) \div 4 = N3 /\ N3 \in Nat \ {0}
  BY Constants
<1>. USE DEF Send, alt_dma_txchan_send, Server!Rest, Server!Waiting, mainVars
<1>2. TypeInv' /\ TestInv'
  BY DEF IInv, TypeInv, TestInv, InTest, Before
<1>3. MainInv'
  BY DEF IInv, MainInv, Before
<1>4. DmaInv'
  <2>1. Transferred(<<>>, 0)
    BY EmptySeq DEF Transferred
  <2>2. pc' = "spin" /\ asked' = NoSum /\ sum' = <<>> /\ Len(results') = Last
    BY DEF IInv, MainInv, Before
  <2>3. CASE dma' = "busy" /\ pos' = 1 /\ end' = N3
    BY <1>1, <2>1, <2>2, <2>3 DEF DmaInv
  <2>4. CASE dma' = "refused"
    BY <2>2, <2>4 DEF DmaInv
  <2>. QED BY <1>1, <2>3, <2>4
<1>5. MemoryInv' /\ ResultsRight' /\ ReadsZero'
  BY DEF IInv, MemoryInv, InTest, ResultsRight, ReadsZero
<1>. QED BY <1>2, <1>3, <1>4, <1>5 DEF IInv

LEMMA StepDmaBeat == IInv /\ Transfer => IInv'
<1>. SUFFICES ASSUME IInv, Transfer PROVE IInv'
  OBVIOUS
<1>. DEFINE w == memory[pos]
<1>1. /\ dma = "busy" /\ pc = "spin" /\ asked = NoSum /\ Len(results) = Last
      /\ pos \in 1..N3 /\ end = N3 /\ Transferred(sum, pos - 1)
  BY DEF IInv, DmaInv, Transfer, DmaBeat
<1>2. WordRight(pos, w)
  BY <1>1 DEF IInv, MemoryInv, InTest
<1>3. asked' = NoSum /\ sum' = IF w = Zero THEN sum ELSE Append(sum, w)
  BY <1>1 DEF Transfer, DmaBeat, Server!Write, Server!Answered, Server!Waiting
<1>4. Transferred(sum', pos)
  BY <1>1, <1>2, <1>3, TransferGrows
<1>5. /\ pos' = pos + 1 /\ dma' = IF pos < end THEN "busy" ELSE "irq"
      /\ settled' = FALSE /\ latest' = FALSE
      /\ UNCHANGED <<pc, test, j, i, y, read, results, memory, end>>
  BY DEF Transfer, DmaBeat, Server!Write, mainVars
<1>. HIDE DEF w
<1>6. TypeInv'
  <2>1. sum' \in Seq(Terms)
    BY <1>4 DEF Transferred
  <2>2. settled' \in BOOLEAN /\ latest' \in BOOLEAN
    BY <1>5
  <2>. QED BY <1>1, <1>5, <2>1, <2>2 DEF IInv, TypeInv
<1>7. TestInv' /\ MainInv'
  BY <1>1, <1>5 DEF TestInv, MainInv, InTest, Before
<1>8. MemoryInv' /\ ResultsRight' /\ ReadsZero'
  BY <1>5 DEF IInv, MemoryInv, InTest, ResultsRight, ReadsZero
<1>9. DmaInv'
  <2>1. CASE pos < end
    <3>1. pos' \in 1..N3 /\ pos' - 1 = pos
      BY <1>1, <1>5, <2>1, Constants
    <3>. QED BY <1>1, <1>3, <1>4, <1>5, <2>1, <3>1 DEF DmaInv
  <2>2. CASE ~(pos < end)
    <3>1. pos = N3
      BY <1>1, <2>2, Constants
    <3>. QED BY <1>1, <1>3, <1>4, <1>5, <2>2, <3>1 DEF DmaInv
  <2>. QED BY <2>1, <2>2
<1>. QED BY <1>6, <1>7, <1>8, <1>9 DEF IInv

LEMMA StepWriteBack == IInv /\ WriteBack /\ Server!Rest => IInv'
<1>. SUFFICES ASSUME IInv, WriteBack, Server!Rest PROVE IInv'
  OBVIOUS
<1>1. PICK k \in 1..N3 : memory' = [memory EXCEPT ![k] = generateVector(Last)[k]]
  BY DEF WriteBack
<1>2. Last \in 1..Last /\ N3 = Sizes[Last]
  BY Constants DEF N3
<1>3. generateVector(Last)[k] \in Terms \cup {Zero}
  BY <1>2, Words
<1>4. /\ UNCHANGED <<pc, test, j, i, y, read, results, dma, pos, end>>
      /\ UNCHANGED <<sum, asked, settled, latest>>
      /\ ~InTest /\ pc # "generate"
  BY DEF WriteBack, Server!Rest, Server!Waiting, mainVars, InTest
<1>5. TypeInv' /\ TestInv' /\ MainInv' /\ DmaInv'
  BY <1>4 DEF IInv, TypeInv, TestInv, MainInv, DmaInv, InTest, Before
<1>6. MemoryInv'
  BY <1>1, <1>3, <1>4 DEF IInv, MemoryInv, InTest, WordRight
<1>7. ResultsRight' /\ ReadsZero'
  BY <1>4 DEF IInv, ResultsRight, ReadsZero
<1>. QED BY <1>5, <1>6, <1>7 DEF IInv

LEMMA StepDmaISR == IInv /\ dmaISR /\ Server!Accept => IInv'
<1>. SUFFICES ASSUME IInv, dmaISR, Server!Accept PROVE IInv'
  OBVIOUS
<1>. USE DEF dmaISR, Server!Accept, mainVars
<1>1. TypeInv' /\ TestInv' /\ MainInv'
  BY DEF IInv, TypeInv, TestInv, MainInv, DmaInv, InTest, Before
<1>2. DmaInv'
  BY DEF IInv, DmaInv
<1>3. MemoryInv' /\ ResultsRight' /\ ReadsZero'
  BY DEF IInv, MemoryInv, InTest, ResultsRight, ReadsZero
<1>. QED BY <1>1, <1>2, <1>3 DEF IInv

LEMMA StepIsrPrint == IInv /\ IsrPrint /\ Server!Reply => IInv'
<1>. SUFFICES ASSUME IInv, IsrPrint, Server!Reply PROVE IInv'
  OBVIOUS
<1>1. /\ dma = "isr" /\ pc = "spin" /\ Len(results) = Last /\ Transferred(asked, N3)
      /\ results \in Seq(Seq(Terms)) /\ asked \in Seq(Terms) /\ Last \in Nat \ {0}
  BY Constants DEF IInv, TypeInv, DmaInv, IsrPrint, Transferred
<1>2. /\ answer' = asked /\ asked' = NoSum /\ dma' = "off"
      /\ settled' = (settled \/ latest)
      /\ results' = Append(results, asked)
      /\ UNCHANGED <<pc, test, j, i, y, read, memory, sum, latest>>
  BY DEF IsrPrint, Server!Reply, Server!Answered, mainVars
<1>3. /\ results' \in Seq(Seq(Terms)) /\ Len(results') = Last + 1
      /\ \A t \in 1..Last : results'[t] = results[t]
      /\ results'[Last + 1] = asked
  BY <1>1, <1>2, AppendProperties
<1>4. TypeInv'
  <2>1. settled' \in BOOLEAN
    BY <1>2
  <2>. QED BY <1>1, <1>2, <1>3, <2>1 DEF IInv, TypeInv
<1>5. TestInv' /\ MainInv'
  BY <1>1, <1>2 DEF TestInv, MainInv, InTest, Before
<1>6. DmaInv'
  BY <1>1, <1>2, <1>3 DEF DmaInv
<1>7. MemoryInv' /\ ReadsZero'
  BY <1>2 DEF IInv, MemoryInv, InTest, ReadsZero
<1>8. ResultsRight'
  <2>1. ASSUME NEW t \in 1..Last PROVE results'[t] = WholeSum(t)
    BY <1>1, <1>3 DEF IInv, ResultsRight
  <2>. QED BY <2>1 DEF ResultsRight, WholeSum, generateVector
<1>. QED BY <1>4, <1>5, <1>6, <1>7, <1>8 DEF IInv

LEMMA StepNothing == IInv /\ UNCHANGED programVars /\ UNCHANGED <<sum, asked, settled, latest>> => IInv'
BY DEF programVars, mainVars, dmaVars, IInv, TypeInv, TestInv, MainInv, MemoryInv,
       DmaInv, InTest, Before, ResultsRight, ReadsZero

LEMMA StepInvariant == IInv /\ [Next]_vars => IInv'
<1>. SUFFICES ASSUME IInv, [Next]_vars PROVE IInv'
  OBVIOUS
<1>1. CASE Main
  BY <1>1, StepRewind, StepWriteTerm, StepRead, StepReturn, StepPrintResult, StepGenerate,
     StepOpen, StepClear, StepCheck, StepChecked, StepSend DEF Main
<1>2. CASE Handler
  BY <1>2, StepDmaISR, StepIsrPrint DEF Handler
<1>3. CASE Pause \/ UNCHANGED vars
  BY <1>3, StepNothing DEF Pause, vars, serverVars, Server!Rest, Server!Waiting
<1>. QED BY <1>1, <1>2, <1>3, StepDmaBeat, StepWriteBack DEF Next

\* The inductive invariant: for every step of main, of the DMA and of its handler, what
\* the peripheral has added up and what of x has reached the memory.
THEOREM Invariance == Safe => []IInv
BY Starts, StepInvariant, PTL DEF Safe

-----------------------------------------------------------------------------
\* The properties.

\* runTest prints the sum of each vector, once, whatever the sizes and the rounds.
THEOREM SumsRight == Safe => []ResultsRight
<1>1. IInv => ResultsRight
  BY DEF IInv
<1>. QED BY <1>1, Invariance, PTL

\* What main reads after its restart is 0, as its comment says.
THEOREM ReadsNothing == Safe => []ReadsZero
<1>1. IInv => ReadsZero
  BY DEF IInv
<1>. QED BY <1>1, Invariance, PTL

LEMMA InvTransfer == IInv => TransferRight
<1>. SUFFICES ASSUME IInv, Len(results) = Last + 1 PROVE TransferRight
  BY DEF TransferRight
<1>1. pc = "spin" /\ dma = "off"
  BY Constants DEF IInv, TypeInv, TestInv, MainInv, DmaInv
<1>2. Transferred(results[Last + 1], N3)
  BY <1>1 DEF IInv, DmaInv
<1>. QED BY <1>2, Constants DEF TransferRight, Transferred, WordRight

\* The transfer's result has every word but the 0, and is right where the cache cannot
\* hold a word back, in whatever order lines are written back.
THEOREM TransferSound == Safe => []TransferRight
BY InvTransfer, Invariance, PTL

-----------------------------------------------------------------------------
\* The contract.

\* What the DMA and main write are terms or 0.
LEMMA ServerWrites ==
  ASSUME IInv
  PROVE  /\ WriteTerm => generateVector(test)[i] \in Terms \cup {Zero}
         /\ DmaBeat => memory[pos] \in Terms \cup {Zero}
<1>1. ASSUME WriteTerm PROVE generateVector(test)[i] \in Terms \cup {Zero}
  BY <1>1, Words DEF WriteTerm, IInv, TypeInv, TestInv
<1>2. ASSUME DmaBeat PROVE memory[pos] \in Terms \cup {Zero}
  BY <1>2 DEF DmaBeat, IInv, DmaInv, MemoryInv
<1>. QED BY <1>1, <1>2

LEMMA ServerStep == IInv /\ [Next]_vars => [Server!Next]_(Server!vars)
<1>. SUFFICES ASSUME IInv, [Next]_vars PROVE [Server!Next]_(Server!vars)
  OBVIOUS
<1>1. CASE (Rewind \/ Clear) /\ Server!Clear
  BY <1>1 DEF Rewind, Clear, IInv, TestInv, MainInv, Server!Next, Server!Restart
<1>2. CASE (Read \/ Check \/ dmaISR) /\ Server!Accept
  BY <1>2 DEF Read, Check, dmaISR, IInv, TestInv, MainInv, DmaInv, Server!Next, Server!Ask
<1>3. CASE WriteTerm /\ Server!Write(generateVector(test)[i])
  BY <1>3, ServerWrites DEF Server!Next
<1>4. CASE Transfer
  BY <1>4, ServerWrites DEF Transfer, Server!Next
<1>5. CASE Server!Reply \/ Server!Rest
  BY <1>5 DEF Server!Next
<1>6. CASE UNCHANGED vars
  BY <1>6 DEF vars, serverVars, Server!vars
<1>. QED BY <1>1, <1>2, <1>3, <1>4, <1>5, <1>6 DEF Next, Main, Handler, Pause

\* main and dmaISR give the peripheral only what its contract allows: one read at a
\* time, and no restart of a sum that was not read.
THEOREM ContractKept == Safe => KeepsContract
<1>1. Init => Server!Init
  BY DEF Init
<1>. QED BY <1>1, ServerStep, Invariance, PTL DEF Safe, KeepsContract, Server!Spec
=============================================================================
