--------------------------- MODULE JtagUartProofs ---------------------------
(***************************************************************************)
(* IInv is an inductive invariant of JtagUart; the driver's promises       *)
(* follow, for rings and FIFOs of any size and callers and hosts that do   *)
(* what they like.                                                         *)
(***************************************************************************)
EXTENDS JtagUartInv, SequenceTheorems, TLAPS

USE DEF timerVars, txVars, rxVars, isrVars, callVars, localVars, hostVars, fifoVars,
        Runs, Places

-----------------------------------------------------------------------------
\* Next, action by action.
LEMMA Steps ==
  ASSUME Next
  PROVE  \/ HostTakes \/ HostTypes \/ HostPolls \/ IsrEnter
         \/ IsrControl \/ IsrReceive \/ IsrReceived \/ IsrTransmit \/ IsrTransmitted
         \/ Timeout \/ WriteCall \/ ReadCall \/ CloseCall \/ SetTimeout
         \/ WriteSpace \/ WriteCopy \/ WritePublish \/ WriteKick \/ WriteWait
         \/ WriteIdle \/ WriteReturn
         \/ ReadLook \/ ReadFetch \/ ReadFree \/ ReadSpin \/ ReadAgain
         \/ ReadRearm \/ ReadReturn \/ Close
  BY DEF Next, Host, Isr, Call, Write, Read

\* Appending to and taking from a FIFO.
LEMMA Appended ==
  ASSUME NEW s \in Seq(Nat), NEW c \in Nat
  PROVE  /\ Append(s, c) \in Seq(Nat) /\ Len(Append(s, c)) = Len(s) + 1
         /\ \A k \in 1..Len(s) : Append(s, c)[k] = s[k]
         /\ Append(s, c)[Len(s) + 1] = c
  BY AppendProperties

LEMMA Taken ==
  ASSUME NEW s \in Seq(Nat), s # <<>>
  PROVE  /\ Head(s) \in Nat /\ Head(s) = s[1]
         /\ Tail(s) \in Seq(Nat) /\ Len(Tail(s)) = Len(s) - 1 /\ Len(s) \in Nat \ {0}
         /\ \A k \in 1..Len(Tail(s)) : Tail(s)[k] = s[k + 1]
  BY HeadTailProperties, EmptySeq

\* What FIFOs hold is known by its length.
LEMMA Lengths ==
  ASSUME TypeOK
  PROVE  /\ Len(txFifo) \in Nat /\ Len(rxFifo) \in Nat
         /\ Len(printed) \in Nat /\ Len(got) \in Nat
         /\ BufLen \in Nat /\ BufLen > 1 /\ FifoDepth \in Nat
  BY UartConstants, LenProperties DEF TypeOK, TxOK, RxOK

-----------------------------------------------------------------------------
\* Type correctness.

LEMMA TimerStep ==
  ASSUME IInv, Next
  PROVE  TimerOK'
<1>. USE DEF IInv, TypeOK, TimerOK
<1>1. CASE Timeout
  <2>1. /\ timeout' = timeout /\ re' = re /\ we' = we /\ ac' = FALSE
        /\ \/ host_inactive' = 0
           \/ host_inactive < IntMax - 2 /\ host_inactive' = host_inactive + 1
           \/ host_inactive' = host_inactive
    BY <1>1 DEF Timeout
  <2>2. host_inactive' \in 0..IntMax
    BY <2>1, UartConstants
  <2>. QED BY <2>1, <2>2, Zenon
<1>2. CASE SetTimeout
  BY <1>2, UartConstants, SMT DEF SetTimeout
<1>3. CASE IsrReceived
  BY <1>3, SMT DEF IsrReceived
<1>4. CASE IsrTransmitted
  BY <1>4, SMT DEF IsrTransmitted
<1>5. CASE \/ HostTakes \/ HostTypes \/ HostPolls \/ IsrEnter \/ IsrControl
           \/ IsrReceive \/ IsrTransmit \/ WriteCall \/ WriteSpace \/ WriteCopy
           \/ WritePublish \/ WriteKick \/ WriteWait \/ WriteIdle \/ WriteReturn
           \/ ReadCall \/ ReadLook \/ ReadFetch \/ ReadFree \/ ReadSpin \/ ReadAgain
           \/ ReadRearm \/ ReadReturn \/ CloseCall \/ Close
  BY <1>5 DEF HostTakes, HostTypes, HostPolls, IsrEnter, IsrControl, IsrReceive,
              IsrTransmit, WriteCall, WriteSpace, WriteCopy, WritePublish, WriteKick,
              WriteWait, WriteIdle, WriteReturn, ReadCall, ReadLook, ReadFetch,
              ReadFree, ReadSpin, ReadAgain, ReadRearm, ReadReturn, CloseCall, Close
<1>. QED BY <1>1, <1>2, <1>3, <1>4, <1>5, Steps

LEMMA TxTypeStep ==
  ASSUME IInv, Next
  PROVE  TxOK'
<1>. USE DEF IInv, TypeOK, TxOK
<1>1. CASE HostTakes
  <2>1. /\ UNCHANGED <<tx_in, tx_out, tx_buf, queued>> /\ txFifo # <<>>
        /\ txFifo' = Tail(txFifo) /\ printed' = Append(printed, Head(txFifo))
    BY <1>1 DEF HostTakes
  <2>2. /\ Head(txFifo) \in Nat /\ txFifo' \in Seq(Nat) /\ Len(txFifo') <= FifoDepth
    BY <2>1, Taken, Lengths
  <2>3. printed' \in Seq(Nat)
    BY <2>1, <2>2, Appended
  <2>. QED BY <2>1, <2>2, <2>3
<1>2. CASE IsrTransmit
  <2>1. /\ UNCHANGED <<tx_in, tx_buf, queued, printed>>
        /\ isr = "transmit" /\ space > 0
        /\ txFifo' = Append(txFifo, tx_buf[tx_out]) /\ tx_out' = Wrap(tx_out + 1)
    BY <1>2 DEF IsrTransmit
  <2>2. space \in Nat /\ space + Len(txFifo) <= FifoDepth /\ tx_buf[tx_out] \in Nat
    BY <2>1, UartConstants DEF TxInv, IsrOK
  <2>3. txFifo' \in Seq(Nat) /\ Len(txFifo') = Len(txFifo) + 1
    BY <2>1, <2>2, Appended
  <2>4. tx_out' \in 0..(BufLen - 1)
    BY <2>1, UartConstants DEF Wrap
  <2>. QED BY <2>1, <2>2, <2>3, <2>4, Lengths
<1>3. CASE WriteCopy
  <2>1. /\ UNCHANGED <<tx_in, tx_out, queued, printed, txFifo>>
        /\ tx_buf' = [i \in 0..(BufLen - 1) |->
                        IF in <= i /\ i < in + n THEN queued + 1 + (i - in) ELSE tx_buf[i]]
    BY <1>3 DEF WriteCopy
  <2>2. \A i \in 0..(BufLen - 1) : in <= i => queued + 1 + (i - in) \in Nat
    BY UartConstants DEF CallOK
  <2>. QED BY <2>1, <2>2
<1>4. CASE WritePublish
  <2>1. /\ UNCHANGED <<tx_out, tx_buf, printed, txFifo>> /\ pc = "publish"
        /\ tx_in' = Wrap(in + n) /\ queued' = queued + n
    BY <1>4 DEF WritePublish
  <2>2. tx_in' \in 0..(BufLen - 1) /\ queued' \in Nat
    BY <2>1, UartConstants DEF Wrap, RoomInv, CallOK
  <2>. QED BY <2>1, <2>2
<1>5. CASE \/ HostTypes \/ HostPolls \/ IsrEnter \/ IsrControl \/ IsrReceive
           \/ IsrReceived \/ IsrTransmitted \/ Timeout \/ SetTimeout
           \/ WriteCall \/ WriteSpace \/ WriteKick \/ WriteWait \/ WriteIdle \/ WriteReturn
           \/ ReadCall \/ ReadLook \/ ReadFetch \/ ReadFree \/ ReadSpin \/ ReadAgain
           \/ ReadRearm \/ ReadReturn \/ CloseCall \/ Close
  BY <1>5 DEF HostTypes, HostPolls, IsrEnter, IsrControl, IsrReceive, IsrReceived,
              IsrTransmitted, Timeout, SetTimeout, WriteCall, WriteSpace, WriteKick,
              WriteWait, WriteIdle, WriteReturn, ReadCall, ReadLook, ReadFetch,
              ReadFree, ReadSpin, ReadAgain, ReadRearm, ReadReturn, CloseCall, Close
<1>. QED BY <1>1, <1>2, <1>3, <1>4, <1>5, Steps

LEMMA RxTypeStep ==
  ASSUME IInv, Next
  PROVE  RxOK'
<1>. USE DEF IInv, TypeOK, RxOK
<1>1. CASE HostTypes
  <2>1. /\ UNCHANGED <<rx_in, rx_out, rx_buf, got>> /\ Len(rxFifo) < FifoDepth
        /\ typed' = typed + 1 /\ rxFifo' = Append(rxFifo, typed + 1)
    BY <1>1 DEF HostTypes
  <2>2. rxFifo' \in Seq(Nat) /\ Len(rxFifo') = Len(rxFifo) + 1
    BY <2>1, Appended
  <2>. QED BY <2>1, <2>2, Lengths
<1>2. CASE IsrReceive
  <2>1. /\ UNCHANGED <<rx_out, got, typed>> /\ rxFifo # <<>>
        /\ rx_buf' = [rx_buf EXCEPT ![rx_in] = Head(rxFifo)]
        /\ rx_in' = Wrap(rx_in + 1) /\ rxFifo' = Tail(rxFifo)
    BY <1>2 DEF IsrReceive
  <2>2. Head(rxFifo) \in Nat /\ rxFifo' \in Seq(Nat) /\ Len(rxFifo') <= FifoDepth
    BY <2>1, Taken, Lengths
  <2>3. rx_in' \in 0..(BufLen - 1)
    BY <2>1, UartConstants DEF Wrap
  <2>. QED BY <2>1, <2>2, <2>3
<1>3. CASE ReadFetch
  <2>1. /\ UNCHANGED <<rx_in, rx_out, rx_buf, typed, rxFifo>> /\ pc = "fetch"
        /\ got' = [k \in 1..(Len(got) + n) |->
                     IF k <= Len(got) THEN got[k] ELSE rx_buf[out + (k - Len(got) - 1)]]
    BY <1>3 DEF ReadFetch
  <2>2. out + n <= BufLen /\ out \in Nat /\ n \in Nat
    BY <2>1, UartConstants DEF FoundInv, CallOK
  <2>3. ASSUME NEW k \in 1..(Len(got) + n)
        PROVE  got'[k] \in Nat
    <3>1. CASE k <= Len(got)
      BY <3>1, <2>1, Lengths, ElementOfSeq
    <3>2. CASE k > Len(got)
      <4>1. out + (k - Len(got) - 1) \in 0..(BufLen - 1)
        BY <3>2, <2>2, Lengths
      <4>. QED BY <4>1, <3>2, <2>1, Lengths
    <3>. QED BY <3>1, <3>2, Lengths
  <2>4. Len(got) + n \in Nat
    BY <2>2, Lengths
  <2>5. got' \in [1..(Len(got) + n) -> Nat]
    BY <2>1, <2>3
  <2>6. got' \in Seq(Nat)
    BY <2>4, <2>5, SeqDef
  <2>. QED BY <2>1, <2>6
<1>4. CASE ReadFree
  <2>1. /\ UNCHANGED <<rx_in, rx_buf, got, typed, rxFifo>> /\ pc = "free"
        /\ rx_out' = Wrap(out + n)
    BY <1>4 DEF ReadFree
  <2>2. rx_out' \in 0..(BufLen - 1)
    BY <2>1, UartConstants DEF Wrap, FoundInv, CallOK
  <2>. QED BY <2>1, <2>2
<1>5. CASE \/ HostTakes \/ HostPolls \/ IsrEnter \/ IsrControl \/ IsrReceived
           \/ IsrTransmit \/ IsrTransmitted \/ Timeout \/ SetTimeout
           \/ WriteCall \/ WriteSpace \/ WriteCopy \/ WritePublish \/ WriteKick
           \/ WriteWait \/ WriteIdle \/ WriteReturn \/ ReadCall \/ ReadLook \/ ReadSpin
           \/ ReadAgain \/ ReadRearm \/ ReadReturn \/ CloseCall \/ Close
  BY <1>5 DEF HostTakes, HostPolls, IsrEnter, IsrControl, IsrReceived, IsrTransmit,
              IsrTransmitted, Timeout, SetTimeout, WriteCall, WriteSpace, WriteCopy,
              WritePublish, WriteKick, WriteWait, WriteIdle, WriteReturn, ReadCall,
              ReadLook, ReadSpin, ReadAgain, ReadRearm, ReadReturn, CloseCall, Close
<1>. QED BY <1>1, <1>2, <1>3, <1>4, <1>5, Steps

LEMMA IsrTypeStep ==
  ASSUME IInv, Next
  PROVE  IsrOK'
<1>. USE DEF IInv, TypeOK, IsrOK
<1>1. CASE IsrControl
  <2>1. /\ wi' = WI /\ space' = FifoDepth - Len(txFifo) /\ ravail' = TRUE
        /\ isr' = IF RI THEN "receive" ELSE IF WI THEN "transmit" ELSE "off"
    BY <1>1 DEF IsrControl
  <2>2. WI \in BOOLEAN
    BY DEF WI, TimerOK
  <2>. QED BY <2>1, <2>2, Lengths DEF TxOK
<1>2. CASE IsrReceive
  BY <1>2, SMT DEF IsrReceive
<1>3. CASE IsrReceived
  BY <1>3, SMT DEF IsrReceived
<1>4. CASE IsrTransmit
  <2>1. /\ UNCHANGED <<isr, wi, ravail>> /\ space > 0 /\ space' = space - 1
    BY <1>4 DEF IsrTransmit
  <2>2. space' \in 0..FifoDepth
    BY <2>1, UartConstants
  <2>. QED BY <2>1, <2>2
<1>5. CASE IsrTransmitted
  BY <1>5, SMT DEF IsrTransmitted
<1>6. CASE \/ HostTakes \/ HostTypes \/ HostPolls \/ IsrEnter \/ Timeout \/ SetTimeout
           \/ WriteCall \/ WriteSpace \/ WriteCopy \/ WritePublish \/ WriteKick
           \/ WriteWait \/ WriteIdle \/ WriteReturn \/ ReadCall \/ ReadLook \/ ReadFetch
           \/ ReadFree \/ ReadSpin \/ ReadAgain \/ ReadRearm \/ ReadReturn \/ CloseCall
           \/ Close
  BY <1>6 DEF HostTakes, HostTypes, HostPolls, IsrEnter, Timeout, SetTimeout, WriteCall,
              WriteSpace, WriteCopy, WritePublish, WriteKick, WriteWait, WriteIdle,
              WriteReturn, ReadCall, ReadLook, ReadFetch, ReadFree, ReadSpin, ReadAgain,
              ReadRearm, ReadReturn, CloseCall, Close
<1>. QED BY <1>1, <1>2, <1>3, <1>4, <1>5, <1>6, Steps

\* What a read and a write compute is not more than there is, or than is asked for.
LEMMA SpaceBounds ==
  ASSUME NEW i \in Places, NEW o \in Places, NEW c \in Nat
  PROVE  /\ Least(TxSpace(i, o), c) \in 0..BufLen /\ Least(TxSpace(i, o), c) <= c
         /\ LET s == Least(TxSpace(i, o), c)
            IN  s > 0 => IF i < o THEN i + s < o
                         ELSE i + s <= BufLen /\ (i + s = BufLen => o > 0)
         /\ c > 0 /\ Least(TxSpace(i, o), c) = 0 => Wrap(i + 1) = o
         /\ Least(RxAvailable(i, o), c) \in 0..BufLen /\ Least(RxAvailable(i, o), c) <= c
         /\ LET s == Least(RxAvailable(i, o), c)
            IN  s > 0 => IF o <= i THEN o + s <= i ELSE o + s <= BufLen
<1>1. TxSpace(i, o) \in 0..BufLen /\ RxAvailable(i, o) \in 0..BufLen
  BY UartConstants DEF TxSpace, RxAvailable
<1>2. /\ Least(TxSpace(i, o), c) \in 0..BufLen
      /\ Least(TxSpace(i, o), c) <= c /\ Least(TxSpace(i, o), c) <= TxSpace(i, o)
      /\ Least(RxAvailable(i, o), c) \in 0..BufLen
      /\ Least(RxAvailable(i, o), c) <= c /\ Least(RxAvailable(i, o), c) <= RxAvailable(i, o)
  BY <1>1, UartConstants DEF Least
<1>3. LET s == Least(TxSpace(i, o), c)
      IN  s > 0 => IF i < o THEN i + s < o
                   ELSE i + s <= BufLen /\ (i + s = BufLen => o > 0)
  BY <1>2, UartConstants DEF TxSpace
<1>4. LET s == Least(RxAvailable(i, o), c)
      IN  s > 0 => IF o <= i THEN o + s <= i ELSE o + s <= BufLen
  BY <1>2, UartConstants DEF RxAvailable
<1>5. c > 0 /\ Least(TxSpace(i, o), c) = 0 => Wrap(i + 1) = o
  BY UartConstants DEF TxSpace, Least, Wrap
<1>. QED BY <1>2, <1>3, <1>4, <1>5, Zenon

LEMMA CallTypeStep ==
  ASSUME IInv, Next
  PROVE  CallOK'
<1>. USE DEF IInv, TypeOK, CallOK
<1>1. CASE WriteCall
  <2>1. /\ UNCHANGED <<in, out, n, ret>> /\ count' \in Sizes
        /\ nonblock' \in Modes /\ masked' \in Masks /\ ptr' = 0 /\ before' = queued
        /\ pc' = "space"
    BY <1>1 DEF WriteCall
  <2>2. count' \in Nat /\ nonblock' \in BOOLEAN /\ masked' \in BOOLEAN
    BY <2>1, UartConstants
  <2>. QED BY <2>1, <2>2 DEF TxOK, Writing
<1>2. CASE ReadCall
  <2>1. /\ UNCHANGED <<in, out, n, ret, masked>> /\ count' \in Sizes
        /\ nonblock' \in Modes /\ ptr' = 0 /\ before' = Len(got)
        /\ pc' \in {"look", "read"}
    BY <1>2 DEF ReadCall
  <2>2. count' \in Nat /\ nonblock' \in BOOLEAN /\ Len(got) \in Nat
    BY <2>1, UartConstants, Lengths
  <2>. QED BY <2>1, <2>2 DEF Reading
<1>3. CASE CloseCall
  <2>1. /\ UNCHANGED <<in, out, n, ret, masked>> /\ count' = 0
        /\ nonblock' \in Modes /\ ptr' = 0 /\ before' = queued /\ pc' = "close"
    BY <1>3 DEF CloseCall
  <2>2. nonblock' \in BOOLEAN
    BY <2>1, UartConstants
  <2>. QED BY <2>1, <2>2 DEF TxOK, Writing
<1>4. CASE WriteSpace
  <2>1. /\ UNCHANGED <<nonblock, masked, ptr, count, before, ret>>
        /\ pc' \in {"kick", "copy"}
    BY <1>4 DEF WriteSpace
  <2>2. \/ in' = tx_in /\ out' = tx_out /\ n' = Least(TxSpace(tx_in, tx_out), count)
        \/ UNCHANGED <<in, out, n>>
    BY <1>4 DEF WriteSpace
  <2>3. Least(TxSpace(tx_in, tx_out), count) \in 0..BufLen
    BY SpaceBounds, Zenon DEF TxOK
  <2>4. in' \in Places /\ out' \in Places /\ n' \in 0..BufLen
    <3>1. CASE in' = tx_in /\ out' = tx_out /\ n' = Least(TxSpace(tx_in, tx_out), count)
      BY <3>1, <2>3 DEF TxOK
    <3>. QED BY <3>1, <2>2
  <2>. QED BY <2>1, <2>4 DEF Writing
<1>5. CASE ReadLook
  <2>1. /\ UNCHANGED <<nonblock, masked, ptr, count, before, ret>>
        /\ pc' \in {"fetch", "rearm", "read", "spin"}
        /\ in' = rx_in /\ out' = rx_out /\ n' = Least(RxAvailable(rx_in, rx_out), count)
    BY <1>5 DEF ReadLook
  <2>2. in' \in Places /\ out' \in Places /\ n' \in 0..BufLen
    BY <2>1, SpaceBounds DEF RxOK
  <2>. QED BY <2>1, <2>2 DEF Reading
<1>6. CASE WriteCopy \/ ReadFetch
  <2>1. /\ UNCHANGED <<nonblock, masked, before, in, out, n, ret>>
        /\ pc' \in {"publish", "free"} /\ pc \in {"copy", "fetch"}
        /\ ptr' = ptr + n /\ count' = count - n
    BY <1>6 DEF WriteCopy, ReadFetch
  <2>2. ptr' \in Nat /\ count' \in Nat
    BY <2>1, UartConstants DEF CallInv
  <2>. QED BY <2>1, <2>2 DEF Writing, Reading
<1>7. CASE WriteReturn
  <2>1. /\ UNCHANGED <<nonblock, ptr, count, before, in, out, n>>
        /\ masked' = FALSE /\ pc' = "idle" /\ ret' = Result
    BY <1>7 DEF WriteReturn
  <2>2. Result \in Int
    BY DEF Result, EIO, EWOULDBLOCK
  <2>. QED BY <2>1, <2>2
<1>8. CASE ReadReturn
  <2>1. /\ UNCHANGED <<nonblock, masked, ptr, count, before, in, out, n>>
        /\ pc' = "idle" /\ ret' = Result
    BY <1>8 DEF ReadReturn
  <2>2. Result \in Int
    BY DEF Result, EIO, EWOULDBLOCK
  <2>. QED BY <2>1, <2>2
<1>9. CASE Close
  BY <1>9, SMT DEF Close, EWOULDBLOCK
<1>10. CASE WritePublish \/ WriteKick \/ WriteWait \/ WriteIdle
  BY <1>10 DEF WritePublish, WriteKick, WriteWait, WriteIdle, Writing
<1>11. CASE ReadFree \/ ReadSpin \/ ReadAgain \/ ReadRearm
  BY <1>11 DEF ReadFree, ReadSpin, ReadAgain, ReadRearm, Reading
<1>12. CASE \/ HostTakes \/ HostTypes \/ HostPolls \/ IsrEnter \/ IsrControl \/ IsrReceive
            \/ IsrReceived \/ IsrTransmit \/ IsrTransmitted \/ Timeout \/ SetTimeout
  BY <1>12 DEF HostTakes, HostTypes, HostPolls, IsrEnter, IsrControl, IsrReceive,
               IsrReceived, IsrTransmit, IsrTransmitted, Timeout, SetTimeout, Writing,
               Reading
<1>. QED BY <1>1, <1>2, <1>3, <1>4, <1>5, <1>6, <1>7, <1>8, <1>9, <1>10, <1>11, <1>12,
            Steps

LEMMA TypeStep ==
  ASSUME IInv, Next
  PROVE  TypeOK'
BY TimerStep, TxTypeStep, RxTypeStep, IsrTypeStep, CallTypeStep DEF TypeOK


-----------------------------------------------------------------------------
\* Places of a ring.  Moving the reader's index frees its place; moving the writer's
\* adds the places it passes.
Freed(i, o, m) ==
  /\ Span(i, Wrap(o + m)) = Span(i, o) - m
  /\ \A k \in Places : Within(k, i, Wrap(o + m)) =>
       Within(k, i, o) /\ Span(k, Wrap(o + m)) = Span(k, o) - m

Added(i, o, m) ==
  /\ Span(Wrap(i + m), o) = Span(i, o) + m
  /\ \A k \in Places : Within(k, Wrap(i + m), o) =>
       Within(k, i, o) \/ (i <= k /\ k < i + m)
  /\ \A k \in Places : i <= k /\ k < i + m =>
       ~Within(k, i, o) /\ Span(k, o) = Span(i, o) + (k - i)

LEMMA SpanFree ==
  ASSUME NEW i \in Places, NEW o \in Places, NEW m \in 1..BufLen,
         IF o <= i THEN o + m <= i ELSE o + m <= BufLen
  PROVE  Freed(i, o, m)
  BY UartConstants DEF Freed, Wrap, Span, Within

LEMMA SpanAdd ==
  ASSUME NEW i \in Places, NEW o \in Places, NEW m \in 1..BufLen,
         IF i < o THEN i + m < o ELSE i + m <= BufLen /\ (i + m = BufLen => o > 0)
  PROVE  Added(i, o, m)
  BY UartConstants DEF Added, Wrap, Span, Within

\* The place of the reader's index is occupied unless the ring is empty, and one more
\* place can be taken unless it is full.
LEMMA SpanFirst ==
  ASSUME NEW i \in Places, NEW o \in Places
  PROVE  /\ i # o => Within(o, i, o) /\ Span(o, o) = 0
         /\ i # o => IF o <= i THEN o + 1 <= i ELSE o + 1 <= BufLen
         /\ Wrap(i + 1) # o => IF i < o THEN i + 1 < o
                               ELSE i + 1 <= BufLen /\ (i + 1 = BufLen => o > 0)
         /\ Span(i, o) \in 0..(BufLen - 1)
         /\ Span(i, o) = 0 <=> i = o
  BY UartConstants DEF Wrap, Span, Within

\* Counting one place on.
LEMMA Counting ==
  ASSUME NEW m \in Nat
  PROVE  /\ \A k \in 1..(m + 1) : k \in 1..m \/ k = m + 1
         /\ \A k \in 1..(m - 1) : k + 1 \in 1..m
         /\ m # 0 => 1 \in 1..m
  OBVIOUS

-----------------------------------------------------------------------------
\* The transmit side.

LEMMA TxInvStep ==
  ASSUME IInv, Next
  PROVE  TxInv'
<1>0. /\ tx_in \in Places /\ tx_out \in Places /\ tx_buf \in [Places -> Nat]
      /\ queued \in Nat /\ printed \in Seq(Nat) /\ txFifo \in Seq(Nat)
      /\ Len(txFifo) \in Nat /\ Len(printed) \in Nat /\ Len(txFifo) <= FifoDepth
      /\ space \in 0..FifoDepth /\ FifoDepth \in Nat /\ BufLen \in Nat /\ BufLen > 1
  BY Lengths DEF IInv, TypeOK, TxOK, IsrOK
<1>a. /\ \A k \in 1..Len(printed) : printed[k] = k
      /\ \A k \in 1..Len(txFifo) : txFifo[k] = Len(printed) + k
      /\ queued = TxFirst + Span(tx_in, tx_out) /\ TxFirst = Len(printed) + Len(txFifo)
      /\ \A k \in Places :
           Within(k, tx_in, tx_out) => tx_buf[k] = TxFirst + 1 + Span(k, tx_out)
      /\ isr \in {"receive", "transmit"} => space + Len(txFifo) <= FifoDepth
  BY DEF IInv, TxInv, TxFirst
<1>c. queued = TxFirst + Span(tx_in, tx_out) /\ TxFirst \in Nat
  BY <1>0, <1>a
<1>b. Span(tx_in, tx_out) \in 0..(BufLen - 1)
  BY <1>0, SpanFirst, Zenon
<1>1. CASE HostTakes
  <2>1. /\ UNCHANGED <<tx_in, tx_out, tx_buf, queued, isr, space>> /\ txFifo # <<>>
        /\ txFifo' = Tail(txFifo) /\ printed' = Append(printed, Head(txFifo))
    BY <1>1 DEF HostTakes
  <2>2. /\ Head(txFifo) = Len(printed) + 1 /\ Head(txFifo) \in Nat
        /\ Len(txFifo') = Len(txFifo) - 1 /\ Len(txFifo) \in Nat \ {0}
        /\ \A k \in 1..Len(txFifo') : txFifo'[k] = Len(printed) + (k + 1)
    <3>1. /\ Head(txFifo) \in Nat /\ Head(txFifo) = txFifo[1]
          /\ Len(txFifo') = Len(txFifo) - 1 /\ Len(txFifo) \in Nat \ {0}
          /\ \A k \in 1..Len(txFifo') : txFifo'[k] = txFifo[k + 1]
      BY <2>1, <1>0, Taken
    <3>2. 1 \in 1..Len(txFifo) /\ \A k \in 1..Len(txFifo') : k + 1 \in 1..Len(txFifo)
      BY <3>1, Counting
    <3>. QED BY <3>1, <3>2, <1>a
  <2>3. /\ Len(printed') = Len(printed) + 1
        /\ \A k \in 1..Len(printed) : printed'[k] = printed[k]
        /\ printed'[Len(printed) + 1] = Len(printed) + 1
    BY <2>1, <2>2, <1>0, Appended
  <2>4. /\ \A k \in 1..Len(printed') : printed'[k] = k
        /\ \A k \in 1..Len(txFifo') : txFifo'[k] = Len(printed') + k
        /\ TxFirst' = TxFirst
    <3>1. \A k \in 1..Len(printed') : k \in 1..Len(printed) \/ k = Len(printed) + 1
      BY <2>3, <1>0, Counting
    <3>2. \A k \in 1..Len(printed') : printed'[k] = k
      BY <3>1, <2>3, <1>a
    <3>3. \A k \in 1..Len(txFifo') : txFifo'[k] = Len(printed') + k
      BY <2>2, <2>3, <1>0
    <3>4. TxFirst' = TxFirst
      BY <2>2, <2>3, <1>0 DEF TxFirst
    <3>. QED BY <3>2, <3>3, <3>4
  <2>5. space + Len(txFifo) <= FifoDepth => space + Len(txFifo') <= FifoDepth
    BY <2>2, <1>0
  <2>. QED BY <2>1, <2>4, <2>5, <1>a DEF TxInv, Within, Span
<1>2. CASE IsrControl
  <2>1. /\ UNCHANGED <<tx_in, tx_out, tx_buf, queued, txFifo, printed>>
        /\ space' = FifoDepth - Len(txFifo)
    BY <1>2 DEF IsrControl
  <2>. QED BY <2>1, <1>0, <1>a DEF TxInv, TxFirst, Within, Span
<1>3. CASE IsrReceived
  <2>1. /\ UNCHANGED <<tx_in, tx_out, tx_buf, queued, txFifo, printed, space>>
        /\ isr = "receive"
    BY <1>3 DEF IsrReceived
  <2>. QED BY <2>1, <1>a DEF TxInv, TxFirst, Within, Span
<1>4. CASE IsrTransmit
  <2>1. /\ UNCHANGED <<tx_in, tx_buf, queued, printed, isr>> /\ isr = "transmit"
        /\ space > 0 /\ tx_out # tx_in /\ space' = space - 1
        /\ txFifo' = Append(txFifo, tx_buf[tx_out]) /\ tx_out' = Wrap(tx_out + 1)
    BY <1>4 DEF IsrTransmit
  <2>2. /\ Within(tx_out, tx_in, tx_out) /\ Span(tx_out, tx_out) = 0
        /\ IF tx_out <= tx_in THEN tx_out + 1 <= tx_in ELSE tx_out + 1 <= BufLen
    BY <2>1, SpanFirst, <1>0, Zenon
  <2>3. tx_buf[tx_out] = TxFirst + 1 /\ tx_buf[tx_out] \in Nat
    BY <2>2, <1>0, <1>a
  <2>4. 1 \in 1..BufLen
    BY UartConstants
  <2>5. /\ Span(tx_in, tx_out') = Span(tx_in, tx_out) - 1
        /\ \A k \in Places : Within(k, tx_in, tx_out') =>
             Within(k, tx_in, tx_out) /\ Span(k, tx_out') = Span(k, tx_out) - 1
    <3>1. Freed(tx_in, tx_out, 1)
      BY <2>2, <2>4, SpanFree, <1>0, Zenon
    <3>. QED BY <3>1, <2>1 DEF Freed
  <2>6. /\ Len(txFifo') = Len(txFifo) + 1
        /\ \A k \in 1..Len(txFifo) : txFifo'[k] = txFifo[k]
        /\ txFifo'[Len(txFifo) + 1] = TxFirst + 1
    BY <2>1, <2>3, <1>0, Appended
  <2>7. \A k \in 1..Len(txFifo') : txFifo'[k] = Len(printed) + k
    <3>1. \A k \in 1..Len(txFifo') : k \in 1..Len(txFifo) \/ k = Len(txFifo) + 1
      BY <2>6, <1>0, Counting
    <3>2. TxFirst + 1 = Len(printed) + (Len(txFifo) + 1)
      BY <1>0, <1>a
    <3>. QED BY <3>1, <3>2, <2>6, <1>a
  <2>8. TxFirst' = TxFirst + 1
    BY <2>1, <2>6, <1>0 DEF TxFirst
  <2>9. queued' = TxFirst' + Span(tx_in', tx_out')
    BY <1>b, <2>1, <2>5, <2>8, <1>0, <1>a, SMTT(30)
  <2>10. ASSUME NEW k \in Places, Within(k, tx_in', tx_out')
         PROVE  tx_buf'[k] = TxFirst' + 1 + Span(k, tx_out')
    <3>1. Within(k, tx_in, tx_out) /\ Span(k, tx_out') = Span(k, tx_out) - 1
      BY <2>1, <2>5, <2>10
    <3>2. Span(k, tx_out) \in 0..(BufLen - 1)
      BY SpanFirst, <1>0, Zenon
    <3>. QED BY <3>1, <3>2, <2>1, <2>8, <1>0, <1>a, SMTT(30)
  <2>11. space' + Len(txFifo') <= FifoDepth
    BY <2>1, <2>6, <1>0, <1>a
  <2>. QED BY <2>1, <2>7, <2>9, <2>10, <2>11, <1>a DEF TxInv
<1>5. CASE WriteCopy
  <2>1. /\ UNCHANGED <<tx_in, tx_out, queued, printed, txFifo, isr, space>> /\ pc = "copy"
        /\ tx_buf' = [i \in Places |->
                        IF in <= i /\ i < in + n THEN queued + 1 + (i - in) ELSE tx_buf[i]]
    BY <1>5 DEF WriteCopy
  <2>2. /\ in = tx_in /\ n \in 1..BufLen
        /\ IF tx_in < tx_out THEN tx_in + n < tx_out
           ELSE tx_in + n <= BufLen /\ (tx_in + n = BufLen => tx_out > 0)
    BY <2>1, <1>0 DEF IInv, TypeOK, RoomInv, CallOK
  <2>3. \A k \in Places : tx_in <= k /\ k < tx_in + n => ~Within(k, tx_in, tx_out)
    <3>1. Added(tx_in, tx_out, n)
      BY <2>2, SpanAdd, <1>0, Zenon
    <3>. QED BY <3>1 DEF Added
  <2>4. \A k \in Places : Within(k, tx_in, tx_out) => tx_buf'[k] = tx_buf[k]
    BY <2>1, <2>2, <2>3
  <2>. QED BY <2>1, <2>4, <1>a DEF TxInv, TxFirst, Within, Span
<1>6. CASE WritePublish
  <2>1. /\ UNCHANGED <<tx_out, tx_buf, printed, txFifo, isr, space>> /\ pc = "publish"
        /\ tx_in' = Wrap(in + n) /\ queued' = queued + n
    BY <1>6 DEF WritePublish
  <2>2. /\ in = tx_in /\ n \in 1..BufLen
        /\ IF tx_in < tx_out THEN tx_in + n < tx_out
           ELSE tx_in + n <= BufLen /\ (tx_in + n = BufLen => tx_out > 0)
    BY <2>1, <1>0 DEF IInv, TypeOK, RoomInv, CallOK
  <2>3. /\ Span(tx_in', tx_out) = Span(tx_in, tx_out) + n
        /\ \A k \in Places : Within(k, tx_in', tx_out) =>
             Within(k, tx_in, tx_out) \/ (tx_in <= k /\ k < tx_in + n)
        /\ \A k \in Places : tx_in <= k /\ k < tx_in + n =>
             Span(k, tx_out) = Span(tx_in, tx_out) + (k - tx_in)
    <3>1. Added(tx_in, tx_out, n)
      BY <2>2, SpanAdd, <1>0, Zenon
    <3>. QED BY <3>1, <2>1, <2>2 DEF Added
  <2>5. ASSUME NEW k \in Places, Within(k, tx_in', tx_out)
        PROVE  tx_buf[k] = TxFirst + 1 + Span(k, tx_out)
    <3>1. CASE Within(k, tx_in, tx_out)
      BY <3>1, <1>a
    <3>2. CASE tx_in <= k /\ k < tx_in + n
      <4>1. tx_buf[k] = queued + 1 + (k - tx_in)
        BY <3>2, <2>1, <2>2 DEF IInv, CopiedInv
      <4>2. Span(k, tx_out) = Span(tx_in, tx_out) + (k - tx_in)
        BY <3>2, <2>3
      <4>3. tx_in \in Int /\ k \in Int /\ queued \in Int
        BY <1>0, <2>5
      <4>. QED BY <4>1, <4>2, <4>3, <1>b, <1>c
    <3>. QED BY <3>1, <3>2, <2>3, <2>5
  <2>6. TxFirst' = TxFirst
    BY <2>1 DEF TxFirst
  <2>7. queued' = TxFirst' + Span(tx_in', tx_out')
    BY <2>1, <2>2, <2>3, <1>b, <2>6, <1>0, <1>a, SMTT(30)
  <2>8. \A k \in Places : Within(k, tx_in', tx_out') =>
          tx_buf'[k] = TxFirst' + 1 + Span(k, tx_out')
    BY <2>1, <2>5, <2>6
  <2>. QED BY <2>1, <2>7, <2>8, <1>a DEF TxInv
<1>7. CASE \/ HostTypes \/ HostPolls \/ IsrReceive \/ Timeout \/ SetTimeout
           \/ WriteCall \/ WriteSpace \/ WriteKick \/ WriteWait \/ WriteIdle \/ WriteReturn
           \/ ReadCall \/ ReadLook \/ ReadFetch \/ ReadFree \/ ReadSpin \/ ReadAgain
           \/ ReadRearm \/ ReadReturn \/ CloseCall \/ Close
  <2>1. UNCHANGED <<tx_in, tx_out, tx_buf, queued, txFifo, printed, isr, space>>
    BY <1>7 DEF HostTypes, HostPolls, IsrReceive, Timeout, SetTimeout, WriteCall,
                WriteSpace, WriteKick, WriteWait, WriteIdle, WriteReturn, ReadCall,
                ReadLook, ReadFetch, ReadFree, ReadSpin, ReadAgain, ReadRearm,
                ReadReturn, CloseCall, Close
  <2>. QED BY <2>1, <1>a DEF TxInv, TxFirst, Within, Span
<1>8. CASE IsrEnter \/ IsrTransmitted
  <2>1. /\ UNCHANGED <<tx_in, tx_out, tx_buf, queued, txFifo, printed>>
        /\ isr' = "control"
    BY <1>8 DEF IsrEnter, IsrTransmitted
  <2>. QED BY <2>1, <1>a DEF TxInv, TxFirst, Within, Span
<1>. QED BY <1>1, <1>2, <1>3, <1>4, <1>5, <1>6, <1>7, <1>8, Steps

\* The handler makes room, never takes it.
LEMMA RoomStep ==
  ASSUME IInv, Next
  PROVE  RoomInv'
<1>. USE DEF IInv, TypeOK, RoomInv
<1>1. CASE WriteSpace
  <2>1. CASE pc' = "copy"
    <3>1. /\ in' = tx_in /\ n' = Least(TxSpace(tx_in, tx_out), count) /\ n' # 0
          /\ UNCHANGED <<tx_in, tx_out>>
      BY <1>1, <2>1 DEF WriteSpace
    <3>2. /\ Least(TxSpace(tx_in, tx_out), count) \in 0..BufLen
          /\ LET s == Least(TxSpace(tx_in, tx_out), count)
             IN  s > 0 => IF tx_in < tx_out THEN tx_in + s < tx_out
                          ELSE tx_in + s <= BufLen /\ (tx_in + s = BufLen => tx_out > 0)
      BY SpaceBounds, Zenon DEF TxOK, CallOK
    <3>. QED BY <3>1, <3>2
  <2>2. CASE pc' # "copy"
    <3>1. pc' # "publish"
      BY <1>1 DEF WriteSpace
    <3>. QED BY <3>1, <2>2
  <2>. QED BY <2>1, <2>2
<1>2. CASE IsrTransmit
  <2>1. /\ UNCHANGED <<pc, in, n, tx_in>> /\ tx_out # tx_in /\ tx_out' = Wrap(tx_out + 1)
    BY <1>2 DEF IsrTransmit
  <2>. QED BY <2>1, UartConstants DEF Wrap, TxOK, CallOK
<1>3. CASE WriteCopy
  <2>1. UNCHANGED <<in, n, tx_in, tx_out>> /\ pc = "copy"
    BY <1>3 DEF WriteCopy
  <2>. QED BY <2>1
<1>4. CASE \/ WriteCall \/ WritePublish \/ WriteKick \/ WriteWait \/ WriteIdle \/ WriteReturn
           \/ ReadCall \/ ReadLook \/ ReadFetch \/ ReadFree \/ ReadSpin \/ ReadAgain
           \/ ReadRearm \/ ReadReturn \/ CloseCall \/ Close
  <2>1. pc' \notin {"copy", "publish"}
    BY <1>4 DEF WriteCall, WritePublish, WriteKick, WriteWait, WriteIdle, WriteReturn,
                ReadCall, ReadLook, ReadFetch, ReadFree, ReadSpin, ReadAgain, ReadRearm,
                ReadReturn, CloseCall, Close
  <2>. QED BY <2>1
<1>5. CASE \/ HostTakes \/ HostTypes \/ HostPolls \/ IsrEnter \/ IsrControl \/ IsrReceive
           \/ IsrReceived \/ IsrTransmitted \/ Timeout \/ SetTimeout
  <2>1. UNCHANGED <<pc, in, n, tx_in, tx_out>>
    BY <1>5 DEF HostTakes, HostTypes, HostPolls, IsrEnter, IsrControl, IsrReceive,
                IsrReceived, IsrTransmitted, Timeout, SetTimeout
  <2>. QED BY <2>1
<1>. QED BY <1>1, <1>2, <1>3, <1>4, <1>5, Steps

LEMMA CopiedStep ==
  ASSUME IInv, Next
  PROVE  CopiedInv'
<1>. USE DEF IInv, TypeOK, CopiedInv
<1>1. CASE WriteCopy
  <2>1. /\ UNCHANGED <<in, n, queued>>
        /\ tx_buf' = [i \in Places |->
                        IF in <= i /\ i < in + n THEN queued + 1 + (i - in) ELSE tx_buf[i]]
    BY <1>1 DEF WriteCopy
  <2>. QED BY <2>1
<1>2. CASE \/ WriteCall \/ WriteSpace \/ WritePublish \/ WriteKick \/ WriteWait \/ WriteIdle
           \/ WriteReturn \/ ReadCall \/ ReadLook \/ ReadFetch \/ ReadFree \/ ReadSpin
           \/ ReadAgain \/ ReadRearm \/ ReadReturn \/ CloseCall \/ Close
  <2>1. pc' # "publish"
    BY <1>2 DEF WriteCall, WriteSpace, WritePublish, WriteKick, WriteWait, WriteIdle,
                WriteReturn, ReadCall, ReadLook, ReadFetch, ReadFree, ReadSpin, ReadAgain,
                ReadRearm, ReadReturn, CloseCall, Close
  <2>. QED BY <2>1
<1>3. CASE \/ HostTakes \/ HostTypes \/ HostPolls \/ IsrEnter \/ IsrControl \/ IsrReceive
           \/ IsrReceived \/ IsrTransmit \/ IsrTransmitted \/ Timeout \/ SetTimeout
  <2>1. UNCHANGED <<pc, in, n, queued, tx_buf>>
    BY <1>3 DEF HostTakes, HostTypes, HostPolls, IsrEnter, IsrControl, IsrReceive,
                IsrReceived, IsrTransmit, IsrTransmitted, Timeout, SetTimeout
  <2>. QED BY <2>1
<1>. QED BY <1>1, <1>2, <1>3, Steps

-----------------------------------------------------------------------------
\* The receive side.

LEMMA RxInvStep ==
  ASSUME IInv, Next
  PROVE  RxInv'
<1>0. /\ rx_in \in Places /\ rx_out \in Places /\ rx_buf \in [Places -> Nat]
      /\ typed \in Nat /\ got \in Seq(Nat) /\ rxFifo \in Seq(Nat)
      /\ Len(rxFifo) \in Nat /\ Len(got) \in Nat /\ n \in 0..BufLen
      /\ BufLen \in Nat /\ BufLen > 1
  BY Lengths DEF IInv, TypeOK, RxOK, CallOK
<1>a. /\ \A k \in 1..Len(got) : got[k] = k
      /\ typed = RxFirst + Span(rx_in, rx_out) + Len(rxFifo)
      /\ \A k \in 1..Len(rxFifo) : rxFifo[k] = typed - Len(rxFifo) + k
      /\ \A k \in Places :
           Within(k, rx_in, rx_out) => rx_buf[k] = RxFirst + 1 + Span(k, rx_out)
  BY DEF IInv, RxInv
<1>b. Span(rx_in, rx_out) \in 0..(BufLen - 1)
  BY <1>0, SpanFirst, Zenon
<1>d. typed = RxFirst + Span(rx_in, rx_out) + Len(rxFifo)
  BY <1>a
<1>c. RxFirst = Len(got) - (IF pc = "free" THEN n ELSE 0) /\ RxFirst \in Int
  BY <1>0 DEF RxFirst, Unfreed
<1>1. CASE HostTypes
  <2>1. /\ UNCHANGED <<rx_in, rx_out, rx_buf, got, pc, n>>
        /\ typed' = typed + 1 /\ rxFifo' = Append(rxFifo, typed + 1)
    BY <1>1 DEF HostTypes
  <2>2. /\ Len(rxFifo') = Len(rxFifo) + 1 /\ typed \in Nat
        /\ \A k \in 1..Len(rxFifo) : rxFifo'[k] = rxFifo[k]
        /\ rxFifo'[Len(rxFifo) + 1] = typed + 1
    BY <2>1, <1>0, Appended
  <2>3. \A k \in 1..Len(rxFifo') : rxFifo'[k] = typed' - Len(rxFifo') + k
    <3>1. \A k \in 1..Len(rxFifo') : k \in 1..Len(rxFifo) \/ k = Len(rxFifo) + 1
      BY <2>2, <1>0, Counting
    <3>2. typed' - Len(rxFifo') = typed - Len(rxFifo)
      BY <2>1, <2>2, <1>0
    <3>3. typed + 1 = typed - Len(rxFifo) + (Len(rxFifo) + 1)
      BY <1>0
    <3>. QED BY <3>1, <3>2, <3>3, <2>2, <1>a
  <2>4. RxFirst' = RxFirst /\ RxFirst \in Int
    BY <2>1, <1>c DEF RxFirst, Unfreed
  <2>5. typed' = RxFirst' + Span(rx_in', rx_out') + Len(rxFifo')
    BY <2>1, <2>2, <2>4, <1>0, <1>d, <1>b, SMTT(30)
  <2>. QED BY <2>1, <2>3, <2>4, <2>5, <1>a DEF RxInv
<1>2. CASE IsrReceive
  <2>1. /\ UNCHANGED <<rx_out, got, typed, pc, n>> /\ rxFifo # <<>>
        /\ Wrap(rx_in + 1) # rx_out
        /\ rx_buf' = [rx_buf EXCEPT ![rx_in] = Head(rxFifo)]
        /\ rx_in' = Wrap(rx_in + 1) /\ rxFifo' = Tail(rxFifo)
    BY <1>2 DEF IsrReceive
  <2>2. /\ Head(rxFifo) = rxFifo[1] /\ Len(rxFifo') = Len(rxFifo) - 1
        /\ Len(rxFifo) \in Nat \ {0}
        /\ \A k \in 1..Len(rxFifo') : rxFifo'[k] = rxFifo[k + 1]
    BY <2>1, <1>0, Taken
  <2>3. 1 \in 1..BufLen
    BY UartConstants
  <2>4. IF rx_in < rx_out THEN rx_in + 1 < rx_out
        ELSE rx_in + 1 <= BufLen /\ (rx_in + 1 = BufLen => rx_out > 0)
    BY <2>1, <1>0, SpanFirst, Zenon
  <2>5. /\ Span(rx_in', rx_out) = Span(rx_in, rx_out) + 1
        /\ \A k \in Places : Within(k, rx_in', rx_out) =>
             Within(k, rx_in, rx_out) \/ (rx_in <= k /\ k < rx_in + 1)
        /\ \A k \in Places : rx_in <= k /\ k < rx_in + 1 => ~Within(k, rx_in, rx_out)
    <3>1. Added(rx_in, rx_out, 1)
      BY <2>3, <2>4, SpanAdd, <1>0, Zenon
    <3>. QED BY <3>1, <2>1 DEF Added
  <2>6. RxFirst' = RxFirst /\ RxFirst \in Int
    BY <2>1, <1>c DEF RxFirst, Unfreed
  <2>7. Head(rxFifo) = RxFirst + 1 + Span(rx_in, rx_out)
    <3>1. 1 \in 1..Len(rxFifo)
      BY <2>2, Counting
    <3>2. Head(rxFifo) = typed - Len(rxFifo) + 1
      BY <3>1, <2>2, <1>a
    <3>3. Len(rxFifo) \in Int /\ RxFirst \in Int /\ Span(rx_in, rx_out) \in Int
      BY <1>0, <1>b, <1>c
    <3>. QED BY <3>2, <3>3, <1>d
  <2>8. typed' = RxFirst' + Span(rx_in', rx_out') + Len(rxFifo')
    BY <2>1, <2>2, <2>5, <2>6, <1>0, <1>d, <1>b, SMTT(30)
  <2>9. \A k \in 1..Len(rxFifo') : rxFifo'[k] = typed' - Len(rxFifo') + k
    <3>1. typed' - Len(rxFifo') = typed - Len(rxFifo) + 1
      BY <2>1, <2>2, <1>0
    <3>2. \A k \in 1..Len(rxFifo') : k + 1 \in 1..Len(rxFifo)
      BY <2>2, <1>0
    <3>3. \A k \in 1..Len(rxFifo') : rxFifo'[k] = typed - Len(rxFifo) + (k + 1)
      BY <3>2, <2>2, <1>a
    <3>. QED BY <3>1, <3>3, <2>2, <1>0
  <2>10. ASSUME NEW k \in Places, Within(k, rx_in', rx_out)
         PROVE  rx_buf'[k] = RxFirst + 1 + Span(k, rx_out)
    <3>1. CASE k = rx_in
      BY <3>1, <2>1, <2>7, <1>0
    <3>2. CASE k # rx_in
      <4>1. Within(k, rx_in, rx_out)
        BY <3>2, <2>5, <2>10, <1>0
      <4>. QED BY <3>2, <4>1, <2>1, <1>0, <1>a
    <3>. QED BY <3>1, <3>2
  <2>. QED BY <2>1, <2>6, <2>8, <2>9, <2>10, <1>a DEF RxInv
<1>3. CASE ReadFetch
  <2>1. /\ UNCHANGED <<rx_in, rx_out, rx_buf, typed, rxFifo, n>>
        /\ pc = "fetch" /\ pc' = "free"
        /\ got' = [k \in 1..(Len(got) + n) |->
                     IF k <= Len(got) THEN got[k] ELSE rx_buf[out + (k - Len(got) - 1)]]
    BY <1>3 DEF ReadFetch
  <2>2. /\ out = rx_out /\ n \in 1..BufLen
        /\ IF rx_out <= rx_in THEN rx_out + n <= rx_in ELSE rx_out + n <= BufLen
    BY <2>1, <1>0 DEF IInv, FoundInv
  <2>3. Len(got) + n \in Nat /\ Len(got') = Len(got) + n
    <3>1. Len(got) + n \in Nat /\ DOMAIN got' = 1..(Len(got) + n)
      BY <2>1, <2>2, <1>0
    <3>2. got' \in Seq(Nat)
      BY RxTypeStep DEF RxOK
    <3>. QED BY <3>1, <3>2, LenProperties
  <2>4. RxFirst' = RxFirst /\ RxFirst = Len(got)
    BY <2>1, <2>2, <2>3, <1>0, <1>c DEF RxFirst, Unfreed
  <2>5. ASSUME NEW k \in 1..(Len(got) + n)
        PROVE  got'[k] = k
    <3>1. CASE k <= Len(got)
      BY <3>1, <2>1, <1>0, <1>a
    <3>2. CASE k > Len(got)
      <4>. DEFINE p == rx_out + (k - Len(got) - 1)
      <4>1. p \in Places /\ Within(p, rx_in, rx_out) /\ Span(p, rx_out) = k - Len(got) - 1
        BY <3>2, <2>2, <1>0 DEF Within, Span
      <4>2. got'[k] = rx_buf[p]
        BY <3>2, <2>1, <2>2, <1>0
      <4>3. rx_buf[p] = Len(got) + 1 + (k - Len(got) - 1)
        BY <4>1, <2>4, <1>a
      <4>. QED BY <4>2, <4>3, <1>0
    <3>. QED BY <3>1, <3>2, <1>0
  <2>. QED BY <2>1, <2>3, <2>4, <2>5, <1>a DEF RxInv
<1>4. CASE ReadFree
  <2>1. /\ UNCHANGED <<rx_in, rx_buf, got, typed, rxFifo, n>> /\ pc = "free" /\ pc' # "free"
        /\ rx_out' = Wrap(out + n)
    BY <1>4 DEF ReadFree
  <2>2. /\ out = rx_out /\ n \in 1..BufLen
        /\ IF rx_out <= rx_in THEN rx_out + n <= rx_in ELSE rx_out + n <= BufLen
    BY <2>1, <1>0 DEF IInv, FoundInv
  <2>3. /\ Span(rx_in, rx_out') = Span(rx_in, rx_out) - n
        /\ \A k \in Places : Within(k, rx_in, rx_out') =>
             Within(k, rx_in, rx_out) /\ Span(k, rx_out') = Span(k, rx_out) - n
    <3>1. Freed(rx_in, rx_out, n)
      BY <2>2, SpanFree, <1>0, Zenon
    <3>. QED BY <3>1, <2>1, <2>2 DEF Freed
  <2>4. RxFirst' = RxFirst + n /\ RxFirst \in Int
    BY <2>1, <2>2, <1>0, <1>c DEF RxFirst, Unfreed
  <2>5. typed' = RxFirst' + Span(rx_in', rx_out') + Len(rxFifo')
    BY <2>1, <2>2, <2>3, <2>4, <1>0, <1>d, <1>b
  <2>6. ASSUME NEW k \in Places, Within(k, rx_in', rx_out')
        PROVE  rx_buf'[k] = RxFirst' + 1 + Span(k, rx_out')
    <3>1. Within(k, rx_in, rx_out) /\ Span(k, rx_out') = Span(k, rx_out) - n
      BY <2>1, <2>3, <2>6
    <3>2. Span(k, rx_out) \in 0..(BufLen - 1)
      BY <1>0, SpanFirst, Zenon
    <3>. QED BY <3>1, <3>2, <2>1, <2>2, <2>4, <1>a
  <2>. QED BY <2>1, <2>5, <2>6, <1>a DEF RxInv
<1>5. CASE \/ WriteCall \/ WriteSpace \/ WriteCopy \/ WritePublish \/ WriteKick \/ WriteWait
           \/ WriteIdle \/ WriteReturn \/ ReadCall \/ ReadLook \/ ReadSpin \/ ReadAgain
           \/ ReadRearm \/ ReadReturn \/ CloseCall \/ Close
  <2>1. /\ UNCHANGED <<rx_in, rx_out, rx_buf, got, typed, rxFifo>>
        /\ pc # "free" /\ pc' # "free"
    BY <1>5 DEF WriteCall, WriteSpace, WriteCopy, WritePublish, WriteKick, WriteWait,
                WriteIdle, WriteReturn, ReadCall, ReadLook, ReadSpin, ReadAgain, ReadRearm,
                ReadReturn, CloseCall, Close
  <2>. QED BY <2>1, <1>a DEF RxInv, RxFirst, Unfreed
<1>6. CASE \/ HostTakes \/ HostPolls \/ IsrEnter \/ IsrControl \/ IsrReceived \/ IsrTransmit
           \/ IsrTransmitted \/ Timeout \/ SetTimeout
  <2>1. UNCHANGED <<rx_in, rx_out, rx_buf, got, typed, rxFifo, pc, n>>
    BY <1>6 DEF HostTakes, HostPolls, IsrEnter, IsrControl, IsrReceived, IsrTransmit,
                IsrTransmitted, Timeout, SetTimeout
  <2>. QED BY <2>1, <1>a DEF RxInv, RxFirst, Unfreed
<1>. QED BY <1>1, <1>2, <1>3, <1>4, <1>5, <1>6, Steps

\* The handler adds characters, never takes them.
LEMMA FoundStep ==
  ASSUME IInv, Next
  PROVE  FoundInv'
<1>. USE DEF IInv, TypeOK, FoundInv
<1>1. CASE ReadLook
  <2>1. CASE pc' = "fetch"
    <3>1. /\ out' = rx_out /\ n' = Least(RxAvailable(rx_in, rx_out), count) /\ n' > 0
          /\ UNCHANGED <<rx_in, rx_out>>
      BY <1>1, <2>1 DEF ReadLook
    <3>2. LET s == Least(RxAvailable(rx_in, rx_out), count)
          IN  s > 0 => IF rx_out <= rx_in THEN rx_out + s <= rx_in ELSE rx_out + s <= BufLen
      BY SpaceBounds, Zenon DEF RxOK, CallOK
    <3>. QED BY <3>1, <3>2
  <2>2. CASE pc' # "fetch"
    <3>1. pc' # "free"
      BY <1>1 DEF ReadLook
    <3>. QED BY <3>1, <2>2
  <2>. QED BY <2>1, <2>2
<1>2. CASE IsrReceive
  <2>1. /\ UNCHANGED <<pc, out, n, rx_out>> /\ Wrap(rx_in + 1) # rx_out
        /\ rx_in' = Wrap(rx_in + 1)
    BY <1>2 DEF IsrReceive
  <2>. QED BY <2>1, UartConstants DEF Wrap, RxOK, CallOK
<1>3. CASE ReadFetch
  <2>1. UNCHANGED <<out, n, rx_in, rx_out>> /\ pc = "fetch"
    BY <1>3 DEF ReadFetch
  <2>. QED BY <2>1
<1>4. CASE \/ WriteCall \/ WriteSpace \/ WriteCopy \/ WritePublish \/ WriteKick \/ WriteWait
           \/ WriteIdle \/ WriteReturn \/ ReadCall \/ ReadFree \/ ReadSpin \/ ReadAgain
           \/ ReadRearm \/ ReadReturn \/ CloseCall \/ Close
  <2>1. pc' \notin {"fetch", "free"}
    BY <1>4 DEF WriteCall, WriteSpace, WriteCopy, WritePublish, WriteKick, WriteWait,
                WriteIdle, WriteReturn, ReadCall, ReadFree, ReadSpin, ReadAgain, ReadRearm,
                ReadReturn, CloseCall, Close
  <2>. QED BY <2>1
<1>5. CASE \/ HostTakes \/ HostTypes \/ HostPolls \/ IsrEnter \/ IsrControl \/ IsrReceived
           \/ IsrTransmit \/ IsrTransmitted \/ Timeout \/ SetTimeout
  <2>1. UNCHANGED <<pc, out, n, rx_in, rx_out>>
    BY <1>5 DEF HostTakes, HostTypes, HostPolls, IsrEnter, IsrControl, IsrReceived,
                IsrTransmit, IsrTransmitted, Timeout, SetTimeout
  <2>. QED BY <2>1
<1>. QED BY <1>1, <1>2, <1>3, <1>4, <1>5, Steps

-----------------------------------------------------------------------------
\* What a call has done, and the interrupt bits.

LEMMA CallInvStep ==
  ASSUME IInv, Next
  PROVE  CallInv'
<1>0. /\ ptr \in Nat /\ count \in Nat /\ before \in Nat /\ n \in Nat
      /\ queued \in Nat /\ Len(got) \in Nat
  BY Lengths, UartConstants DEF IInv, TypeOK, CallOK, TxOK
<1>a. CallInv
  BY DEF IInv
<1>1. CASE WriteCall
  <2>1. pc' = "space" /\ ptr' = 0 /\ before' = queued /\ queued' = queued
    BY <1>1 DEF WriteCall
  <2>. QED BY <2>1, <1>0 DEF CallInv
<1>2. CASE ReadCall
  <2>1. pc' \in {"look", "read"} /\ ptr' = 0 /\ before' = Len(got) /\ got' = got
    BY <1>2 DEF ReadCall
  <2>. QED BY <2>1, <1>0 DEF CallInv
<1>3. CASE WriteSpace
  <2>1. /\ UNCHANGED <<queued, before, ptr, count, tx_in>> /\ pc = "space"
        /\ pc' \in {"kick", "copy"}
    BY <1>3 DEF WriteSpace
  <2>2. pc' = "copy" => n' <= count
    <3>1. Least(TxSpace(tx_in, tx_out), count) <= count
      BY <1>0, SpaceBounds, Zenon DEF IInv, TypeOK, TxOK
    <3>. QED BY <3>1, <1>3 DEF WriteSpace
  <2>3. pc' = "kick" /\ count > 0 => Wrap(tx_in + 1) = out'
    <3>1. count > 0 /\ Least(TxSpace(tx_in, tx_out), count) = 0 => Wrap(tx_in + 1) = tx_out
      BY <1>0, SpaceBounds, Zenon DEF IInv, TypeOK, TxOK
    <3>. QED BY <3>1, <1>3 DEF WriteSpace
  <2>. QED BY <2>1, <2>2, <2>3, <1>a DEF CallInv
<1>4. CASE WriteCopy
  <2>1. /\ UNCHANGED <<queued, before, n>> /\ pc = "copy" /\ pc' = "publish"
        /\ ptr' = ptr + n
    BY <1>4 DEF WriteCopy
  <2>. QED BY <2>1, <1>0, <1>a DEF CallInv
<1>5. CASE WritePublish
  <2>1. UNCHANGED <<before, ptr>> /\ pc = "publish" /\ pc' = "space" /\ queued' = queued + n
    BY <1>5 DEF WritePublish
  <2>. QED BY <2>1, <1>a DEF CallInv
<1>6. CASE WriteKick \/ WriteWait \/ WriteIdle
  <2>1. /\ UNCHANGED <<queued, before, ptr, count, tx_in, out>>
        /\ \/ pc = "kick" /\ (pc' = "written" \/ (pc' = "wait" /\ count > 0))
           \/ pc = "wait" /\ pc' = "idle?"
           \/ pc = "idle?" /\ pc' \in {"written", "space"}
    BY <1>6 DEF WriteKick, WriteWait, WriteIdle
  <2>. QED BY <2>1, <1>a DEF CallInv
<1>7. CASE ReadLook
  <2>1. /\ UNCHANGED <<got, before, ptr, count>> /\ pc = "look"
        /\ pc' \in {"fetch", "rearm", "read", "spin"}
        /\ n' = Least(RxAvailable(rx_in, rx_out), count)
    BY <1>7 DEF ReadLook
  <2>2. Least(RxAvailable(rx_in, rx_out), count) <= count
    BY <1>0, SpaceBounds, Zenon DEF IInv, TypeOK, RxOK
  <2>. QED BY <2>1, <2>2, <1>a DEF CallInv
<1>8. CASE ReadFetch
  <2>1. /\ before' = before /\ pc = "fetch" /\ pc' = "free" /\ ptr' = ptr + n
        /\ got' = [k \in 1..(Len(got) + n) |->
                     IF k <= Len(got) THEN got[k] ELSE rx_buf[out + (k - Len(got) - 1)]]
    BY <1>8 DEF ReadFetch
  <2>2. Len(got') = Len(got) + n
    <3>1. Len(got) + n \in Nat /\ DOMAIN got' = 1..(Len(got) + n)
      BY <2>1, <1>0
    <3>2. got' \in Seq(Nat)
      BY RxTypeStep DEF RxOK
    <3>. QED BY <3>1, <3>2, LenProperties
  <2>3. n > 0
    BY <2>1 DEF IInv, FoundInv
  <2>. QED BY <2>1, <2>2, <2>3, <1>0, <1>a DEF CallInv
<1>9. CASE ReadFree \/ ReadSpin \/ ReadAgain \/ ReadRearm
  <2>1. /\ UNCHANGED <<got, before, ptr>>
        /\ pc \in {"free", "spin", "again?", "rearm"}
        /\ pc' \in {"look", "rearm", "again?", "read"}
    BY <1>9 DEF ReadFree, ReadSpin, ReadAgain, ReadRearm
  <2>. QED BY <2>1, <1>a DEF CallInv
<1>10. CASE WriteReturn \/ ReadReturn \/ CloseCall \/ Close
  <2>1. pc' \in {"idle", "close"}
    BY <1>10 DEF WriteReturn, ReadReturn, CloseCall, Close
  <2>. QED BY <2>1 DEF CallInv
<1>11. CASE \/ HostTakes \/ HostTypes \/ HostPolls \/ IsrEnter \/ IsrControl \/ IsrReceive
            \/ IsrReceived \/ IsrTransmit \/ IsrTransmitted \/ Timeout \/ SetTimeout
  <2>1. UNCHANGED <<pc, queued, got, before, ptr, count, n, out, tx_in>>
    BY <1>11 DEF HostTakes, HostTypes, HostPolls, IsrEnter, IsrControl, IsrReceive,
                 IsrReceived, IsrTransmit, IsrTransmitted, Timeout, SetTimeout
  <2>. QED BY <2>1, <1>a DEF CallInv, Wrap
<1>. QED BY <1>1, <1>2, <1>3, <1>4, <1>5, <1>6, <1>7, <1>8, <1>9, <1>10, <1>11, Steps

LEMMA WriteArmedStep ==
  ASSUME IInv, Next
  PROVE  WriteArmed'
<1>0. WriteArmed
  BY DEF IInv
<1>1. CASE IsrTransmitted
  <2>1. /\ UNCHANGED <<pc, tx_in, tx_out>> /\ ~(space > 0 /\ tx_out # tx_in)
        /\ we' = (we /\ space = 0)
    BY <1>1 DEF IsrTransmitted
  <2>2. space \in 0..FifoDepth /\ FifoDepth \in Nat /\ we \in BOOLEAN
    BY UartConstants DEF IInv, TypeOK, IsrOK, TimerOK
  <2>3. CASE space > 0
    BY <2>1, <2>3 DEF WriteArmed
  <2>4. CASE space = 0
    BY <2>1, <2>4, <2>2, <1>0 DEF WriteArmed
  <2>. QED BY <2>2, <2>3, <2>4
<1>2. CASE IsrTransmit
  <2>1. UNCHANGED <<pc, we, tx_in>> /\ tx_out # tx_in
    BY <1>2 DEF IsrTransmit
  <2>. QED BY <2>1, <1>0 DEF WriteArmed
<1>3. CASE WriteKick
  BY <1>3 DEF WriteKick, WriteArmed
<1>4. CASE WriteCall \/ WriteSpace \/ WriteCopy \/ WritePublish
  <2>1. pc' \in {"space", "copy", "publish", "kick"}
    BY <1>4 DEF WriteCall, WriteSpace, WriteCopy, WritePublish
  <2>. QED BY <2>1 DEF WriteArmed
<1>5. CASE \/ WriteWait \/ WriteIdle \/ WriteReturn
           \/ ReadCall \/ ReadLook \/ ReadFetch \/ ReadFree \/ ReadSpin \/ ReadAgain
           \/ ReadRearm \/ ReadReturn \/ CloseCall \/ Close
  <2>1. UNCHANGED <<we, tx_in, tx_out>> /\ pc \notin {"space", "copy", "publish", "kick"}
    BY <1>5 DEF WriteWait, WriteIdle, WriteReturn, ReadCall, ReadLook, ReadFetch,
                ReadFree, ReadSpin, ReadAgain, ReadRearm, ReadReturn, CloseCall, Close
  <2>. QED BY <2>1, <1>0 DEF WriteArmed
<1>6. CASE \/ HostTakes \/ HostTypes \/ HostPolls \/ IsrEnter \/ IsrControl \/ IsrReceive
           \/ IsrReceived \/ Timeout \/ SetTimeout
  <2>1. UNCHANGED <<pc, we, tx_in, tx_out>>
    BY <1>6 DEF HostTakes, HostTypes, HostPolls, IsrEnter, IsrControl, IsrReceive,
                IsrReceived, Timeout, SetTimeout
  <2>. QED BY <2>1, <1>0 DEF WriteArmed
<1>. QED BY <1>1, <1>2, <1>3, <1>4, <1>5, <1>6, Steps

LEMMA ReadArmedStep ==
  ASSUME IInv, Next
  PROVE  ReadArmed'
<1>0. ReadArmed /\ ptr \in Nat /\ n \in Nat /\ re \in BOOLEAN
  BY UartConstants DEF IInv, TypeOK, CallOK, TimerOK
<1>1. CASE IsrReceived
  <2>1. /\ UNCHANGED <<pc, ptr, rx_in, rx_out>>
        /\ re' = (re /\ ~(Wrap(rx_in + 1) = rx_out /\ ravail))
    BY <1>1 DEF IsrReceived
  <2>2. CASE Wrap(rx_in + 1) = rx_out
    BY <2>1, <2>2 DEF ReadArmed, Wrap
  <2>3. CASE Wrap(rx_in + 1) # rx_out
    BY <2>1, <2>3, <1>0 DEF ReadArmed
  <2>. QED BY <2>2, <2>3
<1>2. CASE IsrReceive
  <2>1. UNCHANGED <<pc, ptr, re>> /\ Wrap(rx_in + 1) # rx_out
    BY <1>2 DEF IsrReceive
  <2>. QED BY <2>1, <1>0 DEF ReadArmed
<1>3. CASE ReadRearm
  BY <1>3 DEF ReadRearm, ReadArmed
<1>4. CASE ReadFree
  <2>1. ptr' = ptr /\ pc = "free" /\ pc' \in {"look", "rearm"}
    BY <1>4 DEF ReadFree
  <2>. QED BY <2>1 DEF ReadArmed, IInv, CallInv
<1>5. CASE ReadFetch
  <2>1. ptr' = ptr + n /\ pc = "fetch" /\ pc' = "free"
    BY <1>5 DEF ReadFetch
  <2>. QED BY <2>1, <1>0 DEF ReadArmed, IInv, FoundInv
<1>6. CASE ReadLook
  <2>1. /\ UNCHANGED <<re, rx_in, rx_out, ptr>> /\ pc = "look"
        /\ ptr > 0 => pc' \in {"fetch", "rearm"}
    BY <1>6 DEF ReadLook
  <2>. QED BY <2>1, <1>0 DEF ReadArmed, Wrap
<1>7. CASE \/ WriteCall \/ WriteSpace \/ WriteCopy \/ WritePublish \/ WriteKick \/ WriteWait
           \/ WriteIdle \/ WriteReturn \/ ReadCall \/ ReadSpin \/ ReadAgain \/ ReadReturn
           \/ CloseCall \/ Close
  <2>1. UNCHANGED <<re, rx_in, rx_out>> /\ pc \notin {"look", "fetch", "free", "rearm"}
    BY <1>7 DEF WriteCall, WriteSpace, WriteCopy, WritePublish, WriteKick, WriteWait,
                WriteIdle, WriteReturn, ReadCall, ReadSpin, ReadAgain, ReadReturn,
                CloseCall, Close
  <2>. QED BY <2>1, <1>0 DEF ReadArmed, Wrap
<1>8. CASE \/ HostTakes \/ HostTypes \/ HostPolls \/ IsrEnter \/ IsrControl \/ IsrTransmit
           \/ IsrTransmitted \/ Timeout \/ SetTimeout
  <2>1. UNCHANGED <<pc, ptr, re, rx_in, rx_out>>
    BY <1>8 DEF HostTakes, HostTypes, HostPolls, IsrEnter, IsrControl, IsrTransmit,
                IsrTransmitted, Timeout, SetTimeout
  <2>. QED BY <2>1, <1>0 DEF ReadArmed, Wrap
<1>. QED BY <1>1, <1>2, <1>3, <1>4, <1>5, <1>6, <1>7, <1>8, Steps

LEMMA WaitsFollows ==
  ASSUME CallInv
  PROVE  WaitsOnlyWhenFull
  BY DEF CallInv, WaitsOnlyWhenFull

-----------------------------------------------------------------------------
\* The invariant.

LEMMA Initially ==
  ASSUME Init
  PROVE  IInv
<1>. USE DEF Init
<1>1. <<>> \in Seq(Nat) /\ Len(<<>>) = 0
  BY EmptySeq
<1>2. TimerOK /\ IsrOK /\ CallOK
  <2>1. DefaultTimeout \in 0..IntMax /\ IntMax \in 0..IntMax /\ 0 \in 0..IntMax
        /\ 0 \in 0..FifoDepth /\ 0 \in Places /\ 0 \in 0..BufLen
    BY UartConstants
  <2>2. TimerOK
    BY <2>1 DEF TimerOK
  <2>3. IsrOK
    BY <2>1 DEF IsrOK
  <2>4. CallOK
    <3>1. pc = "idle" /\ nonblock \in BOOLEAN /\ masked \in BOOLEAN
      OBVIOUS
    <3>2. /\ ptr \in Nat /\ count \in Nat /\ before \in Nat /\ ret \in Int
          /\ in \in Places /\ out \in Places /\ n \in 0..BufLen
      BY <2>1
    <3>. QED BY <3>1, <3>2, Zenon DEF CallOK
  <2>. QED BY <2>2, <2>3, <2>4
<1>3. TxOK /\ RxOK
  BY <1>1, UartConstants DEF TxOK, RxOK
<1>4. TxInv /\ RxInv
  BY <1>1, UartConstants DEF TxInv, TxFirst, RxInv, RxFirst, Unfreed, Span, Within
<1>5. RoomInv /\ CopiedInv /\ FoundInv /\ CallInv
  BY DEF RoomInv, CopiedInv, FoundInv, CallInv
<1>6. WriteArmed /\ ReadArmed /\ WaitsOnlyWhenFull
  BY DEF WriteArmed, ReadArmed, WaitsOnlyWhenFull
<1>. QED BY <1>2, <1>3, <1>4, <1>5, <1>6 DEF IInv, TypeOK

LEMMA Inductive ==
  ASSUME IInv, [Next]_vars
  PROVE  IInv'
<1>1. CASE Next
  <2>1. TypeOK'
    BY <1>1, TypeStep
  <2>2. TxInv' /\ RoomInv' /\ CopiedInv'
    BY <1>1, TxInvStep, RoomStep, CopiedStep
  <2>3. RxInv' /\ FoundInv' /\ CallInv'
    BY <1>1, RxInvStep, FoundStep, CallInvStep
  <2>4. WriteArmed' /\ ReadArmed'
    BY <1>1, WriteArmedStep, ReadArmedStep
  <2>5. WaitsOnlyWhenFull'
    BY <2>3 DEF CallInv, WaitsOnlyWhenFull, Wrap
  <2>. QED BY <2>1, <2>2, <2>3, <2>4, <2>5 DEF IInv
<1>2. CASE UNCHANGED vars
  <2>. USE <1>2 DEF vars, IInv
  <2>1. TypeOK'
    BY DEF TypeOK, TimerOK, RxOK, TxOK, IsrOK, CallOK, Writing, Reading
  <2>2. TxInv' /\ RoomInv' /\ CopiedInv'
    BY DEF TxInv, TxFirst, RoomInv, CopiedInv, Span, Within
  <2>3. RxInv' /\ FoundInv' /\ CallInv'
    BY DEF RxInv, RxFirst, Unfreed, FoundInv, CallInv, Span, Within, Wrap
  <2>4. WriteArmed' /\ ReadArmed' /\ WaitsOnlyWhenFull'
    BY DEF WriteArmed, ReadArmed, WaitsOnlyWhenFull, Wrap
  <2>. QED BY <2>1, <2>2, <2>3, <2>4
<1>. QED BY <1>1, <1>2

\* The rings hold the characters in order wherever handler and caller are, and what a
\* caller has read of the indices stays true until it acts on it.
THEOREM Invariance == Spec => []IInv
  BY Initially, Inductive, PTL DEF Spec

\* Indices stay inside the arrays and the FIFOs are never overfilled.
THEOREM TypeCorrect == Spec => []TypeOK
<1>1. IInv => TypeOK
  BY DEF IInv
<1>. QED BY <1>1, Invariance, PTL

\* While transmit interrupts are off there is nothing to send, or a write is under way that
\* turns them on before it waits or returns, whichever way handler and caller interleave.
THEOREM NoLostWakeUp == Spec => []WriteArmed
<1>1. IInv => WriteArmed
  BY DEF IInv
<1>. QED BY <1>1, Invariance, PTL

\* While receive interrupts are off the ring is full, or a read has made room in it and
\* turns them on before it returns: no character stays behind in the core for ever.
THEOREM NoLostCharacter == Spec => []ReadArmed
<1>1. IInv => ReadArmed
  BY DEF IInv
<1>. QED BY <1>1, Invariance, PTL

\* Only a full ring makes a write wait.
THEOREM WaitsFull == Spec => []WaitsOnlyWhenFull
<1>1. IInv => WaitsOnlyWhenFull
  BY DEF IInv
<1>. QED BY <1>1, Invariance, PTL

\* The value a call returns is the number of characters it has passed on.
THEOREM CountExact == Spec => CountIsExact
<1>1. ASSUME IInv, WriteReturn
      PROVE  queued = before + (IF ret' > 0 THEN ret' ELSE 0)
  <2>1. pc = "written" /\ ret' = Result
    BY <1>1 DEF WriteReturn
  <2>2. queued = before + ptr /\ ptr \in Nat /\ before \in Nat
    BY <1>1, <2>1 DEF IInv, CallInv, TypeOK, CallOK
  <2>. QED BY <2>1, <2>2 DEF Result, EIO, EWOULDBLOCK
<1>2. ASSUME IInv, ReadReturn
      PROVE  Len(got) = before + (IF ret' > 0 THEN ret' ELSE 0)
  <2>1. pc = "read" /\ ret' = Result
    BY <1>2 DEF ReadReturn
  <2>2. Len(got) = before + ptr /\ ptr \in Nat /\ before \in Nat
    BY <1>2, <2>1 DEF IInv, CallInv, TypeOK, CallOK
  <2>. QED BY <2>1, <2>2 DEF Result, EIO, EWOULDBLOCK
<1>. QED BY <1>1, <1>2, Invariance, PTL DEF CountIsExact

-----------------------------------------------------------------------------
\* The driver implements a queue in each direction.

\* What has come out is a prefix of what went in, not more than the buffers behind.
TxPrefix ==
  /\ Len(printed) \in Nat /\ queued \in Nat
  /\ printed = [k \in 1..Len(printed) |-> k]
  /\ Len(printed) <= queued /\ queued <= Len(printed) + (BufLen - 1 + FifoDepth)

RxPrefix ==
  /\ Len(got) \in Nat /\ typed \in Nat
  /\ got = [k \in 1..Len(got) |-> k]
  /\ Len(got) <= typed /\ typed <= Len(got) + (BufLen - 1 + FifoDepth)

LEMMA TxOrder ==
  ASSUME IInv
  PROVE  TxPrefix
<1>1. /\ printed \in Seq(Nat) /\ Len(printed) \in Nat /\ queued \in Nat
      /\ Len(txFifo) \in Nat /\ Len(txFifo) <= FifoDepth
      /\ FifoDepth \in Nat /\ BufLen \in Nat
  BY Lengths DEF IInv, TypeOK, TxOK
<1>2. Span(tx_in, tx_out) \in 0..(BufLen - 1)
  BY SpanFirst, Zenon DEF IInv, TypeOK, TxOK
<1>3. /\ \A k \in 1..Len(printed) : printed[k] = k
      /\ queued = Len(printed) + Len(txFifo) + Span(tx_in, tx_out)
  BY DEF IInv, TxInv, TxFirst
<1>4. printed \in [1..Len(printed) -> Nat]
  BY <1>1, LenProperties
<1>5. printed = [k \in 1..Len(printed) |-> k]
  BY <1>3, <1>4
<1>6. Len(printed) <= queued /\ queued <= Len(printed) + (BufLen - 1 + FifoDepth)
  BY <1>1, <1>2, <1>3
<1>. QED BY <1>1, <1>5, <1>6 DEF TxPrefix

LEMMA RxOrder ==
  ASSUME IInv
  PROVE  RxPrefix
<1>1. /\ got \in Seq(Nat) /\ Len(got) \in Nat /\ typed \in Nat /\ n \in 0..BufLen
      /\ Len(rxFifo) \in Nat /\ Len(rxFifo) <= FifoDepth
      /\ FifoDepth \in Nat /\ BufLen \in Nat
  BY Lengths DEF IInv, TypeOK, RxOK, CallOK
<1>2. Span(rx_in, rx_out) \in 0..(BufLen - 1)
  BY SpanFirst, Zenon DEF IInv, TypeOK, RxOK
<1>3. /\ \A k \in 1..Len(got) : got[k] = k
      /\ typed = Len(got) - Unfreed + Span(rx_in, rx_out) + Len(rxFifo)
  BY DEF IInv, RxInv, RxFirst
<1>4. got \in [1..Len(got) -> Nat]
  BY <1>1, LenProperties
<1>5. got = [k \in 1..Len(got) |-> k]
  BY <1>3, <1>4
<1>6. Unfreed \in Nat /\ Unfreed <= Span(rx_in, rx_out)
  <2>1. CASE pc = "free"
    <3>1. /\ out = rx_out
          /\ IF rx_out <= rx_in THEN out + n <= rx_in ELSE out + n <= BufLen
      BY <2>1 DEF IInv, FoundInv
    <3>2. rx_in \in Nat /\ rx_out \in Nat
      BY <1>1 DEF IInv, TypeOK, RxOK
    <3>. QED BY <2>1, <3>1, <3>2, <1>1 DEF Unfreed, Span
  <2>2. CASE pc # "free"
    BY <2>2, <1>2, <1>1 DEF Unfreed
  <2>. QED BY <2>1, <2>2
<1>7. Len(got) <= typed /\ typed <= Len(got) + (BufLen - 1 + FifoDepth)
  <2>1. typed = Len(got) - Unfreed + Span(rx_in, rx_out) + Len(rxFifo)
    BY <1>3
  <2>. QED BY <2>1, <1>1, <1>2, <1>6
<1>. QED BY <1>1, <1>5, <1>7 DEF RxPrefix

LEMMA TxMoves ==
  ASSUME IInv, [Next]_vars
  PROVE  \/ queued' = queued /\ Len(printed') >= Len(printed)
         \/ printed' = printed /\ queued' >= queued
<1>0. Len(printed) \in Nat /\ queued \in Nat
  BY TxOrder DEF TxPrefix
<1>1. CASE HostTakes
  <2>1. queued' = queued /\ txFifo # <<>> /\ printed' = Append(printed, Head(txFifo))
    BY <1>1 DEF HostTakes
  <2>2. Head(txFifo) \in Nat
    BY <2>1, Taken DEF IInv, TypeOK, TxOK
  <2>3. Len(printed') = Len(printed) + 1
    BY <2>1, <2>2, Appended DEF IInv, TypeOK, TxOK
  <2>. QED BY <2>1, <2>3, <1>0
<1>2. CASE WritePublish
  <2>1. printed' = printed /\ queued' = queued + n
    BY <1>2 DEF WritePublish
  <2>. QED BY <2>1, <1>0, UartConstants DEF IInv, TypeOK, CallOK
<1>3. CASE \/ HostTypes \/ HostPolls \/ IsrEnter \/ IsrControl \/ IsrReceive \/ IsrReceived
           \/ IsrTransmit \/ IsrTransmitted \/ Timeout \/ SetTimeout
           \/ WriteCall \/ WriteSpace \/ WriteCopy \/ WriteKick \/ WriteWait \/ WriteIdle
           \/ WriteReturn \/ ReadCall \/ ReadLook \/ ReadFetch \/ ReadFree \/ ReadSpin
           \/ ReadAgain \/ ReadRearm \/ ReadReturn \/ CloseCall \/ Close
           \/ UNCHANGED vars
  <2>1. UNCHANGED <<printed, queued>>
    BY <1>3 DEF HostTypes, HostPolls, IsrEnter, IsrControl, IsrReceive, IsrReceived,
                IsrTransmit, IsrTransmitted, Timeout, SetTimeout, WriteCall, WriteSpace,
                WriteCopy, WriteKick, WriteWait, WriteIdle, WriteReturn, ReadCall,
                ReadLook, ReadFetch, ReadFree, ReadSpin, ReadAgain, ReadRearm,
                ReadReturn, CloseCall, Close, vars
  <2>. QED BY <2>1, <1>0
<1>. QED BY <1>1, <1>2, <1>3, Steps

LEMMA RxMoves ==
  ASSUME IInv, [Next]_vars
  PROVE  \/ typed' = typed /\ Len(got') >= Len(got)
         \/ got' = got /\ typed' >= typed
<1>0. Len(got) \in Nat /\ typed \in Nat
  BY RxOrder DEF RxPrefix
<1>1. CASE HostTypes
  <2>1. got' = got /\ typed' = typed + 1
    BY <1>1 DEF HostTypes
  <2>. QED BY <2>1, <1>0
<1>2. CASE ReadFetch
  <2>1. /\ typed' = typed
        /\ got' = [k \in 1..(Len(got) + n) |->
                     IF k <= Len(got) THEN got[k] ELSE rx_buf[out + (k - Len(got) - 1)]]
    BY <1>2 DEF ReadFetch
  <2>2. Next
    BY <1>2 DEF Next, Read
  <2>3. got' \in Seq(Nat)
    BY <2>2, RxTypeStep DEF RxOK
  <2>4. n \in Nat /\ Len(got) \in Nat
    BY <1>0, UartConstants DEF IInv, TypeOK, CallOK
  <2>5. Len(got') = Len(got) + n
    <3>1. Len(got) + n \in Nat /\ DOMAIN got' = 1..(Len(got) + n)
      BY <2>1, <2>4
    <3>. QED BY <3>1, <2>3, LenProperties
  <2>. QED BY <2>1, <2>4, <2>5
<1>3. CASE \/ HostTakes \/ HostPolls \/ IsrEnter \/ IsrControl \/ IsrReceive \/ IsrReceived
           \/ IsrTransmit \/ IsrTransmitted \/ Timeout \/ SetTimeout
           \/ WriteCall \/ WriteSpace \/ WriteCopy \/ WritePublish \/ WriteKick \/ WriteWait
           \/ WriteIdle \/ WriteReturn \/ ReadCall \/ ReadLook \/ ReadFree \/ ReadSpin
           \/ ReadAgain \/ ReadRearm \/ ReadReturn \/ CloseCall \/ Close
           \/ UNCHANGED vars
  <2>1. UNCHANGED <<got, typed>>
    BY <1>3 DEF HostTakes, HostPolls, IsrEnter, IsrControl, IsrReceive, IsrReceived,
                IsrTransmit, IsrTransmitted, Timeout, SetTimeout, WriteCall, WriteSpace,
                WriteCopy, WritePublish, WriteKick, WriteWait, WriteIdle, WriteReturn,
                ReadCall, ReadLook, ReadFree, ReadSpin, ReadAgain, ReadRearm,
                ReadReturn, CloseCall, Close, vars
  <2>. QED BY <2>1, <1>0
<1>. QED BY <1>1, <1>2, <1>3, Steps

\* What is written is printed once, in order: the transmit side of the driver
\* implements CharPipe.
THEOREM TransmitsInOrder == Spec => Transmits
<1>1. Init => TxPipe!Init
  BY DEF Init, TxPipe!Init
<1>2. IInv => TxPrefix
  BY TxOrder
<1>3. ASSUME IInv, TxPrefix, TxPrefix', [Next]_vars
      PROVE  [TxPipe!Put \/ TxPipe!Get]_<<queued, printed>>
  <2>1. /\ Len(printed) \in Nat /\ queued \in Nat
        /\ Len(printed) <= queued
    BY <1>3 DEF TxPrefix
  <2>2. /\ Len(printed') \in Nat /\ queued' \in Nat
        /\ printed' = [k \in 1..Len(printed') |-> k]
        /\ Len(printed') <= queued' /\ queued' <= Len(printed') + (BufLen - 1 + FifoDepth)
    BY <1>3 DEF TxPrefix
  <2>3. CASE queued' = queued /\ Len(printed') >= Len(printed)
    <3>1. Len(printed') \in Len(printed)..queued
      BY <2>1, <2>2, <2>3
    <3>. QED BY <3>1, <2>2, <2>3 DEF TxPipe!Get
  <2>4. CASE printed' = printed /\ queued' >= queued
    <3>1. queued' \in queued..(Len(printed) + (BufLen - 1 + FifoDepth))
      BY <2>1, <2>2, <2>4, UartConstants
    <3>. QED BY <3>1, <2>4 DEF TxPipe!Put
  <2>. QED BY <1>3, <2>3, <2>4, TxMoves
<1>. QED BY <1>1, <1>2, <1>3, Invariance, PTL DEF Spec, Transmits, TxPipe!Spec

\* What is typed is read once, in order: the receive side implements CharPipe.
THEOREM ReceivesInOrder == Spec => Receives
<1>1. Init => RxPipe!Init
  BY DEF Init, RxPipe!Init
<1>2. IInv => RxPrefix
  BY RxOrder
<1>3. ASSUME IInv, RxPrefix, RxPrefix', [Next]_vars
      PROVE  [RxPipe!Put \/ RxPipe!Get]_<<typed, got>>
  <2>1. /\ Len(got) \in Nat /\ typed \in Nat
        /\ Len(got) <= typed
    BY <1>3 DEF RxPrefix
  <2>2. /\ Len(got') \in Nat /\ typed' \in Nat
        /\ got' = [k \in 1..Len(got') |-> k]
        /\ Len(got') <= typed' /\ typed' <= Len(got') + (BufLen - 1 + FifoDepth)
    BY <1>3 DEF RxPrefix
  <2>3. CASE typed' = typed /\ Len(got') >= Len(got)
    <3>1. Len(got') \in Len(got)..typed
      BY <2>1, <2>2, <2>3
    <3>. QED BY <3>1, <2>2, <2>3 DEF RxPipe!Get
  <2>4. CASE got' = got /\ typed' >= typed
    <3>1. typed' \in typed..(Len(got) + (BufLen - 1 + FifoDepth))
      BY <2>1, <2>2, <2>4, UartConstants
    <3>. QED BY <3>1, <2>4 DEF RxPipe!Put
  <2>. QED BY <1>3, <2>3, <2>4, RxMoves
<1>. QED BY <1>1, <1>2, <1>3, Invariance, PTL DEF Spec, Receives, RxPipe!Spec
=============================================================================
