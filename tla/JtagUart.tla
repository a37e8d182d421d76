------------------------------ MODULE JtagUart ------------------------------
(***************************************************************************)
(* The driver of the JTAG UART, through which stdin, stdout and stderr of  *)
(* the program go (altera_avalon_jtag_uart_*.c, the interrupt-driven       *)
(* version, without an operating system).  A write puts characters into    *)
(* the ring tx_buf, from which the interrupt handler moves them to the     *)
(* core's FIFO; a read takes them from the ring rx_buf, which the handler  *)
(* fills.  No lock protects the rings: the caller moves tx_in and rx_out,  *)
(* the handler tx_out and rx_in, and each reads the other's index once.    *)
(* An alarm looks every second whether the host is there.                  *)
(*                                                                         *)
(* One action is one access to what caller and handler share.  The handler *)
(* runs to its end before the caller goes on; the host acts at any time.   *)
(* Characters are numbered: the k-th that is queued, or typed, is k.       *)
(***************************************************************************)
EXTENDS Integers, Sequences

CONSTANTS
  BufLen,          \* ALTERA_AVALON_JTAG_UART_BUF_LEN, 2048
  FifoDepth,       \* JTAG_UART_WRITE_DEPTH and READ_DEPTH, 64
  WriteThreshold,  \* JTAG_UART_WRITE_THRESHOLD, 8
  DefaultTimeout,  \* ALTERA_AVALON_JTAG_UART_DEFAULT_TIMEOUT, 10
  IntMax,          \* INT_MAX
  Sizes,           \* counts given to write and read
  Timeouts,        \* arguments of TIOCSTIMEOUT
  Modes,           \* values of O_NONBLOCK, a subset of BOOLEAN
  Masks,           \* whether the caller has interrupts disabled
  MaxQueued,       \* bound: characters the program writes
  MaxTyped         \* bound: characters the host sends

ASSUME UartConstants ==
  /\ BufLen \in Nat /\ BufLen > 1
  /\ FifoDepth \in Nat /\ WriteThreshold \in Nat /\ WriteThreshold < FifoDepth
  /\ IntMax \in Nat /\ DefaultTimeout \in 1..(IntMax - 1)
  /\ Sizes \subseteq Nat /\ Timeouts \subseteq Int
  /\ Modes \subseteq BOOLEAN /\ Masks \subseteq BOOLEAN
  /\ MaxQueued \in Nat /\ MaxTyped \in Nat

EIO == 5
EWOULDBLOCK == 11

VARIABLES
  timeout, host_inactive,
  re, we,               \* the bits of irq_enable, and of the control register
  rx_in, rx_out, rx_buf,
  tx_in, tx_out, tx_buf,
  isr,                  \* where the handler is, "off" when it does not run
  wi, space, ravail,    \* its locals; ravail: data & RAVAIL_MSK is not zero
  pc,                   \* where the caller is, "idle" between calls
  nonblock, masked,     \* flags & O_NONBLOCK; interrupts disabled by the caller
  ptr, count,           \* characters done and characters left of this call
  in, out, n,           \* locals of write and read
  ret,                  \* the value the last call returned
  txFifo, rxFifo, ac,   \* the core: its FIFOs and the bit AC
  queued, before,       \* characters written, now and when the call began
  typed,                \* characters the host has sent
  printed, got          \* what the host and the program have received

timerVars  == <<timeout, host_inactive>>
txVars     == <<tx_in, tx_buf, queued>>
rxVars     == <<rx_out, got>>
isrVars    == <<isr, wi, space, ravail, rx_in, rx_buf, tx_out>>
callVars   == <<nonblock, masked, ptr, count, before>>
localVars  == <<in, out, n>>
hostVars   == <<ac, typed, printed>>
fifoVars   == <<txFifo, rxFifo>>
vars == <<timerVars, re, we, txVars, rxVars, isrVars, pc, callVars, localVars,
          ret, fifoVars, hostVars>>

\* FAULTY: the index runs past the end of the array.
WrapLate(i) == IF i > BufLen THEN 0 ELSE i

\* i % BUF_LEN of an index that is at most BUF_LEN.
Wrap(i) == IF i = BufLen THEN 0 ELSE i

\* The state as altera_avalon_jtag_uart_init leaves it.  When no alarm can be
\* started the driver behaves as though the host is present.
Init ==
  /\ timeout \in {DefaultTimeout, IntMax} /\ host_inactive = 0
  /\ re = TRUE /\ we = FALSE
  /\ rx_in = 0 /\ rx_out = 0 /\ rx_buf = [i \in 0..(BufLen - 1) |-> 0]
  /\ tx_in = 0 /\ tx_out = 0 /\ tx_buf = [i \in 0..(BufLen - 1) |-> 0]
  /\ isr = "off" /\ wi = FALSE /\ space = 0 /\ ravail = FALSE
  /\ pc = "idle" /\ nonblock = FALSE /\ masked = FALSE
  /\ ptr = 0 /\ count = 0 /\ in = 0 /\ out = 0 /\ n = 0 /\ ret = 0
  /\ txFifo = <<>> /\ rxFifo = <<>> /\ ac = FALSE
  /\ queued = 0 /\ before = 0 /\ typed = 0 /\ printed = <<>> /\ got = <<>>

-----------------------------------------------------------------------------
\* The core and the host at the other end of the cable.

RI == re /\ rxFifo # <<>>
WI == we /\ Len(txFifo) <= WriteThreshold

HostTakes ==
  /\ txFifo # <<>>
  /\ txFifo' = Tail(txFifo) /\ printed' = Append(printed, Head(txFifo))
  /\ ac' = TRUE
  /\ UNCHANGED <<timerVars, re, we, txVars, rxVars, isrVars, pc, callVars,
                 localVars, ret, rxFifo, typed>>

HostTypes ==
  /\ typed < MaxTyped /\ Len(rxFifo) < FifoDepth
  /\ typed' = typed + 1 /\ rxFifo' = Append(rxFifo, typed + 1)
  /\ ac' = TRUE
  /\ UNCHANGED <<timerVars, re, we, txVars, rxVars, isrVars, pc, callVars,
                 localVars, ret, txFifo, printed>>

\* The host looks and there is nothing to take.
HostPolls ==
  /\ txFifo = <<>>
  /\ ac' = TRUE
  /\ UNCHANGED <<timerVars, re, we, txVars, rxVars, isrVars, pc, callVars,
                 localVars, ret, fifoVars, typed, printed>>

Host == HostTakes \/ HostTypes \/ HostPolls

-----------------------------------------------------------------------------
\* The interrupt handler, altera_avalon_jtag_uart_irq.

IsrEnter ==
  /\ isr = "off" /\ ~masked /\ (RI \/ WI)
  /\ isr' = "control"
  /\ UNCHANGED <<timerVars, re, we, txVars, rxVars, wi, space, ravail, rx_in,
                 rx_buf, tx_out, pc, callVars, localVars, ret, fifoVars, hostVars>>

\* The read of the control register, and where its bits lead.
IsrControl ==
  /\ isr = "control"
  /\ wi' = WI /\ space' = FifoDepth - Len(txFifo) /\ ravail' = TRUE
  /\ isr' = IF RI THEN "receive" ELSE IF WI THEN "transmit" ELSE "off"
  /\ UNCHANGED <<timerVars, re, we, txVars, rxVars, rx_in, rx_buf, tx_out, pc,
                 callVars, localVars, ret, fifoVars, hostVars>>

\* There is room in the ring and the read of the data register is valid.
IsrReceive ==
  /\ isr = "receive" /\ Wrap(rx_in + 1) # rx_out /\ rxFifo # <<>>
  /\ rx_buf' = [rx_buf EXCEPT ![rx_in] = Head(rxFifo)]
  /\ rx_in' = Wrap(rx_in + 1)
  /\ rxFifo' = Tail(rxFifo) /\ ravail' = (Tail(rxFifo) # <<>>)
  /\ UNCHANGED <<timerVars, re, we, txVars, rxVars, isr, wi, space, tx_out, pc,
                 callVars, localVars, ret, txFifo, hostVars>>

\* The ring is full, or the data register has nothing valid.  In the first case
\* ravail is what the last read said, or the assumption the handler began with.
IsrReceived ==
  /\ isr = "receive" /\ (Wrap(rx_in + 1) = rx_out \/ rxFifo = <<>>)
  /\ re' = (re /\ ~(Wrap(rx_in + 1) = rx_out /\ ravail))
  /\ isr' = IF wi THEN "transmit" ELSE "control"
  /\ UNCHANGED <<timerVars, we, txVars, rxVars, wi, space, ravail, rx_in, rx_buf,
                 tx_out, pc, callVars, localVars, ret, fifoVars, hostVars>>

IsrTransmit ==
  /\ isr = "transmit" /\ space > 0 /\ tx_out # tx_in
  /\ txFifo' = Append(txFifo, tx_buf[tx_out])
  /\ tx_out' = Wrap(tx_out + 1)
  /\ space' = space - 1
  /\ UNCHANGED <<timerVars, re, we, txVars, rxVars, isr, wi, ravail, rx_in, rx_buf,
                 pc, callVars, localVars, ret, rxFifo, hostVars>>

IsrTransmitted ==
  /\ isr = "transmit" /\ ~(space > 0 /\ tx_out # tx_in)
  /\ we' = (we /\ space = 0)
  /\ isr' = "control"
  /\ UNCHANGED <<timerVars, re, txVars, rxVars, wi, space, ravail, rx_in, rx_buf,
                 tx_out, pc, callVars, localVars, ret, fifoVars, hostVars>>

Isr == \/ IsrControl \/ IsrReceive \/ IsrReceived
       \/ IsrTransmit \/ IsrTransmitted

\* altera_avalon_jtag_uart_timeout, called by the alarm every second.
Timeout ==
  /\ isr = "off" /\ ~masked /\ timeout # IntMax
  /\ ac' = FALSE
  /\ host_inactive' = IF ac THEN 0
                      ELSE IF host_inactive < IntMax - 2 THEN host_inactive + 1
                      ELSE host_inactive
  /\ UNCHANGED <<timeout, re, we, txVars, rxVars, isrVars, pc, callVars, localVars,
                 ret, fifoVars, typed, printed>>

-----------------------------------------------------------------------------
\* The caller.  It runs when the handler does not.

Runs(at) == pc = at /\ isr = "off"

\* altera_avalon_jtag_uart_write(sp, ptr, size, flags).
WriteCall ==
  /\ Runs("idle")
  /\ \E size \in Sizes : queued + size <= MaxQueued /\ count' = size
  /\ nonblock' \in Modes /\ masked' \in Masks
  /\ ptr' = 0 /\ before' = queued
  /\ pc' = "space"
  /\ UNCHANGED <<timerVars, re, we, txVars, rxVars, isrVars, localVars, ret,
                 fifoVars, hostVars>>

\* FAULTY: a full ring looks like an empty one.
TxSpaceFull(i, o) ==
  IF i < o THEN o - i
  ELSE IF o > 0 THEN BufLen - i
  ELSE BufLen - 1 - i

\* FAULTY: the last place of the array is never used.
TxSpaceShort(i, o) == IF i < o THEN o - 1 - i ELSE BufLen - 1 - i

\* Room from tx_in on, up to the end of the array or to one before tx_out.
TxSpace(i, o) ==
  IF i < o THEN o - 1 - i
  ELSE IF o > 0 THEN BufLen - i
  ELSE BufLen - 1 - i

Least(a, b) == IF a <= b THEN a ELSE b

\* The indices are read, and n computed from them.
WriteSpace ==
  /\ Runs("space")
  /\ IF count > 0
       THEN /\ in' = tx_in /\ out' = tx_out
            /\ n' = Least(TxSpace(tx_in, tx_out), count)
            /\ pc' = IF n' = 0 THEN "kick" ELSE "copy"
       ELSE /\ pc' = "kick" /\ UNCHANGED localVars
  /\ UNCHANGED <<timerVars, re, we, txVars, rxVars, isrVars, callVars, ret,
                 fifoVars, hostVars>>

\* memcpy(sp->tx_buf + in, ptr, n).
WriteCopy ==
  /\ Runs("copy")
  /\ tx_buf' = [i \in 0..(BufLen - 1) |->
                  IF in <= i /\ i < in + n THEN queued + 1 + (i - in)
                                           ELSE tx_buf[i]]
  /\ ptr' = ptr + n /\ count' = count - n
  /\ pc' = "publish"
  /\ UNCHANGED <<timerVars, re, we, tx_in, queued, rxVars, isrVars, nonblock,
                 masked, before, localVars, ret, fifoVars, hostVars>>

\* sp->tx_in = (in + n) % BUF_LEN: from here on the handler sees the characters.
WritePublish ==
  /\ Runs("publish")
  /\ tx_in' = Wrap(in + n) /\ queued' = queued + n
  /\ pc' = "space"
  /\ UNCHANGED <<timerVars, re, we, tx_buf, rxVars, isrVars, callVars, localVars,
                 ret, fifoVars, hostVars>>

\* FAULTY: the handler is kicked only if characters are left over.
WriteKickFull ==
  /\ Runs("kick")
  /\ we' = (we \/ count > 0)
  /\ pc' = IF count > 0 /\ ~nonblock THEN "wait" ELSE "written"
  /\ UNCHANGED <<timerVars, re, txVars, rxVars, isrVars, callVars, localVars, ret,
                 fifoVars, hostVars>>

\* Between alt_irq_disable_all and alt_irq_enable_all.
WriteKick ==
  /\ Runs("kick")
  /\ we' = TRUE
  /\ pc' = IF count > 0 /\ ~nonblock THEN "wait" ELSE "written"
  /\ UNCHANGED <<timerVars, re, txVars, rxVars, isrVars, callVars, localVars, ret,
                 fifoVars, hostVars>>

\* FAULTY: the wait does not look at the time-out.
WriteWaitForever ==
  /\ Runs("wait")
  /\ out # tx_out
  /\ pc' = "idle?"
  /\ UNCHANGED <<timerVars, re, we, txVars, rxVars, isrVars, callVars, localVars,
                 ret, fifoVars, hostVars>>

\* while (out == sp->tx_out && sp->host_inactive < sp->timeout): its end.
WriteWait ==
  /\ Runs("wait")
  /\ out # tx_out \/ host_inactive >= timeout
  /\ pc' = "idle?"
  /\ UNCHANGED <<timerVars, re, we, txVars, rxVars, isrVars, callVars, localVars,
                 ret, fifoVars, hostVars>>

\* if (sp->host_inactive) break.
WriteIdle ==
  /\ Runs("idle?")
  /\ pc' = IF host_inactive > 0 THEN "written" ELSE "space"
  /\ UNCHANGED <<timerVars, re, we, txVars, rxVars, isrVars, callVars, localVars,
                 ret, fifoVars, hostVars>>

\* FAULTY: what is left over is taken from the wrong side.
ResultLeft == IF count > 0 THEN count ELSE IF nonblock THEN -EWOULDBLOCK ELSE -EIO

\* ptr - start, or why there is nothing.
Result == IF ptr > 0 THEN ptr ELSE IF nonblock THEN -EWOULDBLOCK ELSE -EIO

WriteReturn ==
  /\ Runs("written")
  /\ ret' = Result /\ masked' = FALSE
  /\ pc' = "idle"
  /\ UNCHANGED <<timerVars, re, we, txVars, rxVars, isrVars, nonblock, ptr, count,
                 before, localVars, fifoVars, hostVars>>

\* altera_avalon_jtag_uart_read(sp, buffer, size, flags).
ReadCall ==
  /\ Runs("idle")
  /\ \E size \in Sizes :
       /\ count' = size
       /\ pc' = IF size > 0 THEN "look" ELSE "read"
  /\ nonblock' \in Modes
  /\ ptr' = 0 /\ before' = Len(got)
  /\ UNCHANGED <<timerVars, re, we, txVars, rxVars, isrVars, masked, localVars, ret,
                 fifoVars, hostVars>>

\* FAULTY: an empty ring looks like a full one.
RxAvailableEmpty(i, o) == IF i > o THEN i - o ELSE BufLen - o

\* Characters from rx_out on, up to the end of the array or to rx_in.
RxAvailable(i, o) == IF i >= o THEN i - o ELSE BufLen - o

\* The indices are read; an empty ring ends the copying.
ReadLook ==
  /\ Runs("look")
  /\ in' = rx_in /\ out' = rx_out
  /\ n' = Least(RxAvailable(rx_in, rx_out), count)
  /\ pc' = IF n' > 0 THEN "fetch"
           ELSE IF ptr > 0 THEN "rearm"
           ELSE IF nonblock THEN "read" ELSE "spin"
  /\ UNCHANGED <<timerVars, re, we, txVars, rxVars, isrVars, callVars, ret, fifoVars,
                 hostVars>>

\* memcpy(ptr, sp->rx_buf + out, n).
ReadFetch ==
  /\ Runs("fetch")
  /\ got' = [k \in 1..(Len(got) + n) |->
               IF k <= Len(got) THEN got[k] ELSE rx_buf[out + (k - Len(got) - 1)]]
  /\ ptr' = ptr + n /\ count' = count - n
  /\ pc' = "free"
  /\ UNCHANGED <<timerVars, re, we, txVars, rx_out, isrVars, nonblock, masked,
                 before, localVars, ret, fifoVars, hostVars>>

\* sp->rx_out = (out + n) % BUF_LEN: from here on the handler may overwrite them.
ReadFree ==
  /\ Runs("free")
  /\ rx_out' = Wrap(out + n)
  /\ pc' = IF count > 0 THEN "look" ELSE "rearm"
  /\ UNCHANGED <<timerVars, re, we, txVars, got, isrVars, callVars, localVars, ret,
                 fifoVars, hostVars>>

\* while (in == sp->rx_in && sp->host_inactive < sp->timeout): its end.
ReadSpin ==
  /\ Runs("spin")
  /\ in # rx_in \/ host_inactive >= timeout
  /\ pc' = "again?"
  /\ UNCHANGED <<timerVars, re, we, txVars, rxVars, isrVars, callVars, localVars,
                 ret, fifoVars, hostVars>>

\* if (in == sp->rx_in) break.
ReadAgain ==
  /\ Runs("again?")
  /\ pc' = IF in = rx_in THEN "read" ELSE "look"
  /\ UNCHANGED <<timerVars, re, we, txVars, rxVars, isrVars, callVars, localVars,
                 ret, fifoVars, hostVars>>

\* FAULTY: receive interrupts stay as the handler left them.
ReadRearmNot ==
  /\ Runs("rearm")
  /\ pc' = "read"
  /\ UNCHANGED <<timerVars, re, we, txVars, rxVars, isrVars, callVars, localVars,
                 ret, fifoVars, hostVars>>

\* There is space in the ring again: between alt_irq_disable_all and enable_all.
ReadRearm ==
  /\ Runs("rearm")
  /\ re' = TRUE
  /\ pc' = "read"
  /\ UNCHANGED <<timerVars, we, txVars, rxVars, isrVars, callVars, localVars, ret,
                 fifoVars, hostVars>>

ReadReturn ==
  /\ Runs("read")
  /\ ret' = Result
  /\ pc' = "idle"
  /\ UNCHANGED <<timerVars, re, we, txVars, rxVars, isrVars, callVars, localVars,
                 fifoVars, hostVars>>

\* altera_avalon_jtag_uart_close(sp, flags).
CloseCall ==
  /\ Runs("idle")
  /\ nonblock' \in Modes /\ ptr' = 0 /\ count' = 0 /\ before' = queued
  /\ pc' = "close"
  /\ UNCHANGED <<timerVars, re, we, txVars, rxVars, isrVars, masked, localVars, ret,
                 fifoVars, hostVars>>

Close ==
  /\ Runs("close")
  /\ LET draining == tx_out # tx_in /\ host_inactive < timeout
     IN  /\ ~draining \/ nonblock
         /\ ret' = IF draining THEN -EWOULDBLOCK ELSE 0
  /\ pc' = "idle"
  /\ UNCHANGED <<timerVars, re, we, txVars, rxVars, isrVars, callVars, localVars,
                 fifoVars, hostVars>>

\* ioctl(TIOCSTIMEOUT): anything that is not a number of seconds from 2 on
\* means to wait forever.
SetTimeout ==
  /\ Runs("idle")
  /\ \E t \in Timeouts :
       /\ timeout # IntMax
       /\ timeout' = IF t >= 2 /\ t < IntMax THEN t ELSE IntMax - 1
  /\ UNCHANGED <<host_inactive, re, we, txVars, rxVars, isrVars, pc, callVars,
                 localVars, ret, fifoVars, hostVars>>

\* What ioctl(TIOCGCONNECTED) answers.
Connected == host_inactive < timeout

Write == \/ WriteSpace \/ WriteCopy \/ WritePublish \/ WriteKick \/ WriteWait
         \/ WriteIdle \/ WriteReturn
Read  == \/ ReadLook \/ ReadFetch \/ ReadFree \/ ReadSpin \/ ReadAgain
         \/ ReadRearm \/ ReadReturn
Call  == WriteCall \/ ReadCall \/ CloseCall \/ SetTimeout

Next == Host \/ IsrEnter \/ Isr \/ Timeout \/ Call \/ Write \/ Read \/ Close

\* The handler runs to its end; a pending interrupt is taken when the handler is
\* off and interrupts are on, the timer's too, which stays pending meanwhile; the
\* caller gets on between interrupts.  Nothing is assumed of the host.
Spec == /\ Init /\ [][Next]_vars
        /\ WF_vars(Isr) /\ WF_vars(IsrEnter) /\ SF_vars(Timeout)
        /\ SF_vars(Write) /\ SF_vars(Read) /\ SF_vars(Close)

-----------------------------------------------------------------------------
\* Properties

Places  == 0..(BufLen - 1)
TimerOK == /\ timeout \in 0..IntMax /\ host_inactive \in 0..IntMax
           /\ re \in BOOLEAN /\ we \in BOOLEAN /\ ac \in BOOLEAN
RxOK    == /\ rx_in \in Places /\ rx_out \in Places /\ rx_buf \in [Places -> Nat]
           /\ typed \in Nat /\ got \in Seq(Nat)
           /\ rxFifo \in Seq(Nat) /\ Len(rxFifo) <= FifoDepth
TxOK    == /\ tx_in \in Places /\ tx_out \in Places /\ tx_buf \in [Places -> Nat]
           /\ queued \in Nat /\ printed \in Seq(Nat)
           /\ txFifo \in Seq(Nat) /\ Len(txFifo) <= FifoDepth
IsrOK   == /\ isr \in {"off", "control", "receive", "transmit"}
           /\ wi \in BOOLEAN /\ space \in 0..FifoDepth /\ ravail \in BOOLEAN
Writing == pc \in {"space", "copy", "publish", "kick", "wait", "idle?", "written", "close"}
Reading == pc \in {"look", "fetch", "free", "spin", "again?", "rearm", "read"}
CallOK  == /\ pc = "idle" \/ Writing \/ Reading
           /\ nonblock \in BOOLEAN /\ masked \in BOOLEAN
           /\ ptr \in Nat /\ count \in Nat /\ before \in Nat /\ ret \in Int
           /\ in \in Places /\ out \in Places /\ n \in 0..BufLen
TypeOK  == TimerOK /\ RxOK /\ TxOK /\ IsrOK /\ CallOK

\* What the program writes the host prints, and what the host types the program
\* reads: once each, in order, whatever the handler does between two accesses of
\* write or read to the rings, and with no more under way than the buffers hold.
TxPipe == INSTANCE CharPipe
            WITH Capacity <- BufLen - 1 + FifoDepth, accepted <- queued, output <- printed
RxPipe == INSTANCE CharPipe
            WITH Capacity <- BufLen - 1 + FifoDepth, accepted <- typed, output <- got
Transmits == TxPipe!Spec
Receives  == RxPipe!Spec

\* No wake-up is lost: while transmit interrupts are off, the transmit ring is
\* empty, or a write is under way that turns them on before it waits or returns.
WriteArmed == we \/ tx_in = tx_out \/ pc \in {"space", "copy", "publish", "kick"}

\* While receive interrupts are off the receive ring is full, or a read has taken
\* characters out of it and turns them on before it returns.
ReadArmed ==
  \/ re \/ Wrap(rx_in + 1) = rx_out
  \/ ptr > 0 /\ pc \in {"look", "fetch", "free", "rearm"}

\* A call answers how many characters it passed on, however often it waited: a
\* caller that goes on after that many neither loses nor repeats one, and after an
\* error, with none.
CountIsExact ==
  [][/\ WriteReturn => queued = before + (IF ret' > 0 THEN ret' ELSE 0)
     /\ ReadReturn => Len(got) = before + (IF ret' > 0 THEN ret' ELSE 0)]_vars

\* A write waits only when the ring is full, even if the handler has made room since
\* it looked, so one that finds room for all its characters returns even when its
\* caller has interrupts disabled, as dmaISR has.
WaitsOnlyWhenFull ==
  pc = "wait" /\ out = tx_out => Wrap(tx_in + 1) = tx_out

\* "Host not connected": a blocking write gives up without having queued anything
\* only when the driver holds the host for absent.
EioMeansAbsent ==
  [][WriteIdle /\ pc' = "written" /\ ptr = 0 => ~Connected]_vars

\* A write or close returns: the host takes the characters, or it is silent and the
\* time-out ends the wait.  (Not with interrupts disabled, nor without an alarm, nor
\* after TIOCSTIMEOUT with "forever".)
WritesReturn == Writing /\ timeout <= IntMax - 2 ~> ~Writing

\* A read returns when the host has typed something: it cannot go on waiting for a
\* character that the ring or the core already has.
ReadsReturn == Reading /\ Len(got) < typed ~> ~Reading
=============================================================================
