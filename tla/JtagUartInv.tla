---------------------------- MODULE JtagUartInv ----------------------------
(***************************************************************************)
(* Why the rings of JtagUart need no lock: an inductive invariant.  It     *)
(* says of every place of a ring that lies between the two indices which   *)
(* character it holds, and of the caller, between its reading of the       *)
(* indices and its moving its own, that what it found is still true: the   *)
(* handler can only have made more room, or more characters.               *)
(***************************************************************************)
EXTENDS JtagUart

\* Places from index o on, up to index i.
Span(i, o) == IF o <= i THEN i - o ELSE i + BufLen - o

\* Place k lies from index o on, before index i.
Within(k, i, o) == IF o <= i THEN o <= k /\ k < i ELSE o <= k \/ k < i

\* The transmit side: characters Len(printed) + 1 to queued are in the FIFO and
\* then in the ring.
TxFirst == Len(printed) + Len(txFifo)
TxInv ==
  /\ \A k \in 1..Len(printed) : printed[k] = k
  /\ \A k \in 1..Len(txFifo) : txFifo[k] = Len(printed) + k
  /\ queued = TxFirst + Span(tx_in, tx_out)
  /\ \A k \in 0..(BufLen - 1) :
       Within(k, tx_in, tx_out) => tx_buf[k] = TxFirst + 1 + Span(k, tx_out)
  /\ isr \in {"receive", "transmit"} => space + Len(txFifo) <= FifoDepth

\* The room a write has found is there until it has used it, and before tx_in
\* moves the characters are in place.
RoomInv ==
  pc \in {"copy", "publish"} =>
    /\ in = tx_in /\ n > 0
    /\ IF in < tx_out THEN in + n < tx_out
       ELSE in + n <= BufLen /\ (in + n = BufLen => tx_out > 0)
CopiedInv ==
  pc = "publish" =>
    \A k \in 0..(BufLen - 1) : in <= k /\ k < in + n => tx_buf[k] = queued + 1 + (k - in)

\* The receive side: characters Len(got) + 1 to typed are in the ring and then in
\* the FIFO; those a read has copied and not yet freed are also in the ring.
Unfreed == IF pc = "free" THEN n ELSE 0
RxFirst == Len(got) - Unfreed
RxInv ==
  /\ \A k \in 1..Len(got) : got[k] = k
  /\ typed = RxFirst + Span(rx_in, rx_out) + Len(rxFifo)
  /\ \A k \in 1..Len(rxFifo) : rxFifo[k] = typed - Len(rxFifo) + k
  /\ \A k \in 0..(BufLen - 1) :
       Within(k, rx_in, rx_out) => rx_buf[k] = RxFirst + 1 + Span(k, rx_out)

\* The characters a read has found are there until it frees them.
FoundInv ==
  pc \in {"fetch", "free"} =>
    /\ out = rx_out /\ n > 0
    /\ IF rx_out <= rx_in THEN out + n <= rx_in ELSE out + n <= BufLen

\* Of what a call has done, ptr is the measure; a call has something left to copy.
CallInv ==
  /\ pc \in {"space", "copy", "kick", "wait", "idle?", "written"} => queued = before + ptr
  /\ pc = "publish" => queued + n = before + ptr
  /\ pc \in {"look", "fetch", "free", "spin", "again?", "rearm", "read"} =>
       Len(got) = before + ptr
  /\ pc \in {"copy", "fetch"} => n <= count
  /\ pc = "free" => ptr > 0
  /\ pc = "wait" \/ (pc = "kick" /\ count > 0) => Wrap(tx_in + 1) = out

IInv == /\ TypeOK /\ TxInv /\ RoomInv /\ CopiedInv /\ RxInv /\ FoundInv /\ CallInv
        /\ WriteArmed /\ ReadArmed /\ WaitsOnlyWhenFull
=============================================================================
