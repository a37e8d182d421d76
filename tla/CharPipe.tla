------------------------------ MODULE CharPipe ------------------------------
(***************************************************************************)
(* What one direction of the JTAG UART driver promises: characters come    *)
(* out once each, in the order in which they went in, and no more of them  *)
(* are under way than the buffers hold.  The k-th character is the         *)
(* number k.                                                               *)
(***************************************************************************)
EXTENDS Naturals, Sequences

CONSTANTS Capacity   \* characters under way at most

VARIABLES
  accepted,   \* how many characters went in
  output      \* what came out so far

Init == accepted = 0 /\ output = <<>>

Put == /\ accepted' \in accepted..(Len(output) + Capacity)
       /\ UNCHANGED output

Get == /\ \E n \in Len(output)..accepted : output' = [k \in 1..n |-> k]
       /\ UNCHANGED accepted

Spec == Init /\ [][Put \/ Get]_<<accepted, output>>
=============================================================================
