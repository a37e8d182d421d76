----------------------------- MODULE JtagUartMC -----------------------------
(***************************************************************************)
(* Instances of JtagUart for TLC.                                          *)
(***************************************************************************)
EXTENDS JtagUartInv

One   == {1}
Three == {3}
None  == {}
Waits == {FALSE}
=============================================================================
