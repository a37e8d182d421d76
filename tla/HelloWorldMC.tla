---------------------------- MODULE HelloWorldMC ----------------------------
(***************************************************************************)
(* An instance of HelloWorld for TLC.                                      *)
(***************************************************************************)
EXTENDS HelloWorld

SmallSizes == <<1, 3, 6>>
=============================================================================
