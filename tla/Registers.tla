------------------------------ MODULE Registers ------------------------------
(***************************************************************************)
(* Chains of clocked registers, the one storage element every module of    *)
(* src/hardware/custom is built from.  A chain of n registers is a         *)
(* function on 1..n: element 1 is the register next to the input and       *)
(* element n drives the output.  The operators give the contents of the    *)
(* chain after a rising clock edge from its contents before it.            *)
(***************************************************************************)
EXTENDS Integers

(***************************************************************************)
(* A 32-bit floating-point word is abstracted to the input it was computed *)
(* from.  The token Zero is the word 0.0, written or left by a reset.      *)
(***************************************************************************)
CONSTANTS
  X,          \* the non-zero inputs
  Zero,       \* the word 0.0
  Garbage     \* a word computed from two different inputs

ASSUME WordConstants == Zero \notin X /\ Garbage \notin X \cup {Zero}

Input == X \cup {Zero}
Word  == Input \cup {Garbage}

\* One edge of a chain with neither enable nor reset.
Shift(chain, in) == [k \in DOMAIN chain |-> IF k = 1 THEN in ELSE chain[k - 1]]

\* One edge of dspba_delay with reset_kind "ASYNC": areset clears every
\* register, otherwise the chain moves only while the enable is high.
Delay(chain, in, ena, aclr, cleared) ==
  IF aclr THEN [k \in DOMAIN chain |-> cleared]
  ELSE IF ena THEN Shift(chain, in) ELSE chain

\* The output an edge samples: areset is asynchronous, so while it is
\* asserted the registers have been cleared before the edge arrives.
DelayOut(chain, n, aclr, cleared) == IF aclr THEN cleared ELSE chain[n]
=============================================================================
