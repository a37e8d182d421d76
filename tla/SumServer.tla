----------------------------- MODULE SumServer ------------------------------
(***************************************************************************)
(* The contract between the f_of_x peripheral and the programs that use    *)
(* it.  The peripheral promises a sum: writes add to it, a restart or a    *)
(* reset sets it to zero, a read returns it.  A read takes effect when it  *)
(* is accepted; its answer comes later and ignores the terms written in    *)
(* between.  The program promises to have one read at a time, and to       *)
(* restart only when the sum of all it has written has been returned.      *)
(***************************************************************************)
EXTENDS Sequences

CONSTANTS X, Zero, NoSum

VARIABLES
  sum,        \* the terms written since the last restart
  asked,      \* the sum a read that is not answered yet will return, or NoSum
  answer,     \* the answer given in this step, or NoSum
  settled,    \* the sum of all terms written has been returned
  latest      \* no term was written since the last read was accepted

vars == <<sum, asked, answer, settled, latest>>

Init == /\ sum = <<>> /\ asked = NoSum /\ answer = NoSum
        /\ settled = TRUE /\ latest = FALSE

-----------------------------------------------------------------------------
\* What the peripheral does with the commands, whenever they come.

Answered == asked # NoSum /\ answer' = asked /\ asked' = NoSum
Waiting  == answer' = NoSum /\ UNCHANGED asked

\* A term is written; a read may be answered in the same instant.
Write(x) == /\ sum' = IF x = Zero THEN sum ELSE Append(sum, x)
            /\ Answered \/ Waiting
            /\ settled' = FALSE /\ latest' = FALSE

Clear  == sum' = <<>> /\ Waiting /\ UNCHANGED <<settled, latest>>
Accept == /\ asked' = sum /\ answer' = NoSum /\ latest' = TRUE
          /\ UNCHANGED <<sum, settled>>
Reply  == /\ Answered /\ settled' = (settled \/ latest)
          /\ UNCHANGED <<sum, latest>>
Rest   == Waiting /\ UNCHANGED <<sum, settled, latest>>
Reset  == /\ sum' = <<>> /\ asked' = NoSum /\ answer' = NoSum
          /\ settled' = TRUE /\ latest' = FALSE

-----------------------------------------------------------------------------
\* The commands, when the program may give them.

Restart == asked = NoSum /\ settled /\ Clear
Ask     == asked = NoSum /\ Accept

Next == \/ \E x \in X \cup {Zero} : Write(x)
        \/ Restart \/ Ask \/ Reply \/ Rest \/ Reset

Spec == Init /\ [][Next]_vars
=============================================================================
