-------------------------------- MODULE Irq --------------------------------
(***************************************************************************)
(* Interrupts of the Nios II with its internal controller, as the HAL uses *)
(* them: the global enable PIE in the status register, the mask IENABLE,   *)
(* the table of handlers and the dispatcher alt_irq_handler.               *)
(*                                                                         *)
(* Contexts that alt_irq_disable_all returns are kept in local variables,  *)
(* nested as the calls are; together with the status that an interrupt     *)
(* saves they form one stack.                                              *)
(***************************************************************************)
EXTENDS Integers, Sequences

Seqs == INSTANCE SequencesExt
Sets == INSTANCE FiniteSetsExt

CONSTANT Irqs         \* interrupt numbers: the lower one is served first

ASSUME IrqConstants == Irqs \subseteq Nat

VARIABLES
  pie,       \* status.PIE
  saved,     \* contexts to be restored, innermost last
  ienable,   \* alt_irq_active, and IENABLE with it
  handler,   \* alt_irq[i].handler
  line,      \* the interrupts that devices request
  level,     \* where the processor is
  active,    \* what the dispatcher last read from IPENDING
  current    \* the interrupt whose handler runs

maskVars  == <<pie, saved>>
tableVars == <<ienable, handler>>
cpuVars   == <<level, active, current>>
irqVars   == <<maskVars, tableVars, line, cpuVars>>

NULL == "null"
pending == line \cap ienable

\* What a reset leaves; the mask and the table are cleared with the BSS.
IrqReset ==
  /\ pie = FALSE /\ saved = <<>> /\ ienable = {}
  /\ handler = [i \in Irqs |-> NULL]
  /\ line = {} /\ level = "program" /\ active = {} /\ current = Sets!Min(Irqs)

-----------------------------------------------------------------------------
\* alt_irq_disable_all returns the status it found.
DisableAll == saved' = Append(saved, pie) /\ pie' = FALSE

\* FAULTY: enables, whatever was the case before.
EnableAllAlways == pie' = TRUE /\ saved' = Seqs!Front(saved)

\* FAULTY: the saved status is not put back.
EnableAllNever == pie' = FALSE /\ saved' = Seqs!Front(saved)

\* alt_irq_enable_all restores it: at the end of an inner section interrupts stay off.
EnableAll == pie' = Seqs!Last(saved) /\ saved' = Seqs!Front(saved)

\* The processor takes an interrupt between two instructions.
Enter ==
  /\ pie /\ pending # {}
  /\ DisableAll
  /\ level' = "entry"
  /\ UNCHANGED <<tableVars, line, active, current>>

\* .exceptions.irqtest, and the first reading of alt_irq_handler.  Without a pending
\* interrupt the entry code takes the exception for an unknown instruction.
Test ==
  /\ level = "entry"
  /\ level' = IF pending = {} THEN "unknown" ELSE "scan"
  /\ active' = pending
  /\ UNCHANGED <<maskVars, tableVars, line, current>>

\* The inner loop of alt_irq_handler, up to the call of the handler.
Scan ==
  /\ level = "scan" /\ active # {}
  /\ current' = Sets!Min(active)
  /\ level' = "handler"
  /\ UNCHANGED <<maskVars, tableVars, line, active>>

\* FAULTY: goes on with the rest of what it read before.
AgainStale ==
  /\ level = "handled"
  /\ active' = active \ {current}
  /\ level' = IF active' = {} THEN "exit" ELSE "scan"
  /\ UNCHANGED <<maskVars, tableVars, line, current>>

\* A handler has returned: the pending interrupts are read again.
Again ==
  /\ level = "handled"
  /\ active' = pending
  /\ level' = IF pending = {} THEN "exit" ELSE "scan"
  /\ UNCHANGED <<maskVars, tableVars, line, current>>

\* .exceptions.exit: eret.
Exit ==
  /\ level = "exit"
  /\ EnableAll
  /\ level' = "program"
  /\ UNCHANGED <<tableVars, line, active, current>>

Dispatch == Test \/ Scan \/ Again \/ Exit

-----------------------------------------------------------------------------
\* The two writes of alt_iic_isr_register: to withdraw a handler disables its interrupt.
SetHandler(i, isr) == handler' = [handler EXCEPT ![i] = isr]
SetEnable(i, isr) ==
  ienable' = IF isr # NULL THEN ienable \cup {i} ELSE ienable \ {i}
=============================================================================
