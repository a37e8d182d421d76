------------------------------ MODULE Profile ------------------------------
(***************************************************************************)
(* The profiler: mcount in alt_mcount.S, which every instrumented function *)
(* calls first, and __mcount_record in alt_gmon.c.  The program and an     *)
(* interrupt handler are both instrumented; the handler runs to its end    *)
(* between any two steps of the program's while interrupts are enabled.    *)
(*                                                                         *)
(* A list is a sequence with the head last, so that a walk from a head     *)
(* that was read once sees what was there at that moment.  Memory for the  *)
(* entries is always found.                                                *)
(***************************************************************************)
EXTENDS Integers, Sequences

Sets == INSTANCE FiniteSetsExt

CONSTANTS
  Functions,  \* functions, of one bucket of __mcount_fn_head
  Callers,    \* places they are called from
  MaxCalls    \* calls of an execution

Contexts == {"main", "handler"}
NONE == 0     \* in place of an entry

VARIABLES
  fns,        \* the list of functions: self_pc
  arcs,       \* of every function entry the list of arcs: from_pc and count
  irqs,       \* are interrupts enabled?
  need_init,  \* pcsample_need_init
  clock,      \* does the system clock run?
  sampling,   \* has the sampler been started?
  ctx,        \* of each context where it is in mcount, and its locals
  calls, lost \* of every arc the calls recorded, and the counts written over

vars == <<fns, arcs, irqs, need_init, clock, sampling, ctx, calls, lost>>

AllArcs == Functions \X Callers

Idle == [pc |-> "idle", self |-> NONE, from |-> NONE, entry |-> NONE, arc |-> NONE, was |-> 0]

Init ==
  /\ fns = <<>> /\ arcs = <<>> /\ irqs = TRUE
  /\ need_init = 1 /\ clock = FALSE /\ sampling = FALSE
  /\ ctx = [c \in Contexts |-> Idle]
  /\ calls = [a \in AllArcs |-> 0] /\ lost = [a \in AllArcs |-> 0]

\* The sum of the values of a function.
Total(f) == Sets!SumFunction(f)

Begun == Total(calls) + Total([c \in Contexts |-> IF ctx[c].pc = "idle" THEN 0 ELSE 1])

\* Context c is at label p and has the processor.
At(c, p) == ctx[c].pc = p /\ (c = "main" => ctx["handler"].pc = "idle")

\* The first entry from the head with property P, if there is one.
FirstIn(list, P(_)) == LET S == {i \in DOMAIN list : P(list[i])} IN IF S = {} THEN NONE ELSE Sets!Max(S)

Goto(c, p) == ctx' = [ctx EXCEPT ![c].pc = p]

ArcOf(c) == <<ctx[c].self, ctx[c].from>>

-----------------------------------------------------------------------------
\* mcount.

Call(c, f, from) ==
  /\ At(c, "idle") /\ Begun < MaxCalls
  /\ c = "handler" => irqs
  /\ ctx' = [ctx EXCEPT ![c] = [Idle EXCEPT !.pc = "function", !.self = f, !.from = from]]
  /\ UNCHANGED <<fns, arcs, irqs, need_init, clock, sampling, calls, lost>>

\* Walk the list of functions; without an entry there is no arc either.
FindFunction(c) ==
  /\ At(c, "function")
  /\ LET e == FirstIn(fns, LAMBDA f : f = ctx[c].self)
     IN  ctx' = [ctx EXCEPT ![c].entry = e, ![c].pc = IF e = NONE THEN "test" ELSE "arc"]
  /\ UNCHANGED <<fns, arcs, irqs, need_init, clock, sampling, calls, lost>>

FindArc(c) ==
  /\ At(c, "arc")
  /\ LET k == FirstIn(arcs[ctx[c].entry], LAMBDA a : a.from = ctx[c].from)
     IN  ctx' = [ctx EXCEPT ![c].arc = k, ![c].pc = IF k = NONE THEN "test" ELSE "load"]
  /\ UNCHANGED <<fns, arcs, irqs, need_init, clock, sampling, calls, lost>>

\* .Lfound_arc: load, add, store.
LoadCount(c) ==
  /\ At(c, "load")
  /\ ctx' = [ctx EXCEPT ![c].was = arcs[ctx[c].entry][ctx[c].arc].count, ![c].pc = "store"]
  /\ UNCHANGED <<fns, arcs, irqs, need_init, clock, sampling, calls, lost>>

StoreCount(c) ==
  /\ At(c, "store")
  /\ arcs' = [arcs EXCEPT ![ctx[c].entry][ctx[c].arc].count = ctx[c].was + 1]
  /\ lost' = [lost EXCEPT ![ArcOf(c)] = @ + arcs[ctx[c].entry][ctx[c].arc].count - ctx[c].was]
  /\ calls' = [calls EXCEPT ![ArcOf(c)] = @ + 1]
  /\ ctx' = [ctx EXCEPT ![c] = Idle]
  /\ UNCHANGED <<fns, irqs, need_init, clock, sampling>>

-----------------------------------------------------------------------------
\* __mcount_record.

TestInit(c) ==
  /\ At(c, "test") /\ Goto(c, IF need_init = 1 THEN "clear" ELSE "mask")
  /\ UNCHANGED <<fns, arcs, irqs, need_init, clock, sampling, calls, lost>>

ClearInit(c) ==
  /\ At(c, "clear") /\ Goto(c, "init")
  /\ need_init' = 0
  /\ UNCHANGED <<fns, arcs, irqs, clock, sampling, calls, lost>>

\* nios2_pcsample_init: without a clock its answer is 1. The flag is set to its answer
\* when it is back.
nios2_pcsample_init(c) ==
  /\ At(c, "init")
  /\ ctx' = [ctx EXCEPT ![c].was = IF clock THEN 0 ELSE 1, ![c].pc = "answer"]
  /\ sampling' = (sampling \/ clock)
  /\ UNCHANGED <<fns, arcs, irqs, need_init, clock, calls, lost>>

SetInit(c) ==
  /\ At(c, "answer") /\ Goto(c, "mask")
  /\ need_init' = ctx[c].was
  /\ UNCHANGED <<fns, arcs, irqs, clock, sampling, calls, lost>>

\* FAULTY: the lists are linked with interrupts enabled.
MaskNot(c) ==
  /\ At(c, "mask") /\ Goto(c, "link")
  /\ UNCHANGED <<fns, arcs, irqs, need_init, clock, sampling, calls, lost>>

Mask(c) ==
  /\ At(c, "mask") /\ Goto(c, "link")
  /\ irqs' = FALSE
  /\ UNCHANGED <<fns, arcs, need_init, clock, sampling, calls, lost>>

\* A new entry of the list of functions, and the head that the arc will be linked to.
LinkFunction(c) ==
  /\ At(c, "link")
  /\ IF ctx[c].entry = NONE
     THEN /\ fns' = Append(fns, ctx[c].self) /\ arcs' = Append(arcs, <<>>)
          /\ ctx' = [ctx EXCEPT ![c].entry = Len(fns) + 1, ![c].was = 0, ![c].pc = "publish"]
     ELSE /\ ctx' = [ctx EXCEPT ![c].was = Len(arcs[ctx[c].entry]), ![c].pc = "publish"]
          /\ UNCHANGED <<fns, arcs>>
  /\ UNCHANGED <<irqs, need_init, clock, sampling, calls, lost>>

LinkArc(c) ==
  /\ At(c, "publish") /\ Goto(c, "unmask")
  /\ LET next == SubSeq(arcs[ctx[c].entry], 1, ctx[c].was)
     IN  arcs' = [arcs EXCEPT ![ctx[c].entry] = Append(next, [from |-> ctx[c].from, count |-> 1])]
  /\ calls' = [calls EXCEPT ![ArcOf(c)] = @ + 1]
  /\ UNCHANGED <<fns, irqs, need_init, clock, sampling, lost>>

\* A handler that runs was entered with interrupts enabled, and runs with them disabled
\* all the time: here only the program's own section counts.
Unmask(c) ==
  /\ At(c, "unmask")
  /\ ctx' = [ctx EXCEPT ![c] = Idle]
  /\ irqs' = TRUE
  /\ UNCHANGED <<fns, arcs, need_init, clock, sampling, calls, lost>>

\* alt_sys_init starts the clock.
ClockStarts ==
  /\ ~clock /\ clock' = TRUE
  /\ UNCHANGED <<fns, arcs, irqs, need_init, sampling, ctx, calls, lost>>

-----------------------------------------------------------------------------
Next ==
  \/ \E c \in Contexts :
       \/ \E f \in Functions, from \in Callers : Call(c, f, from)
       \/ FindFunction(c) \/ FindArc(c) \/ LoadCount(c) \/ StoreCount(c)
       \/ TestInit(c) \/ ClearInit(c) \/ nios2_pcsample_init(c) \/ SetInit(c)
       \/ Mask(c) \/ LinkFunction(c) \/ LinkArc(c) \/ Unmask(c)
  \/ ClockStarts

Spec == Init /\ [][Next]_vars

-----------------------------------------------------------------------------
\* The count of arc a over all its copies.
Recorded(a) ==
  Total([e \in DOMAIN fns |->
    Total([k \in DOMAIN arcs[e] |->
      IF fns[e] = a[1] /\ arcs[e][k].from = a[2] THEN arcs[e][k].count ELSE 0])])

\* However the program and the handler meet in mcount, no entry of a list is lost: the
\* copies of every arc add up to the calls recorded, but for the counts that one of
\* them has stored over the other's.
Counted == \A a \in AllArcs : Recorded(a) + lost[a] = calls[a]

\* The attempts to start the sampler end only with its start.
SamplerStarts == need_init = 0 => sampling \/ \E c \in Contexts : ctx[c].pc \in {"init", "answer"}

ProfileRight == Counted /\ SamplerStarts
=============================================================================
