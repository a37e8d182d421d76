------------------------------- MODULE Alarm -------------------------------
(***************************************************************************)
(* The system clock and its alarms (alt_tick.c, alt_alarm_start.c,         *)
(* alt_alarm.h, altera_avalon_timer_sc.c).  Every interrupt of the timer   *)
(* is a tick: alt_tick walks the list of alarms and calls back those whose *)
(* time has come.  The tick counter is a machine word; an alarm beyond its *)
(* roll-over is marked so that it does not fire before it.                 *)
(*                                                                         *)
(* Ticks and the alarm's own calls run with interrupts disabled, so they   *)
(* do not interleave; but a callback, in the middle of the walk, may       *)
(* itself start and stop alarms, and the list is circular and              *)
(* intrusive: an alarm that is not in it points to itself.                 *)
(***************************************************************************)
EXTENDS Integers

CONSTANTS
  Alarms,      \* the alt_alarm structures of the program and the drivers
  alarm_list,  \* alt_alarm_list
  Word,        \* the tick counter counts modulo this, 2^32
  Intervals,   \* arguments of alt_alarm_start
  Periods,     \* what callbacks return
  StopNext,    \* whether a callback may stop the alarm that the walk visits next
  Rate,        \* ticks per second
  MaxEpoch     \* bound: how often the counter rolls over

ASSUME AlarmConstants ==
  /\ alarm_list \notin Alarms
  /\ Word \in Nat /\ Word > 1
  /\ Intervals \subseteq 0..(Word - 2) /\ Periods \subseteq 0..(Word - 1)
  /\ StopNext \in BOOLEAN /\ Rate \in Nat \ {0} /\ MaxEpoch \in Nat

ENOTSUP == 134

VARIABLES
  tick_rate,             \* _alt_tick_rate, 0 while there is no clock
  nticks,                \* _alt_nticks
  epoch,                 \* how often it rolled over
  next, previous,        \* of every alt_llist
  time, rollover,        \* of every alarm
  pc, alarm, nxt,        \* where alt_tick is, and its locals
  acted,                 \* the callback under way has started or stopped an alarm
  registered,            \* the alarms registered at present
  due,                   \* when they are to be called: <<epoch, tick>>
  ret                    \* the value alt_alarm_start last returned

clockVars == <<tick_rate, nticks, epoch>>
listVars  == <<next, previous>>
walkVars  == <<pc, alarm, nxt, acted>>
vars == <<clockVars, listVars, time, rollover, walkVars, registered, due, ret>>

Nodes == Alarms \cup {alarm_list}

\* The head points to itself, and so do the alarms: the program does not stop one
\* that it has never started, whose pointers are null, and here that would change
\* nothing.
Init ==
  /\ tick_rate = 0 /\ nticks = 0 /\ epoch = 0
  /\ next = [x \in Nodes |-> x] /\ previous = [x \in Nodes |-> x]
  /\ time = [a \in Alarms |-> 0] /\ rollover = [a \in Alarms |-> FALSE]
  /\ pc = "idle" /\ alarm = alarm_list /\ nxt = alarm_list /\ acted = FALSE
  /\ registered = {} /\ due = [a \in Alarms |-> <<0, 0>>] /\ ret = 0

-----------------------------------------------------------------------------
\* Lists (alt_llist.h): a new entry is the first one.
Insert(a) ==
  LET linked == [next EXCEPT ![a] = next[alarm_list], ![alarm_list] = a]
      back   == [previous EXCEPT ![a] = alarm_list, ![next[alarm_list]] = a]
  IN  next' = linked /\ previous' = back

\* FAULTY: the entry keeps its own pointers.
RemoveKeeping(a) ==
  /\ next'     = [next EXCEPT ![previous[a]] = next[a]]
  /\ previous' = [previous EXCEPT ![next[a]] = previous[a]]

\* FAULTY: the predecessor still points to the entry.
RemoveHalf(a) ==
  /\ next'     = [next EXCEPT ![a] = a]
  /\ previous' = [previous EXCEPT ![next[a]] = previous[a], ![a] = a]

\* A removed entry points to itself: to remove it again is harmless.
Remove(a) ==
  /\ next'     = [next EXCEPT ![previous[a]] = next[a], ![a] = a]
  /\ previous' = [previous EXCEPT ![next[a]] = previous[a], ![a] = a]

\* The sum of two words.
Add(s, t) == IF s + t < Word THEN s + t ELSE s + t - Word

\* A time p = <<epoch, tick>>, d ticks later.
Later(p, d) == IF p[2] + d < Word THEN <<p[1], p[2] + d>> ELSE <<p[1] + 1, p[2] + d - Word>>

Before(p, q) == p[1] < q[1] \/ (p[1] = q[1] /\ p[2] < q[2])

-----------------------------------------------------------------------------
\* alt_avalon_timer_sc_init, through alt_sysclk_init.
SysclkInit ==
  /\ pc = "idle" /\ tick_rate = 0
  /\ tick_rate' = Rate
  /\ UNCHANGED <<nticks, epoch, listVars, time, rollover, walkVars, registered, due, ret>>

\* The part of alt_alarm_start between disabling and enabling interrupts, with the
\* clock read as now.  The first tick may come at once: one is added, so that the
\* interval is complete.
Register(a, n, now) ==
  LET t == Add(Add(n, now), 1)
  IN  /\ time' = [time EXCEPT ![a] = t]
      /\ rollover' = [rollover EXCEPT ![a] = t < now]
      /\ Insert(a)
      /\ registered' = registered \cup {a}
      /\ due' = [due EXCEPT ![a] = Later(<<epoch, nticks>>, n + 1)]

\* alt_alarm_start, of an alarm that is not registered.
Start(a, n) ==
  /\ a \notin registered
  /\ \/ tick_rate # 0 /\ ret' = 0 /\ Register(a, n, nticks)
     \/ tick_rate = 0 /\ ret' = -ENOTSUP /\ UNCHANGED <<time, rollover, listVars, registered, due>>

\* alt_alarm_stop, of an alarm that is registered or was.
Stop(a) ==
  /\ Remove(a)
  /\ registered' = registered \ {a}
  /\ due' = [due EXCEPT ![a] = <<0, 0>>]
  /\ UNCHANGED <<time, rollover, ret>>

\* The program or a driver calls, outside of ticks.
CallStart == /\ pc = "idle"
             /\ \E a \in Alarms, n \in Intervals : Start(a, n)
             /\ UNCHANGED <<clockVars, walkVars>>
CallStop  == /\ pc = "idle"
             /\ \E a \in Alarms : Stop(a)
             /\ UNCHANGED <<clockVars, walkVars>>

-----------------------------------------------------------------------------
\* alt_avalon_timer_sc_irq and alt_tick up to the loop.
Tick ==
  /\ pc = "idle" /\ tick_rate # 0
  /\ nticks < Word - 1 \/ epoch < MaxEpoch
  /\ nticks' = Add(nticks, 1)
  /\ epoch' = IF nticks' = 0 THEN epoch + 1 ELSE epoch
  /\ alarm' = next[alarm_list]
  /\ pc' = "walk"
  /\ UNCHANGED <<tick_rate, listVars, time, rollover, nxt, acted, registered, due, ret>>

\* FAULTY: the mark is not cleared when the counter rolls over.
VisitMarked ==
  /\ pc = "walk" /\ alarm # alarm_list
  /\ nxt' = next[alarm]
  /\ IF time[alarm] <= nticks /\ ~rollover[alarm]
       THEN pc' = "callback" /\ alarm' = alarm
       ELSE pc' = "walk" /\ alarm' = nxt'
  /\ UNCHANGED <<clockVars, listVars, time, rollover, acted, registered, due, ret>>

\* One alarm of the list, up to its callback.
Visit ==
  /\ pc = "walk" /\ alarm # alarm_list
  /\ nxt' = next[alarm]
  /\ rollover' = [rollover EXCEPT ![alarm] = @ /\ nticks # 0]
  /\ IF time[alarm] <= nticks /\ ~rollover'[alarm]
       THEN pc' = "callback" /\ alarm' = alarm
       ELSE pc' = "walk" /\ alarm' = nxt'
  /\ UNCHANGED <<clockVars, listVars, time, acted, registered, due, ret>>

\* What a callback may do before it returns.
CallbackStart ==
  /\ pc = "callback" /\ ~acted /\ acted' = TRUE
  /\ \E a \in Alarms \ {alarm}, n \in Intervals : Start(a, n)
  /\ UNCHANGED <<clockVars, pc, alarm, nxt>>

CallbackStop ==
  /\ pc = "callback" /\ ~acted /\ acted' = TRUE
  /\ \E a \in Alarms : (a # nxt \/ StopNext) /\ Stop(a)
  /\ UNCHANGED <<clockVars, pc, alarm, nxt>>

\* The callback returns 0: alt_alarm_stop.
CallbackEnds ==
  /\ pc = "callback" /\ 0 \in Periods
  /\ Stop(alarm)
  /\ pc' = "walk" /\ alarm' = nxt /\ acted' = FALSE
  /\ UNCHANGED <<clockVars, nxt>>

\* The callback returns the number of ticks until the next one.
CallbackAgain ==
  /\ pc = "callback"
  /\ \E p \in Periods \ {0} :
       LET t == Add(time[alarm], p)
       IN  /\ time' = [time EXCEPT ![alarm] = t]
           /\ rollover' = [rollover EXCEPT ![alarm] = @ \/ t < nticks]
           /\ due' = [due EXCEPT ![alarm] = IF alarm \in registered THEN Later(@, p) ELSE @]
  /\ pc' = "walk" /\ alarm' = nxt /\ acted' = FALSE
  /\ UNCHANGED <<clockVars, listVars, nxt, registered, ret>>

\* The end of the list.
TickReturns ==
  /\ pc = "walk" /\ alarm = alarm_list
  /\ pc' = "idle" /\ nxt' = alarm_list
  /\ UNCHANGED <<clockVars, listVars, time, rollover, alarm, acted, registered, due, ret>>

Next == \/ SysclkInit \/ CallStart \/ CallStop \/ Tick \/ Visit
        \/ CallbackStart \/ CallbackStop \/ CallbackEnds \/ CallbackAgain
        \/ TickReturns

Spec == Init /\ [][Next]_vars

-----------------------------------------------------------------------------
\* Properties

Now == <<epoch, nticks>>

TypeOK ==
  /\ tick_rate \in {0, Rate} /\ nticks \in 0..(Word - 1) /\ epoch \in Nat
  /\ next \in [Nodes -> Nodes] /\ previous \in [Nodes -> Nodes]
  /\ time \in [Alarms -> 0..(Word - 1)] /\ rollover \in [Alarms -> BOOLEAN]
  /\ pc \in {"idle", "walk", "callback"} /\ alarm \in Nodes /\ nxt \in Nodes
  /\ acted \in BOOLEAN /\ registered \subseteq Alarms
  /\ due \in [Alarms -> Nat \X (0..(Word - 1))]
  /\ ret \in {0, -ENOTSUP}

Linked == registered \cup {alarm_list}

\* Both directions agree, an alarm that is not registered points to itself, and who
\* follows the list from its head meets every alarm that is.
ListOK ==
  /\ \A x \in Nodes : next[previous[x]] = x /\ previous[next[x]] = x
  /\ \A a \in Alarms \ registered : next[a] = a
  /\ \A S \in SUBSET Linked :
       alarm_list \in S /\ (\A x \in S : next[x] \in S) => S = Linked

\* The walk stands on an alarm of the list or at its end, and goes on to another one.
WalkOK ==
  /\ pc = "walk" => alarm \in Linked
  /\ pc = "callback" => alarm \in Alarms /\ nxt \in Linked \ {alarm}

\* The members of R that one meets from x to the end of the list, going where f points.
From(f, R, x) ==
  {a \in R : \A S \in SUBSET Nodes :
               x \in S /\ (\A y \in S \ {alarm_list} : f[y] \in S) => a \in S}

\* The alarms the tick under way has not done with.
Left == IF pc = "walk" THEN From(next, registered, alarm)
        ELSE IF pc = "callback" THEN From(next, registered, nxt) \cup {alarm} ELSE {}

\* How time and roll-over mark stand for the moment an alarm is due: no alarm is
\* overdue, and the mark says that the counter has to roll over first.
TimesOK ==
  \A a \in registered :
    /\ due[a][2] = time[a]
    /\ ~Before(due[a], Now)
    /\ due[a] = Now => a \in Left
    /\ rollover[a] => \/ due[a][1] = epoch + 1
                      \/ due[a][1] = epoch /\ nticks = 0 /\ a \in Left
    /\ ~rollover[a] \/ nticks = 0 => due[a][1] = epoch
    /\ pc = "callback" /\ a = alarm => due[a] = Now /\ ~rollover[a]

IInv == TypeOK /\ ListOK /\ WalkOK /\ TimesOK

\* An alarm is called back at its time, neither sooner nor later, also when the
\* counter rolls over in between or its period is almost a whole turn of it.
Punctual ==
  /\ pc = "callback" /\ alarm \in registered => due[alarm] = Now
  /\ pc = "idle" => \A a \in registered : Before(Now, due[a])

\* alt_alarm_stop unregisters a callback: once it has returned the callback is not
\* called.
StoppedIsSilent == [][Visit /\ pc' = "callback" => alarm \in registered]_vars
=============================================================================
