---------------------------- MODULE BoardProofs ----------------------------
(***************************************************************************)
(* First the alarms by themselves: IInv is an inductive invariant of       *)
(* module Alarm, for any number of alarms and any width of the tick        *)
(* counter.  Then the running system: BInv relates the interrupts, the     *)
(* table of handlers and the list of alarms to the steps that the program  *)
(* has yet to do, and from it follow the properties of module Board, and   *)
(* that the system implements module Alarm, so that whatever is proved of  *)
(* the alarms holds of the interrupted program as well.                    *)
(***************************************************************************)
EXTENDS Board, SequenceTheorems, TLAPS

USE DEF clockVars, listVars, walkVars

-----------------------------------------------------------------------------
\* The alarms by themselves: the list.

\* Of the list as it stands: it is closed, and no alarm in it follows itself.
LEMMA Closed ==
  ASSUME TypeOK, ListOK
  PROVE  /\ \A x \in Linked : next[x] \in Linked
         /\ \A x \in registered : next[x] # x
         /\ \A a \in Alarms \ registered : previous[a] = a
<1>. USE AlarmConstants DEF Linked, Nodes
<1>1. \A x \in Nodes : /\ next[x] \in Nodes /\ previous[x] \in Nodes
                       /\ next[previous[x]] = x /\ previous[next[x]] = x
  BY DEF TypeOK, ListOK
<1>2. \A a \in Alarms \ registered : previous[a] = a
  BY <1>1 DEF TypeOK, ListOK
<1>3. \A x \in Linked : next[x] \in Linked
  <2>. SUFFICES ASSUME NEW x \in Linked, next[x] \notin Linked PROVE FALSE
    OBVIOUS
  <2>1. x \in Nodes /\ next[x] \in Alarms \ registered
    BY <1>1 DEF TypeOK
  <2>. QED  BY <2>1, <1>1, <1>2 DEF TypeOK
<1>4. \A x \in registered : next[x] # x
  <2>. SUFFICES ASSUME NEW x \in registered, next[x] = x PROVE FALSE
    OBVIOUS
  <2>1. \A y \in Linked \ {x} : next[y] \in Linked \ {x}
    BY <1>1, <1>3 DEF TypeOK
  <2>2. Linked \ {x} = Linked
    <3>1. Linked \ {x} \in SUBSET Linked /\ alarm_list \in Linked \ {x}
      BY DEF TypeOK
    <3>. QED  BY <3>1, <2>1 DEF ListOK
  <2>. QED  BY <2>2
<1>. QED  BY <1>2, <1>3, <1>4

\* What alt_llist_insert keeps.
LEMMA Inserted ==
  ASSUME TypeOK, ListOK, NEW a \in Alarms \ registered, Insert(a),
         registered' = registered \cup {a}
  PROVE  /\ next' \in [Nodes -> Nodes] /\ previous' \in [Nodes -> Nodes]
         /\ ListOK'
         /\ \A x \in Linked : From(next, registered, x) \subseteq From(next', registered', x)
<1>. USE AlarmConstants DEF Nodes
<1>. DEFINE h == alarm_list
            f == next[h]
<1>1. /\ next \in [Nodes -> Nodes] /\ previous \in [Nodes -> Nodes]
      /\ registered \subseteq Alarms /\ a \in Nodes /\ h \in Nodes /\ a # h
  BY DEF TypeOK
<1>2. /\ \A x \in Linked : next[x] \in Linked
      /\ next[a] = a /\ previous[a] = a /\ f \in Linked /\ f # a
      /\ \A x \in Nodes : next[previous[x]] = x /\ previous[next[x]] = x
  BY Closed, <1>1 DEF ListOK, Linked
<1>3. /\ next' = [next EXCEPT ![a] = f, ![h] = a]
      /\ previous' = [previous EXCEPT ![a] = h, ![f] = a]
  BY DEF Insert
<1>4. /\ next' \in [Nodes -> Nodes] /\ previous' \in [Nodes -> Nodes]
      /\ next'[a] = f /\ next'[h] = a /\ \A x \in Nodes \ {a, h} : next'[x] = next[x]
      /\ previous'[a] = h /\ previous'[f] = a
      /\ \A x \in Nodes \ {a, f} : previous'[x] = previous[x]
  BY <1>1, <1>2, <1>3 DEF Linked
<1>5. \A x \in Nodes : next'[previous'[x]] = x /\ previous'[next'[x]] = x
  <2>. SUFFICES ASSUME NEW x \in Nodes
                PROVE  next'[previous'[x]] = x /\ previous'[next'[x]] = x
    OBVIOUS
  <2>1. CASE x = a  BY <2>1, <1>4, <1>1
  <2>2. CASE x = h
    BY <2>2, <1>4, <1>1, <1>2
  <2>3. CASE x = f /\ x # h
    BY <2>3, <1>4, <1>1, <1>2
  <2>4. CASE x \notin {a, h, f}
    BY <2>4, <1>4, <1>1, <1>2
  <2>. QED  BY <2>1, <2>2, <2>3, <2>4
<1>6. \A b \in Alarms \ registered' : next'[b] = b
  BY <1>4, <1>1 DEF ListOK
<1>7. ASSUME NEW S \in SUBSET Linked', h \in S, \A x \in S : next'[x] \in S
      PROVE  S = Linked'
  <2>1. Linked' = Linked \cup {a} /\ a \notin Linked
    BY <1>1 DEF Linked
  <2>2. a \in S /\ f \in S
    BY <1>7, <1>4
  <2>3. \A x \in S \ {a} : next[x] \in S \ {a}
    BY <1>7, <1>1, <1>2, <1>4, <2>1, <2>2 DEF Linked
  <2>4. S \ {a} = Linked
    BY <2>1, <2>3, <1>7, <1>1 DEF ListOK
  <2>. QED  BY <2>1, <2>2, <2>4
<1>8. ListOK'
  BY <1>5, <1>6, <1>7 DEF ListOK
<1>9. ASSUME NEW x \in Linked, NEW b \in From(next, registered, x)
      PROVE  b \in From(next', registered', x)
  <2>. SUFFICES ASSUME NEW S \in SUBSET Nodes, x \in S,
                       \A y \in S \ {h} : next'[y] \in S
                PROVE  b \in S
    BY <1>9 DEF From
  <2>1. \A y \in S \ {h} : next[y] \in S
    BY <1>1, <1>2, <1>4
  <2>. QED  BY <1>9, <2>1 DEF From
<1>. QED  BY <1>4, <1>8, <1>9

\* What alt_llist_remove keeps, also of an entry that is not in the list.
LEMMA Removed ==
  ASSUME TypeOK, ListOK, NEW b \in Alarms, Remove(b),
         registered' = registered \ {b}
  PROVE  /\ next' \in [Nodes -> Nodes] /\ previous' \in [Nodes -> Nodes]
         /\ ListOK'
         /\ \A x \in Linked \ {b} : From(next, registered, x) \ {b} \subseteq From(next', registered', x)
<1>. USE AlarmConstants DEF Nodes
<1>. DEFINE h == alarm_list
            p == previous[b]
            n == next[b]
<1>1. /\ next \in [Nodes -> Nodes] /\ previous \in [Nodes -> Nodes]
      /\ registered \subseteq Alarms /\ b \in Nodes /\ h \in Nodes /\ b # h
      /\ p \in Nodes /\ n \in Nodes
  BY DEF TypeOK
<1>2. /\ \A x \in Linked : next[x] \in Linked
      /\ next[p] = b /\ previous[n] = b
      /\ \A x \in Nodes : next[previous[x]] = x /\ previous[next[x]] = x
      /\ \A x \in Nodes : next[x] \in Nodes /\ previous[x] \in Nodes
  BY Closed, <1>1 DEF ListOK
<1>3. /\ next' = [next EXCEPT ![p] = n, ![b] = b]
      /\ previous' = [previous EXCEPT ![n] = p, ![b] = b]
  BY DEF Remove
<1>4. /\ next' \in [Nodes -> Nodes] /\ previous' \in [Nodes -> Nodes]
      /\ next'[b] = b /\ (p # b => next'[p] = n)
      /\ \A x \in Nodes \ {p, b} : next'[x] = next[x]
      /\ previous'[b] = b /\ (n # b => previous'[n] = p)
      /\ \A x \in Nodes \ {n, b} : previous'[x] = previous[x]
  BY <1>1, <1>3
<1>5. \A x \in Nodes : next'[previous'[x]] = x /\ previous'[next'[x]] = x
  <2>. SUFFICES ASSUME NEW x \in Nodes
                PROVE  next'[previous'[x]] = x /\ previous'[next'[x]] = x
    OBVIOUS
  <2>1. CASE x = b  BY <2>1, <1>4
  <2>2. CASE x # b
    <3>1. next'[previous'[x]] = x
      BY <2>2, <1>1, <1>2, <1>4
    <3>2. previous'[next'[x]] = x
      BY <2>2, <1>1, <1>2, <1>4
    <3>. QED  BY <3>1, <3>2
  <2>. QED  BY <2>1, <2>2
<1>6. \A c \in Alarms \ registered' : next'[c] = c
  <2>. SUFFICES ASSUME NEW c \in Alarms \ registered', c # b PROVE next'[c] = c
    BY <1>4
  <2>1. next[c] = c /\ c \in Nodes
    BY DEF ListOK
  <2>. QED  BY <2>1, <1>1, <1>2, <1>4
<1>7. ASSUME NEW S \in SUBSET Linked', h \in S, \A x \in S : next'[x] \in S
      PROVE  S = Linked'
  <2>1. Linked' = Linked \ {b} /\ S \subseteq Nodes /\ b \notin S
    BY <1>1 DEF Linked
  <2>2. CASE p \in S
    <3>1. next'[p] = n /\ n \in S
      BY <2>2, <2>1, <1>4, <1>7
    <3>2. b \in Linked
      <4>. SUFFICES ASSUME b \notin Linked PROVE FALSE
        OBVIOUS
      <4>1. n = b
        BY <1>1 DEF ListOK, Linked
      <4>. QED  BY <4>1, <3>1, <2>1
    <3>3. \A x \in S \cup {b} : next[x] \in S \cup {b}
      BY <3>1, <2>1, <1>4, <1>7, <1>2
    <3>4. S \cup {b} \in SUBSET Linked /\ h \in S \cup {b}
      BY <3>2, <2>1, <1>7
    <3>5. S \cup {b} = Linked
      BY <3>3, <3>4 DEF ListOK
    <3>. QED  BY <3>5, <2>1
  <2>3. CASE p \notin S
    <3>1. \A x \in S : next[x] \in S
      BY <2>3, <2>1, <1>4, <1>7
    <3>2. S \in SUBSET Linked
      BY <2>1
    <3>3. S = Linked
      BY <3>1, <3>2, <1>7 DEF ListOK
    <3>. QED  BY <3>3, <2>1
  <2>. QED  BY <2>2, <2>3
<1>8. ListOK'
  BY <1>5, <1>6, <1>7 DEF ListOK
<1>9. ASSUME NEW x \in Linked \ {b}, NEW a \in From(next, registered, x), a # b
      PROVE  a \in From(next', registered', x)
  <2>. SUFFICES ASSUME NEW S \in SUBSET Nodes, x \in S,
                       \A y \in S \ {h} : next'[y] \in S
                PROVE  a \in S
    BY <1>9 DEF From
  <2>1. \A T \in SUBSET Nodes : x \in T /\ (\A y \in T \ {h} : next[y] \in T) => a \in T
    BY <1>9 DEF From
  <2>2. CASE p \in S \ {h, b}
    <3>1. \A y \in (S \cup {b}) \ {h} : next[y] \in S \cup {b}
      BY <2>2, <1>1, <1>2, <1>4
    <3>2. S \cup {b} \in SUBSET Nodes
      BY <1>1
    <3>. QED  BY <3>1, <3>2, <2>1, <1>9
  <2>3. CASE p \notin S \ {h, b}
    <3>1. \A y \in S \ {h, b} : next[y] \in S \ {b}
      BY <2>3, <1>1, <1>2, <1>4
    <3>2. S \ {b} \in SUBSET Nodes /\ x \in S \ {b}
      BY <1>9
    <3>3. \A y \in (S \ {b}) \ {h} : next[y] \in S \ {b}
      BY <3>1
    <3>. QED  BY <3>3, <3>2, <2>1
  <2>. QED  BY <2>2, <2>3
<1>. QED  BY <1>4, <1>8, <1>9

\* Where the walk goes.
LEMMA Walked ==
  ASSUME TypeOK, ListOK
  PROVE  /\ \A x \in Linked : From(next, registered, x) \subseteq registered
         /\ From(next, registered, alarm_list) = {}
         /\ registered \subseteq From(next, registered, next[alarm_list])
         /\ \A x \in registered : /\ x \in From(next, registered, x)
                                  /\ From(next, registered, x) \subseteq {x} \cup From(next, registered, next[x])
<1>. USE AlarmConstants DEF Nodes
<1>. DEFINE h == alarm_list
<1>1. /\ next \in [Nodes -> Nodes] /\ registered \subseteq Alarms /\ h \notin registered
      /\ Linked \subseteq Nodes /\ h \in Nodes
      /\ \A x \in Linked : next[x] \in Linked
  BY Closed DEF TypeOK, Linked
<1>2. \A x \in Linked : From(next, registered, x) \subseteq registered
  BY DEF From
<1>3. From(next, registered, h) = {}
  <2>. SUFFICES ASSUME NEW a \in From(next, registered, h) PROVE FALSE
    OBVIOUS
  <2>1. {h} \in SUBSET Nodes /\ a \in registered
    BY <1>1 DEF From
  <2>2. a \in {h}
    BY <2>1 DEF From
  <2>. QED  BY <2>1, <2>2, <1>1
<1>4. ASSUME NEW a \in registered PROVE a \in From(next, registered, next[h])
  <2>. SUFFICES ASSUME NEW S \in SUBSET Nodes, next[h] \in S,
                       \A y \in S \ {h} : next[y] \in S
                PROVE  a \in S
    BY DEF From
  <2>. DEFINE T == (S \cup {h}) \cap Linked
  <2>1. T \in SUBSET Linked /\ h \in T
    BY DEF Linked
  <2>2. \A x \in T : next[x] \in T
    BY <1>1
  <2>3. T = Linked
    BY <2>1, <2>2 DEF ListOK
  <2>. QED  BY <2>3, <1>1 DEF Linked
<1>5. ASSUME NEW x \in registered
      PROVE  x \in From(next, registered, x) /\ From(next, registered, x) \subseteq {x} \cup From(next, registered, next[x])
  <2>1. x \in From(next, registered, x)
    BY DEF From
  <2>2. ASSUME NEW a \in From(next, registered, x), a # x PROVE a \in From(next, registered, next[x])
    <3>. SUFFICES ASSUME NEW S \in SUBSET Nodes, next[x] \in S,
                         \A y \in S \ {h} : next[y] \in S
                  PROVE  a \in S
      BY <2>2 DEF From
    <3>1. S \cup {x} \in SUBSET Nodes
      BY <1>1
    <3>2. \A y \in (S \cup {x}) \ {h} : next[y] \in S \cup {x}
      OBVIOUS
    <3>3. a \in S \cup {x}
      BY <3>1, <3>2 DEF From
    <3>. QED  BY <3>3, <2>2
  <2>. QED  BY <2>1, <2>2
<1>. QED  BY <1>2, <1>3, <1>4, <1>5

-----------------------------------------------------------------------------
\* Words.

\* Sums of words.
LEMMA Words ==
  ASSUME NEW s \in 0..(Word - 1), NEW d \in 0..(Word - 1)
  PROVE  /\ Add(s, d) \in 0..(Word - 1)
         /\ \A e \in Nat : /\ Later(<<e, s>>, d) \in Nat \X (0..(Word - 1))
                           /\ Later(<<e, s>>, d)[2] = Add(s, d)
                           /\ Later(<<e, s>>, d)[1] = IF s + d < Word THEN e ELSE e + 1
  BY AlarmConstants DEF Add, Later

\* The time of an alarm that is started, and the moment it is due.
LEMMA Started ==
  ASSUME TypeOK, NEW n \in Intervals
  PROVE  LET t == Add(Add(n, nticks), 1)
             d == Later(<<epoch, nticks>>, n + 1)
         IN  /\ t \in 0..(Word - 1) /\ d \in Nat \X (0..(Word - 1))
             /\ d[2] = t
             /\ (t < nticks) <=> (d[1] = epoch + 1)
             /\ ~(t < nticks) <=> (d[1] = epoch)
             /\ Before(Now, d) /\ ~Before(d, Now) /\ d # Now
             /\ nticks = 0 => d[1] = epoch
<1>1. n \in Nat /\ nticks \in Nat /\ epoch \in Nat /\ Word \in Nat
      /\ n <= Word - 2 /\ nticks <= Word - 1 /\ Word > 1
  BY AlarmConstants DEF TypeOK
<1>2. CASE n + 1 + nticks < Word
  <2>1. /\ Add(Add(n, nticks), 1) = n + nticks + 1
        /\ Later(<<epoch, nticks>>, n + 1) = <<epoch, n + nticks + 1>>
    BY <1>1, <1>2 DEF Add, Later
  <2>. QED  BY <2>1, <1>1, <1>2 DEF Before, Now
<1>3. CASE ~(n + 1 + nticks < Word)
  <2>1. /\ Add(Add(n, nticks), 1) = n + nticks + 1 - Word
        /\ Later(<<epoch, nticks>>, n + 1) = <<epoch + 1, n + nticks + 1 - Word>>
    BY <1>1, <1>3 DEF Add, Later
  <2>. QED  BY <2>1, <1>1, <1>3 DEF Before, Now
<1>. QED  BY <1>2, <1>3

\* The same for an alarm that is due now and is moved on by a period.
LEMMA MovedOn ==
  ASSUME TypeOK, NEW p \in Periods \ {0}
  PROVE  LET t == Add(nticks, p)
             d == Later(<<epoch, nticks>>, p)
         IN  /\ t \in 0..(Word - 1) /\ d \in Nat \X (0..(Word - 1))
             /\ d[2] = t
             /\ (t < nticks) <=> (d[1] = epoch + 1)
             /\ ~(t < nticks) <=> (d[1] = epoch)
             /\ Before(Now, d) /\ ~Before(d, Now) /\ d # Now
             /\ nticks = 0 => d[1] = epoch
<1>1. p \in Nat /\ nticks \in Nat /\ epoch \in Nat /\ Word \in Nat
      /\ 1 <= p /\ p <= Word - 1 /\ nticks <= Word - 1 /\ Word > 1
  BY AlarmConstants DEF TypeOK
<1>2. CASE nticks + p < Word
  <2>1. /\ Add(nticks, p) = nticks + p
        /\ Later(<<epoch, nticks>>, p) = <<epoch, nticks + p>>
    BY <1>1, <1>2 DEF Add, Later
  <2>. QED  BY <2>1, <1>1, <1>2 DEF Before, Now
<1>3. CASE ~(nticks + p < Word)
  <2>1. /\ Add(nticks, p) = nticks + p - Word
        /\ Later(<<epoch, nticks>>, p) = <<epoch + 1, nticks + p - Word>>
    BY <1>1, <1>3 DEF Add, Later
  <2>. QED  BY <2>1, <1>1, <1>3 DEF Before, Now
<1>. QED  BY <1>2, <1>3

-----------------------------------------------------------------------------
\* The steps of the alarms and of the tick.

\* What TimesOK says of one alarm, with the set of those the tick has not done with.
TimeOK(a, L) ==
  /\ due[a][2] = time[a]
  /\ ~Before(due[a], Now)
  /\ due[a] = Now => a \in L
  /\ rollover[a] => \/ due[a][1] = epoch + 1
                    \/ due[a][1] = epoch /\ nticks = 0 /\ a \in L
  /\ ~rollover[a] \/ nticks = 0 => due[a][1] = epoch
  /\ pc = "callback" /\ a = alarm => due[a] = Now /\ ~rollover[a]

\* TimesOK, alarm by alarm.
LEMMA Times ==
  TimesOK <=> \A a \in registered : TimeOK(a, Left)
BY DEF TimesOK, TimeOK

\* A time that is not before another one and comes from the same moment of the counter.
LEMMA Moments ==
  ASSUME TypeOK, NEW a \in Alarms
  PROVE  /\ due[a] = <<due[a][1], due[a][2]>> /\ due[a][1] \in Nat /\ due[a][2] \in 0..(Word - 1)
         /\ (due[a] = Now) <=> (due[a][1] = epoch /\ due[a][2] = nticks)
  BY DEF TypeOK, Now

\* The clock is registered.
LEMMA SysclkStep ==
  ASSUME IInv, SysclkInit PROVE IInv'
<1>1. TypeOK'
  BY DEF IInv, TypeOK, SysclkInit
<1>2. ListOK' /\ WalkOK'
  BY DEF IInv, ListOK, WalkOK, Linked, SysclkInit
<1>3. TimesOK'
  BY DEF IInv, TimesOK, SysclkInit, Left, From, Now
<1>. QED  BY <1>1, <1>2, <1>3 DEF IInv

\* A tick begins: every alarm that is due now is ahead of the walk.
LEMMA TickStep ==
  ASSUME IInv, Tick PROVE IInv'
<1>. USE AlarmConstants DEF Nodes
<1>1. TypeOK /\ ListOK /\ TimesOK
  BY DEF IInv
<1>2. /\ nticks' = Add(nticks, 1) /\ epoch' = (IF nticks' = 0 THEN epoch + 1 ELSE epoch)
      /\ pc = "idle" /\ pc' = "walk" /\ alarm' = next[alarm_list]
      /\ UNCHANGED <<listVars, time, rollover, nxt, acted, registered, due, ret, tick_rate>>
  BY DEF Tick
<1>3. /\ nticks \in Nat /\ epoch \in Nat /\ nticks <= Word - 1 /\ Word \in Nat /\ Word > 1
      /\ alarm_list \in Nodes /\ next \in [Nodes -> Nodes]
  BY <1>1 DEF TypeOK
<1>4. \/ nticks < Word - 1 /\ nticks' = nticks + 1 /\ epoch' = epoch
      \/ nticks = Word - 1 /\ nticks' = 0 /\ epoch' = epoch + 1
  BY <1>2, <1>3 DEF Add
<1>5. TypeOK'
  <2>1. nticks' \in 0..(Word - 1) /\ epoch' \in Nat /\ alarm' \in Nodes
    BY <1>2, <1>3, <1>4
  <2>. QED  BY <1>1, <1>2, <2>1 DEF TypeOK
<1>6. ListOK'
  BY <1>1, <1>2 DEF ListOK, Linked
<1>7. WalkOK'
  BY <1>1, <1>2, Closed DEF WalkOK, Linked
<1>8. ASSUME NEW a \in registered PROVE TimeOK(a, Left)'
  <2>1. a \in Alarms /\ a \in From(next, registered, next[alarm_list])
    BY <1>1, Walked DEF TypeOK
  <2>2. a \in Left'
    BY <2>1, <1>2 DEF Left
  <2>3. /\ due[a][1] \in Nat /\ due[a][2] \in 0..(Word - 1)
        /\ due[a] = <<due[a][1], due[a][2]>>
        /\ due[a][2] = time[a] /\ ~Before(due[a], Now) /\ due[a] # Now
        /\ rollover[a] => due[a][1] = epoch + 1
        /\ ~rollover[a] => due[a][1] = epoch
    BY <1>1, <1>2, <2>1, Moments DEF TimesOK, Left
  <2>4. ~Before(due[a], Now)'
    BY <1>2, <1>3, <1>4, <2>3 DEF Before, Now
  <2>5. /\ rollover[a] => \/ due[a][1] = epoch' + 1
                          \/ due[a][1] = epoch' /\ nticks' = 0
        /\ ~rollover[a] \/ nticks' = 0 => due[a][1] = epoch'
    BY <1>3, <1>4, <2>3 DEF Before, Now
  <2>. QED  BY <1>2, <2>2, <2>3, <2>4, <2>5 DEF TimeOK
<1>9. TimesOK'
  BY <1>2, <1>8 DEF TimesOK, TimeOK
<1>. QED  BY <1>5, <1>6, <1>7, <1>9 DEF IInv

\* The walk looks at an alarm.
LEMMA VisitStep ==
  ASSUME IInv, Visit PROVE IInv'
<1>. USE AlarmConstants DEF Nodes
<1>1. TypeOK /\ ListOK /\ WalkOK /\ TimesOK
  BY DEF IInv
<1>2. /\ pc = "walk" /\ alarm # alarm_list
      /\ nxt' = next[alarm]
      /\ rollover' = [rollover EXCEPT ![alarm] = @ /\ nticks # 0]
      /\ UNCHANGED <<clockVars, listVars, time, acted, registered, due, ret>>
  BY DEF Visit
<1>3. /\ alarm \in registered /\ alarm \in Alarms /\ alarm \in Linked
      /\ next[alarm] \in Linked /\ next[alarm] # alarm /\ next[alarm] \in Nodes
  BY <1>1, <1>2, Closed DEF WalkOK, Linked, TypeOK
<1>4. /\ rollover'[alarm] = (rollover[alarm] /\ nticks # 0)
      /\ rollover' \in [Alarms -> BOOLEAN]
      /\ \A a \in Alarms \ {alarm} : rollover'[a] = rollover[a]
  BY <1>1, <1>2, <1>3 DEF TypeOK
<1>5. \/ /\ time[alarm] <= nticks /\ ~rollover'[alarm]
         /\ pc' = "callback" /\ alarm' = alarm
      \/ /\ ~(time[alarm] <= nticks /\ ~rollover'[alarm])
         /\ pc' = "walk" /\ alarm' = next[alarm]
  BY <1>2 DEF Visit
<1>6. TypeOK'
  BY <1>1, <1>2, <1>3, <1>4, <1>5 DEF TypeOK
<1>7. ListOK'
  BY <1>1, <1>2 DEF ListOK, Linked
<1>8. WalkOK'
  BY <1>2, <1>3, <1>5 DEF WalkOK, Linked
<1>9. /\ nticks \in Nat /\ epoch \in Nat /\ time[alarm] \in Nat
      /\ due[alarm] = <<due[alarm][1], due[alarm][2]>>
      /\ due[alarm][1] \in Nat /\ due[alarm][2] = time[alarm]
      /\ ~Before(due[alarm], Now)
      /\ rollover[alarm] => \/ due[alarm][1] = epoch + 1
                            \/ due[alarm][1] = epoch /\ nticks = 0
      /\ ~rollover[alarm] \/ nticks = 0 => due[alarm][1] = epoch
  BY <1>1, <1>3, Moments DEF TypeOK, TimesOK
<1>10. (time[alarm] <= nticks /\ ~rollover'[alarm]) <=> due[alarm] = Now
  <2>1. (due[alarm] = Now) <=> (due[alarm][1] = epoch /\ time[alarm] = nticks)
    BY <1>1, <1>3, <1>9, Moments
  <2>2. rollover[alarm] \in BOOLEAN
    BY <1>1, <1>3 DEF TypeOK
  <2>3. CASE rollover[alarm] /\ nticks # 0
    <3>1. due[alarm][1] = epoch + 1 /\ epoch \in Nat
      BY <2>3, <1>9
    <3>2. due[alarm][1] # epoch
      BY <3>1
    <3>3. rollover'[alarm]
      BY <2>3, <1>4
    <3>. QED  BY <3>2, <3>3, <2>1
  <2>4. CASE ~(rollover[alarm] /\ nticks # 0)
    <3>1. due[alarm][1] = epoch
      BY <2>4, <2>2, <1>9
    <3>2. ~(time[alarm] < nticks)
      BY <3>1, <1>9 DEF Before, Now
    <3>3. (time[alarm] <= nticks) <=> (time[alarm] = nticks)
      BY <3>2, <1>9
    <3>. QED  BY <2>1, <2>4, <3>1, <3>3, <1>4
  <2>. QED  BY <2>3, <2>4
<1>11. From(next, registered, alarm) \subseteq {alarm} \cup From(next, registered, next[alarm])
  BY <1>1, <1>3, Walked
<1>12. Left' = From(next, registered, next[alarm]) \cup
                 (IF pc' = "callback" THEN {alarm} ELSE {})
  BY <1>2, <1>5 DEF Left
<1>13. ASSUME NEW a \in registered PROVE TimeOK(a, Left)'
  <2>1. TimeOK(a, From(next, registered, alarm)) /\ a \in Alarms
    BY <1>1, <1>2, Times DEF Left, TypeOK
  <2>2. CASE a = alarm
    BY <2>1, <2>2, <1>2, <1>4, <1>5, <1>9, <1>10, <1>12 DEF TimeOK, Now
  <2>3. CASE a # alarm
    BY <2>1, <2>3, <1>2, <1>4, <1>5, <1>11, <1>12 DEF TimeOK, Now
  <2>. QED  BY <2>2, <2>3
<1>14. TimesOK'
  BY <1>2, <1>13 DEF TimesOK, TimeOK
<1>. QED  BY <1>6, <1>7, <1>8, <1>14 DEF IInv

\* alt_alarm_start of an alarm other than the one that is being called back.
LEMMA StartStep ==
  ASSUME IInv, NEW a \in Alarms, NEW n \in Intervals, Start(a, n),
         pc = "idle" \/ (pc = "callback" /\ a # alarm), acted' \in BOOLEAN,
         UNCHANGED <<clockVars, pc, alarm, nxt>>
  PROVE  IInv'
<1>. USE AlarmConstants DEF Nodes
<1>1. TypeOK /\ ListOK /\ WalkOK /\ TimesOK
  BY DEF IInv
<1>2. CASE UNCHANGED <<time, rollover, listVars, registered, due>> /\ ret' = -ENOTSUP
  <2>1. TypeOK'
    BY <1>1, <1>2 DEF TypeOK
  <2>2. ListOK' /\ WalkOK'
    BY <1>1, <1>2 DEF ListOK, WalkOK, Linked
  <2>3. TimesOK'
    BY <1>1, <1>2 DEF TimesOK, Left, From, Now
  <2>. QED  BY <2>1, <2>2, <2>3 DEF IInv
<1>3. CASE ret' = 0 /\ Register(a, n, nticks)
  <2>. DEFINE t == Add(Add(n, nticks), 1)
              d == Later(<<epoch, nticks>>, n + 1)
  <2>1. /\ time' = [time EXCEPT ![a] = t]
        /\ rollover' = [rollover EXCEPT ![a] = t < nticks]
        /\ due' = [due EXCEPT ![a] = d]
        /\ Insert(a) /\ registered' = registered \cup {a}
        /\ a \in Alarms \ registered
    BY <1>3 DEF Register, Start
  <2>2. /\ t \in 0..(Word - 1) /\ d \in Nat \X (0..(Word - 1))
        /\ d[2] = t
        /\ (t < nticks) <=> (d[1] = epoch + 1)
        /\ ~(t < nticks) <=> (d[1] = epoch)
        /\ Before(Now, d) /\ ~Before(d, Now) /\ d # Now
        /\ nticks = 0 => d[1] = epoch
    BY <1>1, Started
  <2>3. /\ next' \in [Nodes -> Nodes] /\ previous' \in [Nodes -> Nodes] /\ ListOK'
        /\ \A x \in Linked : From(next, registered, x) \subseteq From(next', registered', x)
    BY <1>1, <2>1, Inserted
  <2>. HIDE DEF t, d
  <2>4. /\ time' \in [Alarms -> 0..(Word - 1)] /\ rollover' \in [Alarms -> BOOLEAN]
        /\ due' \in [Alarms -> Nat \X (0..(Word - 1))]
        /\ time'[a] = t /\ rollover'[a] = (t < nticks) /\ due'[a] = d
        /\ \A b \in Alarms \ {a} : /\ time'[b] = time[b] /\ rollover'[b] = rollover[b]
                                   /\ due'[b] = due[b]
    BY <1>1, <2>1, <2>2 DEF TypeOK
  <2>5. TypeOK'
    BY <1>1, <1>3, <2>1, <2>3, <2>4 DEF TypeOK
  <2>6. WalkOK'
    BY <1>1, <2>1 DEF WalkOK, Linked
  <2>7. Left \subseteq Left'
    BY <1>1, <2>3 DEF Left, WalkOK
  <2>8. ASSUME NEW b \in registered' PROVE TimeOK(b, Left)'
    <3>1. b \in Alarms
      BY <2>1, <1>1 DEF TypeOK
    <3>2. CASE b = a
      BY <3>2, <2>2, <2>4 DEF TimeOK, Now
    <3>3. CASE b # a
      <4>1. TimeOK(b, Left)
        BY <3>3, <2>1, <1>1, Times
      <4>. QED  BY <4>1, <3>1, <3>3, <2>4, <2>7 DEF TimeOK, Now
    <3>. QED  BY <3>2, <3>3
  <2>9. TimesOK'
    BY <2>8 DEF TimesOK, TimeOK
  <2>. QED  BY <2>3, <2>5, <2>6, <2>9 DEF IInv
<1>. QED  BY <1>2, <1>3 DEF Start

\* alt_alarm_stop, where the walk goes on at an alarm other than the one that is stopped.
LEMMA StopStep ==
  ASSUME IInv, NEW b \in Alarms, Stop(b), UNCHANGED clockVars,
         nxt' = nxt, acted' \in BOOLEAN,
         \/ pc = "idle" /\ pc' = pc /\ alarm' = alarm
         \/ pc = "callback" /\ b # nxt /\ pc' = pc /\ alarm' = alarm
         \/ pc = "callback" /\ b = alarm /\ pc' = "walk" /\ alarm' = nxt
  PROVE  IInv'
<1>. USE AlarmConstants DEF Nodes
<1>1. TypeOK /\ ListOK /\ WalkOK /\ TimesOK
  BY DEF IInv
<1>2. /\ Remove(b) /\ registered' = registered \ {b}
      /\ due' = [due EXCEPT ![b] = <<0, 0>>] /\ UNCHANGED <<time, rollover, ret>>
  BY DEF Stop
<1>3. /\ next' \in [Nodes -> Nodes] /\ previous' \in [Nodes -> Nodes] /\ ListOK'
      /\ \A x \in Linked \ {b} : From(next, registered, x) \ {b} \subseteq From(next', registered', x)
  BY <1>1, <1>2, Removed
<1>4. pc = "callback" => alarm \in Alarms /\ nxt \in Linked \ {b} /\ nxt # alarm
  BY <1>1 DEF WalkOK
<1>5. /\ due' \in [Alarms -> Nat \X (0..(Word - 1))]
      /\ \A a \in Alarms \ {b} : due'[a] = due[a]
  <2>1. <<0, 0>> \in Nat \X (0..(Word - 1))
    OBVIOUS
  <2>. QED  BY <1>1, <1>2, <2>1 DEF TypeOK
<1>6. TypeOK'
  BY <1>1, <1>2, <1>3, <1>4, <1>5 DEF TypeOK
<1>7. WalkOK'
  BY <1>1, <1>2, <1>4 DEF WalkOK, Linked
<1>8. Left \ {b} \subseteq Left'
  BY <1>3, <1>4 DEF Left
<1>9. ASSUME NEW a \in registered' PROVE TimeOK(a, Left)'
  <2>1. TimeOK(a, Left) /\ a \in Alarms /\ a # b
    BY <1>1, <1>2, Times DEF TypeOK
  <2>2. /\ due'[a] = due[a] /\ time'[a] = time[a] /\ rollover'[a] = rollover[a]
        /\ nticks' = nticks /\ epoch' = epoch
    BY <2>1, <1>2, <1>5
  <2>3. a \in Left => a \in Left'
    BY <2>1, <1>8
  <2>4. pc' = "callback" /\ a = alarm' => pc = "callback" /\ a = alarm
    OBVIOUS
  <2>. QED  BY <2>1, <2>2, <2>3, <2>4 DEF TimeOK, Now, Before
<1>10. TimesOK'
  BY <1>9 DEF TimesOK, TimeOK
<1>. QED  BY <1>3, <1>6, <1>7, <1>10 DEF IInv

\* A callback returns a period.
LEMMA AgainStep ==
  ASSUME IInv, CallbackAgain PROVE IInv'
<1>. USE AlarmConstants DEF Nodes
<1>1. TypeOK /\ ListOK /\ WalkOK /\ TimesOK
  BY DEF IInv
<1>2. PICK p \in Periods \ {0} :
        /\ time' = [time EXCEPT ![alarm] = Add(time[alarm], p)]
        /\ rollover' = [rollover EXCEPT ![alarm] = @ \/ Add(time[alarm], p) < nticks]
        /\ due' = [due EXCEPT ![alarm] = IF alarm \in registered THEN Later(@, p) ELSE @]
  BY DEF CallbackAgain
<1>3. /\ pc = "callback" /\ pc' = "walk" /\ alarm' = nxt /\ acted' = FALSE
      /\ UNCHANGED <<clockVars, listVars, nxt, registered, ret>>
  BY DEF CallbackAgain
<1>4. /\ alarm \in Alarms /\ nxt \in Linked /\ nxt # alarm
      /\ time[alarm] \in 0..(Word - 1) /\ rollover[alarm] \in BOOLEAN /\ p \in 0..(Word - 1)
      /\ nticks \in 0..(Word - 1) /\ epoch \in Nat
  BY <1>1, <1>3 DEF WalkOK, TypeOK
<1>. DEFINE t == Add(time[alarm], p)
            d == IF alarm \in registered THEN Later(due[alarm], p) ELSE due[alarm]
<1>5. alarm \in registered =>
        /\ due[alarm] = <<epoch, nticks>> /\ time[alarm] = nticks /\ ~rollover[alarm]
  BY <1>1, <1>3 DEF TimesOK, Now
<1>6. alarm \in registered =>
        /\ t \in 0..(Word - 1) /\ d \in Nat \X (0..(Word - 1))
        /\ d[2] = t
        /\ (t < nticks) <=> (d[1] = epoch + 1)
        /\ ~(t < nticks) <=> (d[1] = epoch)
        /\ Before(Now, d) /\ ~Before(d, Now) /\ d # Now
        /\ nticks = 0 => d[1] = epoch
  BY <1>1, <1>5, MovedOn
<1>7. t \in 0..(Word - 1) /\ d \in Nat \X (0..(Word - 1)) /\ (t < nticks) \in BOOLEAN
  <2>1. t \in 0..(Word - 1)
    BY <1>4, Words
  <2>2. d \in Nat \X (0..(Word - 1))
    BY <1>1, <1>4, <1>6 DEF TypeOK
  <2>. QED  BY <2>1, <2>2
<1>. HIDE DEF t, d
<1>8. /\ time' = [time EXCEPT ![alarm] = t]
      /\ rollover' = [rollover EXCEPT ![alarm] = rollover[alarm] \/ t < nticks]
      /\ due' = [due EXCEPT ![alarm] = d]
  BY <1>2 DEF t, d
<1>9. /\ time' \in [Alarms -> 0..(Word - 1)] /\ rollover' \in [Alarms -> BOOLEAN]
      /\ due' \in [Alarms -> Nat \X (0..(Word - 1))]
      /\ time'[alarm] = t /\ rollover'[alarm] = (rollover[alarm] \/ t < nticks) /\ due'[alarm] = d
      /\ \A a \in Alarms \ {alarm} : /\ time'[a] = time[a] /\ rollover'[a] = rollover[a]
                                     /\ due'[a] = due[a]
  BY <1>1, <1>4, <1>7, <1>8 DEF TypeOK
<1>10. TypeOK'
  BY <1>1, <1>3, <1>4, <1>9 DEF TypeOK
<1>11. ListOK' /\ WalkOK'
  BY <1>1, <1>3, <1>4 DEF ListOK, WalkOK, Linked
<1>12. Left \ {alarm} \subseteq Left'
  BY <1>3 DEF Left, From
<1>13. ASSUME NEW a \in registered PROVE TimeOK(a, Left)'
  <2>1. TimeOK(a, Left) /\ a \in Alarms
    BY <1>1, Times DEF TypeOK
  <2>2. CASE a = alarm
    BY <2>2, <1>3, <1>4, <1>5, <1>6, <1>9 DEF TimeOK, Now
  <2>3. CASE a # alarm
    BY <2>1, <2>3, <1>3, <1>9, <1>12 DEF TimeOK, Now, Before
  <2>. QED  BY <2>2, <2>3
<1>14. TimesOK'
  BY <1>3, <1>13 DEF TimesOK, TimeOK
<1>. QED  BY <1>10, <1>11, <1>14 DEF IInv

\* The walk has reached the end.
LEMMA ReturnStep ==
  ASSUME IInv, TickReturns PROVE IInv'
<1>1. TypeOK /\ ListOK /\ WalkOK /\ TimesOK
  BY DEF IInv
<1>2. /\ pc = "walk" /\ alarm = alarm_list /\ pc' = "idle" /\ nxt' = alarm_list
      /\ UNCHANGED <<clockVars, listVars, time, rollover, alarm, acted, registered, due, ret>>
  BY DEF TickReturns
<1>3. Left = {} /\ Left' = {}
  BY <1>1, <1>2, Walked DEF Left
<1>4. TypeOK'
  BY <1>1, <1>2 DEF TypeOK, Nodes
<1>5. ListOK' /\ WalkOK'
  BY <1>1, <1>2 DEF ListOK, WalkOK, Linked
<1>6. ASSUME NEW a \in registered PROVE TimeOK(a, Left)'
  <2>1. TimeOK(a, Left)
    BY <1>1, Times
  <2>. QED  BY <2>1, <1>2, <1>3 DEF TimeOK, Now, Before
<1>7. TimesOK'
  BY <1>2, <1>6 DEF TimesOK, TimeOK
<1>. QED  BY <1>4, <1>5, <1>7 DEF IInv

-----------------------------------------------------------------------------
\* The theorems about the alarms.

\* Before the start the list is empty.
LEMMA Initially == Init => IInv
<1>. SUFFICES ASSUME Init PROVE IInv
  OBVIOUS
<1>. USE AlarmConstants DEF Init, Nodes
<1>1. TypeOK
  <2>1. 0 \in 0..(Word - 1) /\ 0 \in Nat
    OBVIOUS
  <2>2. due \in [Alarms -> Nat \X (0..(Word - 1))]
    BY <2>1
  <2>. QED  BY <2>1, <2>2 DEF TypeOK, ENOTSUP
<1>2. ListOK
  BY DEF ListOK, Linked
<1>3. WalkOK /\ TimesOK
  BY DEF WalkOK, TimesOK
<1>. QED  BY <1>1, <1>2, <1>3 DEF IInv

\* Every step preserves the invariant.
LEMMA Inductive == ~StopNext /\ IInv /\ [Next]_vars => IInv'
<1>. SUFFICES ASSUME ~StopNext, IInv, [Next]_vars PROVE IInv'
  OBVIOUS
<1>0. IInv => acted \in BOOLEAN /\ (pc = "callback" => alarm \in Alarms)
  BY DEF IInv, TypeOK, WalkOK
<1>1. CASE SysclkInit  BY <1>1, SysclkStep
<1>2. CASE CallStart   BY <1>2, <1>0, StartStep DEF CallStart
<1>3. CASE CallStop    BY <1>3, <1>0, StopStep DEF CallStop
<1>4. CASE Tick        BY <1>4, TickStep
<1>5. CASE Visit       BY <1>5, VisitStep
<1>6. CASE CallbackStart
  <2>1. PICK a \in Alarms \ {alarm}, n \in Intervals : Start(a, n)
    BY <1>6 DEF CallbackStart
  <2>. QED  BY <1>6, <2>1, StartStep DEF CallbackStart
<1>7. CASE CallbackStop
  <2>1. PICK a \in Alarms : a # nxt /\ Stop(a)
    BY <1>7 DEF CallbackStop
  <2>. QED  BY <1>7, <2>1, StopStep DEF CallbackStop
<1>8. CASE CallbackEnds  BY <1>8, <1>0, StopStep DEF CallbackEnds
<1>9. CASE CallbackAgain BY <1>9, AgainStep
<1>10. CASE TickReturns  BY <1>10, ReturnStep
<1>11. CASE UNCHANGED vars
  <2>1. TypeOK'
    BY <1>11 DEF IInv, TypeOK, vars
  <2>2. ListOK' /\ WalkOK'
    BY <1>11 DEF IInv, ListOK, WalkOK, Linked, vars
  <2>3. TimesOK'
    BY <1>11 DEF IInv, TimesOK, Left, From, Now, vars
  <2>. QED  BY <2>1, <2>2, <2>3 DEF IInv
<1>. QED  BY <1>1, <1>2, <1>3, <1>4, <1>5, <1>6, <1>7, <1>8, <1>9, <1>10, <1>11 DEF Next

\* The list is never broken and the recorded times always stand for the moments at
\* which the alarms are due (alt_tick.c, alt_alarm_start.c): for any number of alarms
\* and any width of the counter, as long as no callback stops the next alarm.
THEOREM ClockInvariant == ASSUME ~StopNext PROVE Spec => []IInv
<1>1. IInv /\ [Next]_vars => IInv'
  BY Inductive
<1>. QED  BY <1>1, Initially, PTL DEF Spec

\* Alarms are called back at exactly their time, over any number of roll-overs.
THEOREM AlwaysPunctual == ASSUME ~StopNext PROVE Spec => []Punctual
<1>1. IInv => Punctual
  <2>. SUFFICES ASSUME IInv PROVE Punctual
    OBVIOUS
  <2>1. pc = "callback" /\ alarm \in registered => due[alarm] = Now
    BY DEF IInv, TimesOK
  <2>2. ASSUME pc = "idle", NEW a \in registered PROVE Before(Now, due[a])
    <3>1. ~Before(due[a], Now) /\ due[a] # Now /\ TypeOK /\ a \in Alarms
      BY <2>2 DEF IInv, TimesOK, Left, TypeOK
    <3>2. /\ due[a][1] \in Nat /\ due[a][2] \in 0..(Word - 1)
          /\ ~(due[a][1] = epoch /\ due[a][2] = nticks)
          /\ epoch \in Nat /\ nticks \in 0..(Word - 1)
      BY <3>1, Moments DEF TypeOK
    <3>. QED  BY <3>1, <3>2, AlarmConstants DEF Before, Now
  <2>. QED  BY <2>1, <2>2 DEF Punctual
<1>. QED  BY <1>1, ClockInvariant, PTL

\* Once alt_alarm_stop has returned, the callback is not called.
THEOREM AlwaysSilent == ASSUME ~StopNext PROVE Spec => StoppedIsSilent
<1>1. IInv => WalkOK
  BY DEF IInv
<1>2. WalkOK /\ [Next]_vars => [Visit /\ pc' = "callback" => alarm \in registered]_vars
  BY DEF WalkOK, Visit, Linked
<1>. QED  BY <1>1, <1>2, ClockInvariant, PTL DEF Spec, StoppedIsSilent

-----------------------------------------------------------------------------
\* The steps of the program, and what surrounds them in a call.

Handled == {"isr", NULL}

Steps ==
  {<<"disable">>, <<"enable">>, <<"irq_init">>, <<"cpu_enable">>, <<"sysclk">>, <<"clock">>}
    \cup ({"control"} \X Irqs)
    \cup ({"handler", "enable_irq"} \X Irqs \X Handled)
    \cup ({"ready", "remove"} \X Alarms)
    \cup ({"insert"} \X Alarms \X Intervals)

ReadyOK(w, k)   == /\ k + 4 <= Len(w) /\ w[k + 1] = <<"disable">> /\ w[k + 2] = <<"clock">>
                   /\ w[k + 3][1] = "insert" /\ w[k + 4] = <<"enable">>
InsertOK(w, k)  == /\ k > 3 /\ w[k - 3][1] = "ready"
                   /\ w[k - 2] = <<"disable">> /\ w[k - 1] = <<"clock">>
HandlerOK(w, k) == /\ k > 1 /\ w[k - 1] = <<"disable">>
                   /\ k + 2 <= Len(w) /\ w[k + 1] = <<"disable">>
                   /\ w[k + 2] = <<"enable_irq", w[k][2], w[k][3]>>
EnableOK(w, k)  == /\ k > 2 /\ w[k - 1] = <<"disable">> /\ w[k - 2][1] = "handler"

InCall(w, k) ==
  /\ w[k][1] = "ready" => ReadyOK(w, k)
  /\ w[k][1] = "insert" => InsertOK(w, k)
  /\ w[k][1] = "handler" => HandlerOK(w, k)
  /\ w[k][1] = "enable_irq" => EnableOK(w, k)

\* A sequence of whole calls.
Calling(w) == w \in Seq(Steps) /\ \A k \in 1..Len(w) : InCall(w, k)

\* It starts one alarm at most.
Single(w) == \A j, k \in 1..Len(w) : w[j][1] = "insert" /\ w[k][1] = "insert" => j = k

\* How much deeper in sections a step leads, and how deep one is after k steps.
Effect(step) == IF step = <<"disable">> THEN 1 ELSE IF step = <<"enable">> THEN -1 ELSE 0

Depths(w, d) ==
  /\ d \in [0..Len(w) -> Nat] /\ d[0] = 0 /\ d[Len(w)] = 0
  /\ \A k \in 1..Len(w) : d[k] = d[k - 1] + Effect(w[k])

-----------------------------------------------------------------------------
\* The invariant of the running system: n steps of w are done.

\* Nothing comes between two steps of the program.
Alone == level = "program" /\ pie = FALSE

\* The sections that the program has entered and not left.
inside == Len(saved) - (IF level = "program" THEN 0 ELSE 1) - (IF pc = "idle" THEN 0 ELSE 1)

Remaining(w, n) == SubSeq(w, n + 1, Len(w))

BoardTypeOK ==
  /\ pie \in BOOLEAN /\ saved \in Seq(BOOLEAN)
  /\ ienable \subseteq Irqs /\ line \subseteq Irqs /\ running \subseteq Irqs
  /\ handler \in [Irqs -> Handled]

LevelInv ==
  /\ level # "program" => pie = FALSE
  /\ pc # "idle" => level = "handler" /\ current = TIMER_IRQ /\ saved[Len(saved)] = FALSE
  /\ level = "scan" => active # {} /\ active \subseteq pending

RestInv(w, d, n) ==
  /\ Calling(w) /\ Single(w) /\ Depths(w, d)
  /\ n \in 0..Len(w) /\ rest = Remaining(w, n)
  /\ inside = d[n]

\* An alarm to be put into the list is not in it; there is a clock, and as it was
\* read it stands.
StartInv(w, n) ==
  \A p \in (n + 1)..Len(w) : w[p][1] = "insert" =>
    /\ w[p][2] \notin registered
    /\ p <= n + 3 => tick_rate # 0
    /\ p <= n + 2 => Alone
    /\ p = n + 1 => current_nticks = nticks

\* A handler and its interrupt change together.
WriteInv(w, n) ==
  \A p \in (n + 1)..Len(w) :
    /\ w[p][1] = "handler" /\ p = n + 1 => Alone
    /\ w[p][1] = "enable_irq" /\ p <= n + 2 => Alone /\ handler[w[p][2]] = w[p][3]

\* An enabled interrupt has a handler, unless its next write disables it.
TableInv(w, n) ==
  \A i \in ienable : \/ handler[i] # NULL
                     \/ \E p \in (n + 1)..Len(w) : p <= n + 2 /\ w[p] = <<"enable_irq", i, NULL>>

At(w, d, n) == RestInv(w, d, n) /\ StartInv(w, n) /\ WriteInv(w, n) /\ TableInv(w, n)

BInv == BoardTypeOK /\ LevelInv /\ \E w, d, n : At(w, d, n)

-----------------------------------------------------------------------------
\* The calls.

\* What a step of each kind carries, and that only two kinds lead in or out of sections.
LEMMA Kinds ==
  ASSUME NEW x \in Steps
  PROVE  /\ x[1] = "disable" => x = <<"disable">>
         /\ x[1] = "enable" => x = <<"enable">>
         /\ x[1] = "remove" => x[2] \in Alarms
         /\ x[1] = "control" => x[2] \in Irqs
         /\ x[1] = "insert" => x[2] \in Alarms /\ x[3] \in Intervals
         /\ x[1] = "handler" => x[2] \in Irqs /\ x[3] \in Handled
         /\ x[1] = "enable_irq" =>
              x[2] \in Irqs /\ x[3] \in Handled /\ x = <<"enable_irq", x[2], x[3]>>
         /\ x[1] \notin {"disable", "enable"} => Effect(x) = 0
<1>1. CASE x \in {<<"disable">>, <<"enable">>, <<"irq_init">>, <<"cpu_enable">>, <<"sysclk">>, <<"clock">>}
  <2>1. PICK c \in {"disable", "enable", "irq_init", "cpu_enable", "sysclk", "clock"} : x = <<c>>
    BY <1>1, Zenon
  <2>2. x[1] = c
    BY <2>1
  <2>. QED BY <2>1, <2>2 DEF Effect
<1>2. CASE x \in {"control"} \X Irqs
  <2>1. x[1] = "control" /\ x[2] \in Irqs /\ x # <<"disable">> /\ x # <<"enable">>
    BY <1>2
  <2>. QED BY <2>1 DEF Effect
<1>3. CASE x \in {"handler", "enable_irq"} \X Irqs \X Handled
  <2>1. x[1] \in {"handler", "enable_irq"} /\ x # <<"disable">> /\ x # <<"enable">>
    BY <1>3
  <2>2. x[2] \in Irqs /\ x[3] \in Handled /\ x = <<x[1], x[2], x[3]>>
    BY <1>3
  <2>. QED BY <2>1, <2>2 DEF Effect
<1>4. CASE x \in {"ready", "remove"} \X Alarms
  <2>1. x[1] \in {"ready", "remove"} /\ x # <<"disable">> /\ x # <<"enable">> /\ x[2] \in Alarms
    BY <1>4
  <2>. QED BY <2>1 DEF Effect
<1>5. CASE x \in {"insert"} \X Alarms \X Intervals
  <2>1. x[1] = "insert" /\ x # <<"disable">> /\ x # <<"enable">>
    BY <1>5
  <2>2. x[2] \in Alarms /\ x[3] \in Intervals
    BY <1>5
  <2>. QED BY <2>1, <2>2 DEF Effect
<1>. QED BY <1>1, <1>2, <1>3, <1>4, <1>5, Zenon DEF Steps

\* Calls one after the other are calls.
LEMMA Joined ==
  ASSUME NEW s, Calling(s), NEW t, Calling(t),
         NEW w, w = s \o t
  PROVE  Calling(w)
<1>1. /\ s \in Seq(Steps) /\ t \in Seq(Steps) /\ w \in Seq(Steps)
      /\ Len(s) \in Nat /\ Len(t) \in Nat /\ Len(w) = Len(s) + Len(t)
      /\ \A k \in 1..Len(s) : w[k] = s[k]
      /\ \A k \in 1..Len(t), m \in Int : m = Len(s) + k => w[m] = t[k]
  <2>. HIDE DEF Steps
  <2>. QED BY ConcatProperties DEF Calling
<1>2. ASSUME NEW k \in 1..Len(s) PROVE InCall(w, k)

  <2>1. InCall(s, k) /\ w[k] = s[k]
    BY <1>1 DEF Calling
  <2>2. ReadyOK(s, k) => ReadyOK(w, k)
    BY <1>1 DEF ReadyOK
  <2>3. InsertOK(s, k) => InsertOK(w, k)
    <3>. SUFFICES ASSUME InsertOK(s, k) PROVE InsertOK(w, k)
      OBVIOUS
    <3>1. k > 3
      BY DEF InsertOK
    <3>2. w[k - 1] = s[k - 1] /\ w[k - 2] = s[k - 2] /\ w[k - 3] = s[k - 3]
      BY <1>1, <3>1
    <3>. QED BY <3>1, <3>2 DEF InsertOK
  <2>4. HandlerOK(s, k) => HandlerOK(w, k)
    <3>. SUFFICES ASSUME HandlerOK(s, k) PROVE HandlerOK(w, k)
      OBVIOUS
    <3>1. k > 1 /\ k + 2 <= Len(s)
      BY DEF HandlerOK
    <3>2. /\ w[k - 1] = s[k - 1] /\ w[k] = s[k] /\ w[k + 1] = s[k + 1] /\ w[k + 2] = s[k + 2]
          /\ k + 2 <= Len(w)
      BY <1>1, <3>1
    <3>. QED BY <3>1, <3>2 DEF HandlerOK
  <2>5. EnableOK(s, k) => EnableOK(w, k)
    BY <1>1 DEF EnableOK
  <2>. QED BY <2>1, <2>2, <2>3, <2>4, <2>5 DEF InCall
<1>3. ASSUME NEW k \in 1..Len(t), NEW m \in 1..Len(w), m = Len(s) + k PROVE InCall(w, m)
  <2>1. InCall(t, k) /\ w[m] = t[k]
    BY <1>1, <1>3 DEF Calling
  <2>3. ReadyOK(t, k) => ReadyOK(w, m)
    <3>. SUFFICES ASSUME ReadyOK(t, k) PROVE ReadyOK(w, m)
      OBVIOUS
    <3>1. k + 4 <= Len(t) /\ m + 4 <= Len(w)
      BY <1>1, <1>3 DEF ReadyOK
    <3>2. w[m + 1] = t[k + 1] /\ w[m + 2] = t[k + 2]
      BY <1>1, <1>3, <3>1
    <3>3. w[m + 3] = t[k + 3] /\ w[m + 4] = t[k + 4]
      BY <1>1, <1>3, <3>1
    <3>. QED BY <3>1, <3>2, <3>3 DEF ReadyOK
  <2>4. InsertOK(t, k) => InsertOK(w, m)
    <3>. SUFFICES ASSUME InsertOK(t, k) PROVE InsertOK(w, m)
      OBVIOUS
    <3>1. k > 3 /\ m > 3
      BY <1>1, <1>3 DEF InsertOK
    <3>2. w[m - 1] = t[k - 1] /\ w[m - 2] = t[k - 2]
      BY <1>1, <1>3, <3>1
    <3>3. w[m - 3] = t[k - 3]
      BY <1>1, <1>3, <3>1
    <3>. QED BY <3>1, <3>2, <3>3 DEF InsertOK
  <2>5. HandlerOK(t, k) => HandlerOK(w, m)
    <3>. SUFFICES ASSUME HandlerOK(t, k) PROVE HandlerOK(w, m)
      OBVIOUS
    <3>1. k > 1 /\ k + 2 <= Len(t) /\ m > 1 /\ m + 2 <= Len(w)
      BY <1>1, <1>3 DEF HandlerOK
    <3>2. w[m - 1] = t[k - 1]
      BY <1>1, <1>3, <3>1
    <3>3. w[m + 1] = t[k + 1] /\ w[m + 2] = t[k + 2]
      BY <1>1, <1>3, <3>1
    <3>. QED BY <2>1, <3>1, <3>2, <3>3 DEF HandlerOK
  <2>6. EnableOK(t, k) => EnableOK(w, m)
    BY <1>1, <1>3 DEF EnableOK
  <2>. QED BY <2>1, <2>3, <2>4, <2>5, <2>6 DEF InCall
<1>4. ASSUME NEW m \in 1..Len(w), m \notin 1..Len(s) PROVE m - Len(s) \in 1..Len(t) /\ m = Len(s) + (m - Len(s))
  BY <1>1, <1>4
<1>5. ASSUME NEW m \in 1..Len(w) PROVE InCall(w, m)
  <2>1. CASE m \in 1..Len(s)
    BY <2>1, <1>2
  <2>2. CASE m \notin 1..Len(s)
    BY <2>2, <1>3, <1>4
  <2>. QED BY <2>1, <2>2
<1>. QED BY <1>1, <1>5 DEF Calling

\* Sections nest.
Balanced(w) == w \in Seq(Steps) /\ \E d : Depths(w, d)

Quiet(w) == \A k \in 1..Len(w) : w[k][1] # "insert"

\* Of two sequences that enter and leave sections alike, one after the other.
LEMMA JoinedDepths ==
  ASSUME NEW s, Balanced(s), NEW t, Balanced(t)
  PROVE  Balanced(s \o t)
<1>. PICK c, e : Depths(s, c) /\ Depths(t, e)
  BY DEF Balanced
<1>. DEFINE w == s \o t
            d == [k \in 0..Len(w) |-> IF k <= Len(s) THEN c[k] ELSE e[k - Len(s)]]
<1>1. /\ Len(s) \in Nat /\ Len(t) \in Nat /\ Len(w) = Len(s) + Len(t)
      /\ \A k \in 1..Len(w) : w[k] = IF k <= Len(s) THEN s[k] ELSE t[k - Len(s)]
      /\ w \in Seq(Steps)
  BY ConcatProperties DEF Balanced
<1>. HIDE DEF w
<1>2. d \in [0..Len(w) -> Nat] /\ d[0] = 0 /\ d[Len(w)] = 0
  BY <1>1 DEF Depths
<1>3. ASSUME NEW k \in 1..Len(w) PROVE d[k] = d[k - 1] + Effect(w[k])
  <2>1. CASE k <= Len(s)
    BY <1>1, <2>1 DEF Depths
  <2>2. CASE k = Len(s) + 1
    <3>1. k - 1 = Len(s) /\ k - Len(s) = 1 /\ 1 \in 1..Len(t) /\ 1 - 1 = 0
      BY <1>1, <2>2
    <3>2. d[k] = e[1] /\ d[k - 1] = c[Len(s)] /\ w[k] = t[1]
      BY <1>1, <2>2, <3>1
    <3>3. c[Len(s)] = 0 /\ e[0] = 0 /\ e[1] = e[0] + Effect(t[1])
      BY <3>1 DEF Depths
    <3>. QED BY <3>2, <3>3
  <2>3. CASE k > Len(s) + 1
    <3>1. k - Len(s) \in 1..Len(t) /\ (k - Len(s)) - 1 = (k - 1) - Len(s)
      BY <1>1, <2>3
    <3>2. e[k - Len(s)] = e[(k - Len(s)) - 1] + Effect(t[k - Len(s)])
      BY <3>1 DEF Depths
    <3>. QED BY <1>1, <2>3, <3>1, <3>2
  <2>. QED BY <1>1, <2>1, <2>2, <2>3
<1>. HIDE DEF d
<1>4. Depths(w, d)
  BY <1>2, <1>3 DEF Depths
<1>. QED BY <1>1, <1>4 DEF w, Balanced

\* A section of steps, step by step.
LEMMA SectionSteps ==
  ASSUME NEW s \in Seq(Steps)
  PROVE  /\ Section(s) \in Seq(Steps) /\ Len(Section(s)) = Len(s) + 2
         /\ Section(s)[1] = <<"disable">> /\ Section(s)[Len(s) + 2] = <<"enable">>
         /\ \A k \in 1..Len(s) : Section(s)[k + 1] = s[k]
<1>. DEFINE t == Section(s)
            a == <<"disable">>
            b == <<"enable">>
<1>1. a \in Steps /\ b \in Steps
  BY DEF Steps
<1>2. t = <<a>> \o s \o <<b>>
  BY DEF Section
<1>. HIDE DEF a, b, t
<1>3. <<a>> \in Seq(Steps) /\ <<b>> \in Seq(Steps) /\ Len(<<a>>) = 1 /\ Len(<<b>>) = 1
  BY <1>1
<1>4. /\ <<a>> \o s \in Seq(Steps) /\ Len(<<a>> \o s) = Len(s) + 1
      /\ (<<a>> \o s)[1] = a /\ \A k \in 1..Len(s) : (<<a>> \o s)[k + 1] = s[k]
  BY <1>3, ConcatProperties
<1>5. /\ t \in Seq(Steps) /\ Len(t) = Len(s) + 2 /\ t[1] = a /\ t[Len(s) + 2] = b
      /\ \A k \in 1..Len(s) : t[k + 1] = s[k]
  BY <1>2, <1>3, <1>4, ConcatProperties
<1>. QED BY <1>5 DEF a, b, t

\* Whatever is balanced stays so in a section.
LEMMA SectionDepths ==
  ASSUME NEW s, Balanced(s)
  PROVE  Balanced(Section(s))
<1>. DEFINE t == Section(s)
<1>. PICK c : Depths(s, c)
  BY DEF Balanced
<1>. DEFINE d == [k \in 0..Len(t) |-> IF k \in 1..(Len(s) + 1) THEN c[k - 1] + 1 ELSE 0]
<1>1. /\ t \in Seq(Steps) /\ Len(s) \in Nat /\ Len(t) = Len(s) + 2
      /\ t[1] = <<"disable">> /\ t[Len(s) + 2] = <<"enable">>
      /\ \A k \in 1..Len(s) : t[k + 1] = s[k]
  BY SectionSteps DEF Balanced
<1>. HIDE DEF t
<1>2. d \in [0..Len(t) -> Nat] /\ d[0] = 0 /\ d[Len(t)] = 0
  BY <1>1 DEF Depths
<1>3. ASSUME NEW k \in 1..Len(t) PROVE d[k] = d[k - 1] + Effect(t[k])
  <2>1. CASE k = 1
    BY <1>1, <2>1 DEF Depths, Effect
  <2>2. CASE k = Len(s) + 2
    <3>1. Effect(t[k]) = -1
      BY <1>1, <2>2 DEF Effect
    <3>. QED BY <1>1, <2>2, <3>1 DEF Depths
  <2>3. CASE k \in 2..(Len(s) + 1)
    <3>1. k - 1 \in 1..Len(s) /\ t[k] = s[k - 1]
      BY <1>1, <2>3
    <3>2. c[k - 1] = c[(k - 1) - 1] + Effect(s[k - 1])
      BY <3>1 DEF Depths
    <3>3. d[k] = c[k - 1] + 1 /\ d[k - 1] = c[(k - 1) - 1] + 1
      BY <1>1, <2>3
    <3>4. c[(k - 1) - 1] \in Nat /\ c[k - 1] \in Nat
      <4>1. (k - 1) - 1 \in 0..Len(s) /\ k - 1 \in 0..Len(s)
        BY <1>1, <2>3
      <4>. QED BY <4>1 DEF Depths
    <3>5. Effect(s[k - 1]) \in {-1, 0, 1}
      BY DEF Effect
    <3>. QED BY <3>1, <3>2, <3>3, <3>4, <3>5
  <2>. QED BY <1>1, <2>1, <2>2, <2>3
<1>. HIDE DEF d
<1>4. Depths(t, d)
  BY <1>2, <1>3 DEF Depths
<1>. QED BY <1>1, <1>4 DEF t, Balanced

\* Without sections.
LEMMA Even ==
  ASSUME NEW s \in Seq(Steps), \A k \in 1..Len(s) : Effect(s[k]) = 0
  PROVE  Balanced(s)
<1>. DEFINE d == [k \in 0..Len(s) |-> 0]
<1>1. Depths(s, d)
  BY DEF Depths
<1>. HIDE DEF d
<1>. QED BY <1>1 DEF Balanced

\* A step by itself, and in a section.
LEMMA One ==
  ASSUME NEW x \in Steps
  PROVE  /\ <<x>> \in Seq(Steps) /\ Len(<<x>>) = 1 /\ <<x>>[1] = x
         /\ Effect(x) = 0 => Balanced(<<x>>)
         /\ Section(<<x>>) \in Seq(Steps) /\ Len(Section(<<x>>)) = 3
         /\ Section(<<x>>)[1] = <<"disable">> /\ Section(<<x>>)[2] = x
         /\ Section(<<x>>)[3] = <<"enable">>
<1>1. <<x>> \in Seq(Steps) /\ Len(<<x>>) = 1 /\ <<x>>[1] = x
  OBVIOUS
<1>2. ASSUME Effect(x) = 0 PROVE Balanced(<<x>>)
  <2>1. \A k \in 1..Len(<<x>>) : Effect(<<x>>[k]) = 0
    BY <1>1, <1>2
  <2>. QED BY <1>1, <2>1, Even
<1>3. /\ Section(<<x>>) \in Seq(Steps) /\ Len(Section(<<x>>)) = 3
      /\ Section(<<x>>)[1] = <<"disable">> /\ Section(<<x>>)[3] = <<"enable">>
      /\ \A k \in 1..1 : Section(<<x>>)[k + 1] = <<x>>[k]
  <2>. DEFINE s == <<x>>
  <2>1. s \in Seq(Steps) /\ Len(s) = 1
    BY <1>1
  <2>. HIDE DEF s
  <2>2. /\ Section(s) \in Seq(Steps) /\ Len(Section(s)) = Len(s) + 2
        /\ Section(s)[1] = <<"disable">> /\ Section(s)[Len(s) + 2] = <<"enable">>
        /\ \A k \in 1..Len(s) : Section(s)[k + 1] = s[k]
    BY <2>1, SectionSteps
  <2>. QED BY <2>1, <2>2 DEF s
<1>4. Section(<<x>>)[2] = x
  BY <1>1, <1>3
<1>. QED BY <1>1, <1>2, <1>3, <1>4

\* A step ahead of others.
LEMMA Prefixed ==
  ASSUME NEW x \in Steps, NEW u \in Seq(Steps)
  PROVE  /\ <<x>> \o u \in Seq(Steps) /\ Len(<<x>> \o u) = Len(u) + 1
         /\ (<<x>> \o u)[1] = x /\ \A k \in 1..Len(u) : (<<x>> \o u)[k + 1] = u[k]
<1>. DEFINE s == <<x>>
<1>1. s \in Seq(Steps) /\ Len(s) = 1 /\ s[1] = x
  OBVIOUS
<1>. HIDE DEF s
<1>2. /\ s \o u \in Seq(Steps) /\ Len(s \o u) = Len(s) + Len(u)
      /\ \A k \in 1..Len(s) + Len(u) : (s \o u)[k] = IF k <= Len(s) THEN s[k] ELSE u[k - Len(s)]
  BY <1>1, ConcatProperties
<1>3. (s \o u)[1] = x /\ \A k \in 1..Len(u) : (s \o u)[k + 1] = u[k]
  BY <1>1, <1>2
<1>. QED BY <1>1, <1>2, <1>3 DEF s

\* Steps whose surroundings do not matter.
LEMMA Plain ==
  ASSUME NEW s \in Seq(Steps),
         \A k \in 1..Len(s) : s[k][1] \notin {"ready", "insert", "handler", "enable_irq"}
  PROVE  Calling(s) /\ Quiet(s)
BY DEF Calling, InCall, Quiet

\* alt_ic_isr_register.
LEMMA RegisterCall ==
  ASSUME NEW i \in Irqs, NEW isr \in Handled, NEW w, w = alt_ic_isr_register(i, isr)
  PROVE  Calling(w) /\ Balanced(w) /\ Quiet(w)
<1>. DEFINE h == <<"handler", i, isr>>
            e == <<"enable_irq", i, isr>>
            u == Section(<<e>>)
            v == <<h>> \o u
<1>1. w = Section(v)
  BY DEF alt_ic_isr_register
<1>2. h \in Steps /\ e \in Steps /\ h[1] = "handler" /\ e[1] = "enable_irq" /\ h[2] = i /\ h[3] = isr
  BY DEF Steps
<1>3. Effect(h) = 0 /\ Effect(e) = 0
  BY <1>2, Kinds
<1>4. e = <<"enable_irq", h[2], h[3]>>
  BY <1>2
<1>. HIDE DEF h, e
<1>5. <<h>> \in Seq(Steps) /\ Len(<<h>>) = 1 /\ <<h>>[1] = h
  BY <1>2, One
<1>6. u \in Seq(Steps) /\ Len(u) = 3 /\ u[1] = <<"disable">> /\ u[2] = e /\ u[3] = <<"enable">>
  BY <1>2, One
<1>7. Balanced(<<h>>) /\ Balanced(<<e>>)
  BY <1>2, <1>3, One
<1>8. Balanced(w)
  BY <1>1, <1>7, SectionDepths, JoinedDepths
<1>. HIDE DEF u
<1>9. v \in Seq(Steps) /\ Len(v) = 4 /\ v[1] = h /\ v[2] = u[1] /\ v[3] = u[2] /\ v[4] = u[3]
  <2>1. /\ v \in Seq(Steps) /\ Len(v) = Len(u) + 1 /\ v[1] = h
        /\ \A k \in 1..Len(u) : v[k + 1] = u[k]
    BY <1>2, <1>6, Prefixed
  <2>. QED BY <1>6, <2>1
<1>. HIDE DEF v
<1>10. /\ w \in Seq(Steps) /\ Len(w) = 6 /\ w[1] = <<"disable">> /\ w[2] = h /\ w[3] = <<"disable">>
       /\ w[4] = e /\ w[5] = <<"enable">> /\ w[6] = <<"enable">>
  <2>1. /\ w \in Seq(Steps) /\ Len(w) = 6 /\ w[1] = <<"disable">> /\ w[6] = <<"enable">>
        /\ \A k \in 1..4 : w[k + 1] = v[k]
    <3>1. /\ Section(v) \in Seq(Steps) /\ Len(Section(v)) = Len(v) + 2
          /\ Section(v)[1] = <<"disable">> /\ Section(v)[Len(v) + 2] = <<"enable">>
          /\ \A k \in 1..Len(v) : Section(v)[k + 1] = v[k]
      BY <1>9, SectionSteps
    <3>. QED BY <1>1, <1>9, <3>1
  <2>2. w[2] = v[1] /\ w[3] = v[2] /\ w[4] = v[3] /\ w[5] = v[4]
    BY <2>1
  <2>. QED BY <1>6, <1>9, <2>1, <2>2
<1>11. ASSUME NEW k \in 1..Len(w) PROVE InCall(w, k) /\ w[k][1] # "insert"
  <2>1. CASE k = 2
    <3>1. HandlerOK(w, k)
      BY <1>4, <1>10, <2>1 DEF HandlerOK
    <3>. QED BY <1>2, <1>10, <2>1, <3>1 DEF InCall
  <2>2. CASE k = 4
    <3>1. EnableOK(w, k)
      BY <1>2, <1>10, <2>2 DEF EnableOK
    <3>. QED BY <1>2, <1>10, <2>2, <3>1 DEF InCall
  <2>3. CASE k \in {1, 3, 5, 6}
    <3>1. w[k][1] \in {"disable", "enable"}
      BY <1>10, <2>3
    <3>. QED BY <3>1 DEF InCall
  <2>. QED BY <1>10, <2>1, <2>2, <2>3
<1>. QED BY <1>8, <1>10, <1>11 DEF Calling, Quiet

\* alt_alarm_start.
LEMMA StartCall ==
  ASSUME NEW a \in Alarms, NEW n \in Intervals, NEW w, w = alt_alarm_start(a, n)
  PROVE  /\ Calling(w) /\ Balanced(w) /\ Single(w)
         /\ \A k \in 1..Len(w) : w[k][1] = "insert" => w[k][2] = a
<1>. DEFINE r == <<"ready", a>>
            c == <<"clock">>
            i == <<"insert", a, n>>
            u == Section(<<c, i>>)
<1>1. w = <<r>> \o u
  BY DEF alt_alarm_start
<1>2. r \in Steps /\ c \in Steps /\ i \in Steps /\ r[1] = "ready" /\ c[1] = "clock" /\ i[1] = "insert" /\ i[2] = a
  BY DEF Steps
<1>3. Effect(r) = 0 /\ Effect(c) = 0 /\ Effect(i) = 0
  BY <1>2, Kinds
<1>4. c = <<"clock">>
  OBVIOUS
<1>. HIDE DEF r, c, i
<1>5. /\ <<r>> \in Seq(Steps) /\ Len(<<r>>) = 1 /\ <<r>>[1] = r
      /\ <<c, i>> \in Seq(Steps) /\ Len(<<c, i>>) = 2 /\ <<c, i>>[1] = c /\ <<c, i>>[2] = i
  BY <1>2
<1>6. u \in Seq(Steps) /\ Len(u) = 4 /\ u[1] = <<"disable">> /\ u[2] = c /\ u[3] = i /\ u[4] = <<"enable">>
  <2>1. /\ u \in Seq(Steps) /\ Len(u) = 4 /\ u[1] = <<"disable">> /\ u[4] = <<"enable">>
        /\ \A k \in 1..2 : u[k + 1] = <<c, i>>[k]
    <3>. DEFINE s == <<c, i>>
    <3>1. s \in Seq(Steps) /\ Len(s) = 2
      BY <1>5
    <3>. HIDE DEF s
    <3>2. /\ Section(s) \in Seq(Steps) /\ Len(Section(s)) = Len(s) + 2
          /\ Section(s)[1] = <<"disable">> /\ Section(s)[Len(s) + 2] = <<"enable">>
          /\ \A k \in 1..Len(s) : Section(s)[k + 1] = s[k]
      BY <3>1, SectionSteps
    <3>. QED BY <3>1, <3>2 DEF s
  <2>2. u[2] = <<c, i>>[1] /\ u[3] = <<c, i>>[2]
    BY <2>1
  <2>. QED BY <1>5, <2>1, <2>2
<1>7. Balanced(<<r>>) /\ Balanced(<<c, i>>)
  <2>1. \A k \in 1..Len(<<c, i>>) : Effect(<<c, i>>[k]) = 0
    BY <1>3, <1>5
  <2>. QED BY <1>2, <1>3, <1>5, <2>1, One, Even
<1>8. Balanced(w)
  BY <1>1, <1>7, SectionDepths, JoinedDepths
<1>. HIDE DEF u
<1>9. /\ w \in Seq(Steps) /\ Len(w) = 5 /\ w[1] = r /\ w[2] = <<"disable">> /\ w[3] = c /\ w[4] = i
      /\ w[5] = <<"enable">>
  <2>1. /\ <<r>> \o u \in Seq(Steps) /\ Len(<<r>> \o u) = Len(u) + 1 /\ (<<r>> \o u)[1] = r
        /\ \A k \in 1..Len(u) : (<<r>> \o u)[k + 1] = u[k]
    BY <1>2, <1>6, Prefixed
  <2>2. /\ w \in Seq(Steps) /\ Len(w) = Len(u) + 1 /\ w[1] = r
        /\ \A k \in 1..Len(u) : w[k + 1] = u[k]
    BY <1>1, <2>1
  <2>. QED BY <1>6, <2>2
<1>10. ASSUME NEW k \in 1..Len(w)
       PROVE  InCall(w, k) /\ (w[k][1] = "insert" => k = 4)
  <2>1. CASE k = 1
    <3>1. ReadyOK(w, k)
      BY <1>2, <1>4, <1>9, <2>1 DEF ReadyOK
    <3>. QED BY <1>2, <1>9, <2>1, <3>1 DEF InCall
  <2>2. CASE k = 4
    <3>1. InsertOK(w, k)
      BY <1>2, <1>4, <1>9, <2>2 DEF InsertOK
    <3>. QED BY <1>2, <1>9, <2>2, <3>1 DEF InCall
  <2>3. CASE k \in {2, 3, 5}
    <3>1. w[k][1] \in {"disable", "clock", "enable"}
      BY <1>2, <1>9, <2>3
    <3>. QED BY <3>1 DEF InCall
  <2>. QED BY <1>9, <2>1, <2>2, <2>3
<1>. QED BY <1>2, <1>8, <1>9, <1>10 DEF Calling, Single

\* alt_alarm_stop.
LEMMA StopCall ==
  ASSUME NEW a \in Alarms, NEW w, w = alt_alarm_stop(a)
  PROVE  Calling(w) /\ Balanced(w) /\ Quiet(w)
<1>. DEFINE r == <<"remove", a>>
<1>1. w = Section(<<r>>)
  BY DEF alt_alarm_stop
<1>2. r \in Steps /\ r[1] = "remove"
  BY DEF Steps
<1>3. Effect(r) = 0
  BY <1>2, Kinds
<1>. HIDE DEF r
<1>5. Balanced(w)
  BY <1>1, <1>2, <1>3, One, SectionDepths
<1>6. w \in Seq(Steps) /\ Len(w) = 3 /\ w[1] = <<"disable">> /\ w[2] = r /\ w[3] = <<"enable">>
  BY <1>1, <1>2, One
<1>7. \A k \in 1..Len(w) : w[k][1] \in {"disable", "remove", "enable"}
  BY <1>2, <1>6
<1>. QED BY <1>5, <1>6, <1>7, Plain

\* A sequence that starts no alarm does not add to the starts of another one.
LEMMA JoinedStarts ==
  ASSUME NEW s \in Seq(Steps), Quiet(s), NEW t \in Seq(Steps)
  PROVE  Single(t) => Single(s \o t)
<1>. DEFINE w == s \o t
<1>1. /\ Len(s) \in Nat /\ Len(t) \in Nat /\ Len(w) = Len(s) + Len(t)
      /\ \A k \in 1..Len(w) : w[k] = IF k <= Len(s) THEN s[k] ELSE t[k - Len(s)]
  BY ConcatProperties
<1>. HIDE DEF w
<1>2. ASSUME NEW k \in 1..Len(w), w[k][1] = "insert"
      PROVE  k - Len(s) \in 1..Len(t) /\ t[k - Len(s)][1] = "insert"
  BY <1>1, <1>2 DEF Quiet
<1>3. Single(t) => Single(w)
  <2>. SUFFICES ASSUME Single(t), NEW j \in 1..Len(w), NEW k \in 1..Len(w),
                       w[j][1] = "insert", w[k][1] = "insert"
                PROVE  j = k
    BY DEF Single
  <2>1. j - Len(s) = k - Len(s)
    BY <1>2 DEF Single
  <2>. QED BY <2>1, <1>1
<1>. QED BY <1>3 DEF w

Whole(w) == Calling(w) /\ Balanced(w)

\* The three together.
LEMMA JoinedWhole ==
  ASSUME NEW s, Whole(s), NEW t, Whole(t)
  PROVE  /\ Whole(s \o t)
         /\ Quiet(s) /\ Quiet(t) => Quiet(s \o t)
         /\ Quiet(s) /\ Single(t) => Single(s \o t)
<1>1. Calling(s \o t)
  BY Joined DEF Whole
<1>2. Balanced(s \o t)
  BY JoinedDepths DEF Whole
<1>3. s \in Seq(Steps) /\ t \in Seq(Steps)
  BY DEF Whole, Balanced
<1>4. Quiet(s) /\ Quiet(t) => Quiet(s \o t)
  <2>. SUFFICES ASSUME Quiet(s), Quiet(t), NEW k \in 1..Len(s \o t) PROVE (s \o t)[k][1] # "insert"
    BY DEF Quiet
  <2>1. /\ Len(s) \in Nat /\ Len(t) \in Nat /\ Len(s \o t) = Len(s) + Len(t)
        /\ (s \o t)[k] = IF k <= Len(s) THEN s[k] ELSE t[k - Len(s)]
    BY <1>3, ConcatProperties
  <2>. QED BY <2>1 DEF Quiet
<1>5. Quiet(s) /\ Single(t) => Single(s \o t)
  BY <1>3, JoinedStarts
<1>. QED BY <1>1, <1>2, <1>4, <1>5 DEF Whole

\* What the system does before the program's first call is a sequence of whole calls.
LEMMA Initialisation ==
  ASSUME NEW w, w = alt_irq_init \o alt_sys_init
  PROVE  Whole(w) /\ Single(w)
<1>. USE BoardConstants
<1>. DEFINE a == <<<<"irq_init">>, <<"cpu_enable">>>>
            b == <<<<"sysclk">>, <<"control", TIMER_IRQ>>>>
            c == <<<<"control", DMA_IRQ>>>>
            e == <<<<"control", UART_IRQ>>>>
<1>1. Whole(a) /\ Quiet(a)
  <2>1. /\ a \in Seq(Steps) /\ Len(a) = 2
        /\ \A k \in 1..Len(a) : a[k][1] \in {"irq_init", "cpu_enable"} /\ Effect(a[k]) = 0
    BY DEF Steps, Effect
  <2>. HIDE DEF a
  <2>. QED BY <2>1, Plain, Even DEF Whole
<1>2. Whole(b) /\ Quiet(b)
  <2>1. TIMER_IRQ \in Irqs
    OBVIOUS
  <2>2. <<"sysclk">> \in Steps /\ <<"control", TIMER_IRQ>> \in Steps
    BY <2>1 DEF Steps
  <2>3. /\ b \in Seq(Steps) /\ Len(b) = 2
        /\ \A k \in 1..Len(b) : b[k][1] \in {"sysclk", "control"} /\ Effect(b[k]) = 0
    BY <2>2 DEF Effect
  <2>. HIDE DEF b
  <2>. QED BY <2>3, Plain, Even DEF Whole
<1>3. ASSUME NEW i \in Irqs PROVE Whole(<<<<"control", i>>>>) /\ Quiet(<<<<"control", i>>>>)
  <2>. DEFINE x == <<"control", i>>
  <2>1. x \in Steps /\ x[1] = "control" /\ Effect(x) = 0
    BY DEF Steps, Effect
  <2>. HIDE DEF x
  <2>2. Balanced(<<x>>) /\ <<x>> \in Seq(Steps) /\ Len(<<x>>) = 1 /\ <<x>>[1] = x
    BY <2>1, One
  <2>3. \A k \in 1..Len(<<x>>) : <<x>>[k][1] = "control"
    BY <2>1, <2>2
  <2>4. Calling(<<x>>) /\ Quiet(<<x>>)
    BY <2>2, <2>3, Plain
  <2>. QED BY <2>2, <2>4 DEF Whole, x
<1>4. Whole(c) /\ Quiet(c) /\ Whole(e) /\ Quiet(e)
  BY <1>3
<1>. HIDE DEF a, b, c, e
<1>5. \A i \in Irqs : Whole(alt_ic_isr_register(i, "isr")) /\ Quiet(alt_ic_isr_register(i, "isr"))
  BY RegisterCall DEF Whole, Handled
<1>6. Whole(alt_alarm_start(uart_alarm, Rate)) /\ Single(alt_alarm_start(uart_alarm, Rate))
  BY StartCall DEF Whole
<1>7. Whole(alt_avalon_timer_sc_init) /\ Quiet(alt_avalon_timer_sc_init)
  BY <1>2, <1>5, JoinedWhole DEF alt_avalon_timer_sc_init, b
<1>8. Whole(altera_avalon_dma_init) /\ Quiet(altera_avalon_dma_init)
  BY <1>4, <1>5, JoinedWhole DEF altera_avalon_dma_init, c
<1>9. Whole(altera_avalon_jtag_uart_init) /\ Single(altera_avalon_jtag_uart_init)
  <2>1. Whole(e \o alt_ic_isr_register(UART_IRQ, "isr")) /\ Quiet(e \o alt_ic_isr_register(UART_IRQ, "isr"))
    BY <1>4, <1>5, JoinedWhole
  <2>. QED BY <2>1, <1>6, JoinedWhole DEF altera_avalon_jtag_uart_init, e
<1>10. Whole(alt_sys_init) /\ Single(alt_sys_init)
  BY <1>7, <1>8, <1>9, JoinedWhole DEF alt_sys_init
<1>. QED BY <1>1, <1>10, JoinedWhole DEF alt_irq_init, a

\* Of calls that have not begun.
LEMMA Begun ==
  ASSUME NEW w, Whole(w)
  PROVE  /\ Remaining(w, 0) = w /\ Len(w) \in Nat
         /\ \E d : Depths(w, d)
<1>1. w \in Seq(Steps) /\ Len(w) \in Nat /\ \E d : Depths(w, d)
  BY DEF Whole, Balanced
<1>2. Remaining(w, 0) = w
  BY <1>1, SubSeqFull DEF Remaining
<1>. QED BY <1>1, <1>2

\* What has to precede certain steps in their call.
LEMMA Ahead ==
  ASSUME NEW w, Whole(w), NEW k \in 1..Len(w)
  PROVE  /\ w[k][1] = "insert" => k > 3
         /\ w[k][1] = "handler" => k > 1
         /\ w[k][1] = "enable_irq" => k > 2
BY DEF Whole, Calling, InCall, InsertOK, HandlerOK, EnableOK

-----------------------------------------------------------------------------
\* Where the program stands.

\* The steps that are left, seen from the whole sequence.
LEMMA Here ==
  ASSUME NEW w, NEW d, NEW n, RestInv(w, d, n)
  PROVE  /\ w \in Seq(Steps) /\ Len(w) \in Nat /\ n \in 0..Len(w)
         /\ Len(rest) = Len(w) - n /\ \A k \in 1..Len(rest) : rest[k] = w[n + k]
         /\ rest \in Seq(Steps)
         /\ rest = <<>> <=> n = Len(w)
         /\ \A m \in 0..(Len(w) - n) : SubSeq(rest, m + 1, Len(rest)) = Remaining(w, n + m)
<1>1. w \in Seq(Steps) /\ Len(w) \in Nat /\ n \in 0..Len(w)
  BY DEF RestInv, Calling
<1>2. ASSUME NEW m \in 0..Len(w)
      PROVE  /\ Remaining(w, m) \in Seq(Steps) /\ Len(Remaining(w, m)) = Len(w) - m
             /\ \A k \in 1..(Len(w) - m) : Remaining(w, m)[k] = w[m + k]
  <2>1. \A i \in (m + 1)..Len(w) : w[i] \in Steps
    BY <1>1
  <2>2. m + 1 \in Int /\ Len(w) \in Int
    BY <1>1
  <2>3. /\ Remaining(w, m) \in Seq(Steps)
        /\ Len(Remaining(w, m)) = (IF m + 1 <= Len(w) THEN Len(w) - (m + 1) + 1 ELSE 0)
        /\ \A k \in 1..(Len(w) - (m + 1) + 1) : Remaining(w, m)[k] = w[m + 1 + k - 1]
    BY <2>1, <2>2, SubSeqProperties DEF Remaining
  <2>. QED BY <1>1, <2>3
<1>3. rest \in Seq(Steps) /\ Len(rest) = Len(w) - n /\ \A k \in 1..Len(rest) : rest[k] = w[n + k]
  BY <1>1, <1>2 DEF RestInv
<1>4. rest = <<>> <=> n = Len(w)
  BY <1>1, <1>3
<1>5. ASSUME NEW m \in 0..(Len(w) - n)
      PROVE  SubSeq(rest, m + 1, Len(rest)) = Remaining(w, n + m)
  <2>. DEFINE u == SubSeq(rest, m + 1, Len(rest))
              v == Remaining(w, n + m)
  <2>1. \A i \in (m + 1)..Len(rest) : rest[i] \in Steps
    BY <1>3
  <2>2. m + 1 \in Int /\ Len(rest) \in Int
    BY <1>1, <1>3
  <2>3. /\ u \in Seq(Steps)
        /\ Len(u) = (IF m + 1 <= Len(rest) THEN Len(rest) - (m + 1) + 1 ELSE 0)
        /\ \A k \in 1..(Len(rest) - (m + 1) + 1) : u[k] = rest[m + 1 + k - 1]
    BY <2>1, <2>2, SubSeqProperties
  <2>4. /\ v \in Seq(Steps) /\ Len(v) = Len(w) - (n + m)
        /\ \A k \in 1..(Len(w) - (n + m)) : v[k] = w[n + m + k]
    <3>1. n + m \in 0..Len(w)
      BY <1>1
    <3>. QED BY <3>1, <1>2
  <2>. HIDE DEF u, v
  <2>5. Len(u) = Len(v)
    <3>1. Len(u) = IF m + 1 <= Len(rest) THEN Len(rest) - (m + 1) + 1 ELSE 0
      BY <2>3
    <3>2. Len(v) = Len(w) - (n + m)
      BY <2>4
    <3>3. Len(rest) = Len(w) - n /\ n \in Nat /\ m \in Nat /\ Len(w) \in Nat /\ m <= Len(w) - n
      BY <1>1, <1>3
    <3>. QED BY <3>1, <3>2, <3>3
  <2>6. ASSUME NEW k \in 1..Len(u) PROVE u[k] = v[k]
    <3>1. u[k] = rest[m + k]
      BY <1>1, <1>3, <2>3, <2>6
    <3>2. m + k \in 1..Len(rest)
      BY <1>1, <1>3, <2>3, <2>6
    <3>3. rest[m + k] = w[n + (m + k)]
      BY <1>3, <3>2
    <3>4. n + (m + k) = n + m + k /\ k \in 1..(Len(w) - (n + m))
      BY <1>1, <2>4, <2>5, <2>6
    <3>. QED BY <2>4, <3>1, <3>3, <3>4
  <2>7. u = v
    BY <2>3, <2>4, <2>5, <2>6, SeqEqual
  <2>. QED BY <2>7 DEF u, v
<1>. QED BY <1>1, <1>3, <1>4, <1>5

\* The step at hand, and what its call says of it.
LEMMA Step ==
  ASSUME NEW w, NEW d, NEW n, RestInv(w, d, n), rest # <<>>
  PROVE  /\ n + 1 \in 1..Len(w) /\ Head(rest) = w[n + 1]
         /\ w[n + 1] \in Steps /\ InCall(w, n + 1)
         /\ Len(rest) = Len(w) - n /\ SubSeq(rest, 2, Len(rest)) = Remaining(w, n + 1)
         /\ d[n] \in Nat /\ d[n + 1] \in Nat /\ d[n + 1] = d[n] + Effect(w[n + 1])
<1>1. /\ w \in Seq(Steps) /\ Len(w) \in Nat /\ n \in 0..Len(w) /\ n # Len(w)
      /\ Len(rest) = Len(w) - n /\ \A k \in 1..Len(rest) : rest[k] = w[n + k]
      /\ rest \in Seq(Steps)
      /\ \A m \in 0..(Len(w) - n) : SubSeq(rest, m + 1, Len(rest)) = Remaining(w, n + m)
  BY Here
<1>2. n + 1 \in 1..Len(w) /\ 1 \in 1..Len(rest) /\ 1 \in 0..(Len(w) - n)
  BY <1>1
<1>3. Head(rest) = rest[1]
  BY <1>1
<1>4. rest[1] = w[n + 1] /\ w[n + 1] \in Steps
  BY <1>1, <1>2
<1>5. SubSeq(rest, 1 + 1, Len(rest)) = Remaining(w, n + 1)
  BY <1>1, <1>2
<1>6. InCall(w, n + 1)
  BY <1>2 DEF RestInv, Calling
<1>7. d[n] \in Nat /\ d[n + 1] \in Nat
  <2>1. n \in 0..Len(w) /\ n + 1 \in 0..Len(w)
    BY <1>1, <1>2
  <2>2. d \in [0..Len(w) -> Nat]
    BY DEF RestInv, Depths
  <2>. QED BY <2>1, <2>2
<1>8. d[n + 1] = d[(n + 1) - 1] + Effect(w[n + 1])
  BY <1>2 DEF RestInv, Depths
<1>9. (n + 1) - 1 = n
  BY <1>1
<1>. QED BY <1>1, <1>2, <1>3, <1>4, <1>5, <1>6, <1>7, <1>8, <1>9

\* Only a write to the table is preceded by a handler that does not fit.
LEMMA Registered ==
  ASSUME BoardTypeOK, NEW w, NEW d, NEW n, At(w, d, n),
         \/ ~Alone
         \/ rest = <<>>
         \/ rest # <<>> /\ w[n + 1][1] \notin {"disable", "enable_irq"}
  PROVE  \A i \in ienable : handler[i] # NULL
<1>. SUFFICES ASSUME NEW i \in ienable, handler[i] = NULL PROVE FALSE
  OBVIOUS
<1>1. PICK p \in (n + 1)..Len(w) : p <= n + 2 /\ w[p] = <<"enable_irq", i, NULL>>
  BY DEF At, TableInv
<1>2. /\ w \in Seq(Steps) /\ Len(w) \in Nat /\ n \in 0..Len(w) /\ (rest = <<>> <=> n = Len(w))
      /\ \A k \in 1..Len(w) : InCall(w, k)
  BY Here DEF At, RestInv, Calling
<1>3. w[p][1] = "enable_irq"
  BY <1>1
<1>4. Alone
  BY <1>1, <1>3 DEF At, WriteInv
<1>5. p \in 1..Len(w) /\ n # Len(w)
  BY <1>1, <1>2
<1>6. p > 2 /\ w[p - 1] = <<"disable">>
  BY <1>2, <1>3, <1>5 DEF InCall, EnableOK
<1>7. p = n + 1 \/ p = n + 2
  BY <1>1, <1>2
<1>8. w[n + 1][1] \in {"disable", "enable_irq"}
  <2>1. p = n + 2 => p - 1 = n + 1
    BY <1>2
  <2>2. <<"disable">>[1] = "disable"
    OBVIOUS
  <2>. QED BY <1>3, <1>6, <1>7, <2>1, <2>2
<1>. QED BY <1>2, <1>4, <1>5, <1>8

\* The parts of the invariant after a step of the program.
LEMMA RestMoves ==
  ASSUME NEW w, NEW d, NEW n, RestInv(w, d, n), rest # <<>>,
         rest' = SubSeq(rest, 2, Len(rest)), inside' = inside + Effect(w[n + 1])
  PROVE  RestInv(w, d, n + 1)'
<1>1. n + 1 \in 1..Len(w) /\ rest' = Remaining(w, n + 1) /\ d[n + 1] = d[n] + Effect(w[n + 1])
  BY Step
<1>2. inside' = d[n + 1]
  BY <1>1 DEF RestInv
<1>3. Calling(w) /\ Single(w) /\ Depths(w, d)
  BY DEF RestInv
<1>4. n + 1 \in 0..Len(w)
  BY <1>1, Here
<1>. QED BY <1>1, <1>2, <1>3, <1>4 DEF RestInv

\* The clock is read in the section in which the alarm is put into the list, and after
\* alt_alarm_start has asked for the rate.
LEMMA StartMoves ==
  ASSUME NEW w, NEW d, NEW n, At(w, d, n), rest # <<>>,
         level' = "program", tick_rate # 0 => tick_rate' # 0,
         w[n + 1][1] = "ready" => tick_rate' # 0,
         w[n + 1][1] = "disable" => pie' = FALSE,
         w[n + 1][1] = "clock" => pie' = pie /\ current_nticks' = nticks',
         \A p \in (n + 2)..Len(w) : w[p][1] = "insert" => w[p][2] \notin registered'
  PROVE  StartInv(w, n + 1)'
<1>1. /\ w \in Seq(Steps) /\ Len(w) \in Nat /\ n \in 0..Len(w)
      /\ \A k \in 1..Len(w) : InCall(w, k)
  BY Here DEF At, RestInv, Calling
<1>0. /\ (n + 1) + 1 = n + 2 /\ (n + 1) + 2 = n + 3 /\ (n + 1) + 3 = n + 4
      /\ \A p \in (n + 2)..Len(w) : p <= n + 3 => p = n + 2 \/ p = n + 3
      /\ \A p \in (n + 2)..Len(w) : p <= n + 4 => p = n + 4 \/ p <= n + 3
  BY <1>1
<1>. SUFFICES ASSUME NEW p \in (n + 2)..Len(w), w[p][1] = "insert"
              PROVE  /\ p <= n + 4 => tick_rate' # 0
                     /\ p <= n + 3 => level' = "program" /\ pie' = FALSE
                     /\ p = n + 2 => current_nticks' = nticks'
  BY <1>0 DEF StartInv, Alone
<1>2. p \in 1..Len(w) /\ p \in (n + 1)..Len(w)
  BY <1>1
<1>3. w[p - 3][1] = "ready" /\ w[p - 2] = <<"disable">> /\ w[p - 1] = <<"clock">>
  BY <1>1, <1>2 DEF InCall, InsertOK
<1>4. (p <= n + 3 => tick_rate # 0) /\ (p <= n + 2 => level = "program" /\ pie = FALSE)
  BY <1>2 DEF At, StartInv, Alone
<1>5. (p = n + 4 => p - 3 = n + 1) /\ (p = n + 3 => p - 2 = n + 1) /\ (p = n + 2 => p - 1 = n + 1)
  BY <1>1
<1>6. <<"disable">>[1] = "disable" /\ <<"clock">>[1] = "clock"
  OBVIOUS
<1>7. p <= n + 4 => tick_rate' # 0
  <2>1. CASE p = n + 4  BY <2>1, <1>3, <1>5
  <2>2. CASE p <= n + 3  BY <2>2, <1>4
  <2>. QED BY <1>0, <2>1, <2>2
<1>8. p <= n + 3 => pie' = FALSE
  <2>1. CASE p = n + 3  BY <2>1, <1>3, <1>5, <1>6
  <2>2. CASE p = n + 2
    <3>1. w[n + 1][1] = "clock" /\ pie = FALSE
      BY <2>2, <1>1, <1>3, <1>4, <1>5, <1>6
    <3>. QED BY <3>1
  <2>. QED BY <1>0, <2>1, <2>2
<1>9. p = n + 2 => current_nticks' = nticks'
  BY <1>3, <1>5, <1>6
<1>. QED BY <1>7, <1>8, <1>9

\* Both writes of alt_ic_isr_register happen in one section.
LEMMA WriteMoves ==
  ASSUME BoardTypeOK, NEW w, NEW d, NEW n, At(w, d, n), rest # <<>>,
         level' = "program",
         w[n + 1][1] = "disable" => pie' = FALSE /\ handler' = handler,
         w[n + 1][1] = "handler" => /\ pie' = pie
                                    /\ handler' = [handler EXCEPT ![w[n + 1][2]] = w[n + 1][3]]
  PROVE  WriteInv(w, n + 1)'
<1>1. /\ w \in Seq(Steps) /\ Len(w) \in Nat /\ n \in 0..Len(w)
      /\ \A k \in 1..Len(w) : InCall(w, k)
      /\ n + 1 \in 1..Len(w) /\ w[n + 1] \in Steps
  BY Here, Step DEF At, RestInv, Calling
<1>2. \A p : p = n + 2 \/ p = n + 3 => (p - 1) \in Int /\ (p - 2) \in Int
  BY <1>1
<1>3. <<"disable">>[1] = "disable"
  OBVIOUS
<1>4. ASSUME NEW p \in (n + 2)..Len(w), w[p][1] = "handler", p = n + 2
      PROVE  pie' = FALSE
  <2>1. p \in 1..Len(w) /\ p - 1 = n + 1
    BY <1>1, <1>4
  <2>2. w[p - 1] = <<"disable">>
    BY <1>1, <1>4, <2>1 DEF InCall, HandlerOK
  <2>. QED BY <1>3, <2>1, <2>2
<1>5. ASSUME NEW p \in (n + 2)..Len(w), w[p][1] = "enable_irq", p <= n + 3
      PROVE  pie' = FALSE /\ handler'[w[p][2]] = w[p][3]
  <2>1. p \in 1..Len(w)
    BY <1>1
  <2>2. w[p - 1] = <<"disable">> /\ w[p - 2][1] = "handler"
    BY <1>1, <1>5, <2>1 DEF InCall, EnableOK
  <2>3. CASE p = n + 2
    <3>1. p - 1 = n + 1 /\ p \in (n + 1)..Len(w)
      BY <1>1, <2>3
    <3>2. handler[w[p][2]] = w[p][3]
      BY <1>5, <2>3, <3>1 DEF At, WriteInv
    <3>. QED BY <1>3, <2>2, <3>1, <3>2
  <2>4. CASE p = n + 3
    <3>1. p - 2 = n + 1 /\ n + 1 \in (n + 1)..Len(w) /\ p = (n + 1) + 2
      BY <1>1, <2>4
    <3>2. w[n + 1][1] = "handler"
      BY <2>2, <3>1
    <3>3. w[p] = <<"enable_irq", w[n + 1][2], w[n + 1][3]>>
      BY <1>1, <3>1, <3>2 DEF InCall, HandlerOK
    <3>4. w[n + 1][2] \in Irqs
      BY <1>1, <3>2, Kinds
    <3>5. Alone
      BY <3>1, <3>2 DEF At, WriteInv
    <3>6. pie' = FALSE
      BY <3>2, <3>5 DEF Alone
    <3>7. handler'[w[n + 1][2]] = w[n + 1][3]
      BY <3>2, <3>4 DEF BoardTypeOK
    <3>8. w[p][2] = w[n + 1][2] /\ w[p][3] = w[n + 1][3]
      BY <3>3
    <3>. QED BY <3>6, <3>7, <3>8
  <2>5. p = n + 2 \/ p = n + 3
    BY <1>1, <1>5
  <2>. QED BY <2>3, <2>4, <2>5
<1>6. (n + 1) + 1 = n + 2 /\ (n + 1) + 2 = n + 3
  BY <1>1
<1>. QED BY <1>4, <1>5, <1>6 DEF WriteInv, Alone

\* A handler that the program withdraws is missed by its interrupt for one step only.
LEMMA TableMoves ==
  ASSUME BoardTypeOK, NEW w, NEW d, NEW n, At(w, d, n), rest # <<>>,
         w[n + 1][1] = "handler" =>
           /\ handler' = [handler EXCEPT ![w[n + 1][2]] = w[n + 1][3]]
           /\ ienable' = ienable,
         w[n + 1][1] = "enable_irq" =>
           handler' = handler /\ SetEnable(w[n + 1][2], w[n + 1][3]),
         w[n + 1][1] \notin {"handler", "enable_irq"} =>
           handler' = handler /\ ienable' \subseteq ienable
  PROVE  TableInv(w, n + 1)'
<1>1. /\ w \in Seq(Steps) /\ Len(w) \in Nat /\ n \in 0..Len(w)
      /\ n + 1 \in 1..Len(w) /\ w[n + 1] \in Steps /\ InCall(w, n + 1)
  BY Here, Step DEF At
<1>2. ASSUME w[n + 1][1] \notin {"disable", "enable_irq"}
      PROVE  \A i \in ienable : handler[i] # NULL
  BY <1>2, Registered
<1>3. CASE w[n + 1][1] = "handler"
  <2>. DEFINE j == w[n + 1][2]
              isr == w[n + 1][3]
  <2>1. /\ handler' = [handler EXCEPT ![j] = isr] /\ ienable' = ienable
        /\ \A i \in ienable : handler[i] # NULL
    BY <1>2, <1>3
  <2>2. (n + 1) + 2 <= Len(w) /\ w[(n + 1) + 2] = <<"enable_irq", j, isr>>
    BY <1>1, <1>3 DEF InCall, HandlerOK
  <2>. HIDE DEF j, isr
  <2>. SUFFICES ASSUME NEW i \in ienable', handler'[i] = NULL
                PROVE  \E p \in ((n + 1) + 1)..Len(w) : p <= (n + 1) + 2 /\ w[p] = <<"enable_irq", i, NULL>>
    BY DEF TableInv
  <2>3. i = j /\ isr = NULL
    BY <2>1 DEF BoardTypeOK
  <2>4. (n + 1) + 2 \in ((n + 1) + 1)..Len(w)
    BY <1>1, <2>2
  <2>. QED BY <2>2, <2>3, <2>4
<1>4. CASE w[n + 1][1] = "enable_irq"
  <2>. DEFINE j == w[n + 1][2]
              isr == w[n + 1][3]
  <2>1. w[n + 1] = <<"enable_irq", j, isr>>
    BY <1>1, <1>4, Kinds
  <2>2. handler' = handler /\ SetEnable(j, isr)
    BY <1>4
  <2>3. handler[j] = isr
    <3>1. n + 1 \in (n + 1)..Len(w) /\ n + 1 <= n + 2
      BY <1>1
    <3>. QED BY <1>4, <3>1 DEF At, WriteInv
  <2>. SUFFICES ASSUME NEW i \in ienable', handler'[i] = NULL PROVE FALSE
    BY DEF TableInv
  <2>4. CASE i = j
    <3>. HIDE DEF j, isr
    <3>. QED BY <2>2, <2>3, <2>4 DEF SetEnable
  <2>5. CASE i # j
    <3>1. i \in ienable /\ handler[i] = NULL
      BY <2>2, <2>5 DEF SetEnable
    <3>2. PICK p \in (n + 1)..Len(w) : p <= n + 2 /\ w[p] = <<"enable_irq", i, NULL>>
      BY <3>1 DEF At, TableInv
    <3>3. p # n + 1
      BY <2>1, <2>5, <3>2
    <3>4. p = n + 2 /\ p \in 1..Len(w) /\ p - 1 = n + 1
      BY <1>1, <3>2, <3>3
    <3>5. w[p][1] = "enable_irq"
      BY <3>2
    <3>6. w[n + 1] = <<"disable">>
      BY <3>4, <3>5 DEF At, RestInv, Calling, InCall, EnableOK
    <3>. QED BY <1>4, <3>6
  <2>. QED BY <2>4, <2>5
<1>5. CASE w[n + 1][1] = "disable"
  <2>1. handler' = handler /\ ienable' \subseteq ienable
    BY <1>5
  <2>. SUFFICES ASSUME NEW i \in ienable', handler'[i] = NULL
                PROVE  \E p \in ((n + 1) + 1)..Len(w) : p <= (n + 1) + 2 /\ w[p] = <<"enable_irq", i, NULL>>
    BY DEF TableInv
  <2>2. PICK p \in (n + 1)..Len(w) : p <= n + 2 /\ w[p] = <<"enable_irq", i, NULL>>
    BY <2>1 DEF At, TableInv
  <2>3. w[p][1] = "enable_irq"
    BY <2>2
  <2>4. p # n + 1
    BY <1>5, <2>3
  <2>5. p \in ((n + 1) + 1)..Len(w) /\ p <= (n + 1) + 2
    BY <1>1, <2>2, <2>4
  <2>. QED BY <2>2, <2>5
<1>6. CASE w[n + 1][1] \notin {"handler", "enable_irq", "disable"}
  <2>1. handler' = handler /\ ienable' \subseteq ienable
    BY <1>6
  <2>. QED BY <1>2, <1>6, <2>1 DEF TableInv
<1>. QED BY <1>3, <1>4, <1>5, <1>6

-----------------------------------------------------------------------------
\* The steps of the program preserve the invariant.

USE DEF maskVars, tableVars, cpuVars, irqVars, vars

\* A step of the program, from what it does to each part of the state.
LEMMA Proceeds ==
  ASSUME BInv, NEW w, NEW d, NEW n, At(w, d, n), rest # <<>>, level = "program",
         rest' = SubSeq(rest, 2, Len(rest)), level' = level, pc' = pc,
         BoardTypeOK', Len(saved') = Len(saved) + Effect(w[n + 1]),
         tick_rate # 0 => tick_rate' # 0,
         w[n + 1][1] = "ready" => tick_rate' # 0,
         w[n + 1][1] = "disable" => pie' = FALSE,
         w[n + 1][1] = "clock" => pie' = pie /\ current_nticks' = nticks',
         \A p \in (n + 2)..Len(w) : w[p][1] = "insert" => w[p][2] \notin registered',
         w[n + 1][1] = "handler" => pie' = pie,
         w[n + 1][1] = "handler" =>
           /\ handler' = [handler EXCEPT ![w[n + 1][2]] = w[n + 1][3]]
           /\ ienable' = ienable,
         w[n + 1][1] = "enable_irq" =>
           handler' = handler /\ SetEnable(w[n + 1][2], w[n + 1][3]),
         w[n + 1][1] \notin {"handler", "enable_irq"} =>
           handler' = handler /\ ienable' \subseteq ienable
  PROVE  BInv'
<1>1. BoardTypeOK /\ LevelInv /\ RestInv(w, d, n) /\ pc = "idle"
  BY DEF BInv, At, LevelInv
<1>2. LevelInv'
  BY <1>1 DEF LevelInv
<1>3. inside' = inside + Effect(w[n + 1])
  <2>1. Len(saved) \in Nat /\ Effect(w[n + 1]) \in Int
    BY <1>1 DEF BoardTypeOK, Effect
  <2>. QED BY <1>1, <2>1 DEF inside
<1>4. RestInv(w, d, n + 1)'
  BY <1>1, <1>3, RestMoves
<1>5. StartInv(w, n + 1)'
  BY StartMoves
<1>6. w[n + 1][1] = "disable" => handler' = handler
  OBVIOUS
<1>7. WriteInv(w, n + 1)'
  BY <1>1, <1>6, WriteMoves
<1>8. TableInv(w, n + 1)'
  BY <1>1, TableMoves
<1>9. At(w, d, n + 1)'
  BY <1>4, <1>5, <1>7, <1>8 DEF At
<1>. QED BY <1>2, <1>9 DEF BInv

\* What the steps of the program have in common.
LEMMA Does ==
  ASSUME BInv, NEW w, NEW d, NEW n, At(w, d, n), NEW step, Doing(step)
  PROVE  /\ level = "program" /\ rest # <<>> /\ pc = "idle" /\ BoardTypeOK
         /\ w[n + 1][1] = step /\ w[n + 1] \in Steps /\ Head(rest) = w[n + 1]
         /\ InCall(w, n + 1) /\ n + 1 \in 1..Len(w)
         /\ \A k : argument(k) = w[n + 1][k]
         /\ Goes(1) => rest' = SubSeq(rest, 2, Len(rest)) /\ level' = level /\ line' = line
         /\ Len(saved) \in Nat /\ d[n] = Len(saved) /\ d[n] + Effect(w[n + 1]) \in Nat
         /\ \A p \in (n + 2)..Len(w) : w[p][1] = "insert" => w[p][2] \notin registered
<1>1. level = "program" /\ rest # <<>> /\ Head(rest)[1] = step
  BY DEF Doing
<1>2. BoardTypeOK /\ RestInv(w, d, n) /\ pc = "idle"
  BY <1>1 DEF BInv, At, LevelInv
<1>3. /\ n + 1 \in 1..Len(w) /\ Head(rest) = w[n + 1] /\ w[n + 1] \in Steps
      /\ InCall(w, n + 1) /\ Len(rest) = Len(w) - n
      /\ d[n] \in Nat /\ d[n + 1] \in Nat /\ d[n + 1] = d[n] + Effect(w[n + 1])
  BY <1>1, <1>2, Step
<1>4. Len(saved) \in Nat /\ inside = Len(saved) /\ inside = d[n]
  BY <1>1, <1>2 DEF BoardTypeOK, inside, RestInv
<1>5. Goes(1) => rest' = SubSeq(rest, 2, Len(rest)) /\ level' = level /\ line' = line
  BY DEF Goes
<1>6. \A k : argument(k) = w[n + 1][k]
  BY <1>3 DEF argument
<1>7. \A p \in (n + 2)..Len(w) : p \in (n + 1)..Len(w)
  BY <1>2 DEF RestInv
<1>8. \A p \in (n + 2)..Len(w) : w[p][1] = "insert" => w[p][2] \notin registered
  BY <1>7 DEF At, StartInv
<1>. QED BY <1>1, <1>2, <1>3, <1>4, <1>5, <1>6, <1>8

\* Leaving a section takes the innermost context.
LEMMA Leaving ==
  ASSUME EnableAll, saved \in Seq(BOOLEAN), Len(saved) > 0
  PROVE  /\ pie' = saved[Len(saved)] /\ pie' \in BOOLEAN
         /\ saved' \in Seq(BOOLEAN) /\ Len(saved') = Len(saved) - 1
<1>1. pie' = saved[Len(saved)] /\ saved' = SubSeq(saved, 1, Len(saved) - 1)
  BY DEF EnableAll, Seqs!Last, Seqs!Front
<1>2. Len(saved) \in Nat /\ Len(saved) \in 1..Len(saved)
  OBVIOUS
<1>3. saved[Len(saved)] \in BOOLEAN
  BY <1>2, ElementOfSeq
<1>4. saved' \in Seq(BOOLEAN) /\ Len(saved') = Len(saved) - 1
  <2>1. \A i \in 1..(Len(saved) - 1) : saved[i] \in BOOLEAN
    BY <1>2, ElementOfSeq
  <2>2. 1 \in Int /\ Len(saved) - 1 \in Int
    BY <1>2
  <2>3. /\ saved' \in Seq(BOOLEAN)
        /\ Len(saved') = (IF 1 <= Len(saved) - 1 THEN (Len(saved) - 1) - 1 + 1 ELSE 0)
    BY <1>1, <2>1, <2>2, SubSeqProperties
  <2>4. Len(saved') = Len(saved) - 1
    <3>. DEFINE l == Len(saved)
    <3>1. l \in Nat /\ l > 0 /\ Len(saved') = (IF 1 <= l - 1 THEN (l - 1) - 1 + 1 ELSE 0)
      BY <1>2, <2>3
    <3>. HIDE DEF l
    <3>2. Len(saved') = l - 1
      BY <3>1
    <3>. QED BY <3>2 DEF l
  <2>. QED BY <2>3, <2>4
<1>. QED BY <1>1, <1>3, <1>4

\* Entering a section saves one.
LEMMA Entering ==
  ASSUME DisableAll, pie \in BOOLEAN, saved \in Seq(BOOLEAN)
  PROVE  /\ pie' = FALSE /\ saved' \in Seq(BOOLEAN)
         /\ Len(saved') = Len(saved) + 1 /\ saved'[Len(saved')] = pie
<1>1. /\ Append(saved, pie) \in Seq(BOOLEAN) /\ Len(Append(saved, pie)) = Len(saved) + 1
      /\ Append(saved, pie)[Len(saved) + 1] = pie
  BY AppendProperties
<1>. QED BY <1>1 DEF DisableAll

\* The program enters a section.
LEMMA DisableStep ==
  ASSUME BInv, Disable
  PROVE  BInv'
<1>. PICK w, d, n : At(w, d, n)
  BY DEF BInv
<1>1. /\ Doing("disable") /\ Goes(1) /\ DisableAll
      /\ UNCHANGED <<vars, tableVars, current_nticks, running>>
  BY DEF Disable
<1>2. w[n + 1] = <<"disable">>
  BY <1>1, Does, Kinds
<1>3. Effect(w[n + 1]) = 1
  BY <1>2 DEF Effect
<1>4. saved' \in Seq(BOOLEAN) /\ Len(saved') = Len(saved) + 1 /\ pie' = FALSE
  BY <1>1, Does, Entering DEF BoardTypeOK
<1>5. BoardTypeOK'
  BY <1>1, <1>4, Does DEF BoardTypeOK
<1>6. /\ rest # <<>> /\ level = "program" /\ w[n + 1][1] = "disable"
      /\ rest' = SubSeq(rest, 2, Len(rest)) /\ level' = level
      /\ \A p \in (n + 2)..Len(w) : w[p][1] = "insert" => w[p][2] \notin registered
  BY <1>1, Does
<1>. QED BY <1>1, <1>3, <1>4, <1>5, <1>6, Proceeds

\* The program leaves a section.
LEMMA EnableStep ==
  ASSUME BInv, Enable
  PROVE  BInv'
<1>. PICK w, d, n : At(w, d, n)
  BY DEF BInv
<1>1. /\ Doing("enable") /\ Goes(1) /\ EnableAll
      /\ UNCHANGED <<vars, tableVars, current_nticks, running>>
  BY DEF Enable
<1>2. w[n + 1] = <<"enable">>
  BY <1>1, Does, Kinds
<1>3. Effect(w[n + 1]) = -1
  BY <1>2 DEF Effect
<1>4. Len(saved) > 0
  BY <1>1, <1>3, Does
<1>5. pie' \in BOOLEAN /\ saved' \in Seq(BOOLEAN) /\ Len(saved') = Len(saved) - 1
  BY <1>1, <1>4, Does, Leaving DEF BoardTypeOK
<1>6. BoardTypeOK'
  BY <1>1, <1>5, Does DEF BoardTypeOK
<1>7. Len(saved') = Len(saved) + Effect(w[n + 1])
  BY <1>1, <1>3, <1>5, Does
<1>8. /\ rest # <<>> /\ level = "program" /\ w[n + 1][1] = "enable"
      /\ rest' = SubSeq(rest, 2, Len(rest)) /\ level' = level
      /\ \A p \in (n + 2)..Len(w) : w[p][1] = "insert" => w[p][2] \notin registered
  BY <1>1, Does
<1>. QED BY <1>1, <1>6, <1>7, <1>8, Proceeds

\* The steps that have to do with neither sections nor handlers.
LEMMA OtherStep ==
  ASSUME BInv, NEW step \in {"irq_init", "cpu_enable", "sysclk", "control", "clock", "remove"},
         Doing(step), Goes(1), UNCHANGED <<pc, saved, handler>>,
         pie' \in BOOLEAN, ienable' \subseteq ienable, running' \subseteq Irqs,
         registered' \subseteq registered,
         tick_rate # 0 => tick_rate' # 0,
         step = "clock" => pie' = pie /\ current_nticks' = nticks'
  PROVE  BInv'
<1>. PICK w, d, n : At(w, d, n)
  BY DEF BInv
<1>1. Effect(w[n + 1]) = 0
  BY Does, Kinds
<1>2. BoardTypeOK'
  BY Does DEF BoardTypeOK
<1>3. \A p \in (n + 2)..Len(w) : w[p][1] = "insert" => w[p][2] \notin registered'
  BY Does
<1>4. /\ rest # <<>> /\ level = "program" /\ w[n + 1][1] = step
      /\ rest' = SubSeq(rest, 2, Len(rest)) /\ level' = level /\ Len(saved) \in Nat
  BY Does
<1>5. w[n + 1][1] \notin {"ready", "disable", "handler", "enable_irq"}
  BY <1>4
<1>6. w[n + 1][1] = "clock" => pie' = pie /\ current_nticks' = nticks'
  BY <1>4
<1>7. Len(saved') = Len(saved) + Effect(w[n + 1])
  BY <1>1, <1>4
<1>. QED BY <1>2, <1>3, <1>4, <1>5, <1>6, <1>7, Proceeds

\* alt_irq[id].handler is written.
LEMMA WriteTableStep ==
  ASSUME BInv, WriteTable
  PROVE  BInv'
<1>. PICK w, d, n : At(w, d, n)
  BY DEF BInv
<1>1. /\ Doing("handler") /\ Goes(1) /\ SetHandler(argument(2), argument(3))
      /\ UNCHANGED <<vars, maskVars, ienable, current_nticks, running>>
  BY DEF WriteTable
<1>2. /\ rest # <<>> /\ level = "program" /\ w[n + 1][1] = "handler"
      /\ rest' = SubSeq(rest, 2, Len(rest)) /\ level' = level /\ Len(saved) \in Nat
      /\ \A p \in (n + 2)..Len(w) : w[p][1] = "insert" => w[p][2] \notin registered
  BY <1>1, Does
<1>3. Effect(w[n + 1]) = 0 /\ w[n + 1][2] \in Irqs /\ w[n + 1][3] \in Handled
  BY <1>1, <1>2, Does, Kinds
<1>4. handler' = [handler EXCEPT ![w[n + 1][2]] = w[n + 1][3]]
  <2>1. argument(2) = w[n + 1][2] /\ argument(3) = w[n + 1][3]
    BY <1>1, Does
  <2>. QED BY <1>1, <2>1 DEF SetHandler
<1>5. BoardTypeOK'
  BY <1>1, <1>3, <1>4, Does DEF BoardTypeOK
<1>6. Len(saved') = Len(saved) + Effect(w[n + 1])
  BY <1>1, <1>2, <1>3
<1>. QED BY <1>1, <1>2, <1>4, <1>5, <1>6, Proceeds

\* The interrupt is enabled or disabled.
LEMMA WriteMaskStep ==
  ASSUME BInv, WriteMask
  PROVE  BInv'
<1>. PICK w, d, n : At(w, d, n)
  BY DEF BInv
<1>1. /\ Doing("enable_irq") /\ Goes(1) /\ SetEnable(argument(2), argument(3))
      /\ UNCHANGED <<vars, maskVars, handler, current_nticks, running>>
  BY DEF WriteMask
<1>2. /\ rest # <<>> /\ level = "program" /\ w[n + 1][1] = "enable_irq"
      /\ rest' = SubSeq(rest, 2, Len(rest)) /\ level' = level /\ Len(saved) \in Nat
      /\ \A p \in (n + 2)..Len(w) : w[p][1] = "insert" => w[p][2] \notin registered
  BY <1>1, Does
<1>3. Effect(w[n + 1]) = 0 /\ w[n + 1][2] \in Irqs /\ w[n + 1][3] \in Handled
  BY <1>1, <1>2, Does, Kinds
<1>4. SetEnable(w[n + 1][2], w[n + 1][3])
  <2>1. argument(2) = w[n + 1][2] /\ argument(3) = w[n + 1][3]
    BY <1>1, Does
  <2>. QED BY <1>1, <2>1 DEF SetEnable
<1>5. BoardTypeOK'
  BY <1>1, <1>3, <1>4, Does DEF BoardTypeOK, SetEnable
<1>6. Len(saved') = Len(saved) + Effect(w[n + 1])
  BY <1>1, <1>2, <1>3
<1>. QED BY <1>1, <1>2, <1>4, <1>5, <1>6, Proceeds

\* An alarm is put into the list.
LEMMA InsertStep ==
  ASSUME BInv, InsertAlarm
  PROVE  BInv'
<1>. PICK w, d, n : At(w, d, n)
  BY DEF BInv
<1>1. /\ Doing("insert") /\ Goes(1) /\ Register(argument(2), argument(3), current_nticks)
      /\ UNCHANGED <<clockVars, walkVars, maskVars, tableVars, running>>
  BY DEF InsertAlarm
<1>2. /\ rest # <<>> /\ level = "program" /\ w[n + 1][1] = "insert" /\ n + 1 \in 1..Len(w)
      /\ rest' = SubSeq(rest, 2, Len(rest)) /\ level' = level /\ Len(saved) \in Nat
      /\ \A p \in (n + 2)..Len(w) : w[p][1] = "insert" => w[p][2] \notin registered
  BY <1>1, Does
<1>3. Effect(w[n + 1]) = 0
  BY <1>1, <1>2, Does, Kinds
<1>4. \A p \in (n + 2)..Len(w) : w[p][1] # "insert"
  <2>. SUFFICES ASSUME NEW p \in (n + 2)..Len(w), w[p][1] = "insert" PROVE FALSE
    OBVIOUS
  <2>1. p \in 1..Len(w) /\ p # n + 1
    BY Here DEF At
  <2>. QED BY <1>2, <2>1 DEF At, RestInv, Single
<1>5. BoardTypeOK'
  BY <1>1, Does DEF BoardTypeOK
<1>6. Len(saved') = Len(saved) + Effect(w[n + 1])
  BY <1>1, <1>2, <1>3
<1>. QED BY <1>1, <1>2, <1>4, <1>5, <1>6, Proceeds

\* alt_alarm_start returns at once when there is no clock.
LEMMA AskRateStep ==
  ASSUME BInv, AskRate
  PROVE  BInv'
<1>. PICK w, d, n : At(w, d, n)
  BY DEF BInv
<1>1. /\ Doing("ready")
      /\ IF tick_rate # 0 THEN Goes(1) ELSE Goes(5)
      /\ UNCHANGED <<clockVars, listVars, time, rollover, walkVars, registered, due>>
      /\ UNCHANGED <<maskVars, tableVars, current_nticks, running>>
  BY DEF AskRate
<1>2. /\ rest # <<>> /\ level = "program" /\ w[n + 1][1] = "ready" /\ n + 1 \in 1..Len(w)
      /\ Len(saved) \in Nat /\ InCall(w, n + 1) /\ BoardTypeOK /\ pc = "idle"
      /\ \A p \in (n + 2)..Len(w) : w[p][1] = "insert" => w[p][2] \notin registered
  BY <1>1, Does
<1>3. Effect(w[n + 1]) = 0
  BY <1>1, <1>2, Does, Kinds
<1>4. BoardTypeOK'
  BY <1>1, <1>2 DEF BoardTypeOK, Goes
<1>5. CASE tick_rate # 0
  <2>1. Goes(1)
    BY <1>1, <1>5
  <2>2. rest' = SubSeq(rest, 2, Len(rest)) /\ level' = level
    BY <1>1, <2>1, Does
  <2>3. Len(saved') = Len(saved) + Effect(w[n + 1])
    BY <1>1, <1>2, <1>3
  <2>. QED BY <1>1, <1>2, <1>4, <1>5, <2>2, <2>3, Proceeds
<1>6. CASE tick_rate = 0
  <2>1. rest' = SubSeq(rest, 5 + 1, Len(rest)) /\ level' = level /\ line' = line
    BY <1>1, <1>6 DEF Goes
  <2>0. RestInv(w, d, n)
    BY DEF At
  <2>a. /\ w \in Seq(Steps) /\ Len(w) \in Nat /\ n \in 0..Len(w)
        /\ \A m \in 0..(Len(w) - n) : SubSeq(rest, m + 1, Len(rest)) = Remaining(w, n + m)
    BY <2>0, Here
  <2>b. \A k \in 1..Len(w) : InCall(w, k)
    BY <2>0 DEF RestInv, Calling
  <2>2. /\ w \in Seq(Steps) /\ Len(w) \in Nat /\ n \in 0..Len(w)
        /\ \A m \in 0..(Len(w) - n) : SubSeq(rest, m + 1, Len(rest)) = Remaining(w, n + m)
        /\ \A k \in 1..Len(w) : InCall(w, k)
    BY <2>a, <2>b
  <2>3. ReadyOK(w, n + 1)
    BY <1>2 DEF InCall
  <2>4. /\ n + 5 <= Len(w) /\ w[n + 2] = <<"disable">> /\ w[n + 3] = <<"clock">>
        /\ w[n + 4][1] = "insert" /\ w[n + 5] = <<"enable">>
    <3>1. /\ (n + 1) + 4 = n + 5 /\ (n + 1) + 1 = n + 2 /\ (n + 1) + 2 = n + 3
          /\ (n + 1) + 3 = n + 4
      BY <2>2
    <3>. QED BY <2>3, <3>1 DEF ReadyOK
  <2>5. rest' = Remaining(w, n + 5) /\ n + 5 \in 0..Len(w)
    <3>1. 5 \in 0..(Len(w) - n)
      BY <2>2, <2>4
    <3>. QED BY <2>1, <2>2, <2>4, <3>1
  <2>6. d[n + 5] = d[n]
    <3>1. /\ n + 1 \in 1..Len(w) /\ n + 2 \in 1..Len(w) /\ n + 3 \in 1..Len(w)
          /\ n + 4 \in 1..Len(w) /\ n + 5 \in 1..Len(w)
      BY <2>2, <2>4
    <3>2. /\ (n + 1) - 1 = n /\ (n + 2) - 1 = n + 1 /\ (n + 3) - 1 = n + 2
          /\ (n + 4) - 1 = n + 3 /\ (n + 5) - 1 = n + 4
      BY <2>2
    <3>3. /\ d[n + 1] = d[n] + Effect(w[n + 1]) /\ d[n + 2] = d[n + 1] + Effect(w[n + 2])
          /\ d[n + 3] = d[n + 2] + Effect(w[n + 3]) /\ d[n + 4] = d[n + 3] + Effect(w[n + 4])
          /\ d[n + 5] = d[n + 4] + Effect(w[n + 5])
      BY <3>1, <3>2 DEF At, RestInv, Depths
    <3>4. Effect(w[n + 2]) = 1 /\ Effect(w[n + 3]) = 0 /\ Effect(w[n + 5]) = -1
      BY <2>4 DEF Effect
    <3>5. Effect(w[n + 4]) = 0
      <4>1. w[n + 4] \in Steps
        BY <2>2, <3>1
      <4>. QED BY <2>4, <4>1, Kinds
    <3>6. d[n] \in Nat
      BY <2>2 DEF At, RestInv, Depths
    <3>. QED BY <1>3, <3>3, <3>4, <3>5, <3>6
  <2>7. inside' = inside
    BY <1>1, <2>1 DEF inside
  <2>8. RestInv(w, d, n + 5)'
    BY <2>5, <2>6, <2>7 DEF At, RestInv
  <2>9. /\ w[n + 3][1] = "clock" /\ w[n + 5][1] = "enable"
        /\ w[n + 3][1] # "ready" /\ w[n + 4][1] # "ready" /\ w[n + 5][1] # "ready"
        /\ w[n + 5][1] # "handler" /\ w[n + 5] # <<"disable">>
    BY <2>4
  <2>10. ASSUME NEW p \in ((n + 5) + 1)..Len(w), p <= (n + 5) + 3 PROVE w[p][1] # "insert"
    <3>. SUFFICES ASSUME w[p][1] = "insert" PROVE FALSE
      OBVIOUS
    <3>1. p \in 1..Len(w) /\ (p - 3 = n + 3 \/ p - 3 = n + 4 \/ p - 3 = n + 5)
      BY <2>2, <2>10
    <3>2. w[p - 3][1] = "ready"
      BY <2>2, <3>1 DEF InCall, InsertOK
    <3>. QED BY <2>9, <3>1, <3>2
  <2>11. ASSUME NEW p \in ((n + 5) + 1)..Len(w), p = (n + 5) + 1
         PROVE  w[p][1] # "handler" /\ w[p][1] # "enable_irq"
    <3>1. p \in 1..Len(w) /\ p - 1 = n + 5
      BY <2>2, <2>11
    <3>2. InCall(w, p)
      BY <2>2, <3>1
    <3>. QED BY <2>9, <3>1, <3>2 DEF InCall, HandlerOK, EnableOK
  <2>12. ASSUME NEW p \in ((n + 5) + 1)..Len(w), p = (n + 5) + 2
         PROVE  w[p][1] # "enable_irq"
    <3>1. p \in 1..Len(w) /\ p - 2 = n + 5
      BY <2>2, <2>12
    <3>2. InCall(w, p)
      BY <2>2, <3>1
    <3>. QED BY <2>9, <3>1, <3>2 DEF InCall, EnableOK
  <2>13. \A p \in ((n + 5) + 1)..Len(w) :
           /\ p <= (n + 5) + 2 => p <= (n + 5) + 3 /\ (p = (n + 5) + 1 \/ p = (n + 5) + 2)
           /\ p = (n + 5) + 1 => p <= (n + 5) + 3
           /\ p \in (n + 2)..Len(w)
    BY <2>2
  <2>14. StartInv(w, n + 5)'
    BY <1>1, <1>2, <2>10, <2>13 DEF StartInv
  <2>15. WriteInv(w, n + 5)'
    BY <2>11, <2>12, <2>13 DEF WriteInv
  <2>16. \A i \in ienable : handler[i] # NULL
    <3>1. w[n + 1][1] \notin {"disable", "enable_irq"}
      BY <1>2
    <3>. QED BY <1>2, <3>1, Registered
  <2>17. TableInv(w, n + 5)'
    BY <1>1, <2>16 DEF TableInv
  <2>18. LevelInv'
    BY <1>1, <1>2, <2>1 DEF LevelInv
  <2>19. At(w, d, n + 5)'
    BY <2>8, <2>14, <2>15, <2>17 DEF At
  <2>. QED BY <1>4, <2>18, <2>19 DEF BInv
<1>. QED BY <1>5, <1>6

\* The program begins its next call.
LEMMA CallStep ==
  ASSUME BInv, Call
  PROVE  BInv'
<1>. PICK w, d, n : At(w, d, n)
  BY DEF BInv
<1>1. /\ level = "program" /\ rest = <<>> /\ rest' \in Calls
      /\ UNCHANGED <<vars, irqVars, current_nticks, running, raises>>
  BY DEF Call
<1>2. BoardTypeOK /\ LevelInv /\ pc = "idle" /\ RestInv(w, d, n)
  BY <1>1 DEF BInv, LevelInv, At
<1>3. \A i \in ienable : handler[i] # NULL
  BY <1>1, <1>2, Registered
<1>4. inside = 0
  <2>1. n = Len(w)
    BY <1>1, <1>2, Here
  <2>. QED BY <1>2, <2>1 DEF RestInv, Depths
<1>5. inside' = 0
  BY <1>1, <1>4 DEF inside
<1>6. BoardTypeOK' /\ LevelInv'
  BY <1>1, <1>2 DEF BoardTypeOK, LevelInv, pending
<1>7. /\ Whole(rest') /\ Single(rest')
      /\ \A k \in 1..Len(rest') : rest'[k][1] = "insert" => rest'[k][2] \notin registered'
  <2>0. \A v : Quiet(v) => /\ Single(v)
                           /\ \A k \in 1..Len(v) : v[k][1] = "insert" => v[k][2] \notin registered'
    BY DEF Quiet, Single
  <2>1. CASE \E a \in Alarms \ (registered \cup {uart_alarm}), m \in Intervals : rest' = alt_alarm_start(a, m)
    <3>1. PICK a \in Alarms \ (registered \cup {uart_alarm}), m \in Intervals : rest' = alt_alarm_start(a, m)
      BY <2>1
    <3>2. /\ Whole(rest') /\ Single(rest')
          /\ \A k \in 1..Len(rest') : rest'[k][1] = "insert" => rest'[k][2] = a
      BY <3>1, StartCall DEF Whole
    <3>. QED BY <1>1, <3>2
  <2>2. CASE \E a \in Alarms \ {uart_alarm} : rest' = alt_alarm_stop(a)
    <3>1. Whole(rest') /\ Quiet(rest')
      BY <2>2, StopCall DEF Whole
    <3>. QED BY <2>0, <3>1
  <2>3. CASE \E i \in {DMA_IRQ} \cap ienable : rest' = alt_ic_isr_register(i, NULL)
    <3>1. PICK i \in Irqs : rest' = alt_ic_isr_register(i, NULL)
      BY <2>3, BoardConstants
    <3>2. Whole(rest') /\ Quiet(rest')
      BY <3>1, RegisterCall DEF Whole, Handled
    <3>. QED BY <2>0, <3>2
  <2>. QED BY <1>1, <2>1, <2>2, <2>3 DEF Calls
<1>8. \A i \in ienable' : handler'[i] # NULL
  BY <1>1, <1>3
<1>9. (\E v, e, m : At(v, e, m))'
  <2>1. PICK v : v = rest'
    OBVIOUS
  <2>2. PICK e : Depths(v, e)
    BY <1>7, <2>1, Begun
  <2>3. RestInv(v, e, 0)'
    BY <1>5, <1>7, <2>1, <2>2, Begun DEF RestInv, Whole, Depths
  <2>a. /\ \A k \in 1..Len(v) : /\ v[k][1] = "insert" => k > 3 /\ v[k][2] \notin registered'
                                /\ v[k][1] = "handler" => k > 1
                                /\ v[k][1] = "enable_irq" => k > 2
        /\ 0 + 1 = 1 /\ 0 + 2 = 2 /\ 0 + 3 = 3
    <3>1. Whole(v) /\ \A k \in 1..Len(v) : v[k][1] = "insert" => v[k][2] \notin registered'
      BY <1>7, <2>1
    <3>2. \A k \in 1..Len(v) : /\ v[k][1] = "insert" => k > 3
                               /\ v[k][1] = "handler" => k > 1
                               /\ v[k][1] = "enable_irq" => k > 2
      BY <3>1, Ahead
    <3>. QED BY <3>1, <3>2
  <2>b. StartInv(v, 0)'
    BY <2>a DEF StartInv
  <2>c. WriteInv(v, 0)'
    BY <2>a DEF WriteInv
  <2>5. TableInv(v, 0)'
    BY <1>8 DEF TableInv
  <2>. QED BY <2>3, <2>b, <2>c, <2>5 DEF At
<1>. QED BY <1>6, <1>9 DEF BInv

-----------------------------------------------------------------------------
\* And so do the devices, the dispatcher and the handlers.

\* Wherever the program has been interrupted, its next step may wait.
LEMMA Waits ==
  ASSUME BInv, NEW w, NEW d, NEW n, At(w, d, n), ~Alone, rest' = rest, inside' = inside,
         tick_rate # 0 => tick_rate' # 0,
         \A p \in (n + 1)..Len(w) : w[p][1] = "insert" => w[p][2] \notin registered',
         \A i \in ienable' : i \in ienable /\ handler'[i] = handler[i]
  PROVE  (\E v, e, m : At(v, e, m))'
<1>1. RestInv(w, d, n)'
  BY DEF At, RestInv
<1>2. \A p \in (n + 1)..Len(w) : /\ w[p][1] = "insert" => ~(p <= n + 2)
                                 /\ w[p][1] = "handler" => p # n + 1
                                 /\ w[p][1] = "enable_irq" => ~(p <= n + 2)
  BY DEF At, StartInv, WriteInv
<1>3. n \in Nat
  BY Here DEF At
<1>4. StartInv(w, n)'
  <2>1. \A p \in (n + 1)..Len(w) : w[p][1] = "insert" /\ p <= n + 3 => tick_rate' # 0
    BY DEF At, StartInv
  <2>2. n + 1 <= n + 2
    BY <1>3
  <2>. QED BY <1>2, <2>1, <2>2 DEF StartInv
<1>5. WriteInv(w, n)'
  BY <1>2 DEF WriteInv
<1>6. \A i \in ienable : handler[i] # NULL
  BY Registered DEF BInv
<1>7. TableInv(w, n)'
  BY <1>6 DEF TableInv
<1>. QED BY <1>1, <1>4, <1>5, <1>7 DEF At

\* The contexts that are there when the dispatcher and the timer's handler restore one.
LEMMA Depth ==
  ASSUME BInv, NEW w, NEW d, NEW n, At(w, d, n)
  PROVE  /\ BoardTypeOK /\ LevelInv /\ Len(saved) \in Nat /\ inside \in Nat
         /\ level # "program" => Len(saved) > 0 /\ (pc # "idle" => Len(saved) > 1)
         /\ \A p \in (n + 1)..Len(w) : w[p][1] = "insert" => w[p][2] \notin registered
<1>1. BoardTypeOK /\ LevelInv
  BY DEF BInv
<1>2. Len(saved) \in Nat
  BY <1>1 DEF BoardTypeOK
<1>3. inside \in Nat
  <2>1. n \in 0..Len(w)
    BY Here DEF At
  <2>. QED BY <2>1 DEF At, RestInv, Depths
<1>4. level # "program" => Len(saved) > 0 /\ (pc # "idle" => Len(saved) > 1)
  BY <1>2, <1>3 DEF inside
<1>. QED BY <1>1, <1>2, <1>3, <1>4 DEF At, StartInv

\* A device requests an interrupt.
LEMMA RaiseStep ==
  ASSUME BInv, Raise
  PROVE  BInv'
<1>. PICK w, d, n : At(w, d, n)
  BY DEF BInv
<1>. PICK i \in running \ line : line' = line \cup {i}
  BY DEF Raise
<1>1. UNCHANGED <<vars, maskVars, tableVars, cpuVars, rest, current_nticks, running>>
  BY DEF Raise
<1>2. BoardTypeOK /\ LevelInv /\ running \subseteq Irqs
  BY DEF BInv, BoardTypeOK
<1>3. BoardTypeOK'
  BY <1>1, <1>2 DEF BoardTypeOK
<1>4. LevelInv'
  BY <1>1, <1>2 DEF LevelInv, pending
<1>5. At(w, d, n)'
  <2>1. inside' = inside
    BY <1>1 DEF inside
  <2>2. RestInv(w, d, n)'
    BY <1>1, <2>1 DEF At, RestInv
  <2>3. StartInv(w, n)'
    BY <1>1 DEF At, StartInv, Alone
  <2>4. WriteInv(w, n)'
    BY <1>1 DEF At, WriteInv, Alone
  <2>5. TableInv(w, n)'
    BY <1>1 DEF At, TableInv
  <2>. QED BY <2>2, <2>3, <2>4, <2>5 DEF At
<1>. QED BY <1>3, <1>4, <1>5 DEF BInv

\* The processor takes an interrupt: then it was the program that ran.
LEMMA InterruptStep ==
  ASSUME BInv, Interrupt
  PROVE  BInv' /\ level = "program"
<1>. PICK w, d, n : At(w, d, n)
  BY DEF BInv
<1>1. /\ pie /\ DisableAll /\ level' = "entry" /\ UNCHANGED <<tableVars, line, active, current>>
      /\ UNCHANGED <<vars, rest, current_nticks, running, raises>>
  BY DEF Interrupt, Enter
<1>2. level = "program" /\ pc = "idle" /\ ~Alone
  BY <1>1, Depth DEF LevelInv, Alone
<1>3. pie' = FALSE /\ saved' \in Seq(BOOLEAN) /\ Len(saved') = Len(saved) + 1
  BY <1>1, Entering, Depth DEF BoardTypeOK
<1>4. BoardTypeOK'
  BY <1>1, <1>3, Depth DEF BoardTypeOK
<1>5. LevelInv'
  BY <1>1, <1>2, <1>3 DEF LevelInv
<1>6. inside' = inside
  BY <1>1, <1>2, <1>3, Depth DEF inside
<1>7. (\E v, e, m : At(v, e, m))'
  BY <1>1, <1>2, <1>6, Depth, Waits
<1>. QED BY <1>2, <1>4, <1>5, <1>7 DEF BInv

\* The dispatcher makes a step.
LEMMA DispatchStep ==
  ASSUME BInv, Dispatcher
  PROVE  BInv'
<1>. PICK w, d, n : At(w, d, n)
  BY DEF BInv
<1>1. Dispatch /\ UNCHANGED <<vars, rest, current_nticks, running, raises>>
  BY DEF Dispatcher
<1>2. /\ level \in {"entry", "scan", "handled", "exit"} /\ UNCHANGED <<tableVars, line, running>>
  BY <1>1 DEF Dispatch, Test, Scan, Again, Exit
<1>3. pc = "idle" /\ ~Alone
  BY <1>2, Depth DEF LevelInv, Alone
<1>4. ASSUME UNCHANGED maskVars, level' # "program",
             level' = "scan" => active' # {} /\ active' \subseteq pending'
      PROVE  BInv'
  <2>1. BoardTypeOK'
    BY <1>2, <1>4, Depth DEF BoardTypeOK
  <2>2. LevelInv'
    BY <1>1, <1>2, <1>3, <1>4, Depth DEF LevelInv
  <2>3. inside' = inside
    BY <1>1, <1>2, <1>4 DEF inside
  <2>4. (\E v, e, m : At(v, e, m))'
    BY <1>1, <1>2, <1>3, <2>3, Depth, Waits
  <2>. QED BY <2>1, <2>2, <2>4 DEF BInv
<1>5. CASE Test   BY <1>4, <1>5 DEF Test, pending
<1>6. CASE Scan   BY <1>4, <1>6 DEF Scan
<1>7. CASE Again  BY <1>4, <1>7 DEF Again, pending
<1>8. CASE Exit
  <2>1. EnableAll /\ level = "exit" /\ level' = "program" /\ UNCHANGED <<active, current>>
    BY <1>8 DEF Exit
  <2>2. pie' \in BOOLEAN /\ saved' \in Seq(BOOLEAN) /\ Len(saved') = Len(saved) - 1
    BY <2>1, Depth, Leaving DEF BoardTypeOK
  <2>3. BoardTypeOK'
    BY <1>2, <2>2, Depth DEF BoardTypeOK
  <2>4. LevelInv'
    BY <1>1, <1>3, <2>1 DEF LevelInv
  <2>5. inside' = inside
    BY <1>1, <1>3, <2>1, <2>2, Depth DEF inside
  <2>6. (\E v, e, m : At(v, e, m))'
    BY <1>1, <1>2, <1>3, <2>5, Depth, Waits
  <2>. QED BY <2>3, <2>4, <2>6 DEF BInv
<1>. QED BY <1>1, <1>5, <1>6, <1>7, <1>8 DEF Dispatch

\* The timer's handler clears its request and begins a tick.
LEMMA TimerIrqStep ==
  ASSUME BInv, TimerIrq
  PROVE  BInv'
<1>. PICK w, d, n : At(w, d, n)
  BY DEF BInv
<1>1. /\ level = "handler" /\ current = TIMER_IRQ /\ pc = "idle" /\ line' = line \ {TIMER_IRQ}
      /\ DisableAll /\ pc' = "walk"
      /\ UNCHANGED <<tick_rate, registered, tableVars, cpuVars, rest, current_nticks, running, raises>>
  BY DEF TimerIrq, Serving, Tick
<1>2. ~Alone /\ pie = FALSE
  BY <1>1, Depth DEF Alone, LevelInv
<1>3. /\ pie' = FALSE /\ saved' \in Seq(BOOLEAN) /\ Len(saved') = Len(saved) + 1
      /\ saved'[Len(saved')] = pie
  BY <1>1, Entering, Depth DEF BoardTypeOK
<1>4. BoardTypeOK'
  BY <1>1, <1>3, Depth DEF BoardTypeOK
<1>5. LevelInv'
  BY <1>1, <1>2, <1>3 DEF LevelInv
<1>6. inside' = inside
  BY <1>1, <1>3, Depth DEF inside
<1>7. (\E v, e, m : At(v, e, m))'
  BY <1>1, <1>2, <1>6, Depth, Waits
<1>. QED BY <1>4, <1>5, <1>7 DEF BInv

\* The tick goes through the alarms.
LEMMA TickWalkStep ==
  ASSUME BInv, TickWalk
  PROVE  BInv'
<1>. PICK w, d, n : At(w, d, n)
  BY DEF BInv
<1>1. /\ level = "handler" /\ pc # "idle"
      /\ UNCHANGED <<irqVars, rest, current_nticks, running, raises>>
  BY DEF TickWalk
<1>2. pc' # "idle" /\ tick_rate' = tick_rate
  BY DEF TickWalk, Visit, CallbackEnds, CallbackAgain, CallbackStop, CallbackStart
<1>3. registered' \subseteq registered \/ registered' \cap Beginning = {}
  BY DEF TickWalk, Visit, CallbackEnds, CallbackAgain, CallbackStop, Stop
<1>4. \A p \in (n + 1)..Len(w) : w[p][1] = "insert" => w[p][2] \in Beginning
  <2>. SUFFICES ASSUME NEW p \in (n + 1)..Len(w), w[p][1] = "insert" PROVE w[p][2] \in Beginning
    OBVIOUS
  <2>1. /\ Len(w) \in Nat /\ n \in 0..Len(w) /\ Len(rest) = Len(w) - n
        /\ \A k \in 1..Len(rest) : rest[k] = w[n + k]
    BY Here DEF At
  <2>2. p - n \in 1..Len(rest) /\ n + (p - n) = p
    BY <2>1
  <2>3. rest[p - n] = w[p]
    BY <2>1, <2>2
  <2>. QED BY <2>2, <2>3 DEF Beginning
<1>5. \A p \in (n + 1)..Len(w) : w[p][1] = "insert" => w[p][2] \notin registered'
  BY <1>3, <1>4, Depth
<1>6. BoardTypeOK' /\ LevelInv'
  BY <1>1, <1>2, Depth DEF BoardTypeOK, LevelInv
<1>7. inside' = inside
  BY <1>1, <1>2 DEF inside
<1>8. (\E v, e, m : At(v, e, m))'
  BY <1>1, <1>2, <1>5, <1>7, Waits DEF Alone
<1>. QED BY <1>6, <1>8 DEF BInv

\* The tick is over.
LEMMA TimerReturnsStep ==
  ASSUME BInv, TimerReturns
  PROVE  BInv'
<1>. PICK w, d, n : At(w, d, n)
  BY DEF BInv
<1>1. /\ level = "handler" /\ pc = "walk" /\ pc' = "idle" /\ EnableAll /\ level' = "handled"
      /\ UNCHANGED <<tick_rate, registered, tableVars, line, active, current, rest, running>>
  BY DEF TimerReturns, TickReturns
<1>2. /\ pie' = FALSE /\ saved' \in Seq(BOOLEAN) /\ Len(saved') = Len(saved) - 1
  BY <1>1, Depth, Leaving DEF BoardTypeOK, LevelInv
<1>3. BoardTypeOK'
  BY <1>1, <1>2, Depth DEF BoardTypeOK
<1>4. LevelInv'
  BY <1>1, <1>2 DEF LevelInv
<1>5. inside' = inside
  BY <1>1, <1>2, Depth DEF inside
<1>6. (\E v, e, m : At(v, e, m))'
  BY <1>1, <1>5, Depth, Waits DEF Alone
<1>. QED BY <1>3, <1>4, <1>6 DEF BInv

\* Another handler runs, and may withdraw one.
LEMMA DeviceIrqStep ==
  ASSUME BInv, DeviceIrq
  PROVE  BInv'
<1>. PICK w, d, n : At(w, d, n)
  BY DEF BInv
<1>1. /\ level = "handler" /\ current \in {DMA_IRQ, UART_IRQ}
      /\ line' = line \ {current} /\ level' = "handled"
      /\ UNCHANGED <<vars, maskVars, active, current, rest, current_nticks, running, raises>>
      /\ \/ UNCHANGED tableVars
         \/ \E i \in Irqs : handler' = [handler EXCEPT ![i] = NULL] /\ ienable' = ienable \ {i}
  BY BoardConstants DEF DeviceIrq, Serving, SetHandler, SetEnable
<1>2. pc = "idle" /\ ~Alone
  BY <1>1, BoardConstants, Depth DEF LevelInv, Alone
<1>3. \A i \in ienable' : i \in ienable /\ handler'[i] = handler[i]
  BY <1>1, Depth DEF BoardTypeOK
<1>4. BoardTypeOK'
  BY <1>1, Depth DEF BoardTypeOK, Handled
<1>5. LevelInv'
  BY <1>1, <1>2, Depth DEF LevelInv
<1>6. inside' = inside
  BY <1>1, <1>2 DEF inside
<1>7. (\E v, e, m : At(v, e, m))'
  BY <1>1, <1>2, <1>3, <1>6, Depth, Waits
<1>. QED BY <1>4, <1>5, <1>7 DEF BInv

\* Every step of the system preserves the invariant.
LEMMA BoardInductive ==
  ASSUME BInv, [BoardNext]_boardVars
  PROVE  BInv'
<1>1. CASE Disable      BY <1>1, DisableStep
<1>2. CASE Enable       BY <1>2, EnableStep
<1>3. CASE IrqInit
  <2>1. /\ Doing("irq_init") /\ Goes(1) /\ UNCHANGED <<pc, pie, saved, handler, running, registered, tick_rate>>
        /\ ienable' = {}
    BY <1>3 DEF IrqInit
  <2>2. pie' \in BOOLEAN /\ running' \subseteq Irqs
    BY <2>1 DEF BInv, BoardTypeOK
  <2>. QED BY <2>1, <2>2, OtherStep
<1>4. CASE CpuEnable
  <2>1. /\ Doing("cpu_enable") /\ Goes(1)
        /\ UNCHANGED <<pc, saved, handler, running, ienable, registered, tick_rate>> /\ pie' = TRUE
    BY <1>4 DEF CpuEnable
  <2>2. running' \subseteq Irqs
    BY <2>1 DEF BInv, BoardTypeOK
  <2>. QED BY <2>1, <2>2, OtherStep
<1>5. CASE Sysclk
  <2>1. /\ Doing("sysclk") /\ Goes(1)
        /\ UNCHANGED <<pc, pie, saved, handler, running, ienable, registered>> /\ tick_rate' = Rate
    BY <1>5 DEF Sysclk, SysclkInit
  <2>2. pie' \in BOOLEAN /\ running' \subseteq Irqs
    BY <2>1 DEF BInv, BoardTypeOK
  <2>3. Rate # 0
    BY AlarmConstants
  <2>. QED BY <2>1, <2>2, <2>3, OtherStep
<1>6. CASE Control
  <2>1. /\ Doing("control") /\ Goes(1) /\ running' = running \cup {argument(2)}
        /\ UNCHANGED <<pc, pie, saved, handler, ienable, registered, tick_rate>>
    BY <1>6 DEF Control
  <2>2. argument(2) \in Irqs
    <3>1. PICK w, d, n : At(w, d, n)
      BY DEF BInv
    <3>2. argument(2) = w[n + 1][2] /\ w[n + 1] \in Steps /\ w[n + 1][1] = "control"
      BY <2>1, <3>1, Does
    <3>. QED BY <3>2, Kinds
  <2>3. pie' \in BOOLEAN /\ running' \subseteq Irqs
    BY <2>1, <2>2 DEF BInv, BoardTypeOK
  <2>. QED BY <2>1, <2>3, OtherStep
<1>7. CASE WriteTable   BY <1>7, WriteTableStep
<1>8. CASE WriteMask    BY <1>8, WriteMaskStep
<1>9. CASE AskRate      BY <1>9, AskRateStep
<1>10. CASE ReadClock
  <2>1. /\ Doing("clock") /\ Goes(1) /\ current_nticks' = nticks'
        /\ UNCHANGED <<pc, pie, saved, handler, running, ienable, registered, tick_rate>>
    BY <1>10 DEF ReadClock
  <2>2. pie' \in BOOLEAN /\ running' \subseteq Irqs
    BY <2>1 DEF BInv, BoardTypeOK
  <2>. QED BY <2>1, <2>2, OtherStep
<1>11. CASE InsertAlarm BY <1>11, InsertStep
<1>12. CASE RemoveAlarm
  <2>1. /\ Doing("remove") /\ Goes(1) /\ registered' \subseteq registered
        /\ UNCHANGED <<pc, pie, saved, handler, running, ienable, tick_rate>>
    BY <1>12 DEF RemoveAlarm, Stop
  <2>2. pie' \in BOOLEAN /\ running' \subseteq Irqs
    BY <2>1 DEF BInv, BoardTypeOK
  <2>. QED BY <2>1, <2>2, OtherStep
<1>13. CASE Call        BY <1>13, CallStep
<1>14. CASE Raise       BY <1>14, RaiseStep
<1>15. CASE Interrupt   BY <1>15, InterruptStep
<1>16. CASE Dispatcher  BY <1>16, DispatchStep
<1>17. CASE TimerIrq    BY <1>17, TimerIrqStep
<1>18. CASE TickWalk    BY <1>18, TickWalkStep
<1>19. CASE TimerReturns BY <1>19, TimerReturnsStep
<1>20. CASE DeviceIrq   BY <1>20, DeviceIrqStep
<1>21. CASE UNCHANGED boardVars
  <2>1. UNCHANGED <<vars, irqVars, rest, current_nticks, running, raises>>
    BY <1>21 DEF boardVars
  <2>2. PICK w, d, n : At(w, d, n)
    BY DEF BInv
  <2>3. BoardTypeOK'
    BY <2>1 DEF BInv, BoardTypeOK
  <2>4. LevelInv'
    BY <2>1 DEF BInv, LevelInv, pending
  <2>5. inside' = inside
    BY <2>1 DEF inside
  <2>6. RestInv(w, d, n)'
    BY <2>1, <2>2, <2>5 DEF At, RestInv
  <2>7. StartInv(w, n)'
    BY <2>1, <2>2 DEF At, StartInv, Alone
  <2>8. WriteInv(w, n)'
    BY <2>1, <2>2 DEF At, WriteInv, Alone
  <2>9. TableInv(w, n)'
    BY <2>1, <2>2 DEF At, TableInv
  <2>. QED BY <2>3, <2>4, <2>6, <2>7, <2>8, <2>9 DEF At, BInv
<1>. QED BY <1>1, <1>2, <1>3, <1>4, <1>5, <1>6, <1>7, <1>8, <1>9, <1>10, <1>11, <1>12, <1>13,
            <1>14, <1>15, <1>16, <1>17, <1>18, <1>19, <1>20, <1>21
         DEF BoardNext, Program, Handlers

-----------------------------------------------------------------------------
\* The properties.

\* A reset establishes it.
LEMMA Reset == BoardInit => BInv
<1>. SUFFICES ASSUME BoardInit PROVE BInv
  OBVIOUS
<1>1. /\ pie = FALSE /\ saved = <<>> /\ ienable = {} /\ line = {} /\ running = {}
      /\ handler = [i \in Irqs |-> NULL] /\ level = "program" /\ pc = "idle" /\ registered = {}
      /\ rest = alt_irq_init \o alt_sys_init
  BY DEF BoardInit, Init, IrqReset
<1>2. BoardTypeOK /\ LevelInv
  <2>1. saved \in Seq(BOOLEAN)
    BY <1>1, EmptySeq
  <2>2. pie \in BOOLEAN
    BY <1>1
  <2>3. handler \in [Irqs -> Handled]
    BY <1>1 DEF Handled
  <2>. QED BY <1>1, <2>1, <2>2, <2>3 DEF BoardTypeOK, LevelInv
<1>3. inside = 0
  BY <1>1 DEF inside
<1>4. Whole(rest) /\ Single(rest)
  BY <1>1, Initialisation
<1>5. PICK e : Depths(rest, e)
  BY <1>4, Begun
<1>6. RestInv(rest, e, 0)
  BY <1>3, <1>4, <1>5, Begun DEF RestInv, Whole, Depths
<1>7. /\ \A k \in 1..Len(rest) : /\ rest[k][1] = "insert" => k > 3
                                 /\ rest[k][1] = "handler" => k > 1
                                 /\ rest[k][1] = "enable_irq" => k > 2
      /\ 0 + 1 = 1 /\ 0 + 2 = 2 /\ 0 + 3 = 3
  BY <1>4, Ahead
<1>8. StartInv(rest, 0)
  BY <1>1, <1>7 DEF StartInv
<1>9. WriteInv(rest, 0)
  BY <1>7 DEF WriteInv
<1>10. TableInv(rest, 0)
  BY <1>1 DEF TableInv
<1>11. At(rest, e, 0)
  BY <1>6, <1>8, <1>9, <1>10 DEF At
<1>. QED BY <1>2, <1>11 DEF BInv

\* In every state of the running system the program is somewhere in a sequence of whole
\* calls, as deep in sections as contexts are saved, and what a call has read or written in
\* a section still stands when its next step uses it.
THEOREM BoardInvariance == BoardSpec => []BInv
<1>1. BInv /\ [BoardNext]_boardVars => BInv'
  BY BoardInductive
<1>. QED BY <1>1, Reset, PTL DEF BoardSpec

\* Between two calls the program is in no critical section: as many contexts have been
\* restored as were saved, on the early return of alt_alarm_start as well.
THEOREM SectionsLeft == BoardSpec => [](level = "program" /\ rest = <<>> => saved = <<>>)
<1>1. BInv => (level = "program" /\ rest = <<>> => saved = <<>>)
  <2>. SUFFICES ASSUME BInv, level = "program", rest = <<>> PROVE saved = <<>>
    OBVIOUS
  <2>. PICK w, d, n : At(w, d, n)
    BY DEF BInv
  <2>1. n = Len(w) /\ inside = d[n] /\ d[Len(w)] = 0
    BY Here DEF At, RestInv, Depths
  <2>2. pc = "idle" /\ saved \in Seq(BOOLEAN)
    BY DEF BInv, LevelInv, BoardTypeOK
  <2>3. Len(saved) = 0
    BY <2>1, <2>2 DEF inside
  <2>. QED BY <2>2, <2>3, EmptySeq
<1>. QED BY <1>1, BoardInvariance, PTL

\* HandlersAlone: no interrupt is taken while the dispatcher or a handler runs, whatever
\* sections alt_tick enters and leaves.
THEOREM NeverInterrupted == BoardSpec => HandlersAlone
<1>1. BInv /\ [BoardNext]_boardVars => [Interrupt => level = "program"]_boardVars
  BY InterruptStep
<1>. QED BY <1>1, BoardInvariance, PTL DEF BoardSpec, HandlersAlone

\* The dispatcher finds the lowest of the interrupts that are pending.
LEMMA First ==
  ASSUME NEW S \in SUBSET Irqs, S # {}
  PROVE  Sets!Min(S) \in S
<1>1. S \subseteq {DMA_IRQ, TIMER_IRQ, UART_IRQ} /\ S \subseteq Int
  BY BoardConstants, IrqConstants
<1>2. \E x \in S : \A y \in S : x <= y
  <2>. SUFFICES ASSUME \A x \in S : \E y \in S : y < x PROVE FALSE
    BY <1>1
  <2>1. PICK x \in S : TRUE
    OBVIOUS
  <2>2. PICK y \in S : y < x
    OBVIOUS
  <2>3. PICK z \in S : z < y
    OBVIOUS
  <2>4. PICK u \in S : u < z
    OBVIOUS
  <2>. QED BY <1>1, <2>2, <2>3, <2>4
<1>. QED BY <1>2 DEF Sets!Min

\* RightHandler: the dispatcher calls a handler that is registered, for a request that is
\* there and enabled, although handlers may have been withdrawn since the interrupt.
THEOREM RightlyServed == BoardSpec => RightHandler
<1>1. BInv /\ [BoardNext]_boardVars =>
        [level = "scan" /\ level' = "handler" =>
           handler[current'] # NULL /\ current' \in pending]_boardVars
  <2>. SUFFICES ASSUME BInv, BoardNext, level = "scan", level' = "handler"
                PROVE  handler[current'] # NULL /\ current' \in pending
    OBVIOUS
  <2>. PICK w, d, n : At(w, d, n)
    BY DEF BInv
  <2>1. active # {} /\ active \subseteq pending /\ pc = "idle" /\ BoardTypeOK
    BY Depth DEF LevelInv
  <2>2. Scan
    <3>1. CASE Program
      <4>1. level' = level
        BY <3>1 DEF Program, Disable, Enable, IrqInit, CpuEnable, Sysclk, Control, WriteTable,
                    WriteMask, AskRate, ReadClock, InsertAlarm, RemoveAlarm, Call, Goes
      <4>. QED BY <4>1
    <3>2. CASE Raise       BY <3>2 DEF Raise
    <3>3. CASE Interrupt   BY <3>3 DEF Interrupt, Enter
    <3>4. CASE Dispatcher  BY <3>4 DEF Dispatcher, Dispatch, Test, Again, Exit
    <3>5. CASE Handlers
      BY <3>5 DEF Handlers, TimerIrq, TickWalk, TimerReturns, DeviceIrq, Serving
    <3>. QED BY <3>1, <3>2, <3>3, <3>4, <3>5 DEF BoardNext
  <2>3. current' \in pending /\ pending \subseteq ienable
    <3>1. active \subseteq Irqs
      BY <2>1 DEF BoardTypeOK, pending
    <3>2. current' \in active
      BY <2>1, <2>2, <3>1, First DEF Scan
    <3>. QED BY <2>1, <3>2 DEF pending
  <2>4. \A i \in ienable : handler[i] # NULL
    BY <2>1, Registered DEF Alone
  <2>. QED BY <2>3, <2>4
<1>. QED BY <1>1, BoardInvariance, PTL DEF BoardSpec, RightHandler

\* What a step of the system is for the alarms.
LEMMA StepOfAlarms ==
  ASSUME BInv, [BoardNext]_boardVars
  PROVE  [Next]_vars
<1>. PICK w, d, n : At(w, d, n)
  BY DEF BInv
<1>1. CASE Sysclk
  BY <1>1 DEF Sysclk, Next
<1>2. CASE AskRate
  <2>1. /\ Doing("ready") /\ IF tick_rate # 0 THEN ret' = ret ELSE ret' = -ENOTSUP
        /\ UNCHANGED <<clockVars, listVars, time, rollover, walkVars, registered, due>>
    BY <1>2 DEF AskRate
  <2>2. CASE tick_rate # 0
    BY <2>1, <2>2
  <2>3. CASE tick_rate = 0
    <3>1. /\ pc = "idle" /\ ReadyOK(w, n + 1) /\ w \in Seq(Steps) /\ n + 1 \in 1..Len(w)
          /\ \A p \in (n + 2)..Len(w) : w[p][1] = "insert" => w[p][2] \notin registered
      BY <2>1, Does DEF InCall, At, RestInv, Calling
    <3>2. n \in Nat /\ Len(w) \in Nat
      BY Here DEF At
    <3>3. (n + 1) + 3 \in (n + 2)..Len(w) /\ (n + 1) + 3 \in 1..Len(w) /\ w[(n + 1) + 3][1] = "insert"
      BY <3>1, <3>2 DEF ReadyOK
    <3>4. w[(n + 1) + 3] \in Steps
      BY <3>1, <3>3, ElementOfSeq
    <3>5. PICK a \in Alarms : a \notin registered
      BY <3>1, <3>3, <3>4, Kinds
    <3>6. Rate \in Intervals
      BY BoardConstants
    <3>7. Start(a, Rate)
      BY <2>1, <2>3, <3>5 DEF Start
    <3>. QED BY <2>1, <3>1, <3>6, <3>7 DEF Next, CallStart
  <2>. QED BY <2>2, <2>3
<1>3. CASE InsertAlarm
  <2>1. /\ Doing("insert") /\ Register(argument(2), argument(3), current_nticks) /\ ret' = 0
        /\ UNCHANGED <<clockVars, walkVars>>
    BY <1>3 DEF InsertAlarm
  <2>2. /\ pc = "idle" /\ w[n + 1][1] = "insert" /\ w[n + 1] \in Steps
        /\ argument(2) = w[n + 1][2] /\ argument(3) = w[n + 1][3] /\ n + 1 \in 1..Len(w)
    BY <2>1, Does
  <2>3. argument(2) \in Alarms /\ argument(3) \in Intervals
    BY <2>2, Kinds
  <2>4. argument(2) \notin registered /\ tick_rate # 0 /\ current_nticks = nticks
    <3>1. n + 1 \in (n + 1)..Len(w) /\ n + 1 <= n + 3
      BY <2>2, Here DEF At
    <3>. QED BY <2>2, <3>1 DEF At, StartInv
  <2>5. Start(argument(2), argument(3))
    BY <2>1, <2>4 DEF Start
  <2>. QED BY <2>1, <2>2, <2>3, <2>5 DEF Next, CallStart
<1>4. CASE RemoveAlarm
  <2>1. Doing("remove") /\ Stop(argument(2)) /\ UNCHANGED <<clockVars, walkVars>>
    BY <1>4 DEF RemoveAlarm
  <2>2. /\ pc = "idle" /\ w[n + 1][1] = "remove" /\ w[n + 1] \in Steps
        /\ argument(2) = w[n + 1][2]
    BY <2>1, Does
  <2>3. argument(2) \in Alarms
    BY <2>2, Kinds
  <2>. QED BY <2>1, <2>2, <2>3 DEF Next, CallStop
<1>5. CASE TimerIrq
  BY <1>5 DEF TimerIrq, Next
<1>6. CASE TickWalk
  BY <1>6 DEF TickWalk, Next
<1>7. CASE TimerReturns
  BY <1>7 DEF TimerReturns, Next
<1>8. CASE \/ Disable \/ Enable \/ IrqInit \/ CpuEnable \/ Control \/ WriteTable \/ WriteMask
           \/ ReadClock \/ Call \/ Raise \/ Interrupt \/ Dispatcher \/ DeviceIrq
           \/ UNCHANGED boardVars
  <2>1. UNCHANGED vars
    BY <1>8 DEF Disable, Enable, IrqInit, CpuEnable, Control, WriteTable, WriteMask, ReadClock,
                Call, Raise, Interrupt, Dispatcher, DeviceIrq, boardVars
  <2>. QED BY <2>1
<1>. QED BY <1>1, <1>2, <1>3, <1>4, <1>5, <1>6, <1>7, <1>8 DEF BoardNext, Program, Handlers

\* Implements: the interrupted program does to the alarms what module Alarm says.  That
\* alt_alarm_start reads the clock and fills the list in one section makes it one step.
THEOREM AlarmsRefined == BoardSpec => Implements
<1>1. BoardInit => Init
  BY DEF BoardInit
<1>2. BInv /\ [BoardNext]_boardVars => [Next]_vars
  BY StepOfAlarms
<1>. QED BY <1>1, <1>2, BoardInvariance, PTL DEF BoardSpec, Implements

\* So the alarms of the running system are called back at exactly their time, and never once
\* they have been stopped, if no callback stops the alarm that the walk has saved as the next.
THEOREM ClockOnBoard ==
  ASSUME ~StopNext
  PROVE  BoardSpec => []IInv /\ []Punctual /\ StoppedIsSilent
<1>1. Implements => Spec
  BY DEF Implements, Spec
<1>. QED BY <1>1, AlarmsRefined, ClockInvariant, AlwaysPunctual, AlwaysSilent, PTL
=============================================================================
