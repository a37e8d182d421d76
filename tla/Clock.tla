------------------------------- MODULE Clock -------------------------------
(***************************************************************************)
(* The time of day and the timestamp: alt_gettod.c, alt_settod.c, alt_tick *)
(* in alt_tick.c and altera_avalon_timer_ts.c.  The system clock counts    *)
(* ticks in an interrupt, between any two steps of a call; the timestamp   *)
(* timer counts down in hardware, and is read by halves.  The code of the  *)
(* timestamp is compiled only where system.h selects a timer for it.       *)
(***************************************************************************)
EXTENDS Integers

CONSTANTS
  Word,       \* an alt_u32 holds 0..(Word - 1)
  HALF,       \* a register of the timer holds 0..(HALF - 1)
  ALT_US,     \* microseconds in a second
  Rate, Freq, \* what the clock and the timestamp driver register
  Times,      \* what settimeofday is called with: seconds and microseconds
  MaxTicks,   \* ticks of an execution, short of a roll-over of their counter
  MaxSetTick  \* the last tick at which settimeofday is called

Full == HALF * HALF - 1
NONE == -1

VARIABLES
  _alt_tick_rate, _alt_nticks,
  alt_resettime,  \* what the clock read at tick 0, in seconds and microseconds
  set,            \* settimeofday's argument and the ticks it has read
  now,            \* the microseconds of the wall clock
  got,            \* what gettimeofday has read and its answer
  ts_freq,        \* altera_avalon_timer_ts_freq
  timer,          \* the timestamp timer: its counter, its snapshot, whether it runs
  age,            \* counts since alt_timestamp_start, 0 again when the timer rolls over
  stamp           \* a call of alt_timestamp: age at the snapshot, halves read, answer

clockVars == <<_alt_tick_rate, _alt_nticks, alt_resettime, set, now, got>>
stampVars == <<ts_freq, timer, age, stamp>>
vars == <<clockVars, stampVars>>

Idle == [tv_sec |-> NONE, tv_usec |-> NONE, nticks |-> NONE]

Init ==
  /\ _alt_tick_rate = 0 /\ _alt_nticks = 0
  /\ alt_resettime = [tv_sec |-> 0, tv_usec |-> 0]
  /\ set = Idle /\ now = 0 /\ got = [at |-> NONE, tv_sec |-> NONE, tv_usec |-> NONE]
  /\ ts_freq = 0
  /\ timer = [counter |-> Full, snap |-> Full, runs |-> FALSE]
  /\ age = 0 /\ stamp = [age |-> NONE, lower |-> NONE, answer |-> NONE]

Usec(ticks) == ticks * (ALT_US \div _alt_tick_rate)

-----------------------------------------------------------------------------
\* The system clock.

alt_sysclk_init ==
  /\ _alt_tick_rate = 0 /\ _alt_tick_rate' = Rate
  /\ UNCHANGED <<_alt_nticks, alt_resettime, set, now, got, stampVars>>

\* The interrupt handler of the clock.
alt_tick ==
  /\ _alt_tick_rate # 0 /\ _alt_nticks < MaxTicks
  /\ _alt_nticks' = _alt_nticks + 1
  /\ now' = now + Usec(1)
  /\ UNCHANGED <<_alt_tick_rate, alt_resettime, set, got, stampVars>>

\* settimeofday: t is the time when it reads the clock. Without a clock it fails.
SetRead(t) ==
  /\ set = Idle /\ _alt_nticks <= MaxSetTick
  /\ IF _alt_tick_rate = 0 THEN UNCHANGED <<set, now>>
     ELSE /\ set' = [tv_sec |-> t.tv_sec, tv_usec |-> t.tv_usec, nticks |-> _alt_nticks]
          /\ now' = t.tv_sec * ALT_US + t.tv_usec
  /\ UNCHANGED <<_alt_tick_rate, _alt_nticks, alt_resettime, got, stampVars>>

\* The microseconds of these ticks within a second, in an alt_u32.
UsecInWord(ticks) == (Usec(ticks) % Word) % ALT_US

\* FAULTY: the ticks are read once more.
SetStoreAgain ==
  /\ set # Idle /\ set' = Idle
  /\ alt_resettime' = [tv_sec  |-> set.tv_sec - _alt_nticks \div _alt_tick_rate,
                       tv_usec |-> set.tv_usec - UsecInWord(set.nticks)]
  /\ UNCHANGED <<_alt_tick_rate, _alt_nticks, now, got, stampVars>>

SetStore ==
  /\ set # Idle /\ set' = Idle
  /\ alt_resettime' = [tv_sec  |-> set.tv_sec - set.nticks \div _alt_tick_rate,
                       tv_usec |-> set.tv_usec - UsecInWord(set.nticks)]
  /\ UNCHANGED <<_alt_tick_rate, _alt_nticks, now, got, stampVars>>

\* The two loops of gettimeofday, a second from or to the microseconds at a time; they
\* stop at the beginning of time.
Normal(sec, usec) ==
  IF usec < 0 /\ sec + (usec \div ALT_US) < 0 THEN [tv_sec |-> 0, tv_usec |-> 0]
  ELSE [tv_sec |-> sec + (usec \div ALT_US), tv_usec |-> usec % ALT_US]

\* gettimeofday, which is not called in the middle of settimeofday.
ALT_GETTIMEOFDAY ==
  /\ set = Idle /\ _alt_tick_rate # 0
  /\ LET time == Normal(alt_resettime.tv_sec + _alt_nticks \div _alt_tick_rate,
                        alt_resettime.tv_usec + (Usec(_alt_nticks) % ALT_US))
     IN  got' = [at |-> now, tv_sec |-> time.tv_sec, tv_usec |-> time.tv_usec]
  /\ UNCHANGED <<_alt_tick_rate, _alt_nticks, alt_resettime, set, now, stampVars>>

-----------------------------------------------------------------------------
\* The timestamp.

ALTERA_AVALON_TIMER_INIT ==
  /\ ts_freq = 0 /\ ts_freq' = Freq
  /\ UNCHANGED <<clockVars, timer, age, stamp>>

\* Stop, period, start: writing the period reloads the counter. Not within a reading.
alt_timestamp_start ==
  /\ ts_freq # 0 /\ stamp.age = NONE
  /\ timer' = [timer EXCEPT !.counter = Full, !.runs = TRUE]
  /\ age' = 0
  /\ UNCHANGED <<clockVars, ts_freq, stamp>>

\* The timer counts down; at zero it takes the period again and stops.
Count ==
  /\ timer.runs
  /\ timer' = IF timer.counter = 0 THEN [timer EXCEPT !.counter = Full, !.runs = FALSE]
              ELSE [timer EXCEPT !.counter = @ - 1]
  /\ age' = IF timer.counter = 0 THEN 0 ELSE age + 1
  /\ UNCHANGED <<clockVars, ts_freq, stamp>>

\* alt_timestamp: the snapshot, the lower half, the upper half and the answer, which
\* without a timer is all ones.
Snap ==
  /\ stamp.age = NONE
  /\ IF ts_freq = 0
     THEN stamp' = [age |-> Full, lower |-> NONE, answer |-> Full] /\ UNCHANGED timer
     ELSE /\ timer' = [timer EXCEPT !.snap = timer.counter]
          /\ stamp' = [age |-> age, lower |-> NONE, answer |-> NONE]
  /\ UNCHANGED <<clockVars, ts_freq, age>>

ReadLower ==
  /\ stamp.age # NONE /\ stamp.lower = NONE /\ stamp.answer = NONE
  /\ stamp' = [stamp EXCEPT !.lower = timer.snap % HALF]
  /\ UNCHANGED <<clockVars, ts_freq, timer, age>>

ReadUpper ==
  /\ stamp.lower # NONE /\ stamp.answer = NONE
  /\ stamp' = [stamp EXCEPT !.answer = Full - ((timer.snap \div HALF) * HALF + stamp.lower)]
  /\ UNCHANGED <<clockVars, ts_freq, timer, age>>

StampReturns ==
  /\ stamp.answer # NONE
  /\ stamp' = [age |-> NONE, lower |-> NONE, answer |-> NONE]
  /\ UNCHANGED <<clockVars, ts_freq, timer, age>>

-----------------------------------------------------------------------------
ClockNext ==
  \/ alt_sysclk_init \/ alt_tick
  \/ \E t \in Times : SetRead(t)
  \/ SetStore \/ ALT_GETTIMEOFDAY

StampNext ==
  \/ ALTERA_AVALON_TIMER_INIT \/ alt_timestamp_start \/ Count
  \/ Snap \/ ReadLower \/ ReadUpper \/ StampReturns

Next == ClockNext \/ StampNext

Spec == Init /\ [][Next]_vars

-----------------------------------------------------------------------------
\* gettimeofday answers, with less than a second of microseconds, the time last set and
\* the ticks since settimeofday read the clock, whatever the ticks within the two calls.
WallClock ==
  got.at # NONE => got.tv_sec * ALT_US + got.tv_usec = got.at /\ got.tv_usec \in 0..(ALT_US - 1)

\* A timestamp is the number of counts from the start to one instant within the call,
\* although its halves are read while the timer counts on; after a roll-over it is 0.
StampOfAnInstant == stamp.answer # NONE => stamp.answer = stamp.age

TimesRight == WallClock /\ StampOfAnInstant
=============================================================================
