---------------------------- MODULE ServicesMC -----------------------------
(***************************************************************************)
(* Instances of Cache, Clock and Profile for TLC. They share nothing, nor  *)
(* do the two halves of Clock: a behaviour is one of them.                 *)
(***************************************************************************)
EXTENDS Cache

CONSTANTS Word, HALF, ALT_US, Rate, Freq, Times, MaxTicks, MaxSetTick,
          Functions, Callers, MaxCalls

VARIABLES
  part,    \* whose behaviour it is
  _alt_tick_rate, _alt_nticks, alt_resettime, set, now, got, ts_freq, timer, age, stamp,
  fns, arcs, irqs, need_init, clock, sampling, ctx, calls, lost

\* A second is a whole number of ticks, and the times that are set are normalised.
ASSUME TimesConstants ==
  /\ Word \in Nat /\ HALF \in Nat \ {0} /\ ALT_US \in Nat \ {0}
  /\ Rate \in Nat \ {0} /\ Freq \in Nat \ {0} /\ ALT_US % Rate = 0
  /\ Times \subseteq [tv_sec : Nat, tv_usec : 0..(ALT_US - 1)]
  /\ MaxTicks \in Nat /\ MaxSetTick \in Nat

T == INSTANCE Clock
P == INSTANCE Profile

clockAndStamp == <<_alt_tick_rate, _alt_nticks, alt_resettime, set, now, got,
                   ts_freq, timer, age, stamp>>
profile == <<fns, arcs, irqs, need_init, clock, sampling, ctx, calls, lost>>

ServicesInit ==
  /\ part \in {"cache", "clock", "stamp", "profile"}
  /\ Init /\ T!Init /\ P!Init

ServicesNext ==
  \/ part = "cache" /\ Next /\ UNCHANGED <<part, clockAndStamp, profile>>
  \/ part = "clock" /\ T!ClockNext /\ UNCHANGED <<part, vars, profile>>
  \/ part = "stamp" /\ T!StampNext /\ UNCHANGED <<part, vars, profile>>
  \/ part = "profile" /\ P!Next /\ UNCHANGED <<part, vars, clockAndStamp>>

ServicesSpec == ServicesInit /\ [][ServicesNext]_<<part, vars, clockAndStamp, profile>>

\* What the three have to keep: the caches in step with the memory, the times right,
\* the profile complete. They are stated in their modules.
TimesRight == T!TimesRight
ProfileRight == P!ProfileRight

\* The lines share the one place of both caches.
OnePlace == [l \in Lines |-> 0]

\* The beginning, within a second, and with more microseconds than the clock has ticked.
Instants == {[tv_sec |-> s, tv_usec |-> u] : s \in {0, 2}, u \in {0, 3}}
=============================================================================
