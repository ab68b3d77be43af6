------------------------------- MODULE Timers -------------------------------
(***************************************************************************)
(* core/timers.c: the list of periodic timers.  smews_timers, which the    *)
(* main loop calls at each step, reads the clock once and calls each timer *)
(* as often as its period has elapsed.  A callback may set a timer, and    *)
(* time passes while it runs.                                              *)
(***************************************************************************)
EXTENDS Integers, Sequences

CONSTANTS Periods,   \* the periods asked for
          Width,     \* an elapsed time is an uint16_t: modulo this (2^16)
          ClockMod,  \* TIME_MILLIS is an uint32_t: modulo this (2^32)
          HeapTimers,\* how many struct timer_t the heap holds
          MaxGap     \* the longest time between two readings of the clock

ASSUME TimersAssumption ==
  /\ Periods \subseteq 0 .. Width - 1
  /\ Width \in Nat \ {0}
  /\ \E k \in 1 .. ClockMod : ClockMod = k * Width
  /\ HeapTimers \in Nat
  /\ MaxGap \in Nat

VARIABLES all_timers,       \* the list, its first element first
          curr_timer,       \* the place of the timer looked at, or 0
          curr_time_millis, \* the time read by smews_timers
          now,              \* TIME_MILLIS
          since,            \* the time since the last reading
          elapsed           \* of each timer, the time since it was set, less
                            \* its period each time it has been called

vars == <<all_timers, curr_timer, curr_time_millis, now, since, elapsed>>

Init ==
  /\ all_timers = << >>
  /\ curr_timer = 0
  /\ curr_time_millis = 0
  /\ now = 0
  /\ since = 0
  /\ elapsed = << >>

\* An initialisation, a handler or a callback sets a timer, the first one.
\* The timer looked at is now one place further.
set_timer(period) ==
  /\ Len(all_timers) < HeapTimers
  /\ all_timers' = <<[period_millis |-> period, last_time_millis |-> now]>> \o all_timers
  /\ elapsed' = <<0>> \o elapsed
  /\ curr_timer' = IF curr_timer = 0 THEN 0 ELSE curr_timer + 1
  /\ UNCHANGED <<curr_time_millis, now, since>>

\* The call returns at once if there is no timer.
smews_timers ==
  /\ curr_timer = 0
  /\ curr_time_millis' = now
  /\ since' = 0
  /\ curr_timer' = IF all_timers = << >> THEN 0 ELSE 1
  /\ UNCHANGED <<all_timers, now, elapsed>>

\* Mutant: the timer is due a millisecond too late.
DueLate(t) == ((curr_time_millis - t.last_time_millis) % ClockMod) % Width > t.period_millis + 1

Due(t) == ((curr_time_millis - t.last_time_millis) % ClockMod) % Width > t.period_millis

\* Mutant: the time of the call is not advanced.
CallBackNow ==
  /\ curr_timer # 0
  /\ Due(all_timers[curr_timer])
  /\ UNCHANGED vars

\* callback() is called; what it does is set_timer, or time that passes.
CallBack ==
  /\ curr_timer # 0
  /\ Due(all_timers[curr_timer])
  /\ all_timers' = [all_timers EXCEPT ![curr_timer].last_time_millis =
                      (@ + all_timers[curr_timer].period_millis) % ClockMod]
  /\ elapsed' = [elapsed EXCEPT ![curr_timer] = @ - all_timers[curr_timer].period_millis]
  /\ UNCHANGED <<curr_timer, curr_time_millis, now, since>>

NextTimer ==
  /\ curr_timer # 0
  /\ ~ Due(all_timers[curr_timer])
  /\ curr_timer' = IF curr_timer = Len(all_timers) THEN 0 ELSE curr_timer + 1
  /\ UNCHANGED <<all_timers, curr_time_millis, now, since, elapsed>>

TimePasses ==
  /\ since < MaxGap
  /\ now' = (now + 1) % ClockMod
  /\ since' = since + 1
  /\ elapsed' = [i \in 1 .. Len(elapsed) |-> elapsed[i] + 1]
  /\ UNCHANGED <<all_timers, curr_timer, curr_time_millis>>

Next == \/ \E period \in Periods : set_timer(period)
        \/ smews_timers \/ CallBack \/ NextTimer \/ TimePasses

\* The loops of smews_timers run.
Spec == Init /\ [][Next]_vars /\ WF_vars(CallBack \/ NextTimer)

----------------------------------------------------------------------------
TypeOK ==
  /\ all_timers \in Seq([period_millis : Periods, last_time_millis : 0 .. ClockMod - 1])
  /\ curr_timer \in 0 .. Len(all_timers)
  /\ {curr_time_millis, now} \subseteq 0 .. ClockMod - 1
  /\ since \in 0 .. MaxGap
  /\ elapsed \in Seq(Int) /\ Len(elapsed) = Len(all_timers)

\* Each timer has been called as often as its period had elapsed when the
\* clock was last read, and not more often, whatever timers callbacks set
\* and although the clock and the elapsed times wrap.
CallsMatchTime == \A i \in 1 .. Len(all_timers) :
  /\ elapsed[i] >= 0
  /\ (curr_timer = 0 \/ i < curr_timer) => elapsed[i] - since <= all_timers[i].period_millis

\* smews_timers returns to the main loop: catching up comes to an end.
TimersReturn == curr_timer # 0 ~> curr_timer = 0
=============================================================================
