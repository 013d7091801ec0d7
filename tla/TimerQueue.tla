----------------------------- MODULE TimerQueue -----------------------------
(***************************************************************************)
(* The timers of one event loop (TimerQueue.cpp, Timer.cpp): a set ordered *)
(* by expiration, on the system clock, and one timerfd, on the monotonic   *)
(* clock, that is to go off for the earliest of them.  Everything runs on  *)
(* the loop's thread: AddTimer is called by a handler, a functor or a      *)
(* timer's own callback.                                                   *)
(*                                                                         *)
(* Times are kept relative to the present: left[t] is the expiration minus *)
(* the system clock, which may be set forward or back.  A tick is the 100  *)
(* microseconds below which ResetTimerFd never sets the timerfd.           *)
(***************************************************************************)
EXTENDS Integers, FiniteSets

CONSTANTS Timers,     \* Timer objects
          Delays,     \* how far ahead of the clock AddTimer is asked to fire
          Intervals,  \* intervals asked for; 0 is once
          Steps,      \* by how much the system clock may be set
          MaxSteps,   \* bound: how often it is
          Past,       \* bound: no timer is counted further overdue
          Ahead       \* bound: nor is the clock set back to make one due later

ASSUME TimeAssumption ==
  /\ Past \in Nat /\ Ahead \in Nat /\ MaxSteps \in Nat /\ Steps \subseteq Int
  /\ Delays \subseteq (1 - Past)..Ahead /\ Intervals \subseteq 0..Ahead

Off == -1

VARIABLES
  timers,     \* timers_
  left,       \* expiration_ of each timer, from now
  interval,   \* interval_ of each timer
  to_run,     \* active_timers_ whose callback is still to run
  have_run,   \* active_timers_ whose callback has run
  running,    \* HandleRead is in progress
  fd,         \* ticks until the timerfd goes off, or Off
  ready,      \* it has gone off and has not been read
  polled,     \* Poll has returned its channel
  drift,      \* how far the system clock was set forward since the timerfd was set
  steps       \* how often it was set

roundVars == <<to_run, have_run, running>>
fdVars == <<fd, ready, drift>>
vars == <<timers, left, interval, roundVars, fdVars, polled, steps>>

Allocated == timers \union to_run \union have_run
Earliest(s, f) == CHOOSE t \in s : \A u \in s : f[t] <= f[u]

Init ==
  /\ timers = {} /\ left = [t \in Timers |-> 0] /\ interval = [t \in Timers |-> 0]
  /\ to_run = {} /\ have_run = {} /\ running = FALSE
  /\ fd = Off /\ ready = FALSE /\ polled = FALSE
  /\ drift = 0 /\ steps = 0
-----------------------------------------------------------------------------
\* Mutant of Delay: no lower limit.
AnyDelay(d) == d

\* ResetTimerFd: at least 100 microseconds, for zero would switch it off.
Delay(d) == IF d < 1 THEN 1 ELSE d

\* timerfd_settime starts afresh: an expiration not yet read is forgotten.
ResetTimerFd(d) == fd' = Delay(d) /\ ready' = FALSE /\ drift' = 0

\* Mutant of Instantly: only the first timer sets the timerfd.
InstantlyFirst(d) == timers = {}

\* What Insert returns.
Instantly(d) == \A t \in timers : d < left[t]

AddTimer(t, d, i) ==
  /\ t \notin Allocated
  /\ left' = [left EXCEPT ![t] = d]
  /\ interval' = [interval EXCEPT ![t] = i]
  /\ timers' = timers \union {t}
  /\ IF Instantly(d) THEN ResetTimerFd(d) ELSE UNCHANGED fdVars
  /\ UNCHANGED <<roundVars, polled, steps>>

Poll ==
  /\ ready /\ ~running /\ ~polled
  /\ polled' = TRUE
  /\ UNCHANGED <<timers, left, interval, roundVars, fdVars, steps>>

\* Mutant of HandleRead: the timers due are not erased from timers_.
HandleReadKeeps ==
  /\ polled /\ polled' = FALSE
  /\ ready' = FALSE /\ running' = TRUE
  /\ to_run' = {t \in timers : left[t] <= 0}
  /\ UNCHANGED <<timers, left, interval, have_run, fd, drift, steps>>

\* HandleRead up to its loop.  If the timerfd was set again since Poll, the read
\* fails, which is only reported.
HandleRead ==
  /\ polled /\ polled' = FALSE
  /\ ready' = FALSE /\ running' = TRUE
  /\ to_run' = {t \in timers : left[t] <= 0}
  /\ timers' = timers \ to_run'
  /\ UNCHANGED <<left, interval, have_run, fd, drift, steps>>

\* The callback of the next of active_timers_, in order of expiration.
Run(t) ==
  /\ running /\ t \in to_run /\ \A u \in to_run : left[t] <= left[u]
  /\ to_run' = to_run \ {t} /\ have_run' = have_run \union {t}
  /\ UNCHANGED <<timers, left, interval, running, fdVars, polled, steps>>

\* Mutant of Repeating: ResetTimers deletes every timer that ran.
NoneRepeating == {}

Repeating == {t \in have_run : interval[t] > 0}

\* Mutant of Rearm: the timerfd is set only if some timer was restarted.
RearmRestarted ==
  IF Repeating # {}
  THEN ResetTimerFd(left'[Earliest(timers', left')])
  ELSE UNCHANGED fdVars

\* The end of ResetTimers.
Rearm ==
  IF timers' # {}
  THEN ResetTimerFd(left'[Earliest(timers', left')])
  ELSE UNCHANGED fdVars

\* ResetTimers: periodic timers start again from now, the others are deleted.
ResetTimers ==
  /\ running /\ to_run = {}
  /\ running' = FALSE /\ have_run' = {}
  /\ left' = [t \in Timers |-> IF t \in Repeating THEN interval[t]
                             ELSE IF t \in timers THEN left[t] ELSE 0]
  /\ timers' = timers \union Repeating
  /\ Rearm
  /\ UNCHANGED <<interval, to_run, polled, steps>>
-----------------------------------------------------------------------------
(* The clocks *)

Shifted(by) ==
  [t \in Timers |-> IF t \notin Allocated THEN 0
                    ELSE IF left[t] - by < -Past THEN -Past ELSE left[t] - by]

Tick ==
  /\ left' = Shifted(1)
  /\ IF fd > 0
     THEN /\ fd' = (IF fd = 1 THEN Off ELSE fd - 1)
          /\ ready' = (ready \/ fd = 1)
     ELSE UNCHANGED <<fd, ready>>
  /\ UNCHANGED <<timers, interval, roundVars, polled, drift, steps>>

\* The system clock is set; the timerfd does not notice.
SetClock(by) ==
  /\ steps < MaxSteps /\ steps' = steps + 1
  /\ \A t \in Timers : left[t] - by <= Ahead
  /\ left' = Shifted(by)
  /\ drift' = IF by > 0 THEN drift + by ELSE drift
  /\ UNCHANGED <<timers, interval, roundVars, fd, ready, polled>>

Next ==
  \/ \E t \in Timers, d \in Delays, i \in Intervals : AddTimer(t, d, i)
  \/ Poll \/ HandleRead \/ (\E t \in Timers : Run(t)) \/ ResetTimers
  \/ Tick \/ \E by \in Steps : SetClock(by)

\* The loop's thread is scheduled and time passes.
Fairness ==
  /\ WF_vars(Poll) /\ WF_vars(HandleRead) /\ WF_vars(ResetTimers)
  /\ WF_vars(\E t \in Timers : Run(t)) /\ WF_vars(Tick)

Spec == Init /\ [][Next]_vars /\ Fairness
-----------------------------------------------------------------------------
(* Properties *)

TypeOK ==
  /\ timers \subseteq Timers /\ to_run \subseteq Timers /\ have_run \subseteq Timers
  /\ left \in [Timers -> -Past..Ahead] /\ interval \in [Timers -> 0..Ahead]
  /\ running \in BOOLEAN /\ ready \in BOOLEAN /\ polled \in BOOLEAN
  /\ fd \in {Off} \union 1..(Ahead + 1)
  /\ drift \in Nat /\ steps \in 0..MaxSteps

\* While a timer is pending, and the queue is not about to look at it, the timerfd
\* has gone off or will when the earliest is due (at the least limit at the
\* latest), but for what the system clock was set forward since it was set.
WakeupPending ==
  timers # {} /\ ~running /\ ~polled =>
    \/ ready
    \/ /\ fd # Off
       /\ \A t \in timers : fd <= Delay(left[t] + drift)

\* A timer is in one place at a time, so it neither runs twice for one expiration
\* nor is it deleted while it is in the set.
OnePlace ==
  /\ timers \intersect (to_run \union have_run) = {}
  /\ to_run \intersect have_run = {}
  /\ ~running => to_run \union have_run = {}

\* A periodic timer is never lost: no step deletes one, and there is no way to cancel
\* it, though src/README.md:30 speaks of one (ResetTimers).
PeriodicStays ==
  [][\A t \in Allocated : interval[t] > 0 => t \in Allocated']_vars

\* Every timer's callback runs in the end, however often the timerfd is set again
\* for others and whatever the system clock does.
EventuallyRuns == \A t \in Timers : t \in timers ~> t \in have_run
=============================================================================
