-------------------------- MODULE TimerQueueProofs --------------------------
(***************************************************************************)
(* Proofs about TimerQueue, for any set of timers (an infinite one too),   *)
(* any delays and intervals and however far and often the system clock is  *)
(* set: the safety properties of the run timer_queue.                      *)
(*                                                                         *)
(* That timers_ has a first element to set the timerfd for is not to be    *)
(* had by induction over sets; it follows from the expirations' lower      *)
(* bound and from < being well founded on the naturals.                    *)
(***************************************************************************)
EXTENDS TimerQueue, TLAPS, WellFoundedInduction

\* Between Poll and ResetTimers the timerfd has been handled once.
Handling == polled => ~running

IInv == OnePlace /\ WakeupPending /\ Handling
-----------------------------------------------------------------------------
(* The first of timers_ *)

\* A set of integers with a lower bound has a least one.
LEMMA Least ==
  ASSUME NEW s \in SUBSET Int, s # {}, NEW k \in Nat, \A i \in s : -k <= i
  PROVE  \E m \in s : \A i \in s : m <= i
<1> DEFINE up == {i + k : i \in s}
           R == OpToRel(<, Nat)
<1>1. up \subseteq Nat /\ up # {}
  <2>1. \A i \in s : i + k \in Nat
    OBVIOUS
  <2> QED
    BY <2>1
<1>2. IsWellFoundedOn(R, Nat)
  BY NatLessThanWellFounded
<1>3. \E n \in up : \A j \in up : <<j, n>> \notin R
  <2> HIDE DEF up, R
  <2> QED
    BY <1>1, <1>2, WFMin
<1>4. PICK n \in up : \A j \in up : ~(j < n)
  BY <1>1, <1>3 DEF OpToRel
<1>5. PICK m \in s : n = m + k
  BY <1>4
<1>6. \A i \in s : ~(i + k < m + k)
  BY <1>4, <1>5
<1> QED
  BY <1>6

\* Earliest chooses what timers_.begin() is.
LEMMA EarliestFirst ==
  ASSUME NEW s \in SUBSET Timers, s # {}, NEW f \in [Timers -> -Past..Ahead]
  PROVE  /\ Earliest(s, f) \in s
         /\ \A u \in s : f[Earliest(s, f)] <= f[u]
<1> DEFINE fs == {f[t] : t \in s}
<1>1. fs \in SUBSET Int /\ fs # {} /\ \A i \in fs : -Past <= i
  BY TimeAssumption
<1>2. PICK m \in fs : \A i \in fs : m <= i
  <2> HIDE DEF fs
  <2> QED
    BY <1>1, Least, TimeAssumption
<1>3. \E t \in s : \A u \in s : f[t] <= f[u]
  BY <1>2
<1> QED
  BY <1>3 DEF Earliest
-----------------------------------------------------------------------------
(* Types *)

\* What ResetTimerFd sets the timerfd to.
LEMMA DelayType ==
  ASSUME NEW d \in Int, d <= Ahead
  PROVE  /\ Delay(d) \in 1..(Ahead + 1)
         /\ \A e \in Int : d <= e => Delay(d) <= Delay(e)
BY TimeAssumption DEF Delay

\* Where the clocks' steps leave the timers.
LEMMA ShiftedType ==
  ASSUME TypeOK, NEW by \in Int, \A t \in Timers : left[t] - by <= Ahead
  PROVE  /\ Shifted(by) \in [Timers -> -Past..Ahead]
         /\ \A t \in timers : Shifted(by)[t] >= left[t] - by
<1>1. \A t \in Timers : left[t] \in Int
  BY TimeAssumption DEF TypeOK
<1>2. ASSUME NEW t \in Timers
      PROVE  /\ Shifted(by)[t] \in -Past..Ahead
             /\ t \in timers => Shifted(by)[t] >= left[t] - by
  BY <1>1, <1>2, TimeAssumption DEF Shifted, Allocated
<1> QED
  BY <1>2 DEF Shifted, TypeOK

\* What ResetTimers sets the timerfd to.
LEMMA RearmEarliest ==
  ASSUME TypeOK, ResetTimers
  PROVE  /\ left' \in [Timers -> -Past..Ahead] /\ timers' \subseteq Timers
         /\ timers' = {} => UNCHANGED fdVars
         /\ timers' # {} =>
              /\ fd' \in 1..(Ahead + 1) /\ ready' = FALSE /\ drift' = 0
              /\ \A t \in timers' : fd' <= Delay(left'[t])
<1>1. /\ left' \in [Timers -> -Past..Ahead]
      /\ timers' = timers \union Repeating /\ Rearm
  BY TimeAssumption DEF ResetTimers, TypeOK, Repeating
<1>2. timers' \subseteq Timers
  BY <1>1 DEF TypeOK, Repeating
<1>3. ASSUME timers' # {}
      PROVE  /\ fd' \in 1..(Ahead + 1) /\ ready' = FALSE /\ drift' = 0
             /\ \A t \in timers' : fd' <= Delay(left'[t])
  <2> DEFINE first == Earliest(timers', left')
  <2>1. first \in timers' /\ \A u \in timers' : left'[first] <= left'[u]
    <3>1. \A s \in SUBSET Timers, f \in [Timers -> -Past..Ahead] : s # {} =>
            Earliest(s, f) \in s /\ \A u \in s : f[Earliest(s, f)] <= f[u]
      BY EarliestFirst
    <3> QED
      BY <1>1, <1>2, <1>3, <3>1
  <2>2. ResetTimerFd(left'[first])
    BY <1>1, <1>3 DEF Rearm
  <2>3. /\ \A t \in timers' : left'[t] \in Int
        /\ left'[first] \in Int /\ left'[first] <= Ahead
    BY <1>1, <1>2, <2>1, TimeAssumption
  <2> HIDE DEF first
  <2> QED
    BY <2>1, <2>2, <2>3, DelayType DEF ResetTimerFd
<1> QED
  BY <1>1, <1>2, <1>3 DEF Rearm

LEMMA TypeStep ==
  ASSUME TypeOK, [Next]_vars PROVE TypeOK'
<1> USE TimeAssumption DEF TypeOK, roundVars, fdVars
<1>1. ASSUME NEW t \in Timers, NEW d \in Delays, NEW i \in Intervals, AddTimer(t, d, i)
      PROVE  TypeOK'
  <2>1. d \in Int /\ d <= Ahead /\ d \in -Past..Ahead /\ i \in 0..Ahead
    OBVIOUS
  <2>2. ResetTimerFd(d) => fd' \in 1..(Ahead + 1) /\ ready' = FALSE /\ drift' = 0
    BY <2>1, DelayType DEF ResetTimerFd
  <2>3. fd' \in {Off} \union 1..(Ahead + 1) /\ ready' \in BOOLEAN /\ drift' \in Nat
    <3>1. CASE Instantly(d)
      <4>1. fd' \in 1..(Ahead + 1) /\ ready' = FALSE /\ drift' = 0
        BY <1>1, <2>2, <3>1 DEF AddTimer
      <4> QED
        BY <4>1
    <3>2. CASE ~Instantly(d)
      BY <1>1, <3>2 DEF AddTimer
    <3> QED
      BY <3>1, <3>2
  <2>4. left' \in [Timers -> -Past..Ahead] /\ interval' \in [Timers -> 0..Ahead]
    BY <1>1, <2>1 DEF AddTimer
  <2> QED
    BY <1>1, <2>3, <2>4 DEF AddTimer
<1>2. CASE Poll
  BY <1>2 DEF Poll
<1>3. CASE HandleRead
  BY <1>3 DEF HandleRead
<1>4. ASSUME NEW t \in Timers, Run(t) PROVE TypeOK'
  BY <1>4 DEF Run
<1>5. CASE ResetTimers
  <2>1. fd' \in {Off} \union 1..(Ahead + 1) /\ ready' \in BOOLEAN /\ drift' \in Nat
    <3>1. CASE timers' = {}
      BY <1>5, <3>1, RearmEarliest
    <3>2. CASE timers' # {}
      <4>1. fd' \in 1..(Ahead + 1) /\ ready' = FALSE /\ drift' = 0
        BY <1>5, <3>2, RearmEarliest
      <4> QED
        BY <4>1
    <3> QED
      BY <3>1, <3>2
  <2>2. left' \in [Timers -> -Past..Ahead] /\ timers' \subseteq Timers
    BY <1>5, RearmEarliest
  <2> QED
    BY <1>5, <2>1, <2>2 DEF ResetTimers
<1>6. CASE Tick
  <2>1. left' \in [Timers -> -Past..Ahead]
    BY <1>6, ShiftedType DEF Tick
  <2>2. fd' \in {Off} \union 1..(Ahead + 1) /\ ready' \in BOOLEAN
    <3>1. CASE fd > 1
      <4>0. fd \in Int /\ fd > 0 /\ fd # 1
        BY <3>1 DEF Off
      <4>1. fd' = fd - 1
        BY <1>6, <4>0 DEF Tick
      <4>2. fd - 1 \in 1..(Ahead + 1)
        BY <3>1 DEF Off
      <4>3. ready' \in BOOLEAN
        BY <1>6, <3>1 DEF Tick
      <4> QED
        BY <4>1, <4>2, <4>3
    <3>2. CASE fd = 1
      BY <1>6, <3>2 DEF Tick
    <3>3. CASE ~(fd > 0)
      BY <1>6, <3>3 DEF Tick
    <3> QED
      BY <3>1, <3>2, <3>3 DEF Off
  <2> QED
    BY <1>6, <2>1, <2>2 DEF Tick
<1>7. ASSUME NEW by \in Steps, SetClock(by) PROVE TypeOK'
  <2>1. left' \in [Timers -> -Past..Ahead]
    BY <1>7, ShiftedType DEF SetClock
  <2> QED
    BY <1>7, <2>1 DEF SetClock
<1>8. CASE UNCHANGED vars
  BY <1>8 DEF vars
<1> QED
  BY <1>1, <1>2, <1>3, <1>4, <1>5, <1>6, <1>7, <1>8 DEF Next
-----------------------------------------------------------------------------
(* The inductive invariant *)

LEMMA PlaceStep ==
  ASSUME TypeOK, OnePlace, Handling, [Next]_vars PROVE OnePlace' /\ Handling'
<1> USE DEF TypeOK, OnePlace, Handling, roundVars, fdVars
<1>1. ASSUME NEW t \in Timers, NEW d \in Delays, NEW i \in Intervals, AddTimer(t, d, i)
      PROVE  OnePlace' /\ Handling'
  BY <1>1 DEF AddTimer, Allocated
<1>2. CASE Poll
  BY <1>2 DEF Poll
<1>3. CASE HandleRead
  BY <1>3 DEF HandleRead
<1>4. ASSUME NEW t \in Timers, Run(t) PROVE OnePlace' /\ Handling'
  BY <1>4 DEF Run
<1>5. CASE ResetTimers
  BY <1>5 DEF ResetTimers
<1>6. CASE Tick \/ \E by \in Steps : SetClock(by)
  BY <1>6 DEF Tick, SetClock
<1>7. CASE UNCHANGED vars
  BY <1>7 DEF vars
<1> QED
  BY <1>1, <1>2, <1>3, <1>4, <1>5, <1>6, <1>7 DEF Next

\* The timerfd follows the first timer, whatever is added and whichever clock moves.
LEMMA WakeupStep ==
  ASSUME TypeOK, TypeOK', Handling, WakeupPending, [Next]_vars PROVE WakeupPending'
<1> DEFINE InTime(f, l, d) == \A t \in timers : f <= Delay(l[t] + d)
<1>0. /\ \A t \in Timers : left[t] \in Int
      /\ drift \in Nat /\ drift \in Int /\ fd \in Int /\ (fd # Off => fd >= 1)
      /\ timers \subseteq Timers /\ Past \in Nat /\ Ahead \in Nat
      /\ \A d, e \in Int : d <= e => Delay(d) <= Delay(e)
  BY TimeAssumption DEF TypeOK, Off, Delay
<1> USE DEF roundVars, fdVars
<1>1. ASSUME NEW t \in Timers, NEW d \in Delays, NEW i \in Intervals, AddTimer(t, d, i)
      PROVE  WakeupPending'
  <2>1. /\ d \in Int /\ timers' = timers \union {t} /\ t \notin timers
        /\ left'[t] = d /\ \A u \in timers : left'[u] = left[u]
        /\ UNCHANGED <<running, polled>>
    BY <1>0, <1>1, TimeAssumption DEF AddTimer, Allocated, TypeOK
  <2>2. CASE Instantly(d)
    <3>1. fd' = Delay(d) /\ ready' = FALSE /\ drift' = 0
      BY <1>1, <2>2 DEF AddTimer, ResetTimerFd
    <3>2. \A u \in timers' : d <= left'[u] + 0 /\ left'[u] + 0 \in Int
      BY <1>0, <2>1, <2>2 DEF Instantly
    <3>3. Delay(d) # Off
      BY <2>1 DEF Delay, Off
    <3> QED
      BY <1>0, <2>1, <3>1, <3>2, <3>3 DEF WakeupPending
  <2>3. CASE ~Instantly(d)
    <3>1. UNCHANGED <<fd, ready, drift>>
      BY <1>1, <2>3 DEF AddTimer
    <3>2. PICK u \in timers : left[u] <= d
      BY <1>0, <2>1, <2>3 DEF Instantly
    <3>3. /\ left[u] + drift \in Int /\ d + drift \in Int
          /\ left[u] + drift <= d + drift
      <4>1. left[u] \in Int /\ drift \in Int
        BY <1>0
      <4> QED
        BY <2>1, <3>2, <4>1
    <3>4. Delay(left[u] + drift) <= Delay(d + drift)
      BY <1>0, <3>3
    <3>5. Delay(left[u] + drift) \in Int /\ Delay(d + drift) \in Int
      BY <3>3 DEF Delay
    <3> SUFFICES ASSUME ~running, ~polled, ~ready
                 PROVE  fd # Off /\ \A v \in timers' : fd <= Delay(left'[v] + drift)
      BY <2>1, <3>1 DEF WakeupPending
    <3>6. fd # Off /\ \A v \in timers : fd <= Delay(left[v] + drift)
      BY <3>2 DEF WakeupPending
    <3>7. fd <= Delay(d + drift)
      BY <1>0, <3>4, <3>5, <3>6
    <3> QED
      BY <2>1, <3>6, <3>7
  <2> QED
    BY <2>2, <2>3
<1>2. CASE Poll
  BY <1>2 DEF Poll, WakeupPending
<1>3. CASE HandleRead
  BY <1>3 DEF HandleRead, WakeupPending
<1>4. ASSUME NEW t \in Timers, Run(t) PROVE WakeupPending'
  BY <1>4 DEF Run, WakeupPending
<1>5. CASE ResetTimers
  <2>1. timers' # {} => fd' \in 1..(Ahead + 1) /\ drift' = 0
                        /\ \A t \in timers' : fd' <= Delay(left'[t])
    BY <1>5, RearmEarliest
  <2>2. \A t \in timers' : left'[t] + 0 = left'[t]
    BY <1>5, RearmEarliest, TimeAssumption
  <2> QED
    BY <1>0, <2>1, <2>2 DEF WakeupPending, Off
<1>6. CASE Tick
  <2>1. /\ \A t \in timers : left'[t] \in Int /\ left'[t] >= left[t] - 1
        /\ timers' = timers /\ UNCHANGED <<running, polled, drift>>
    <3>1. \A t \in Timers : left[t] - 1 <= Ahead
      BY <1>0, TimeAssumption DEF TypeOK
    <3>2. \A t \in timers : left'[t] >= left[t] - 1
      BY <1>6, <3>1, ShiftedType DEF Tick
    <3> QED
      BY <1>0, <1>6, <3>2, TimeAssumption DEF Tick, TypeOK
  <2> SUFFICES ASSUME timers # {}, ~running, ~polled, ~ready'
               PROVE  fd' # Off /\ \A t \in timers : fd' <= Delay(left'[t] + drift)
    BY <2>1 DEF WakeupPending
  <2>2. ~ready /\ fd # Off /\ fd > 1 /\ fd' = fd - 1
    BY <1>0, <1>6 DEF Tick, WakeupPending, TypeOK
  <2>3. ASSUME NEW t \in timers PROVE fd - 1 <= Delay(left'[t] + drift)
    <3>1. fd <= Delay(left[t] + drift)
      BY <2>2 DEF WakeupPending
    <3>2. /\ left[t] \in Int /\ left'[t] \in Int /\ left'[t] >= left[t] - 1
          /\ fd \in Int /\ fd > 1 /\ drift \in Int
      BY <1>0, <2>1, <2>2
    <3>3. left[t] + drift >= fd
      BY <3>1, <3>2 DEF Delay
    <3>4. left'[t] + drift >= fd - 1
      BY <3>2, <3>3
    <3> QED
      BY <3>2, <3>4 DEF Delay
  <2> QED
    BY <1>0, <2>2, <2>3 DEF Off
<1>7. ASSUME NEW by \in Steps, SetClock(by) PROVE WakeupPending'
  <2>1. /\ by \in Int /\ timers' = timers /\ UNCHANGED <<running, polled, fd, ready>>
        /\ drift' = IF by > 0 THEN drift + by ELSE drift
        /\ \A t \in timers : left'[t] \in Int /\ left'[t] >= left[t] - by
    <3>1. by \in Int /\ \A t \in timers : left'[t] >= left[t] - by
      BY <1>7, ShiftedType, TimeAssumption DEF SetClock
    <3> QED
      BY <1>0, <1>7, <3>1, TimeAssumption DEF SetClock, TypeOK
  <2>2. \A t \in timers : /\ left[t] + drift <= left'[t] + drift'
                          /\ left[t] + drift \in Int /\ left'[t] + drift' \in Int
    <3> SUFFICES ASSUME NEW t \in timers
                 PROVE  /\ left[t] + drift <= left'[t] + drift'
                        /\ left[t] + drift \in Int /\ left'[t] + drift' \in Int
      OBVIOUS
    <3>1. /\ left[t] \in Int /\ left'[t] \in Int /\ left'[t] >= left[t] - by
          /\ drift \in Int /\ by \in Int
          /\ drift' = IF by > 0 THEN drift + by ELSE drift
      BY <1>0, <2>1
    <3> QED
      BY <3>1
  <2>3. \A t \in timers : /\ Delay(left[t] + drift) <= Delay(left'[t] + drift')
                          /\ Delay(left[t] + drift) \in Int
                          /\ Delay(left'[t] + drift') \in Int
    BY <1>0, <2>2 DEF Delay
  <2> SUFFICES ASSUME timers # {}, ~running, ~polled, ~ready
               PROVE  fd # Off /\ \A t \in timers : fd <= Delay(left'[t] + drift')
    BY <2>1 DEF WakeupPending
  <2>4. fd # Off /\ \A t \in timers : fd <= Delay(left[t] + drift)
    BY DEF WakeupPending
  <2> QED
    BY <1>0, <2>3, <2>4
<1>8. CASE UNCHANGED vars
  BY <1>8 DEF vars, WakeupPending
<1> QED
  BY <1>1, <1>2, <1>3, <1>4, <1>5, <1>6, <1>7, <1>8 DEF Next

LEMMA Inductive == Spec => [](TypeOK /\ IInv)
<1>1. ASSUME Init PROVE TypeOK /\ IInv
  <2>1. 0 \in -Past..Ahead /\ 0 \in 0..Ahead /\ 0 \in 0..MaxSteps
    BY TimeAssumption
  <2>2. TypeOK
    BY <1>1, <2>1 DEF Init, TypeOK
  <2> QED
    BY <1>1, <2>2 DEF Init, IInv, OnePlace, WakeupPending, Handling
<1>2. ASSUME TypeOK, IInv, [Next]_vars PROVE TypeOK' /\ IInv'
  BY <1>2, TypeStep, PlaceStep, WakeupStep DEF IInv
<1> QED
  BY <1>1, <1>2, PTL DEF Spec
-----------------------------------------------------------------------------
(* Theorems *)

\* The timerfd is never set to a time beyond the longest delay, nor to zero, which
\* would switch it off, and every variable keeps its type.
THEOREM Typing == Spec => []TypeOK
BY Inductive, PTL

\* A Timer is in timers_ or in active_timers_, once, so that it neither runs twice
\* for one expiration nor is deleted while the set has it.
THEOREM InOnePlace == Spec => []OnePlace
<1>1. IInv => OnePlace
  BY DEF IInv
<1> QED
  BY <1>1, Inductive, PTL

\* No timer is forgotten: whenever the queue is not about to look at its timers,
\* the timerfd has gone off or goes off when the first is due, however timers are
\* added, run and restarted, up to what the system clock was set forward.
THEOREM WakeupStaysPending == Spec => []WakeupPending
<1>1. IInv => WakeupPending
  BY DEF IInv
<1> QED
  BY <1>1, Inductive, PTL

\* No step deletes a periodic timer, for ResetTimers restarts each one that has run.
THEOREM PeriodicTimersStay == Spec => PeriodicStays
<1>1. ASSUME TypeOK, IInv, [Next]_vars
      PROVE  \A t \in Allocated : interval[t] > 0 => t \in Allocated'
  <2> SUFFICES ASSUME NEW t \in Allocated, interval[t] > 0 PROVE t \in Allocated'
    OBVIOUS
  <2> USE DEF Allocated, roundVars
  <2>1. ASSUME NEW u \in Timers, NEW d \in Delays, NEW i \in Intervals, AddTimer(u, d, i)
        PROVE  t \in Allocated'
    BY <2>1 DEF AddTimer
  <2>2. CASE Poll \/ Tick \/ \E by \in Steps : SetClock(by)
    BY <2>2 DEF Poll, Tick, SetClock
  <2>3. CASE HandleRead
    BY <1>1, <2>3 DEF HandleRead, IInv, Handling, OnePlace
  <2>4. ASSUME NEW u \in Timers, Run(u) PROVE t \in Allocated'
    BY <2>4 DEF Run
  <2>5. CASE ResetTimers
    <3>1. to_run = {} /\ timers' = timers \union Repeating
      BY <2>5 DEF ResetTimers
    <3> QED
      BY <3>1 DEF Repeating
  <2>6. CASE UNCHANGED vars
    BY <2>6 DEF vars
  <2> QED
    BY <1>1, <2>1, <2>2, <2>3, <2>4, <2>5, <2>6 DEF Next
<1>2. TypeOK /\ IInv /\ [Next]_vars =>
        [\A t \in Allocated : interval[t] > 0 => t \in Allocated']_vars
  BY <1>1
<1> QED
  BY <1>2, Inductive, PTL DEF Spec, PeriodicStays
=============================================================================
