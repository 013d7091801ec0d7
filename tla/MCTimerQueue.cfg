\* Three timers, once or every two ticks, already due, due now or in two ticks; the
\* system clock is set once, forward or back by two ticks.
SPECIFICATION Spec
CONSTANTS
  Timers = {t1, t2, t3}
  Delays <- SomeDelays
  Intervals = {0, 2}
  Steps <- BothWays
  MaxSteps = 1
  Past = 2
  Ahead = 4
INVARIANTS TypeOK WakeupPending OnePlace
PROPERTIES PeriodicStays EventuallyRuns
