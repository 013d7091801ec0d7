---------------------------- MODULE MCTimerQueue ----------------------------
(* TimerQueue with timers already due, due now and due later, and a clock   *)
(* that is set forward and back by as much as the longest delay.            *)
EXTENDS TimerQueue

SomeDelays == {-1, 0, 2}
BothWays == {-2, 2}
=============================================================================
