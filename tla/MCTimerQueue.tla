---------------------------- MODULE MCTimerQueue ----------------------------
(* The run of TimerQueue. *)
EXTENDS TimerQueue
=============================================================================
