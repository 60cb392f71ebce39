---------------------------- MODULE MCTimerHeap ----------------------------
(* Model values for the run of TimerHeap. *)
EXTENDS TimerHeap
=============================================================================
