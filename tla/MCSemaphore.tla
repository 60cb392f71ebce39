---------------------------- MODULE MCSemaphore ----------------------------
(* Model values for the runs of Semaphore. *)
EXTENDS Semaphore

CONSTANTS c1, c2, c3
=============================================================================
