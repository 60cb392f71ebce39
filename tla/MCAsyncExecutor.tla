-------------------------- MODULE MCAsyncExecutor --------------------------
(* Model values for the run of AsyncExecutor. *)
EXTENDS AsyncExecutor

CONSTANTS w1, w2, w3, s1, s2, s3
=============================================================================
