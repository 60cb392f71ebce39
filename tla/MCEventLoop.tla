---------------------------- MODULE MCEventLoop ----------------------------
(* A small instance of the event loop: a handle and a callable that post   *)
(* each other, and a thread that posts, wakes and stops.                   *)
EXTENDS EventLoop

CONSTANTS h1, c1

MCHandles == {h1}
MCCallables == {c1}

\* The coroutine and the callable post each other: local work that never ends.
MCSpawnForever == (h1 :> {c1}) @@ (c1 :> {h1})

=============================================================================
