---------------------------- MODULE ReadyQueues ----------------------------
(***************************************************************************)
(* What a scheduler promises, without passes, batches, counts or locks:    *)
(* an item that was accepted stays owed until it is run, it is run once    *)
(* for each time it was accepted, remote items and local callables in the  *)
(* order they were posted and local handles last in, first out; and the    *)
(* remote items owed never exceed Capacity.                                *)
(***************************************************************************)
EXTENDS Naturals, Sequences, SequencesExt

CONSTANTS Handles, Callables, Capacity

VARIABLES
    owedHandles,       \* remote handles accepted and not yet run, oldest first
    owedCallables,     \* remote callables accepted and not yet run, oldest first
    stack,             \* local handles, the next to run last
    fifo               \* local callables, oldest first

vars == <<owedHandles, owedCallables, stack, fifo>>

Init ==
    /\ owedHandles = <<>>
    /\ owedCallables = <<>>
    /\ stack = <<>>
    /\ fifo = <<>>

Accept ==
    /\ Len(owedHandles) + Len(owedCallables) < Capacity
    /\ \/ /\ \E h \in Handles : owedHandles' = Append(owedHandles, h)
          /\ UNCHANGED owedCallables
       \/ /\ \E c \in Callables : owedCallables' = Append(owedCallables, c)
          /\ UNCHANGED owedHandles
    /\ UNCHANGED <<stack, fifo>>

\* s, or s with one more element of S at its end.
Grown(s, S) == {s} \cup {Append(s, x) : x \in S}

\* Code on the loop thread posts locally: at most one item of either kind.
PostsFrom(st, ff) ==
    /\ stack' \in Grown(st, Handles)
    /\ fifo' \in Grown(ff, Callables)

\* Exactly one owed item is run, and only the one its queue's order names.
Run ==
    \/ /\ owedCallables # <<>>
       /\ owedCallables' = Tail(owedCallables)
       /\ PostsFrom(stack, fifo)
       /\ UNCHANGED owedHandles
    \/ /\ owedHandles # <<>>
       /\ owedHandles' = Tail(owedHandles)
       /\ PostsFrom(stack, fifo)
       /\ UNCHANGED owedCallables
    \/ /\ fifo # <<>>
       /\ PostsFrom(stack, Tail(fifo))
       /\ UNCHANGED <<owedHandles, owedCallables>>
    \/ /\ stack # <<>>
       /\ PostsFrom(Front(stack), fifo)
       /\ UNCHANGED <<owedHandles, owedCallables>>

PostLocally ==
    /\ PostsFrom(stack, fifo)
    /\ UNCHANGED <<owedHandles, owedCallables>>

Next == Accept \/ Run \/ PostLocally

Spec == Init /\ [][Next]_vars
=============================================================================
