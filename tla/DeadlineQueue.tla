--------------------------- MODULE DeadlineQueue ---------------------------
(***************************************************************************)
(* What the heap of the timer queue promises: a set of waits with their    *)
(* deadlines, any of which may be withdrawn, and of which the next one     *)
(* taken is one that nobody precedes.                                      *)
(***************************************************************************)
EXTENDS Naturals

CONSTANTS Awaiters, Deadlines

VARIABLES
    due,           \* due[t]: the deadline of wait t, for the waits that are registered
    top            \* the wait that was taken last

vars == <<due, top>>

Init ==
    /\ due = << >>
    /\ top \in Awaiters

Without(t) == [u \in DOMAIN due \ {t} |-> due[u]]

Insert ==
    /\ \E t \in Awaiters \ DOMAIN due, d \in Deadlines :
          due' = [u \in DOMAIN due \cup {t} |-> IF u = t THEN d ELSE due[u]]
    /\ UNCHANGED top

Remove ==
    /\ \E t \in DOMAIN due : due' = Without(t)
    /\ UNCHANGED top

TakeTop ==
    /\ top' \in {t \in DOMAIN due : \A u \in DOMAIN due : due[t] <= due[u]}
    /\ due' = Without(top')

Next == Insert \/ Remove \/ TakeTop

Spec == Init /\ [][Next]_vars
=============================================================================
