----------------------------- MODULE TimerHeap -----------------------------
(***************************************************************************)
(* The binary heap of the timer queue (Core/EventLoop/TimerQueue): an array *)
(* of pointers to awaiters, each of which remembers its place in it, so    *)
(* that a wait is withdrawn without a search.  All on the loop thread.     *)
(*                                                                         *)
(* Places count from 1 here and from 0 in the code.  The two sifting loops *)
(* are functions of the number of turns taken: a turn after the loop has   *)
(* ended changes nothing, and neither takes more turns than are counted.   *)
(***************************************************************************)
EXTENDS Naturals, Sequences, SequencesExt

CONSTANTS Awaiters, Deadlines

ASSUME HeapAssumption == Deadlines \subseteq Nat /\ Deadlines # {} /\ Awaiters # {}

VARIABLES
    entries,       \* m_heap
    heapIndex,     \* m_heapIndex of each awaiter, 0 when it is not in the heap
    dueAt,         \* m_deadline of each awaiter; a new wait is a new awaiter
    top            \* what takeHeapTop() returned last

heapVars == <<entries, heapIndex, dueAt, top>>

Earliest == CHOOSE d \in Deadlines : \A e \in Deadlines : d <= e

HeapInit ==
    /\ entries = << >>
    /\ heapIndex = [t \in Awaiters |-> 0]
    /\ dueAt = [t \in Awaiters |-> Earliest]
    /\ top = CHOOSE t \in Awaiters : TRUE

-----------------------------------------------------------------------------
(* The array and the places are changed together: a heap value is a record *)
(* of both.                                                                *)

Now == [array |-> entries, place |-> heapIndex]

swapHeapAt(h, i, j) ==
    [array |-> [h.array EXCEPT ![i] = h.array[j], ![j] = h.array[i]],
     place |-> [h.place EXCEPT ![h.array[i]] = j, ![h.array[j]] = i]]

isLaterThan(dl, s, t) == dl[s] > dl[t]

\* One turn of siftAwaiterUp(): the awaiter at place x.at of the heap x.h rises when
\* its parent is due later.
RiseOnce(dl, x) ==
    IF x.at > 1 /\ isLaterThan(dl, x.h.array[x.at \div 2], x.h.array[x.at])
    THEN [h |-> swapHeapAt(x.h, x.at, x.at \div 2), at |-> x.at \div 2]
    ELSE x

\* The heap in which the awaiter at place i has risen as far as it does, and its place,
\* which the code returns.
siftAwaiterUp(h, dl, i) ==
    LET after[n \in Nat] == IF n = 0 THEN [h |-> h, at |-> i] ELSE RiseOnce(dl, after[n - 1])
    IN  after[i]

\* Of the children of place i the one to compare with: the right one only when the
\* left one is due later.
Child(h, dl, i) ==
    IF 2 * i + 1 <= Len(h.array) /\ isLaterThan(dl, h.array[2 * i], h.array[2 * i + 1])
    THEN 2 * i + 1
    ELSE 2 * i

\* One turn of siftAwaiterDown(): the awaiter sinks when that child is due earlier.
SinkOnce(dl, x) ==
    LET c == Child(x.h, dl, x.at)
    IN  IF 2 * x.at <= Len(x.h.array) /\ isLaterThan(dl, x.h.array[x.at], x.h.array[c])
        THEN [h |-> swapHeapAt(x.h, x.at, c), at |-> c]
        ELSE x

\* The awaiter at place i sinks as far as it does.
siftAwaiterDown(h, dl, i) ==
    LET after[n \in Nat] == IF n = 0 THEN [h |-> h, at |-> i] ELSE SinkOnce(dl, after[n - 1])
    IN  after[Len(h.array)]

\* The awaiter at place i changes places with the last one and is popped.
PopAt(h, i) ==
    LET swapped == swapHeapAt(h, i, Len(h.array))
    IN  [array |-> Front(swapped.array),
         place |-> [swapped.place EXCEPT ![h.array[i]] = 0]]

Becomes(h) == entries' = h.array /\ heapIndex' = h.place
Leaves(t) == dueAt' = [dueAt EXCEPT ![t] = Earliest]

-----------------------------------------------------------------------------
insert(t, d) ==
    /\ ~Contains(entries, t)
    /\ dueAt' = [dueAt EXCEPT ![t] = d]
    /\ LET n == Len(entries) + 1
           added == [array |-> Append(entries, t), place |-> [heapIndex EXCEPT ![t] = n]]
       IN  Becomes(siftAwaiterUp(added, dueAt', n).h)
    /\ UNCHANGED top

\* Mutant: what fills the gap is only ever let sink.
removeSinkingOnly(t) ==
    /\ Contains(entries, t)
    /\ LET i == heapIndex[t]
           popped == PopAt(Now, i)
       IN  Becomes(IF i <= Len(popped.array) THEN siftAwaiterDown(popped, dueAt, i).h ELSE popped)
    /\ Leaves(t)
    /\ UNCHANGED top

\* remove(): what fills the gap may have to rise or to sink.  An awaiter that is not at
\* the place it remembers would be left in the heap.
remove(t) ==
    /\ Contains(entries, t)
    /\ LET i == heapIndex[t]
           popped == PopAt(Now, i)
           risen == siftAwaiterUp(popped, dueAt, i)
       IN  IF i \in DOMAIN entries /\ entries[i] = t
           THEN Becomes(IF i > Len(popped.array) THEN popped
                        ELSE IF risen.at # i THEN risen.h
                        ELSE siftAwaiterDown(risen.h, dueAt, i).h)
           ELSE UNCHANGED <<entries, heapIndex>>
    /\ Leaves(t)
    /\ UNCHANGED top

takeHeapTop ==
    /\ entries # << >>
    /\ top' = Head(entries)
    /\ LET popped == PopAt(Now, 1)
       IN  Becomes(IF popped.array = << >> THEN popped ELSE siftAwaiterDown(popped, dueAt, 1).h)
    /\ Leaves(top')

HeapNext ==
    \/ \E t \in Awaiters, d \in Deadlines : insert(t, d)
    \/ \E t \in Awaiters : remove(t)
    \/ takeHeapTop

HeapSpec == HeapInit /\ [][HeapNext]_heapVars

-----------------------------------------------------------------------------
(* Properties                                                              *)

Queue == INSTANCE DeadlineQueue WITH due <- [t \in ToSet(entries) |-> dueAt[t]]

\* The heap yields the waits in the order of their deadlines, whatever was withdrawn
\* from its middle in between (TimerQueue.cpp:264).
ImplementsDeadlineQueue == Queue!Spec
=============================================================================
