----------------------------- MODULE TimerQueue -----------------------------
(***************************************************************************)
(* The timer queue of an event loop (Core/EventLoop/TimerQueue) and its one *)
(* timerfd (Platform/IO/TimerFileDescriptor, Linux): waits are kept by     *)
(* deadline, the descriptor is armed for the nearest one, a driver         *)
(* coroutine waits for it to be readable, collects what is due and posts a *)
(* callable that resumes it.  Every action is one handler on the loop      *)
(* thread, except Tick; what a resumed coroutine does is Wait and Destroy. *)
(*                                                                         *)
(* The heap is the set that DeadlineQueue describes (TimerHeap implements  *)
(* it).  Of the driver's IoWatcher the module keeps its cached readiness   *)
(* and its mask.  Time is counted in ticks of the steady clock, which does *)
(* not advance within a handler.                                           *)
(***************************************************************************)
EXTENDS Integers, FiniteSets, Sequences, SequencesExt, Subsequences

CONSTANTS
    Timers,          \* the frames that wait, one wait at a time each
    Durations,       \* milliseconds asked for
    TicksPerMs,
    Horizon,         \* time_point::max()
    MaxNow,          \* bound: when the clock stops
    MaxArmFailures,  \* bound: timerfd_settime() fails this often
    MaxPosted        \* bound: callables posted and not yet run

ASSUME TimerAssumption ==
    /\ Durations \subseteq Nat
    /\ TicksPerMs \in Nat \ {0}
    /\ {Horizon, MaxNow, MaxArmFailures, MaxPosted} \subseteq Nat
    /\ MaxNow < Horizon

None == -1

VARIABLES
    now,
    suspended,           \* the frames that are suspended in a wait
    deadline,            \* m_deadline of each awaiter
    isQueued,            \* the awaiters whose m_isQueued is set
    isPendingResume,     \* the awaiters whose m_isPendingResume is set
    heap,                \* m_heap
    expiredAwaiters,     \* m_expiredAwaiters
    fd,                  \* m_armedDeadline (armed), the timerfd (fireAt, readable), failures
    driver,              \* m_driverState; Running is Scheduled until the first run
    ready,               \* m_readyEvents of the watcher holds EPOLLIN
    interest,            \* the kernel watches the descriptor
    reported,            \* the batch of the backend holds an event of the descriptor
    posted,              \* resumeExpired() callables in the local queue
    resuming             \* resumeExpired() is running

awaiterVars == <<suspended, deadline, isQueued, isPendingResume>>
queueVars == <<heap, expiredAwaiters, fd>>
watcherVars == <<ready, interest, reported>>
resumeVars == <<posted, resuming>>
vars == <<now, awaiterVars, queueVars, driver, watcherVars, resumeVars>>

\* The watcher is registered for reading when it is built; the driver is not started.
Init ==
    /\ now = 0
    /\ suspended = {} /\ isQueued = {} /\ isPendingResume = {}
    /\ deadline = [t \in Timers |-> 0]
    /\ heap = {} /\ expiredAwaiters = << >>
    /\ fd = [armed |-> None, fireAt |-> None, readable |-> FALSE, failures |-> 0]
    /\ driver = "Idle"
    /\ ready = FALSE /\ interest = TRUE /\ reported = FALSE
    /\ posted = 0 /\ resuming = FALSE

-----------------------------------------------------------------------------
(* Deadlines and durations                                                 *)

\* Mutant: the sum wraps around.
computeDeadlineWrapping(d) == (now + d * TicksPerMs) % (Horizon + 1)

\* A duration that does not fit before the end of time saturates.
computeDeadline(d) ==
    IF d >= (Horizon - now) \div TicksPerMs THEN Horizon ELSE now + d * TicksPerMs

\* Milliseconds until dl, rounded up, at least one: zero would disarm.
armedDurationFor(dl) ==
    LET roundedUp == (dl - now + TicksPerMs - 1) \div TicksPerMs
    IN  IF roundedUp > 0 THEN roundedUp ELSE 1

-----------------------------------------------------------------------------
(* Arming                                                                  *)

\* The deadline of the top of a heap h, under the deadlines dl: a set of one, or none.
Nearest(h, dl) == {n \in {dl[t] : t \in h} : \A t \in h : n <= dl[t]}

\* Mutant: a failure is recorded as armed.
SettimeTrusted(f, armed, fireAt) ==
    {[f EXCEPT !.armed = armed, !.fireAt = fireAt, !.readable = FALSE]} \cup
    {g \in {[f EXCEPT !.armed = armed, !.failures = @ + 1]} : f.failures < MaxArmFailures}

\* timerfd_settime() also discards an expiry that was not read.  When it fails the kernel
\* is as it was, and nothing is recorded as armed.
Settime(f, armed, fireAt) ==
    {[f EXCEPT !.armed = armed, !.fireAt = fireAt, !.readable = FALSE]} \cup
    {g \in {[f EXCEPT !.armed = None, !.failures = @ + 1]} : f.failures < MaxArmFailures}

\* Is the descriptor f armed for deadline n?
ArmedFor(f, n) == f.armed = n

\* rearm() for heap h and deadlines dl: what may become of the descriptor f.
rearm(h, dl, f) ==
    IF h = {}
    THEN IF f.armed = None THEN {f} ELSE Settime(f, None, None)
    ELSE UNION {IF ArmedFor(f, n) THEN {f}
                ELSE Settime(f, n, now + TicksPerMs * armedDurationFor(n)) : n \in Nearest(h, dl)}

-----------------------------------------------------------------------------
(* Waiting                                                                 *)

\* co_await of a wait: await_suspend() and insert().  The first one starts the driver.
Wait(t, d) ==
    /\ t \notin suspended
    /\ driver \notin {"Dead", "Gone"}
    /\ suspended' = suspended \cup {t}
    /\ deadline' = [deadline EXCEPT ![t] = computeDeadline(d)]
    /\ driver' = IF driver = "Idle" THEN "Scheduled" ELSE driver
    /\ heap' = heap \cup {t}
    /\ isQueued' = isQueued \cup {t}
    /\ fd' \in rearm(heap', deadline', fd)
    /\ UNCHANGED <<now, isPendingResume, expiredAwaiters, watcherVars, resumeVars>>

\* A dead queue refuses: the wait ends at once.
WaitRefused(t) ==
    /\ t \notin suspended
    /\ driver = "Dead"
    /\ UNCHANGED vars

\* The awaiter is no more, and its deadline with it.
Ended(t) == suspended' = suspended \ {t} /\ deadline' = [deadline EXCEPT ![t] = 0]

\* remove()
Removed(t) == heap' = heap \ {t} /\ fd' \in rearm(heap', deadline, fd)

cancelPendingResume(t) == expiredAwaiters' = Without(expiredAwaiters, {t})

\* ~Awaiter(): its frame is destroyed while it waits.
Destroy(t) ==
    /\ t \in suspended
    /\ isQueued' = isQueued \ {t}
    /\ isPendingResume' = isPendingResume \ {t}
    /\ IF t \in isQueued /\ t \in heap THEN Removed(t) ELSE UNCHANGED <<heap, fd>>
    /\ IF t \in isPendingResume THEN cancelPendingResume(t) ELSE UNCHANGED expiredAwaiters
    /\ Ended(t)
    /\ UNCHANGED <<now, driver, watcherVars, resumeVars>>

-----------------------------------------------------------------------------
(* The clock and the backend                                               *)

Tick ==
    /\ now < MaxNow
    /\ now' = now + 1
    /\ fd' = IF fd.fireAt = now' THEN [fd EXCEPT !.fireAt = None, !.readable = TRUE] ELSE fd
    /\ UNCHANGED <<awaiterVars, heap, expiredAwaiters, driver, watcherVars, resumeVars>>

Poll ==
    /\ ~resuming /\ ~reported
    /\ fd.readable /\ interest
    /\ driver # "Gone"
    /\ reported' = TRUE
    /\ UNCHANGED <<now, awaiterVars, queueVars, driver, ready, interest, resumeVars>>

\* handleEvents() of the watcher when the driver does not wait: the readiness is kept for
\* its next wait and the direction is no longer watched.
EventKept ==
    /\ ~resuming /\ reported
    /\ driver # "Waiting"
    /\ reported' = FALSE
    /\ ready' = TRUE /\ interest' = FALSE
    /\ UNCHANGED <<now, awaiterVars, queueVars, driver, resumeVars>>

-----------------------------------------------------------------------------
(* The driver                                                              *)

Due == {t \in heap : deadline[t] <= now}

\* The heap is emptied from the top: ascending deadlines, any order among equal ones.
InDeadlineOrder(S) ==
    {s \in [1 .. Cardinality(S) -> S] :
        IsInjective(s) /\ \A i, j \in DOMAIN s : i < j => deadline[s[i]] <= deadline[s[j]]}

\* Mutant: the round of the driver ends without arming.
RearmedNever(h, f) == {f}

\* The rearm() of dispatchExpired() and the one at the top of the driver's loop.
RearmedTwice(h, f) == UNION {rearm(h, deadline, g) : g \in rearm(h, deadline, f)}

\* drain(), and the arming is used up.
Drained(f) == [f EXCEPT !.armed = None, !.readable = FALSE]

\* The awaiters collected are marked.  Mutant: they are not.
MarkNone(D) == UNCHANGED isPendingResume
MarkPending(D) == isPendingResume' = isPendingResume \cup D

\* A callable is posted when the table e is not empty.  Mutant: when it has several.
PostForSeveral(e) == posted' = IF Len(e) > 1 THEN posted + 1 ELSE posted
PostForAny(e) == posted' = IF e # << >> THEN posted + 1 ELSE posted

\* dispatchExpired() with descriptor f, until the driver waits again.
dispatchExpired(f) ==
    /\ heap' = heap \ Due
    /\ isQueued' = isQueued \ Due
    /\ MarkPending(Due)
    /\ \E s \in InDeadlineOrder(Due) : expiredAwaiters' = expiredAwaiters \o s
    /\ PostForAny(expiredAwaiters')
    /\ fd' \in RearmedTwice(heap', f)

\* The event finds the driver waiting: it goes once round its loop, and waits again with
\* the direction still watched.
EventWakesDriver ==
    /\ ~resuming /\ reported
    /\ driver = "Waiting"
    /\ posted < MaxPosted
    /\ reported' = FALSE
    /\ dispatchExpired(Drained(fd))
    /\ UNCHANGED <<now, suspended, deadline, driver, ready, interest, resuming>>

\* The driver's first run, with no readiness kept: it waits.
DriverStarts ==
    /\ ~resuming
    /\ driver = "Scheduled" /\ ~ready
    /\ driver' = "Waiting"
    /\ fd' \in rearm(heap, deadline, fd)
    /\ UNCHANGED <<now, awaiterVars, heap, expiredAwaiters, watcherVars, resumeVars>>

\* The descriptor was reported before that run: the wait ends at once, and the next one
\* has the direction watched again.
DriverStartsReady ==
    /\ ~resuming
    /\ driver = "Scheduled" /\ ready
    /\ posted < MaxPosted
    /\ ready' = FALSE /\ interest' = TRUE
    /\ driver' = "Waiting"
    /\ \E f \in rearm(heap, deadline, fd) : dispatchExpired(Drained(f))
    /\ UNCHANGED <<now, suspended, deadline, reported, resuming>>

\* The waits are left to the owners of their frames.
abandonPendingTimers ==
    /\ heap' = {} /\ expiredAwaiters' = << >>
    /\ isQueued' = {} /\ isPendingResume' = {}

\* As before, but watching the direction again fails: the queue is dead.
DriverStartsAndDies ==
    /\ ~resuming
    /\ driver = "Scheduled" /\ ready
    /\ posted < MaxPosted
    /\ ready' = FALSE
    /\ driver' = "Dead"
    /\ abandonPendingTimers
    /\ posted' = IF expiredAwaiters = << >> /\ Due = {} THEN posted ELSE posted + 1
    /\ \E f \in rearm(heap, deadline, fd) :
          fd' \in {[g EXCEPT !.armed = None] : g \in RearmedTwice(heap \ Due, Drained(f))}
    /\ UNCHANGED <<now, suspended, deadline, interest, reported, resuming>>

\* ~TimerQueue(), with the loop, which runs nothing any more.
QueueDies ==
    /\ ~resuming
    /\ driver # "Gone"
    /\ driver' = "Gone"
    /\ abandonPendingTimers
    /\ fd' = [fd EXCEPT !.armed = None, !.fireAt = None, !.readable = FALSE]
    /\ reported' = FALSE /\ posted' = 0
    /\ UNCHANGED <<now, suspended, deadline, ready, interest, resuming>>

-----------------------------------------------------------------------------
(* resumeExpired(), one awaiter at a time: each resumed coroutine runs     *)
(* before the next is looked for.                                          *)

ResumeExpiredCall ==
    /\ ~resuming /\ posted > 0
    /\ posted' = posted - 1
    /\ resuming' = TRUE
    /\ UNCHANGED <<now, awaiterVars, queueVars, driver, watcherVars>>

ResumeHead ==
    /\ resuming /\ expiredAwaiters # << >>
    /\ expiredAwaiters' = Tail(expiredAwaiters)
    /\ isPendingResume' = isPendingResume \ {Head(expiredAwaiters)}
    /\ Ended(Head(expiredAwaiters))
    /\ UNCHANGED <<now, isQueued, heap, fd, driver, watcherVars, resumeVars>>

ResumeReturn ==
    /\ resuming /\ expiredAwaiters = << >>
    /\ resuming' = FALSE
    /\ UNCHANGED <<now, awaiterVars, queueVars, driver, watcherVars, posted>>

LoopStep ==
    \/ Poll \/ EventKept \/ EventWakesDriver
    \/ DriverStarts \/ DriverStartsReady \/ DriverStartsAndDies
    \/ ResumeExpiredCall \/ ResumeHead \/ ResumeReturn

Next ==
    \/ \E t \in Timers, d \in Durations : Wait(t, d)
    \/ \E t \in Timers : WaitRefused(t) \/ Destroy(t)
    \/ LoopStep
    \/ Tick
    \/ QueueDies

Spec == Init /\ [][Next]_vars
FairSpec == Spec /\ WF_vars(Tick) /\ WF_vars(LoopStep)

-----------------------------------------------------------------------------
(* Properties                                                              *)

Moments == 0 .. Horizon + 2 * TicksPerMs

\* Types.
TypeOK ==
    /\ now \in 0 .. MaxNow
    /\ {suspended, isQueued, isPendingResume, heap} \subseteq SUBSET Timers
    /\ deadline \in [Timers -> 0 .. Horizon]
    /\ expiredAwaiters \in Seq(Timers)
    /\ fd \in [armed : {None} \cup 0 .. Horizon, fireAt : {None} \cup Moments,
               readable : BOOLEAN, failures : 0 .. MaxArmFailures]
    /\ driver \in {"Idle", "Scheduled", "Waiting", "Dead", "Gone"}
    /\ {ready, interest, reported, resuming} \subseteq BOOLEAN
    /\ posted \in 0 .. MaxPosted

\* What the heap and the table point to are awaiters of frames that live, each once and
\* marked with the place it is in, by which its destructor withdraws it: no freed frame
\* is resumed (TimerQueue.h:88).
NoDanglingAwaiter ==
    /\ heap = isQueued
    /\ ToSet(expiredAwaiters) = isPendingResume /\ IsInjective(expiredAwaiters)
    /\ isQueued \cap isPendingResume = {}
    /\ isQueued \cup isPendingResume \subseteq suspended

\* A suspended wait is in the heap, or in the table with a resumeExpired() to come,
\* unless the queue is dead (TimerQueue.cpp:217).
NobodyIsForgotten ==
    /\ driver \notin {"Dead", "Gone"} => suspended \subseteq heap \cup ToSet(expiredAwaiters)
    /\ expiredAwaiters # << >> => posted > 0 \/ resuming

\* Waits are resumed in the order of their deadlines, also those that several rounds of
\* the driver collected, and none before its deadline (TimerQueue.cpp:310).
ResumedInDeadlineOrder ==
    \A i \in DOMAIN expiredAwaiters :
        /\ deadline[expiredAwaiters[i]] <= now
        /\ \A j \in 1 .. i : deadline[expiredAwaiters[j]] <= deadline[expiredAwaiters[i]]

\* A failure to arm is made up for by the next change of the queue that does not fail:
\* it leaves the descriptor armed for the nearest wait, and not only in the books
\* (TimerQueue.cpp:294).
ArmingHeals ==
    [][heap' # heap /\ heap' # {} /\ fd'.failures = fd.failures =>
          fd'.armed \in Nearest(heap', deadline') /\ (fd'.fireAt # None \/ fd'.readable)]_vars

\* Every wait ends, or its frame or the queue dies, however far the loop lags behind the
\* clock and whatever other waits come and go; unless arming failed, or the clock stops
\* before the descriptor fires for it (TimerQueue.cpp:331).
WaitEnds ==
    \A t \in Timers :
        \/ <>[](t \in heap /\ fd.fireAt > MaxNow)
        \/ t \in suspended ~> t \notin suspended \/ driver \in {"Dead", "Gone"} \/ fd.failures > 0
=============================================================================
