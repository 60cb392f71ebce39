--------------------------- MODULE ConnectionPool ---------------------------
(***************************************************************************)
(* The pool of database connections (Database/Pool): threads that borrow   *)
(* with acquire(), coroutines that borrow with acquireAsync(), the health  *)
(* thread, and the destructor.                                             *)
(*                                                                         *)
(* A critical section of m_mutex is one step.  m_asyncMutex is held across *)
(* several of them while a coroutine registers, and the mutex of the       *)
(* liveness token while a connection is returned: both have an owner.      *)
(* Between critical sections the code reads and writes atomics; each such  *)
(* access that another thread could fall between is a step of its own.     *)
(*                                                                         *)
(* Connections are interchangeable: only their number matters.  Whether    *)
(* one is found expired, dead or dirty is a free choice where the code     *)
(* looks, and so is whether a deadline has passed or a stop was requested. *)
(* The epoch m_freedSlotEpoch is only ever compared with the value a       *)
(* registering coroutine read before, so "moved" keeps who would see a     *)
(* difference.                                                             *)
(***************************************************************************)
EXTENDS Naturals, Sequences, FiniteSets, SequencesExt, Subsequences

CONSTANTS
    Threads,                \* callers of acquire() and tryAcquire()
    Tasks,                  \* coroutines calling acquireAsync()
    Health, Destructor,     \* the health thread and the thread that destroys the pool
    Nobody,                 \* owner of a free lock
    maximumPoolSize,
    maximumWaitingRequests,
    CreationMayFail,        \* whether connecting to the database can fail
    MaxLostPosts            \* posts to an event loop that may be refused

Clients == Threads \cup Tasks
Procs == Clients \cup {Health, Destructor}

ASSUME ConnectionPoolAssumption ==
    /\ IsFiniteSet(Clients) /\ Threads \cap Tasks = {}
    /\ Health \notin Clients /\ Destructor \notin Clients /\ Health # Destructor
    /\ Nobody \notin Procs
    /\ maximumPoolSize \in Nat \ {0} /\ maximumWaitingRequests \in Nat
    /\ CreationMayFail \in BOOLEAN /\ MaxLostPosts \in Nat

VARIABLES
    idle,                   \* length of m_idleStack
    created,                \* m_totalCreated
    active,                 \* m_activeCount
    syncWaiting,            \* m_syncWaitingCount
    waiters,                \* m_asyncWaiters; its length is m_asyncWaitingCount
    registering,            \* m_pendingRegistrations
    moved,                  \* registering tasks whose slotEpochBefore is out of date
    alive,                  \* PoolLiveness::isAlive
    shuttingDown,           \* m_isShuttingDown
    livenessOwner,          \* who holds PoolLiveness::mutex
    asyncOwner,             \* who holds m_asyncMutex across steps
    pc, stage,              \* where a process is, and for which attempt it tries to get one
    handed,                 \* awaiters whose m_result was filled by a return
    posted,                 \* tickets on their way to an event loop, their frame alive
    lost,                   \* suspended awaiters whose ticket no loop accepted
    woken                   \* m_returnedFromWake

books == <<idle, created, active>>
locks == <<livenessOwner, asyncOwner>>
life == <<alive, shuttingDown>>
queue == <<waiters, registering, moved>>
awaiters == <<handed, posted, lost, woken>>
places == <<pc, stage>>
vars == <<books, locks, life, queue, awaiters, syncWaiting, places>>

\* The attempts: the two of acquire() before it waits, the ones of a waiting thread, those of
\* await_ready(), of await_suspend() without and with m_asyncMutex, and tryAcquire().
Stages == {"none", "fast", "grow", "wait", "ready", "suspend", "locked", "try"}
\* Attempts that call tryAcquireInternal() only, and create nothing.
PopOnly == {"fast", "locked"}

Init ==
    /\ idle = 0 /\ created = 0 /\ active = 0 /\ syncWaiting = 0
    /\ waiters = << >> /\ registering = 0 /\ moved = {}
    /\ alive = TRUE /\ shuttingDown = FALSE
    /\ livenessOwner = Nobody /\ asyncOwner = Nobody
    /\ pc = [p \in Procs |-> "out"]
    /\ stage = [p \in Procs |-> "none"]
    /\ handed = {} /\ posted = {} /\ lost = {} /\ woken = {}

\* A process goes on to "place"; outside the pool it has no attempt under way.
Outside == {"out", "held", "spoiled", "suspended", "resumed", "taken", "refused", "decide"}
Go(p, place) == /\ pc' = [pc EXCEPT ![p] = place]
                /\ stage' = [stage EXCEPT ![p] = IF place \in Outside THEN "none" ELSE @]
Try(p, attempt) == /\ pc' = [pc EXCEPT ![p] = "pop"]
                   /\ stage' = [stage EXCEPT ![p] = attempt]

Asleep == {p \in Procs : pc[p] = "asleep"}
\* m_idleCondition.notify_one() and notify_all(), in a step that takes p to "place".
NotifyOne(p, place) ==
    IF Asleep = {} THEN Go(p, place)
    ELSE /\ \E s \in Asleep : pc' = [pc EXCEPT ![p] = place, ![s] = "woken"]
         /\ stage' = [stage EXCEPT ![p] = IF place \in Outside THEN "none" ELSE @]
NotifyAll(p, place) ==
    /\ pc' = [q \in Procs |-> IF q = p THEN place ELSE IF q \in Asleep THEN "woken" ELSE pc[q]]
    /\ stage' = [stage EXCEPT ![p] = IF place \in Outside THEN "none" ELSE @]

-----------------------------------------------------------------------------
(* tryAcquireInternal(), tryAcquireOrCreateInternal(): from "pop" to "got" or "empty". *)

PopEmpty(p) ==
    /\ pc[p] = "pop" /\ idle = 0
    /\ Go(p, IF stage[p] \in PopOnly THEN "empty" ELSE "reserve")
    /\ UNCHANGED <<books, locks, life, queue, awaiters, syncWaiting>>

\* The entry taken is good, or expired, dead or failing its probe.
PopEntry(p) ==
    /\ pc[p] = "pop" /\ idle > 0
    /\ idle' = idle - 1
    /\ Go(p, "got") \/ Go(p, "drop")
    /\ UNCHANGED <<created, active, locks, life, queue, awaiters, syncWaiting>>

\* discardConnection(): the slot is given back, and then the registering tasks are told.
Drop(p) ==
    /\ pc[p] = "drop"
    /\ created' = created - 1
    /\ Go(p, "noteDrop")
    /\ UNCHANGED <<idle, active, locks, life, queue, awaiters, syncWaiting>>

Registering == {t \in Tasks : stage[t] \in {"suspend", "locked"}}
noteSlotFreedForRegisteringWaiters ==
    moved' = IF registering # 0 THEN Registering ELSE moved

NoteDrop(p) ==
    /\ pc[p] = "noteDrop"
    /\ noteSlotFreedForRegisteringWaiters
    /\ Go(p, IF stage[p] \in PopOnly THEN "empty" ELSE "reserve")
    /\ UNCHANGED <<books, locks, life, waiters, registering, awaiters, syncWaiting>>

MayCreate == created < maximumPoolSize

Reserve(p) ==
    /\ pc[p] = "reserve"
    /\ IF shuttingDown \/ ~MayCreate
       THEN Go(p, "empty") /\ UNCHANGED created
       ELSE Go(p, "create") /\ created' = created + 1
    /\ UNCHANGED <<idle, active, locks, life, queue, awaiters, syncWaiting>>

FreeSlotOfFailure == created' = created - 1

\* createNewConnection(), its retries included.
Create(p) ==
    /\ pc[p] = "create"
    /\ \/ Go(p, "got") /\ UNCHANGED created
       \/ CreationMayFail /\ Go(p, "empty") /\ FreeSlotOfFailure
    /\ UNCHANGED <<idle, active, locks, life, queue, awaiters, syncWaiting>>

TryStep(p) == PopEmpty(p) \/ PopEntry(p) \/ Drop(p) \/ NoteDrop(p) \/ Reserve(p) \/ Create(p)

-----------------------------------------------------------------------------
(* acquire() and tryAcquire() on a thread.  New calls stop when the pool is being destroyed,  *)
(* which is up to the callers; calls that are waiting then are the destructor's business.     *)

Open == pc[Destructor] = "out"

CallFromThread(p) ==
    /\ pc[p] = "out" /\ Open
    /\ Try(p, "fast") \/ Try(p, "try")
    /\ UNCHANGED <<books, locks, life, queue, awaiters, syncWaiting>>

ThreadGot(p) ==
    /\ pc[p] = "got"
    /\ active' = active + 1
    /\ IF stage[p] = "wait"
       THEN syncWaiting' = syncWaiting - 1 /\ NotifyAll(p, "held")
       ELSE Go(p, "held") /\ UNCHANGED syncWaiting
    /\ UNCHANGED <<idle, created, locks, life, queue, awaiters>>

ThreadEmpty(p) ==
    /\ pc[p] = "empty" /\ stage[p] # "wait"
    /\ CASE stage[p] = "fast" -> Try(p, "grow")
         [] stage[p] = "grow" -> Go(p, "gate")
         [] stage[p] = "try"  -> Go(p, "out")
    /\ UNCHANGED <<books, locks, life, queue, awaiters, syncWaiting>>

Refused == syncWaiting + Len(waiters) >= maximumWaitingRequests

ThreadGate(p) ==
    /\ pc[p] = "gate"
    /\ Go(p, IF Refused THEN "out" ELSE "enter")
    /\ UNCHANGED <<books, locks, life, queue, awaiters, syncWaiting>>

\* waitForConnectionUnderDeadlineWithReason(): the thread counts itself in, and tries again
\* without the lock each time round.
ThreadEnter(p) ==
    /\ pc[p] = "enter"
    /\ IF shuttingDown
       THEN NotifyAll(p, "out") /\ UNCHANGED syncWaiting
       ELSE Try(p, "wait") /\ syncWaiting' = syncWaiting + 1
    /\ UNCHANGED <<books, locks, life, queue, awaiters>>

Leave(p) ==
    /\ syncWaiting' = syncWaiting - 1
    /\ NotifyAll(p, "out")


\* Mutant: a connection put back while this thread was trying is not looked for.
RetryNever == FALSE
RetryBeforeSleep == idle > 0

\* Back under the lock with nothing: leave, try again, or sleep.
ThreadWaits(p) ==
    /\ pc[p] = "empty" /\ stage[p] = "wait"
    /\ IF shuttingDown THEN Leave(p)
       ELSE /\ IF RetryBeforeSleep THEN Try(p, "wait") ELSE Go(p, "asleep")
            /\ UNCHANGED syncWaiting
    /\ UNCHANGED <<books, locks, life, queue, awaiters>>

ThreadWoken(p) ==
    /\ pc[p] = "woken"
    /\ IF shuttingDown THEN Leave(p) ELSE Try(p, "wait") /\ UNCHANGED syncWaiting
    /\ UNCHANGED <<books, locks, life, queue, awaiters>>

ThreadTimeout(p) ==
    /\ pc[p] = "asleep"
    /\ Leave(p)
    /\ UNCHANGED <<books, locks, life, queue, awaiters>>

ThreadStep(p) ==
    \/ TryStep(p) \/ ThreadGot(p) \/ ThreadEmpty(p) \/ ThreadGate(p) \/ ThreadEnter(p)
    \/ ThreadWaits(p) \/ ThreadWoken(p)

-----------------------------------------------------------------------------
(* acquireAsync() in a coroutine. *)

CallFromTask(t) ==
    /\ pc[t] = "out" /\ Open
    /\ Try(t, "ready")
    /\ woken' = woken \ {t}
    /\ UNCHANGED <<books, locks, life, queue, handed, posted, lost, syncWaiting>>

\* The end of await_suspend() without suspension: the guard counts the task out again.
Unregister(t, place) ==
    /\ registering' = registering - 1
    /\ asyncOwner' = IF asyncOwner = t THEN Nobody ELSE asyncOwner
    /\ moved' = moved \ {t}
    /\ Go(t, place)

TaskGot(t) ==
    /\ pc[t] = "got"
    /\ handed' = handed \cup {t}
    /\ IF stage[t] = "ready"
       THEN Go(t, "resumed") /\ UNCHANGED <<queue, locks>>
       ELSE Unregister(t, "resumed") /\ UNCHANGED <<waiters, livenessOwner>>
    /\ UNCHANGED <<books, life, posted, lost, woken, syncWaiting>>

\* await_ready() said no (or there was a stop request): await_suspend() begins.
TaskNotReady(t) ==
    /\ pc[t] = "empty" /\ stage[t] = "ready"
    /\ registering' = registering + 1
    /\ Go(t, "register")
    /\ UNCHANGED <<books, locks, life, waiters, moved, awaiters, syncWaiting>>

\* needsToSuspendAfterPostQueueRetry(): one round begins with the epoch.
TaskRegister(t) ==
    /\ pc[t] = "register"
    /\ \/ Unregister(t, "resumed") /\ UNCHANGED <<waiters, livenessOwner>>
       \/ Try(t, "suspend") /\ moved' = moved \ {t} /\ UNCHANGED <<waiters, registering, locks>>
    /\ UNCHANGED <<books, life, awaiters, syncWaiting>>

\* Late, or the pool is going: the task gives up.
TaskNeedsLock(t) ==
    /\ pc[t] = "empty" /\ stage[t] = "suspend"
    /\ \/ Unregister(t, "resumed") /\ UNCHANGED <<waiters, livenessOwner>>
       \/ ~shuttingDown /\ Go(t, "lock") /\ UNCHANGED <<queue, locks>>
    /\ UNCHANGED <<books, life, awaiters, syncWaiting>>

TaskLocks(t) ==
    /\ pc[t] = "lock" /\ asyncOwner = Nobody
    /\ asyncOwner' = t
    /\ Try(t, "locked")
    /\ UNCHANGED <<books, livenessOwner, life, queue, awaiters, syncWaiting>>

\* Under m_asyncMutex, with the idle stack empty: did anything move meanwhile?
TaskComparesEpoch(t) ==
    /\ pc[t] = "empty" /\ stage[t] = "locked"
    /\ IF t \in moved
       THEN Go(t, "register") /\ asyncOwner' = Nobody
       ELSE Go(t, "enlist") /\ UNCHANGED asyncOwner
    /\ UNCHANGED <<books, livenessOwner, life, queue, awaiters, syncWaiting>>

\* Mutant: the task enlists although the pool is shutting down.
MayEnlistAlways == TRUE
MayEnlist == ~shuttingDown

\* The task gives up when it was stopped, when the list is full or memory runs out; otherwise
\* it is in the list and suspends.
TaskEnlist(t) ==
    /\ pc[t] = "enlist"
    /\ \/ /\ MayEnlist
          /\ t \in woken \/ ~Refused
          /\ Unregister(t, "suspended")
          /\ waiters' = Append(waiters, t)
       \/ Unregister(t, "resumed") /\ UNCHANGED waiters
       \/ MayEnlist /\ Unregister(t, "refused") /\ UNCHANGED waiters
    /\ woken' = woken \ {t}
    /\ UNCHANGED <<books, livenessOwner, life, handed, posted, lost, syncWaiting>>

\* The loop runs the posted ticket, which resumes nothing once its frame is gone.
TaskResume(t) ==
    /\ t \in posted
    /\ posted' = posted \ {t}
    /\ IF pc[t] = "suspended" THEN Go(t, "resumed") ELSE UNCHANGED places
    /\ UNCHANGED <<books, locks, life, queue, handed, lost, woken, syncWaiting>>

\* await_resume(): a connection counts as borrowed only if the pool is still there.
AwaitResume(t) ==
    /\ pc[t] = "resumed"
    /\ handed' = handed \ {t}
    /\ IF t \in handed
       THEN /\ livenessOwner = Nobody
            /\ IF alive THEN active' = active + 1 /\ Go(t, "taken")
                        ELSE UNCHANGED active /\ Go(t, "decide")
       ELSE UNCHANGED active /\ Go(t, "decide")
    /\ UNCHANGED <<idle, created, locks, life, queue, posted, lost, woken, syncWaiting>>

\* acquireAsyncUntil() after co_await, with a connection and without.
TaskDecides(t) ==
    /\ \/ pc[t] = "taken" /\ (Go(t, "spoiled") \/ Go(t, "held"))
       \/ pc[t] = "refused" /\ Go(t, "out")
       \/ pc[t] = "decide" /\ Go(t, "out")
       \/ pc[t] = "decide" /\ alive /\ ~shuttingDown /\ Try(t, "ready")
    /\ UNCHANGED <<books, locks, life, queue, awaiters, syncWaiting>>

TaskStep(t) ==
    \/ TryStep(t) \/ TaskGot(t) \/ TaskNotReady(t) \/ TaskRegister(t) \/ TaskNeedsLock(t)
    \/ TaskLocks(t) \/ TaskComparesEpoch(t) \/ TaskEnlist(t) \/ TaskResume(t) \/ AwaitResume(t) \/ TaskDecides(t)

-----------------------------------------------------------------------------
(* Giving back: ~PooledConnection(), discard(), and the destructor of an awaiter.  The mutex   *)
(* of the liveness token is held throughout, so one connection is returned at a time.          *)

\* Tickets sent to event loops, which may refuse them.
Post(tickets) ==
    \E refusals \in SUBSET tickets :
        /\ Cardinality(lost \cup refusals) <= MaxLostPosts
        /\ lost' = lost \cup refusals
        /\ posted' = posted \cup (tickets \ refusals)

\* returnConnectionIfAlive(), returnConnection(): discarded on request ("spoiled"), or because
\* it is dead, too old or cannot be reset, or offered to others.
GiveBack(p) ==
    /\ pc[p] \in {"held", "spoiled"} /\ livenessOwner = Nobody
    /\ IF alive
       THEN /\ livenessOwner' = p /\ active' = active - 1
            /\ Go(p, "discard") \/ (pc[p] = "held" /\ Go(p, "offer"))
       ELSE Go(p, "out") /\ UNCHANGED <<livenessOwner, active>>
    /\ UNCHANGED <<idle, created, asyncOwner, life, queue, awaiters, syncWaiting>>

\* ~AcquireAwaiter() of a suspended frame.  A connection it was handed goes back to the pool.
\* Mutant: a handed connection dies with the frame.
RescueNothing(t) == FALSE
RescueHanded(t) == t \in handed

FrameDies(t) ==
    /\ pc[t] = "suspended" /\ livenessOwner = Nobody
    /\ posted' = posted \ {t} /\ lost' = lost \ {t} /\ handed' = handed \ {t}
    /\ IF alive
       THEN /\ asyncOwner = Nobody
            /\ waiters' = Without(waiters, {t})
            /\ IF RescueHanded(t)
               THEN livenessOwner' = t /\ (Go(t, "discard") \/ Go(t, "offer"))
               ELSE Go(t, "out") /\ UNCHANGED livenessOwner
       ELSE Go(t, "out") /\ UNCHANGED <<waiters, livenessOwner>>
    /\ UNCHANGED <<books, asyncOwner, life, registering, moved, woken, syncWaiting>>

ReleaseLiveness(p) == livenessOwner' = IF livenessOwner = p THEN Nobody ELSE livenessOwner

\* Mutant: the connection goes to the idle stack although somebody is in the list.
OfferToStack == FALSE
OfferToWaiter == waiters # << >>

\* The first in the list gets it; with nobody there it goes to the idle stack, if memory lasts.
Offer(p) ==
    /\ pc[p] = "offer" /\ asyncOwner = Nobody
    /\ noteSlotFreedForRegisteringWaiters
    /\ \/ /\ OfferToWaiter
          /\ handed' = handed \cup {Head(waiters)} /\ waiters' = Tail(waiters)
          /\ Post({Head(waiters)})
          /\ ReleaseLiveness(p) /\ Go(p, "out")
          /\ UNCHANGED idle
       \/ /\ ~OfferToWaiter
          /\ idle' = idle + 1 /\ NotifyOne(p, "out")
          /\ ReleaseLiveness(p)
          /\ UNCHANGED <<handed, waiters, posted, lost>>
       \/ /\ ~OfferToWaiter
          /\ Go(p, "discard")
          /\ UNCHANGED <<idle, livenessOwner, handed, waiters, posted, lost>>
    /\ UNCHANGED <<created, active, asyncOwner, life, registering, woken, syncWaiting>>

\* discardConnection(), wakeWaitersForFreedSlot().
Discard(p) ==
    /\ pc[p] = "discard"
    /\ created' = created - 1
    /\ Go(p, "noteFreed")
    /\ UNCHANGED <<idle, active, locks, life, queue, awaiters, syncWaiting>>

NoteFreed(p) ==
    /\ pc[p] = "noteFreed"
    /\ noteSlotFreedForRegisteringWaiters
    /\ Go(p, "look")
    /\ UNCHANGED <<books, locks, life, waiters, registering, awaiters, syncWaiting>>

Look(p) ==
    /\ \/ /\ pc[p] = "look"
          /\ Go(p, IF waiters # << >> THEN "wakeTask" ELSE "lookAgain")
          /\ UNCHANGED livenessOwner
       \/ /\ pc[p] = "lookAgain"
          /\ IF syncWaiting # 0 \/ registering # 0
             THEN Go(p, "wakeTask") /\ UNCHANGED livenessOwner
             ELSE Go(p, "out") /\ ReleaseLiveness(p)
    /\ UNCHANGED <<books, asyncOwner, life, queue, awaiters, syncWaiting>>

WakeTask(p) ==
    /\ pc[p] = "wakeTask" /\ asyncOwner = Nobody
    /\ IF waiters # << >>
       THEN /\ waiters' = Tail(waiters)
            /\ woken' = woken \cup {Head(waiters)}
            /\ Post({Head(waiters)})
       ELSE UNCHANGED <<waiters, woken, posted, lost>>
    /\ Go(p, "wakeThread")
    /\ UNCHANGED <<books, locks, life, registering, moved, handed, syncWaiting>>

WakeThread(p) ==
    /\ pc[p] = "wakeThread"
    /\ NotifyOne(p, "out")
    /\ ReleaseLiveness(p)
    /\ UNCHANGED <<books, asyncOwner, life, queue, awaiters, syncWaiting>>

ReturnStep(p) == Offer(p) \/ Discard(p) \/ NoteFreed(p) \/ Look(p) \/ WakeTask(p) \/ WakeThread(p)

-----------------------------------------------------------------------------
(* healthCheckLoop(): it expires waits every second and at a stop request, and evicts idle     *)
(* connections that are too old.                                                               *)

HealthRuns == pc[Health] = "out" /\ pc[Destructor] \in {"out", "request"}

\* Mutant: a ticket is dropped with its entry.
TicketsDropped(tasks) == Post({})
PostExpired(tasks) == Post(tasks)

\* Those that were stopped or are late by now.
expireTimedOutWaiters(tasks) ==
    /\ HealthRuns /\ asyncOwner = Nobody
    /\ tasks # {} /\ tasks \subseteq ToSet(waiters)
    /\ waiters' = Without(waiters, tasks)
    /\ PostExpired(tasks)
    /\ UNCHANGED <<books, locks, life, registering, moved, handed, woken, syncWaiting,
                   places>>

Evict ==
    /\ HealthRuns
    /\ \E n \in 1..idle : idle' = idle - n /\ created' = created - n
    /\ Go(Health, "noteFreed")
    /\ UNCHANGED <<active, locks, life, queue, awaiters, syncWaiting>>

-----------------------------------------------------------------------------
(* ~ConnectionPool(). *)

BeginDestruction ==
    /\ pc[Destructor] = "out" /\ livenessOwner = Nobody
    /\ alive' = FALSE
    /\ Go(Destructor, "request")
    /\ UNCHANGED <<books, locks, shuttingDown, queue, awaiters, syncWaiting>>

JoinHealth ==
    /\ pc[Destructor] = "request" /\ pc[Health] = "out"
    /\ Go(Destructor, "close")
    /\ UNCHANGED <<books, locks, life, queue, awaiters, syncWaiting>>

\* Mutant: sleeping threads are not told.
TellNoSleeper(place) == Go(Destructor, place)
TellSleepers(place) == NotifyAll(Destructor, place)

\* The idle stack is emptied and the threads told; then their count has to reach zero.
CloseIdle ==
    /\ pc[Destructor] = "close"
    /\ shuttingDown' = TRUE
    /\ idle' = 0
    /\ TellSleepers(IF syncWaiting = 0 THEN "sweep" ELSE "asleep")
    /\ UNCHANGED <<created, active, locks, alive, queue, awaiters, syncWaiting>>

AwaitThreads ==
    /\ pc[Destructor] = "woken"
    /\ Go(Destructor, IF syncWaiting = 0 THEN "sweep" ELSE "asleep")
    /\ UNCHANGED <<books, locks, life, queue, awaiters, syncWaiting>>

\* The tasks in the list are resumed on the spot: no loop can refuse them.
Sweep ==
    /\ pc[Destructor] = "sweep" /\ asyncOwner = Nobody
    /\ posted' = posted \cup ToSet(waiters)
    /\ waiters' = << >>
    /\ Go(Destructor, "free")
    /\ UNCHANGED <<books, locks, life, registering, moved, handed, lost, woken,
                   syncWaiting>>

\* Callers see to it that nobody is inside the pool when its memory goes.
Free ==
    /\ pc[Destructor] = "free"
    /\ \A p \in Clients : pc[p] \in Outside
    /\ Go(Destructor, "gone")
    /\ UNCHANGED <<books, locks, life, queue, awaiters, syncWaiting>>

DestructorStep == JoinHealth \/ CloseIdle \/ AwaitThreads \/ Sweep \/ Free

-----------------------------------------------------------------------------
ClientStep(p) == (p \in Threads /\ ThreadStep(p)) \/ (p \in Tasks /\ TaskStep(p)) \/ ReturnStep(p)
Expire(t) == \E tasks \in SUBSET Tasks : t \in tasks /\ expireTimedOutWaiters(tasks)

Next ==
    \/ \E p \in Threads : CallFromThread(p) \/ ThreadTimeout(p)
    \/ \E t \in Tasks : CallFromTask(t) \/ FrameDies(t)
    \/ \E p \in Clients : ClientStep(p) \/ GiveBack(p)
    \/ \E t \in Tasks : Expire(t)
    \/ ReturnStep(Health) \/ Evict
    \/ BeginDestruction \/ DestructorStep

Spec == Init /\ [][Next]_vars

\* Threads, loops and the health thread go on, and a coroutine that waits is late one day;
\* nobody has to borrow, to give back or to destroy anything, and no thread counts on its
\* timeout.  Who waits for a mutex gets it if it is free again and again.
FairSpec ==
    /\ Spec
    /\ \A p \in Clients : SF_vars(ClientStep(p))
    /\ \A t \in Tasks : SF_vars(Expire(t))
    /\ SF_vars(ReturnStep(Health)) /\ SF_vars(DestructorStep)

-----------------------------------------------------------------------------
(* Properties. *)

Pcs == Outside \cup {"pop", "drop", "noteDrop", "reserve", "create", "got", "empty", "gate",
    "enter", "asleep", "woken", "register", "lock", "enlist", "offer", "discard", "noteFreed", "look",
    "lookAgain", "wakeTask", "wakeThread", "request", "close", "sweep", "free", "gone"}

\* Types; the pool never exceeds its size (m_totalCreated against maximumPoolSize), and the
\* counts of waiting threads and registering tasks are the numbers of those who do.
TypeOK ==
    /\ idle \in 0..maximumPoolSize /\ created \in 0..maximumPoolSize
    /\ active \in 0..maximumPoolSize
    /\ waiters \in Seq(Tasks) /\ IsInjective(waiters)
    /\ moved \in SUBSET Tasks
    /\ alive \in BOOLEAN /\ shuttingDown \in BOOLEAN
    /\ livenessOwner \in Procs \cup {Nobody} /\ asyncOwner \in Tasks \cup {Nobody}
    /\ pc \in [Procs -> Pcs] /\ stage \in [Procs -> Stages]
    /\ {handed, posted, lost, woken} \subseteq SUBSET Tasks
    /\ syncWaiting = Cardinality({p \in Threads :
          \/ pc[p] \in {"asleep", "woken"}
          \/ /\ stage[p] = "wait"
             /\ pc[p] \in {"pop", "drop", "noteDrop", "reserve", "create", "got", "empty"}})
    /\ registering = Cardinality({t \in Tasks : pc[t] \in {"register", "enlist"}
                                                \/ stage[t] \in {"suspend", "locked"}})

\* While the pool lives, every slot it counts (m_totalCreated) is an idle connection or one
\* that exactly one client is creating, holds, was handed or is giving back: a slot is neither
\* lost, whoever dies or fails on the way, nor used twice.
InHand == handed \cup {p \in Clients :
              \/ pc[p] \in {"create", "got", "drop", "taken", "held", "spoiled", "offer", "discard"}
              \/ pc[p] = "resumed" /\ p \in handed}
BooksAgree ==
    alive => /\ created = idle + Cardinality(InHand)
             /\ active = Cardinality({p \in Clients : pc[p] \in {"taken", "held", "spoiled"}})

\* A connection never lies idle while a coroutine is in the list (ConnectionPool.cpp:760): the
\* list and the stack are changed in one critical section on both sides.
NoIdleBesideWaiters == waiters # << >> => idle = 0

\* While threads sleep, no more connections lie idle than threads are on their way to take them:
\* no put-back falls into the gap between a thread's last attempt and its sleep.
InFlight == {p \in Threads : pc[p] = "woken" \/ (stage[p] = "wait" /\ pc[p] \in {"pop", "empty"})}
IdleIsFetched ==
    (\E p \in Threads : pc[p] = "asleep") => idle <= Cardinality(InFlight)

\* What was handed to a suspended coroutine comes with a ticket to resume it, and once the pool
\* is gone everybody who was waiting has been told or has a ticket.
NobodyLeftBehind ==
    /\ \A t \in handed : pc[t] = "suspended" => t \in posted \cup lost
    /\ pc[Destructor] = "gone" =>
          /\ waiters = << >> /\ syncWaiting = 0
          /\ \A t \in Tasks : pc[t] = "suspended" => t \in posted \cup lost

\* A suspended borrower is resumed, by a connection, its deadline, a stop request or the end of
\* the pool, unless its loop refused the ticket.
WaitEnds == \A t \in Tasks : pc[t] = "suspended" ~> (pc[t] # "suspended" \/ t \in lost)

\* The destructor of the pool returns.
DestructorReturns == pc[Destructor] = "request" ~> pc[Destructor] = "gone"

=============================================================================
