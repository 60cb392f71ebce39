------------------------ MODULE ConnectionPoolProofs ------------------------
(***************************************************************************)
(* Proofs about the pool of connections, for any threads, coroutines, pool *)
(* size and bounds.                                                        *)
(*                                                                         *)
(* The properties speak of the idle stack, the waiting list and the counts *)
(* at large; what keeps them true is local: who is where holding which     *)
(* lock.  The inductive invariant is built in layers, each preserved with  *)
(* the help of the ones before it:                                         *)
(*   Control     places, attempts and locks of every process               *)
(*   Counted     the two counts of waiters are the numbers of those inside *)
(*   Queued      who is in the list, has a ticket, or was handed something *)
(*   IdleSeen    when a coroutine is about to enlist, nothing is idle      *)
(*   Accounted   where every slot of the pool is                           *)
(*   IdleIsFetched                                                         *)
(***************************************************************************)
EXTENDS ConnectionPool, SubsequencesProofs

-----------------------------------------------------------------------------
(* The inductive invariant                                                 *)

\* The places of an attempt to get a connection, and of a return.
Trying == {"pop", "drop", "noteDrop", "reserve", "create", "got", "empty"}
Returning == {"offer", "discard", "noteFreed", "look", "lookAgain", "wakeTask", "wakeThread"}
\* The places of the destructor once it has set m_isShuttingDown.
Closing == {"asleep", "woken", "sweep", "free", "gone"}

\* Which attempt goes with which place.
ThreadPlaced(p) ==
    /\ \/ pc[p] \in {"out", "held"} \cup Returning /\ stage[p] = "none"
       \/ pc[p] \in Trying /\ stage[p] \in {"fast", "grow", "wait", "try"}
       \/ pc[p] \in {"gate", "enter"} /\ stage[p] = "grow"
       \/ pc[p] \in {"asleep", "woken"} /\ stage[p] = "wait"
    /\ pc[p] \in {"reserve", "create"} => stage[p] # "fast"
TaskPlaced(t) ==
    /\ \/ pc[t] \in Outside \cup Returning /\ stage[t] = "none"
       \/ pc[t] \in Trying /\ stage[t] \in {"ready", "suspend", "locked"}
       \/ pc[t] = "register" /\ stage[t] \in {"ready", "locked"}
       \/ pc[t] = "lock" /\ stage[t] = "suspend"
       \/ pc[t] = "enlist" /\ stage[t] = "locked"
    /\ pc[t] \in {"reserve", "create"} => stage[t] # "locked"

\* What the processes are doing.
Placed ==
    /\ pc \in [Procs -> Pcs] /\ stage \in [Procs -> Stages]
    /\ \A p \in Threads : ThreadPlaced(p)
    /\ \A t \in Tasks : TaskPlaced(t)
    /\ pc[Health] \in {"out"} \cup (Returning \ {"offer", "discard"}) /\ stage[Health] = "none"
    /\ pc[Destructor] \in {"out", "request", "close"} \cup Closing /\ stage[Destructor] = "none"

\* How far the destruction has come, and who holds the locks.
Locked ==
    /\ alive \in BOOLEAN /\ (alive <=> pc[Destructor] = "out")
    /\ shuttingDown \in BOOLEAN /\ (shuttingDown <=> pc[Destructor] \in Closing)
    /\ pc[Destructor] \notin {"out", "request"} => pc[Health] = "out"
    /\ asyncOwner \in Tasks \cup {Nobody}
    /\ \A t \in Tasks : asyncOwner = t <=> stage[t] = "locked" /\ pc[t] # "register"
    /\ livenessOwner \in Clients \cup {Nobody}
    /\ livenessOwner # Nobody => alive
    /\ \A p \in Clients : pc[p] \in Returning => livenessOwner = p

Control == Placed /\ Locked

\* The threads that count as waiting and the coroutines that count as registering.
WaitingThreads == {p \in Threads : stage[p] = "wait"}
RegisteringTasks == {t \in Tasks : pc[t] = "register" \/ stage[t] \in {"suspend", "locked"}}
Counted ==
    /\ syncWaiting = Cardinality(WaitingThreads)
    /\ registering = Cardinality(RegisteringTasks)

\* A suspended coroutine is in the list, or its ticket is on its way or lost.  Only a frame that
\* died during the destruction is in one of these without being suspended, and what was handed
\* to a suspended one has a ticket.
Involved == ToSet(waiters) \cup posted \cup lost
Waits(t) ==
    /\ pc[t] = "suspended" => t \in Involved
    /\ t \in Involved => pc[t] = "suspended" \/ (pc[t] = "out" /\ ~alive)
    /\ t \in handed => pc[t] = "resumed" \/ (pc[t] = "suspended" /\ t \in posted \cup lost)
ListTypes ==
    /\ waiters \in Seq(Tasks) /\ IsInjective(waiters)
    /\ moved \subseteq Tasks /\ handed \subseteq Tasks /\ posted \subseteq Tasks
    /\ lost \subseteq Tasks /\ woken \subseteq Tasks
    /\ ToSet(waiters) \cap (posted \cup lost) = {} /\ posted \cap lost = {}
Listed == ListTypes /\ \A t \in Tasks : Waits(t)

\* The destructor goes on only when no thread waits, and empties the list.
Drained ==
    /\ pc[Destructor] \in {"free", "gone"} => waiters = << >>
    /\ pc[Destructor] \in {"sweep", "free", "gone"} => syncWaiting = 0

Queued == Listed /\ Drained

\* A coroutine that found nothing under m_asyncMutex still has nothing to find.
FoundNothing(t) == \/ pc[t] = "enlist"
                   \/ pc[t] = "empty" /\ stage[t] = "locked" /\ t \notin moved
IdleSeen ==
    /\ idle \in Nat
    /\ \A t \in Tasks : FoundNothing(t) => idle = 0
    /\ NoIdleBesideWaiters

\* A slot in hand is borrowed, and then counted by m_activeCount, or it is loose.  Once the pool
\* is gone a connection that nobody gives back any more stays counted.
LooseAt == {"create", "got", "drop", "offer", "discard"}
BorrowedAt == {"taken", "held", "spoiled"}
Loose == handed \cup {p \in Clients : pc[p] \in LooseAt}
Borrowed == {p \in Clients : pc[p] \in BorrowedAt}
Accounted ==
    /\ created \in 0 .. maximumPoolSize /\ active \in Nat
    /\ active >= Cardinality(Borrowed)
    /\ created >= idle + Cardinality(Loose) + active
    /\ alive => /\ active = Cardinality(Borrowed)
                /\ created = idle + Cardinality(Loose) + active

Inv == Control /\ Counted /\ Queued /\ IdleSeen /\ Accounted /\ IdleIsFetched

-----------------------------------------------------------------------------
(* Moves: where a step takes its process, and what it may do to others     *)

\* Process p goes to "place" for "attempt"; the others stay where they are, except that those
\* asleep on m_idleCondition may be woken.
Moves(p, place, attempt) ==
    /\ pc' \in [Procs -> Pcs] /\ stage' \in [Procs -> Stages]
    /\ pc'[p] = place /\ stage'[p] = attempt
    /\ \A q \in Procs \ {p} :
          /\ stage'[q] = stage[q]
          /\ pc'[q] = pc[q] \/ (pc[q] = "asleep" /\ pc'[q] = "woken")

\* The same when nobody is woken.
MovesAlone(p, place, attempt) ==
    /\ Moves(p, place, attempt)
    /\ \A q \in Procs \ {p} : pc'[q] = pc[q]

\* The attempt of a process that goes to "place" without beginning one.
AttemptAt(p, place) == IF place \in Outside THEN "none" ELSE stage[p]

\* A process that goes on moves alone.
LEMMA GoMoves ==
    ASSUME Placed, NEW p \in Procs, NEW place \in Pcs, Go(p, place)
    PROVE  MovesAlone(p, place, AttemptAt(p, place))
<1>1. AttemptAt(p, place) \in Stages
  BY DEF Placed, AttemptAt, Stages
<1> QED
  BY <1>1 DEF Go, Placed, MovesAlone, Moves, AttemptAt

\* So does one that begins an attempt.
LEMMA TryMoves ==
    ASSUME Placed, NEW p \in Procs, NEW attempt \in Stages, Try(p, attempt)
    PROVE  MovesAlone(p, "pop", attempt)
<1>1. "pop" \in Pcs
  BY DEF Pcs
<1> QED
  BY <1>1 DEF Try, Placed, MovesAlone, Moves

\* notify_one() and notify_all() wake sleepers only.
LEMMA NotifyMoves ==
    ASSUME Placed, NEW p \in Procs, NEW place \in Pcs,
           NotifyAll(p, place) \/ (pc[p] # "asleep" /\ NotifyOne(p, place))
    PROVE  Moves(p, place, AttemptAt(p, place))
<1>0. AttemptAt(p, place) \in Stages /\ "woken" \in Pcs
  BY DEF Placed, AttemptAt, Stages, Pcs
<1>1. CASE pc[p] # "asleep" /\ NotifyOne(p, place) /\ Asleep = {}
  BY <1>1, GoMoves DEF NotifyOne, MovesAlone
<1>2. CASE pc[p] # "asleep" /\ NotifyOne(p, place) /\ Asleep # {}
  <2>1. PICK s \in Asleep : pc' = [pc EXCEPT ![p] = place, ![s] = "woken"]
    BY <1>2 DEF NotifyOne
  <2>2. s \in Procs /\ s # p /\ pc[s] = "asleep"
    BY <1>2 DEF Asleep
  <2>3. stage' = [stage EXCEPT ![p] = AttemptAt(p, place)]
    BY <1>2 DEF NotifyOne, AttemptAt
  <2> QED
    BY <1>0, <2>1, <2>2, <2>3 DEF Placed, Moves
<1>3. CASE NotifyAll(p, place)
  <2>1. stage' = [stage EXCEPT ![p] = AttemptAt(p, place)]
    BY <1>3 DEF NotifyAll, AttemptAt
  <2>2. pc' = [q \in Procs |-> IF q = p THEN place ELSE IF q \in Asleep THEN "woken" ELSE pc[q]]
    BY <1>3 DEF NotifyAll
  <2>3. \A q \in Asleep : pc[q] = "asleep"
    BY DEF Asleep
  <2> QED
    BY <1>0, <2>1, <2>2, <2>3 DEF Placed, Moves
<1> QED
  BY <1>1, <1>2, <1>3

\* Going to a place inside a call keeps the attempt.
LEMMA GoInside ==
    ASSUME Placed, NEW p \in Procs, NEW place \in Pcs \ Outside, Go(p, place)
    PROVE  MovesAlone(p, place, stage[p])
BY GoMoves DEF AttemptAt

\* Going to a place outside ends the attempt.
LEMMA GoOutside ==
    ASSUME Placed, NEW p \in Procs, NEW place \in Outside, Go(p, place)
    PROVE  MovesAlone(p, place, "none")
BY GoMoves DEF AttemptAt, Pcs

\* The same for a step that wakes sleepers as it goes.
LEMMA NotifyOutside ==
    ASSUME Placed, NEW p \in Procs, NEW place \in Outside,
           NotifyAll(p, place) \/ (pc[p] # "asleep" /\ NotifyOne(p, place))
    PROVE  Moves(p, place, "none")
BY NotifyMoves DEF AttemptAt, Pcs

\* Where the steps of an attempt go.
LEMMA TryStepMoves ==
    ASSUME Placed, NEW p \in Procs
    PROVE  /\ PopEmpty(p) =>
                 /\ stage[p] \in PopOnly => MovesAlone(p, "empty", stage[p])
                 /\ stage[p] \notin PopOnly => MovesAlone(p, "reserve", stage[p])
           /\ PopEntry(p) => MovesAlone(p, "got", stage[p]) \/ MovesAlone(p, "drop", stage[p])
           /\ Drop(p) => MovesAlone(p, "noteDrop", stage[p])
           /\ NoteDrop(p) =>
                 /\ stage[p] \in PopOnly => MovesAlone(p, "empty", stage[p])
                 /\ stage[p] \notin PopOnly => MovesAlone(p, "reserve", stage[p])
           /\ Reserve(p) => MovesAlone(p, "empty", stage[p]) \/ MovesAlone(p, "create", stage[p])
           /\ Create(p) => MovesAlone(p, "got", stage[p]) \/ MovesAlone(p, "empty", stage[p])
<1>1. {"empty", "reserve", "got", "drop", "noteDrop", "create"} \subseteq Pcs \ Outside
  BY DEF Pcs, Outside
<1> USE <1>1, GoInside
<1>2. ASSUME PopEmpty(p)
      PROVE  /\ stage[p] \in PopOnly => MovesAlone(p, "empty", stage[p])
             /\ stage[p] \notin PopOnly => MovesAlone(p, "reserve", stage[p])
  BY <1>2 DEF PopEmpty
<1>3. ASSUME PopEntry(p)
      PROVE  MovesAlone(p, "got", stage[p]) \/ MovesAlone(p, "drop", stage[p])
  BY <1>3 DEF PopEntry
<1>4. ASSUME Drop(p) PROVE MovesAlone(p, "noteDrop", stage[p])
  BY <1>4 DEF Drop
<1>5. ASSUME NoteDrop(p)
      PROVE  /\ stage[p] \in PopOnly => MovesAlone(p, "empty", stage[p])
             /\ stage[p] \notin PopOnly => MovesAlone(p, "reserve", stage[p])
  BY <1>5 DEF NoteDrop
<1>6. ASSUME Reserve(p)
      PROVE  MovesAlone(p, "empty", stage[p]) \/ MovesAlone(p, "create", stage[p])
  BY <1>6 DEF Reserve
<1>7. ASSUME Create(p)
      PROVE  MovesAlone(p, "got", stage[p]) \/ MovesAlone(p, "empty", stage[p])
  BY <1>7 DEF Create
<1> QED
  BY <1>2, <1>3, <1>4, <1>5, <1>6, <1>7

\* Where the steps of acquire() and tryAcquire() go.
LEMMA ThreadMoves ==
    ASSUME Placed, NEW p \in Procs
    PROVE  /\ CallFromThread(p) => MovesAlone(p, "pop", "fast") \/ MovesAlone(p, "pop", "try")
           /\ ThreadGot(p) => Moves(p, "held", "none")
           /\ ThreadEmpty(p) =>
                 /\ stage[p] = "fast" => MovesAlone(p, "pop", "grow")
                 /\ stage[p] = "grow" => MovesAlone(p, "gate", "grow")
                 /\ stage[p] = "try" => MovesAlone(p, "out", "none")
           /\ ThreadGate(p) => MovesAlone(p, "out", "none") \/ MovesAlone(p, "enter", stage[p])
           /\ ThreadEnter(p) =>
                 /\ shuttingDown => Moves(p, "out", "none")
                 /\ ~shuttingDown => MovesAlone(p, "pop", "wait")
           /\ Leave(p) => Moves(p, "out", "none")
           /\ ThreadWaits(p) => \/ shuttingDown /\ Leave(p)
                                \/ ~shuttingDown /\ MovesAlone(p, "pop", "wait")
                                \/ /\ ~shuttingDown /\ ~(idle > 0)
                                   /\ MovesAlone(p, "asleep", "wait")
           /\ ThreadWoken(p) => \/ shuttingDown /\ Leave(p)
                                \/ ~shuttingDown /\ MovesAlone(p, "pop", "wait")
<1>1. /\ {"gate", "enter", "asleep"} \subseteq Pcs \ Outside
      /\ {"held", "out"} \subseteq Outside
      /\ {"fast", "try", "grow", "wait"} \subseteq Stages
  BY DEF Pcs, Outside, Stages
<1> USE <1>1
<1>2. ASSUME CallFromThread(p)
      PROVE  MovesAlone(p, "pop", "fast") \/ MovesAlone(p, "pop", "try")
  BY <1>2, TryMoves DEF CallFromThread
<1>3. ASSUME ThreadGot(p) PROVE Moves(p, "held", "none")
  BY <1>3, GoOutside, NotifyOutside DEF ThreadGot, MovesAlone
<1>4. ASSUME ThreadEmpty(p)
      PROVE  /\ stage[p] = "fast" => MovesAlone(p, "pop", "grow")
             /\ stage[p] = "grow" => MovesAlone(p, "gate", "grow")
             /\ stage[p] = "try" => MovesAlone(p, "out", "none")
  <2>1. ASSUME stage[p] = "fast" PROVE MovesAlone(p, "pop", "grow")
    BY <1>4, <2>1, TryMoves DEF ThreadEmpty
  <2>2. ASSUME stage[p] = "grow" PROVE MovesAlone(p, "gate", "grow")
    <3>1. Go(p, "gate")
      BY <1>4, <2>2 DEF ThreadEmpty
    <3> QED
      BY <2>2, <3>1, GoInside
  <2>3. ASSUME stage[p] = "try" PROVE MovesAlone(p, "out", "none")
    <3>1. Go(p, "out")
      BY <1>4, <2>3 DEF ThreadEmpty
    <3> QED
      BY <3>1, GoOutside
  <2> QED
    BY <2>1, <2>2, <2>3
<1>5. ASSUME ThreadGate(p)
      PROVE  MovesAlone(p, "out", "none") \/ MovesAlone(p, "enter", stage[p])
  BY <1>5, GoInside, GoOutside DEF ThreadGate
<1>6. ASSUME ThreadEnter(p)
      PROVE  /\ shuttingDown => Moves(p, "out", "none")
             /\ ~shuttingDown => MovesAlone(p, "pop", "wait")
  BY <1>6, TryMoves, NotifyOutside DEF ThreadEnter
<1>7. ASSUME Leave(p) PROVE Moves(p, "out", "none")
  BY <1>7, NotifyOutside DEF Leave
<1>8. ASSUME ThreadWaits(p)
      PROVE  \/ shuttingDown /\ Leave(p)
             \/ ~shuttingDown /\ MovesAlone(p, "pop", "wait")
             \/ ~shuttingDown /\ ~(idle > 0) /\ MovesAlone(p, "asleep", "wait")
  <2>0. CASE shuttingDown
    BY <1>8, <2>0 DEF ThreadWaits
  <2>1. CASE ~shuttingDown /\ RetryBeforeSleep
    BY <1>8, <2>1, TryMoves DEF ThreadWaits
  <2>2. CASE ~shuttingDown /\ ~RetryBeforeSleep
    <3>1. stage[p] = "wait" /\ Go(p, "asleep")
      BY <1>8, <2>2 DEF ThreadWaits
    <3>2. MovesAlone(p, "asleep", "wait")
      BY <3>1, GoInside
    <3> QED
      BY <2>2, <3>2 DEF RetryBeforeSleep
  <2> QED
    BY <2>0, <2>1, <2>2
<1>9. ASSUME ThreadWoken(p)
      PROVE  \/ shuttingDown /\ Leave(p)
             \/ ~shuttingDown /\ MovesAlone(p, "pop", "wait")
  BY <1>9, TryMoves DEF ThreadWoken
<1> QED
  BY <1>2, <1>3, <1>4, <1>5, <1>6, <1>7, <1>8, <1>9

\* Where the steps of acquireAsync() go.
LEMMA TaskMoves ==
    ASSUME Placed, NEW t \in Tasks
    PROVE  /\ CallFromTask(t) => MovesAlone(t, "pop", "ready")
           /\ TaskGot(t) => MovesAlone(t, "resumed", "none")
           /\ TaskNotReady(t) => MovesAlone(t, "register", "ready")
           /\ TaskRegister(t) =>
                 \/ Unregister(t, "resumed") /\ MovesAlone(t, "resumed", "none")
                 \/ UNCHANGED <<registering, locks>> /\ MovesAlone(t, "pop", "suspend")
           /\ TaskNeedsLock(t) =>
                 \/ Unregister(t, "resumed") /\ MovesAlone(t, "resumed", "none")
                 \/ UNCHANGED <<queue, locks>> /\ MovesAlone(t, "lock", "suspend")
           /\ TaskLocks(t) => MovesAlone(t, "pop", "locked")
           /\ TaskComparesEpoch(t) =>
                 \/ asyncOwner' = Nobody /\ MovesAlone(t, "register", "locked")
                 \/ UNCHANGED asyncOwner /\ t \notin moved /\ MovesAlone(t, "enlist", "locked")
           /\ TaskEnlist(t) =>
                 \/ ~shuttingDown /\ waiters' = Append(waiters, t) /\ MovesAlone(t, "suspended", "none")
                 \/ UNCHANGED waiters /\ MovesAlone(t, "resumed", "none")
                 \/ UNCHANGED waiters /\ MovesAlone(t, "refused", "none")
           /\ TaskResume(t) => \/ pc[t] = "suspended" /\ MovesAlone(t, "resumed", "none")
                               \/ pc[t] # "suspended" /\ UNCHANGED places
           /\ AwaitResume(t) =>
                 \/ t \in handed /\ alive /\ active' = active + 1 /\ MovesAlone(t, "taken", "none")
                 \/ t \in handed /\ ~alive /\ UNCHANGED active /\ MovesAlone(t, "decide", "none")
                 \/ t \notin handed /\ UNCHANGED active /\ MovesAlone(t, "decide", "none")
           /\ TaskDecides(t) =>
                 \/ pc[t] = "taken" /\ MovesAlone(t, "spoiled", "none")
                 \/ pc[t] = "taken" /\ MovesAlone(t, "held", "none")
                 \/ pc[t] \in {"refused", "decide"} /\ MovesAlone(t, "out", "none")
                 \/ pc[t] = "decide" /\ MovesAlone(t, "pop", "ready")
<1>1. /\ {"register", "lock", "enlist"} \subseteq Pcs \ Outside
      /\ {"resumed", "suspended", "refused", "taken", "decide", "spoiled", "held", "out"} \subseteq Outside
      /\ {"ready", "suspend", "locked"} \subseteq Stages
      /\ t \in Procs
  BY DEF Pcs, Outside, Stages, Procs, Clients
<1> USE <1>1
<1>2. ASSUME CallFromTask(t) PROVE MovesAlone(t, "pop", "ready")
  BY <1>2, TryMoves DEF CallFromTask
<1>3. ASSUME TaskGot(t) PROVE MovesAlone(t, "resumed", "none")
  BY <1>3, GoOutside DEF TaskGot, Unregister
<1>4. ASSUME TaskNotReady(t) PROVE MovesAlone(t, "register", "ready")
  BY <1>4, GoInside DEF TaskNotReady
<1>5. ASSUME TaskRegister(t)
      PROVE  \/ Unregister(t, "resumed") /\ MovesAlone(t, "resumed", "none")
             \/ UNCHANGED <<registering, locks>> /\ MovesAlone(t, "pop", "suspend")
  BY <1>5, GoOutside, TryMoves DEF TaskRegister, Unregister
<1>6. ASSUME TaskNeedsLock(t)
      PROVE  \/ Unregister(t, "resumed") /\ MovesAlone(t, "resumed", "none")
             \/ UNCHANGED <<queue, locks>> /\ MovesAlone(t, "lock", "suspend")
  BY <1>6, GoOutside, GoInside DEF TaskNeedsLock, Unregister
<1>7. ASSUME TaskLocks(t) PROVE MovesAlone(t, "pop", "locked")
  BY <1>7, TryMoves DEF TaskLocks
<1>8. ASSUME TaskComparesEpoch(t)
      PROVE  \/ asyncOwner' = Nobody /\ MovesAlone(t, "register", "locked")
             \/ UNCHANGED asyncOwner /\ t \notin moved /\ MovesAlone(t, "enlist", "locked")
  BY <1>8, GoInside DEF TaskComparesEpoch
<1>9. ASSUME TaskEnlist(t)
      PROVE  \/ ~shuttingDown /\ waiters' = Append(waiters, t) /\ MovesAlone(t, "suspended", "none")
             \/ UNCHANGED waiters /\ MovesAlone(t, "resumed", "none")
             \/ UNCHANGED waiters /\ MovesAlone(t, "refused", "none")
  BY <1>9, GoOutside DEF TaskEnlist, Unregister, MayEnlist
<1>10. ASSUME TaskResume(t)
       PROVE  \/ pc[t] = "suspended" /\ MovesAlone(t, "resumed", "none")
              \/ pc[t] # "suspended" /\ UNCHANGED places
  BY <1>10, GoOutside DEF TaskResume
<1>11. ASSUME AwaitResume(t)
       PROVE  \/ t \in handed /\ alive /\ active' = active + 1 /\ MovesAlone(t, "taken", "none")
              \/ t \in handed /\ ~alive /\ UNCHANGED active /\ MovesAlone(t, "decide", "none")
              \/ t \notin handed /\ UNCHANGED active /\ MovesAlone(t, "decide", "none")
  BY <1>11, GoOutside DEF AwaitResume
<1>12. ASSUME TaskDecides(t)
       PROVE  \/ pc[t] = "taken" /\ MovesAlone(t, "spoiled", "none")
              \/ pc[t] = "taken" /\ MovesAlone(t, "held", "none")
              \/ pc[t] \in {"refused", "decide"} /\ MovesAlone(t, "out", "none")
              \/ pc[t] = "decide" /\ MovesAlone(t, "pop", "ready")
  BY <1>12, GoOutside, TryMoves DEF TaskDecides
<1> QED
  BY <1>2, <1>3, <1>4, <1>5, <1>6, <1>7, <1>8, <1>9, <1>10, <1>11, <1>12

\* Where the steps of a return, of the health thread and of an awaiter's destructor go.
LEMMA ReturnMoves ==
    ASSUME Placed, NEW p \in Procs
    PROVE  /\ GiveBack(p) =>
                 \/ /\ alive /\ livenessOwner' = p /\ active' = active - 1
                    /\ \/ MovesAlone(p, "discard", stage[p])
                       \/ MovesAlone(p, "offer", stage[p])
                 \/ /\ ~alive /\ UNCHANGED <<livenessOwner, active>>
                    /\ MovesAlone(p, "out", "none")
           /\ FrameDies(p) =>
                 \/ /\ alive /\ p \in handed /\ livenessOwner' = p
                    /\ MovesAlone(p, "discard", stage[p]) \/ MovesAlone(p, "offer", stage[p])
                 \/ /\ p \notin handed \/ ~alive
                    /\ UNCHANGED livenessOwner /\ MovesAlone(p, "out", "none")
           /\ Offer(p) =>
                 \/ waiters # << >> /\ ReleaseLiveness(p) /\ MovesAlone(p, "out", "none")
                 \/ waiters = << >> /\ ReleaseLiveness(p) /\ idle' = idle + 1 /\ Moves(p, "out", "none")
                 \/ /\ waiters = << >> /\ UNCHANGED <<livenessOwner, idle>>
                    /\ MovesAlone(p, "discard", stage[p])
           /\ Discard(p) => MovesAlone(p, "noteFreed", stage[p])
           /\ NoteFreed(p) => MovesAlone(p, "look", stage[p])
           /\ Look(p) =>
                 \/ UNCHANGED livenessOwner /\ MovesAlone(p, "lookAgain", stage[p])
                 \/ UNCHANGED livenessOwner /\ MovesAlone(p, "wakeTask", stage[p])
                 \/ ReleaseLiveness(p) /\ MovesAlone(p, "out", "none")
           /\ WakeTask(p) => MovesAlone(p, "wakeThread", stage[p])
           /\ WakeThread(p) => Moves(p, "out", "none")
<1>1. /\ Returning \subseteq Pcs \ Outside
      /\ "out" \in Outside
  BY DEF Pcs, Outside, Returning
<1> USE <1>1 DEF Returning
<1>2. ASSUME GiveBack(p)
      PROVE  \/ /\ alive /\ livenessOwner' = p /\ active' = active - 1
                /\ \/ MovesAlone(p, "discard", stage[p])
                   \/ MovesAlone(p, "offer", stage[p])
             \/ /\ ~alive /\ UNCHANGED <<livenessOwner, active>>
                /\ MovesAlone(p, "out", "none")
  BY <1>2, GoInside, GoOutside DEF GiveBack
<1>3. ASSUME FrameDies(p)
      PROVE  \/ /\ alive /\ p \in handed /\ livenessOwner' = p
                /\ MovesAlone(p, "discard", stage[p]) \/ MovesAlone(p, "offer", stage[p])
             \/ /\ p \notin handed \/ ~alive
                /\ UNCHANGED livenessOwner /\ MovesAlone(p, "out", "none")
  BY <1>3, GoInside, GoOutside DEF FrameDies, RescueHanded
<1>4. ASSUME Offer(p)
      PROVE  \/ waiters # << >> /\ ReleaseLiveness(p) /\ MovesAlone(p, "out", "none")
             \/ waiters = << >> /\ ReleaseLiveness(p) /\ idle' = idle + 1 /\ Moves(p, "out", "none")
             \/ /\ waiters = << >> /\ UNCHANGED <<livenessOwner, idle>>
                /\ MovesAlone(p, "discard", stage[p])
  BY <1>4, GoInside, GoOutside, NotifyOutside DEF Offer, OfferToWaiter
<1>5. ASSUME Discard(p) PROVE MovesAlone(p, "noteFreed", stage[p])
  BY <1>5, GoInside DEF Discard
<1>6. ASSUME NoteFreed(p) PROVE MovesAlone(p, "look", stage[p])
  BY <1>6, GoInside DEF NoteFreed
<1>7. ASSUME Look(p)
      PROVE  \/ UNCHANGED livenessOwner /\ MovesAlone(p, "lookAgain", stage[p])
             \/ UNCHANGED livenessOwner /\ MovesAlone(p, "wakeTask", stage[p])
             \/ ReleaseLiveness(p) /\ MovesAlone(p, "out", "none")
  BY <1>7, GoInside, GoOutside DEF Look
<1>8. ASSUME WakeTask(p) PROVE MovesAlone(p, "wakeThread", stage[p])
  BY <1>8, GoInside DEF WakeTask
<1>9. ASSUME WakeThread(p) PROVE Moves(p, "out", "none")
  BY <1>9, NotifyOutside DEF WakeThread
<1> QED
  BY <1>2, <1>3, <1>4, <1>5, <1>6, <1>7, <1>8, <1>9

\* Where the steps of the destructor go, and the eviction of idle connections.
LEMMA DestructorMoves ==
    ASSUME Placed
    PROVE  /\ Evict => MovesAlone(Health, "noteFreed", stage[Health])
           /\ BeginDestruction => MovesAlone(Destructor, "request", stage[Destructor])
           /\ JoinHealth => MovesAlone(Destructor, "close", stage[Destructor])
           /\ CloseIdle => \/ syncWaiting = 0 /\ Moves(Destructor, "sweep", stage[Destructor])
                           \/ Moves(Destructor, "asleep", stage[Destructor])
           /\ AwaitThreads => \/ syncWaiting = 0 /\ MovesAlone(Destructor, "sweep", stage[Destructor])
                              \/ MovesAlone(Destructor, "asleep", stage[Destructor])
           /\ Sweep => MovesAlone(Destructor, "free", stage[Destructor])
           /\ Free => MovesAlone(Destructor, "gone", stage[Destructor])
<1>1. /\ {"noteFreed", "request", "close", "sweep", "asleep", "free", "gone"} \subseteq Pcs \ Outside
      /\ {Health, Destructor} \subseteq Procs
  BY DEF Pcs, Outside, Procs
<1> USE <1>1
<1>2. ASSUME Evict PROVE MovesAlone(Health, "noteFreed", stage[Health])
  BY <1>2, GoInside DEF Evict
<1>3. ASSUME BeginDestruction PROVE MovesAlone(Destructor, "request", stage[Destructor])
  BY <1>3, GoInside DEF BeginDestruction
<1>4. ASSUME JoinHealth PROVE MovesAlone(Destructor, "close", stage[Destructor])
  BY <1>4, GoInside DEF JoinHealth
<1>5. ASSUME CloseIdle
      PROVE  \/ syncWaiting = 0 /\ Moves(Destructor, "sweep", stage[Destructor])
             \/ Moves(Destructor, "asleep", stage[Destructor])
  BY <1>5, NotifyMoves DEF CloseIdle, TellSleepers, AttemptAt
<1>6. ASSUME AwaitThreads
      PROVE  \/ syncWaiting = 0 /\ MovesAlone(Destructor, "sweep", stage[Destructor])
             \/ MovesAlone(Destructor, "asleep", stage[Destructor])
  BY <1>6, GoInside DEF AwaitThreads
<1>7. ASSUME Sweep PROVE MovesAlone(Destructor, "free", stage[Destructor])
  BY <1>7, GoInside DEF Sweep
<1>8. ASSUME Free PROVE MovesAlone(Destructor, "gone", stage[Destructor])
  BY <1>8, GoInside DEF Free
<1> QED
  BY <1>2, <1>3, <1>4, <1>5, <1>6, <1>7, <1>8

-----------------------------------------------------------------------------
(* Control: one process moves, and its place fits its attempt              *)

\* What Placed says of process q.
Fits(q) ==
    /\ q \in Threads => ThreadPlaced(q)
    /\ q \in Tasks => TaskPlaced(q)
    /\ q = Health => pc[q] \in {"out"} \cup (Returning \ {"offer", "discard"}) /\ stage[q] = "none"
    /\ q = Destructor => pc[q] \in {"out", "request", "close"} \cup Closing /\ stage[q] = "none"

\* It is enough to look at the process that moves: a sleeper fits where it is woken.
LEMMA PlacedKept ==
    ASSUME Placed, NEW p \in Procs, NEW place, NEW attempt, Moves(p, place, attempt), Fits(p)'
    PROVE  Placed'
<1>1. ASSUME NEW q \in Procs \ {p} PROVE Fits(q)'
  <2>1. /\ stage'[q] = stage[q]
        /\ pc'[q] = pc[q] \/ (pc[q] = "asleep" /\ pc'[q] = "woken")
    BY DEF Moves
  <2>2. CASE q \in Threads
    <3>1. ThreadPlaced(q)
      BY <2>2 DEF Placed
    <3>2. ThreadPlaced(q)'
      BY <2>1, <3>1 DEF ThreadPlaced, Returning, Trying
    <3> QED
      BY <2>2, <3>2, ConnectionPoolAssumption DEF Fits, Clients
  <2>3. CASE q \in Tasks
    <3>1. TaskPlaced(q)
      BY <2>3 DEF Placed
    <3>2. TaskPlaced(q)'
      BY <2>1, <3>1 DEF TaskPlaced, Outside, Returning, Trying
    <3> QED
      BY <2>3, <3>2, ConnectionPoolAssumption DEF Fits, Clients
  <2>4. CASE q = Health
    BY <2>1, <2>4, ConnectionPoolAssumption DEF Placed, Fits, Returning, Clients
  <2>5. CASE q = Destructor
    BY <2>1, <2>5, ConnectionPoolAssumption DEF Placed, Fits, Closing, Clients
  <2> QED
    BY <2>2, <2>3, <2>4, <2>5 DEF Procs, Clients
<1>2. \A q \in Procs : Fits(q)'
  BY <1>1
<1> QED
  BY <1>2 DEF Placed, Moves, Fits, Procs, Clients

\* The same for the locks: the owners are looked at, the process that moves, and the
\* destructor.
LEMMA LockedKept ==
    ASSUME Control, Placed', NEW p \in Procs, NEW place, NEW attempt, Moves(p, place, attempt),
           alive' \in BOOLEAN, alive' <=> pc'[Destructor] = "out",
           shuttingDown' \in BOOLEAN, shuttingDown' <=> pc'[Destructor] \in Closing,
           pc'[Destructor] \notin {"out", "request"} => pc'[Health] = "out",
           asyncOwner' \in {asyncOwner, p, Nobody},
           asyncOwner # p /\ asyncOwner # Nobody => asyncOwner' = asyncOwner,
           p \in Tasks => (asyncOwner' = p <=> attempt = "locked" /\ place # "register"),
           p \notin Tasks => asyncOwner' = asyncOwner,
           livenessOwner' \in {livenessOwner, p, Nobody},
           livenessOwner # p /\ livenessOwner # Nobody => livenessOwner' = livenessOwner,
           p \in Clients => (place \in Returning => livenessOwner' = p),
           p \notin Clients => livenessOwner' = livenessOwner,
           livenessOwner' # Nobody => alive'
    PROVE  Locked'
<1>1. \A q \in Procs \ {p} :
          /\ stage'[q] = stage[q]
          /\ pc'[q] = pc[q] \/ (pc[q] = "asleep" /\ pc'[q] = "woken")
  BY DEF Moves
<1>2. asyncOwner' \in Tasks \cup {Nobody}
  BY DEF Control, Locked
<1>3. ASSUME NEW t \in Tasks
      PROVE  asyncOwner' = t <=> stage'[t] = "locked" /\ pc'[t] # "register"
  <2>1. CASE t = p
    BY <2>1 DEF Moves
  <2>2. CASE t # p
    <3>1. t \in Procs /\ t # Nobody
      BY ConnectionPoolAssumption DEF Procs, Clients
    <3>2. asyncOwner' = t <=> asyncOwner = t
      BY <2>2, <3>1 DEF Control, Locked
    <3>3. pc'[t] # "register" <=> pc[t] # "register"
      BY <1>1, <2>2, <3>1
    <3> QED
      BY <1>1, <2>2, <3>1, <3>2, <3>3 DEF Control, Locked
  <2> QED
    BY <2>1, <2>2
<1>4. livenessOwner' \in Clients \cup {Nobody}
  BY DEF Control, Locked
<1>5. ASSUME NEW q \in Clients, pc'[q] \in Returning PROVE livenessOwner' = q
  <2>1. CASE q = p
    BY <1>5, <2>1 DEF Moves
  <2>2. CASE q # p
    <3>1. q \in Procs /\ q # Nobody
      BY ConnectionPoolAssumption DEF Procs
    <3>2. pc[q] \in Returning
      BY <1>1, <1>5, <2>2, <3>1 DEF Returning
    <3>3. livenessOwner = q
      BY <3>2 DEF Control, Locked
    <3> QED
      BY <2>2, <3>1, <3>3
  <2> QED
    BY <2>1, <2>2
<1> QED
  BY <1>2, <1>3, <1>4, <1>5 DEF Locked

\* A client moves: what it may do to the locks.
LEMMA ClientControl ==
    ASSUME Control, NEW p \in Clients, NEW place, NEW attempt, Moves(p, place, attempt), Fits(p)',
           UNCHANGED life,
           asyncOwner' \in {asyncOwner, p, Nobody},
           asyncOwner # p /\ asyncOwner # Nobody => asyncOwner' = asyncOwner,
           p \in Tasks => (asyncOwner' = p <=> attempt = "locked" /\ place # "register"),
           p \notin Tasks => asyncOwner' = asyncOwner,
           livenessOwner' \in {livenessOwner, p, Nobody},
           livenessOwner # p /\ livenessOwner # Nobody => livenessOwner' = livenessOwner,
           livenessOwner' = p => alive,
           place \in Returning => livenessOwner' = p
    PROVE  Control'
<1>1. p \in Procs /\ p # Health /\ p # Destructor /\ Health \in Procs /\ Destructor \in Procs
  BY ConnectionPoolAssumption DEF Procs
<1>2. Placed'
  BY <1>1, PlacedKept DEF Control
<1>3. pc'[Destructor] = pc[Destructor] \/ (pc[Destructor] = "asleep" /\ pc'[Destructor] = "woken")
  BY <1>1 DEF Moves
<1>4. pc'[Health] = pc[Health]
  BY <1>1 DEF Moves, Control, Placed, Returning
<1>5. /\ alive' \in BOOLEAN /\ (alive' <=> pc'[Destructor] = "out")
      /\ shuttingDown' \in BOOLEAN /\ (shuttingDown' <=> pc'[Destructor] \in Closing)
  BY <1>3 DEF Control, Locked, life, Closing
<1>6. pc'[Destructor] \notin {"out", "request"} => pc'[Health] = "out"
  BY <1>3, <1>4 DEF Control, Locked
<1>7. livenessOwner' # Nobody => alive'
  BY DEF Control, Locked, life
<1>8. Locked'
  BY <1>1, <1>2, <1>5, <1>6, <1>7, LockedKept
<1> QED
  BY <1>2, <1>8 DEF Control

\* A client moves and leaves the locks alone.
LEMMA ClientKeepsLocks ==
    ASSUME Control, NEW p \in Clients, NEW place, NEW attempt, Moves(p, place, attempt), Fits(p)',
           UNCHANGED <<life, locks>>,
           place \in Returning => pc[p] \in Returning,
           p \in Tasks => (attempt = "locked" /\ place # "register"
                             <=> stage[p] = "locked" /\ pc[p] # "register")
    PROVE  Control'
<1>1. UNCHANGED <<life, asyncOwner, livenessOwner>>
  BY DEF locks
<1>2. p \in Tasks => (asyncOwner' = p <=> attempt = "locked" /\ place # "register")
  BY <1>1 DEF Control, Locked
<1>3. (livenessOwner' = p => alive) /\ (place \in Returning => livenessOwner' = p)
  BY <1>1, ConnectionPoolAssumption DEF Control, Locked, Procs
<1> QED
  BY <1>1, <1>2, <1>3, ClientControl

\* Where a thread fits, and where a coroutine does.
LEMMA ThreadFits ==
    ASSUME NEW p \in Threads, NEW place, NEW attempt, Moves(p, place, attempt),
           \/ place \in {"out", "held"} \cup Returning /\ attempt = "none"
           \/ place \in Trying /\ attempt \in {"fast", "grow", "wait", "try"}
           \/ place \in {"gate", "enter"} /\ attempt = "grow"
           \/ place \in {"asleep", "woken"} /\ attempt = "wait",
           place \in {"reserve", "create"} => attempt # "fast"
    PROVE  Fits(p)'
<1>1. p \notin Tasks /\ p # Health /\ p # Destructor
  BY ConnectionPoolAssumption DEF Clients
<1>2. pc'[p] = place /\ stage'[p] = attempt
  BY DEF Moves
<1>3. ThreadPlaced(p)'
  BY <1>2 DEF ThreadPlaced
<1> QED
  BY <1>1, <1>3 DEF Fits

\* Where a coroutine fits.
LEMMA TaskFits ==
    ASSUME NEW t \in Tasks, NEW place, NEW attempt, Moves(t, place, attempt),
           \/ place \in Outside \cup Returning /\ attempt = "none"
           \/ place \in Trying /\ attempt \in {"ready", "suspend", "locked"}
           \/ place = "register" /\ attempt \in {"ready", "locked"}
           \/ place = "lock" /\ attempt = "suspend"
           \/ place = "enlist" /\ attempt = "locked",
           place \in {"reserve", "create"} => attempt # "locked"
    PROVE  Fits(t)'
<1>1. t \notin Threads /\ t # Health /\ t # Destructor
  BY ConnectionPoolAssumption DEF Clients
<1>2. pc'[t] = place /\ stage'[t] = attempt
  BY DEF Moves
<1>3. TaskPlaced(t)'
  BY <1>2 DEF TaskPlaced
<1> QED
  BY <1>1, <1>3 DEF Fits

\* Where an attempt is and where it goes.
LEMMA TryPlaces ==
    ASSUME Placed, NEW p \in Procs, TryStep(p)
    PROVE  /\ pc[p] \in Trying
           /\ \E place \in Trying : /\ MovesAlone(p, place, stage[p])
                                    /\ place \in {"reserve", "create"} =>
                                          stage[p] \notin PopOnly \/ pc[p] \in {"reserve", "create"}
<1>1. pc[p] \in Trying
  BY DEF TryStep, PopEmpty, PopEntry, Drop, NoteDrop, Reserve, Create, Trying
<1>2. ASSUME PopEmpty(p) \/ NoteDrop(p)
      PROVE  \/ stage[p] \in PopOnly /\ MovesAlone(p, "empty", stage[p])
             \/ stage[p] \notin PopOnly /\ MovesAlone(p, "reserve", stage[p])
  BY <1>2, TryStepMoves
<1>3. ASSUME PopEntry(p) \/ Drop(p)
      PROVE  \E place \in {"got", "drop", "noteDrop"} : MovesAlone(p, place, stage[p])
  BY <1>3, TryStepMoves
<1>4. ASSUME Reserve(p) \/ Create(p)
      PROVE  /\ pc[p] \in {"reserve", "create"}
             /\ \E place \in {"got", "empty", "create"} : MovesAlone(p, place, stage[p])
  <2>1. pc[p] \in {"reserve", "create"}
    BY <1>4 DEF Reserve, Create
  <2> QED
    BY <1>4, <2>1, TryStepMoves
<1> QED
  BY <1>1, <1>2, <1>3, <1>4 DEF TryStep, Trying

\* The steps of an attempt.
LEMMA TryControl ==
    ASSUME Control, NEW p \in Clients, TryStep(p)
    PROVE  Control'
<1>1. UNCHANGED <<life, locks>>
  BY DEF TryStep, PopEmpty, PopEntry, Drop, NoteDrop, Reserve, Create
<1>2. pc[p] \in Trying
  BY TryPlaces DEF Control, Procs
<1>3. PICK place \in Trying : /\ MovesAlone(p, place, stage[p])
                              /\ place \in {"reserve", "create"} =>
                                    stage[p] \notin PopOnly \/ pc[p] \in {"reserve", "create"}
  BY TryPlaces DEF Control, Procs
<1>4. Moves(p, place, stage[p])
  BY <1>3 DEF MovesAlone
<1>5. Fits(p)'
  <2>1. CASE p \in Threads
    <3>1. ThreadPlaced(p)
      BY <2>1 DEF Control, Placed
    <3>2. stage[p] \in {"fast", "grow", "wait", "try"}
      BY <1>2, <3>1 DEF ThreadPlaced, Trying, Returning
    <3>3. place \in {"reserve", "create"} => stage[p] # "fast"
      BY <1>3, <3>1 DEF ThreadPlaced, PopOnly
    <3> QED
      BY <1>4, <2>1, <3>2, <3>3, ThreadFits
  <2>2. CASE p \in Tasks
    <3>1. TaskPlaced(p)
      BY <2>2 DEF Control, Placed
    <3>2. stage[p] \in {"ready", "suspend", "locked"}
      BY <1>2, <3>1 DEF TaskPlaced, Trying, Returning, Outside
    <3>3. place \in {"reserve", "create"} => stage[p] # "locked"
      BY <1>3, <3>1 DEF TaskPlaced, PopOnly
    <3> QED
      BY <1>4, <2>2, <3>2, <3>3, TaskFits
  <2> QED
    BY <2>1, <2>2 DEF Clients
<1>6. place \notin Returning /\ place # "register" /\ pc[p] # "register"
  BY <1>2 DEF Trying, Returning
<1> QED
  BY <1>1, <1>4, <1>5, <1>6, ClientKeepsLocks

\* The steps of a thread.
LEMMA ThreadControl ==
    ASSUME Control, NEW p \in Threads,
           CallFromThread(p) \/ ThreadStep(p) \/ ThreadTimeout(p)
    PROVE  Control'
<1>1. p \in Clients /\ p \in Procs /\ p \notin Tasks
  BY ConnectionPoolAssumption DEF Clients, Procs
<1>2. ASSUME ~TryStep(p) PROVE UNCHANGED <<life, locks>>
  BY <1>2 DEF CallFromThread, ThreadStep, ThreadTimeout, ThreadGot, ThreadEmpty, ThreadGate,
              ThreadEnter, ThreadWaits, ThreadWoken
<1>3. ASSUME NEW place, NEW attempt, Moves(p, place, attempt), ~TryStep(p),
             \/ place \in {"out", "held"} /\ attempt = "none"
             \/ place = "pop" /\ attempt \in {"fast", "grow", "wait", "try"}
             \/ place \in {"gate", "enter"} /\ attempt = "grow"
             \/ place = "asleep" /\ attempt = "wait"
      PROVE  Control'
  <2>1. Fits(p)'
    BY <1>3, ThreadFits DEF Trying
  <2>2. place \notin Returning
    BY <1>3 DEF Returning
  <2> QED
    BY <1>1, <1>2, <1>3, <2>1, <2>2, ClientKeepsLocks
<1>4. ThreadPlaced(p) /\ Placed
  BY DEF Control, Placed
<1> USE DEF MovesAlone
<1>5. CASE TryStep(p)
  BY <1>1, <1>5, TryControl
<1>6. CASE CallFromThread(p) /\ ~TryStep(p)
  BY <1>1, <1>3, <1>4, <1>6, ThreadMoves
<1>7. CASE ThreadGot(p) /\ ~TryStep(p)
  BY <1>1, <1>3, <1>4, <1>7, ThreadMoves
<1>8. CASE ThreadEmpty(p) /\ ~TryStep(p)
  <2>1. stage[p] \in {"fast", "grow", "try"}
    BY <1>4, <1>8 DEF ThreadEmpty, ThreadPlaced, Returning
  <2> QED
    BY <1>1, <1>3, <1>4, <1>8, <2>1, ThreadMoves
<1>9. CASE ThreadGate(p) /\ ~TryStep(p)
  <2>1. stage[p] = "grow"
    BY <1>4, <1>9 DEF ThreadGate, ThreadPlaced, Returning, Trying
  <2> QED
    BY <1>1, <1>3, <1>4, <1>9, <2>1, ThreadMoves
<1>10. CASE ThreadEnter(p) /\ ~TryStep(p)
  BY <1>1, <1>3, <1>4, <1>10, ThreadMoves
<1>11. CASE Leave(p) /\ ~TryStep(p)
  BY <1>1, <1>3, <1>4, <1>11, ThreadMoves
<1>12. CASE ThreadWaits(p) /\ ~TryStep(p)
  BY <1>1, <1>3, <1>4, <1>11, <1>12, ThreadMoves
<1>13. CASE ThreadWoken(p) /\ ~TryStep(p)
  BY <1>1, <1>3, <1>4, <1>11, <1>13, ThreadMoves
<1> QED
  BY <1>5, <1>6, <1>7, <1>8, <1>9, <1>10, <1>11, <1>12, <1>13 DEF ThreadStep, ThreadTimeout

\* The steps of a coroutine.
LEMMA TaskControl ==
    ASSUME Control, NEW t \in Tasks, CallFromTask(t) \/ TaskStep(t)
    PROVE  Control'
<1>1. t \in Clients /\ t \in Procs /\ t # Nobody
  BY ConnectionPoolAssumption DEF Clients, Procs
<1>2. TaskPlaced(t) /\ Placed
  BY DEF Control, Placed
<1>3. asyncOwner = t <=> stage[t] = "locked" /\ pc[t] # "register"
  BY DEF Control, Locked
\* A step that changes no lock.
<1>4. ASSUME NEW place, NEW attempt, Moves(t, place, attempt), UNCHANGED <<life, locks>>,
             \/ place \in Outside /\ attempt = "none"
             \/ place = "pop" /\ attempt \in {"ready", "suspend", "locked"}
             \/ place = "register" /\ attempt \in {"ready", "locked"}
             \/ place = "lock" /\ attempt = "suspend"
             \/ place = "enlist" /\ attempt = "locked",
             attempt = "locked" /\ place # "register" <=> stage[t] = "locked" /\ pc[t] # "register"
      PROVE  Control'
  <2>1. Fits(t)'
    BY <1>4, TaskFits DEF Trying
  <2>2. place \notin Returning
    BY <1>4 DEF Returning, Outside
  <2> QED
    BY <1>1, <1>4, <2>1, <2>2, ClientKeepsLocks
\* A step that takes or releases m_asyncMutex.
<1>5. ASSUME NEW place, NEW attempt, Moves(t, place, attempt), UNCHANGED <<life, livenessOwner>>,
             \/ place \in Outside /\ attempt = "none"
             \/ place = "pop" /\ attempt \in {"ready", "suspend", "locked"}
             \/ place = "register" /\ attempt \in {"ready", "locked"},
             asyncOwner' \in {asyncOwner, t, Nobody},
             asyncOwner # t /\ asyncOwner # Nobody => asyncOwner' = asyncOwner,
             asyncOwner' = t <=> attempt = "locked" /\ place # "register"
      PROVE  Control'
  <2>1. Fits(t)'
    BY <1>5, TaskFits DEF Trying
  <2>2. place \notin Returning
    BY <1>5 DEF Returning, Outside
  <2>3. livenessOwner' = t => alive
    BY <1>1, <1>5 DEF Control, Locked
  <2> QED
    BY <1>1, <1>5, <2>1, <2>2, <2>3, ClientControl
<1>6. ASSUME NEW place \in Outside, Unregister(t, place), MovesAlone(t, place, "none"),
             UNCHANGED <<life, livenessOwner>>
      PROVE  Control'
  <2>1. asyncOwner' = IF asyncOwner = t THEN Nobody ELSE asyncOwner
    BY <1>6 DEF Unregister
  <2>2. Moves(t, place, "none")
    BY <1>6 DEF MovesAlone
  <2> QED
    BY <1>1, <1>5, <1>6, <2>1, <2>2
<1>7. {"resumed", "suspended", "refused", "taken", "decide", "spoiled", "held", "out"} \subseteq Outside
  BY DEF Outside
<1> USE DEF MovesAlone
<1>8. CASE TryStep(t)
  BY <1>1, <1>8, TryControl
<1>9. CASE CallFromTask(t)
  <2>1. UNCHANGED <<life, locks>> /\ stage[t] # "locked"
    BY <1>2, <1>9 DEF CallFromTask, TaskPlaced, Trying, Returning
  <2> QED
    BY <1>2, <1>4, <1>9, <2>1, TaskMoves
<1>10. CASE TaskGot(t)
  <2>1. CASE stage[t] = "ready"
    <3>1. UNCHANGED <<life, locks>>
      BY <1>10, <2>1 DEF TaskGot
    <3> QED
      BY <1>2, <1>4, <1>7, <1>10, <2>1, <3>1, TaskMoves
  <2>2. CASE stage[t] # "ready"
    <3>1. Unregister(t, "resumed") /\ UNCHANGED <<life, livenessOwner>>
      BY <1>10, <2>2 DEF TaskGot
    <3> QED
      BY <1>2, <1>6, <1>7, <1>10, <3>1, TaskMoves
  <2> QED
    BY <2>1, <2>2
<1>11. CASE TaskNotReady(t)
  <2>1. UNCHANGED <<life, locks>> /\ stage[t] # "locked"
    BY <1>11 DEF TaskNotReady
  <2> QED
    BY <1>2, <1>4, <1>11, <2>1, TaskMoves
<1>12. CASE TaskRegister(t)
  <2>1. UNCHANGED <<life, livenessOwner>> /\ pc[t] = "register"
    BY <1>12 DEF TaskRegister, locks
  <2> QED
    BY <1>2, <1>4, <1>6, <1>7, <1>12, <2>1, TaskMoves
<1>13. CASE TaskNeedsLock(t)
  <2>1. UNCHANGED <<life, livenessOwner>> /\ stage[t] = "suspend"
    BY <1>13 DEF TaskNeedsLock, locks
  <2> QED
    BY <1>2, <1>4, <1>6, <1>7, <1>13, <2>1, TaskMoves
<1>14. CASE TaskLocks(t)
  <2>1. UNCHANGED <<life, livenessOwner>> /\ asyncOwner = Nobody /\ asyncOwner' = t
    BY <1>14 DEF TaskLocks
  <2> QED
    BY <1>1, <1>2, <1>5, <1>14, <2>1, TaskMoves
<1>15. CASE TaskComparesEpoch(t)
  <2>1. /\ UNCHANGED <<life, livenessOwner>>
        /\ pc[t] = "empty" /\ stage[t] = "locked" /\ asyncOwner = t
    BY <1>3, <1>15 DEF TaskComparesEpoch
  <2>2. \/ asyncOwner' = Nobody /\ MovesAlone(t, "register", "locked")
        \/ UNCHANGED asyncOwner /\ t \notin moved /\ MovesAlone(t, "enlist", "locked")
    BY <1>2, <1>15, TaskMoves
  <2>3. CASE asyncOwner' = Nobody /\ MovesAlone(t, "register", "locked")
    BY <1>1, <1>5, <2>1, <2>3
  <2>4. CASE UNCHANGED asyncOwner /\ MovesAlone(t, "enlist", "locked")
    BY <1>4, <2>1, <2>4 DEF locks
  <2> QED
    BY <2>2, <2>3, <2>4
<1>16. CASE TaskEnlist(t)
  <2>1. PICK place \in {"suspended", "resumed", "refused"} : Unregister(t, place)
    BY <1>16 DEF TaskEnlist
  <2>2. UNCHANGED <<life, livenessOwner>>
    BY <1>16 DEF TaskEnlist
  <2>3. MovesAlone(t, place, "none")
    BY <1>1, <1>2, <1>7, <2>1, GoOutside DEF Unregister
  <2> QED
    BY <1>6, <1>7, <2>1, <2>2, <2>3
<1>17. CASE TaskResume(t)
  <2>1. UNCHANGED <<life, locks>>
    BY <1>17 DEF TaskResume
  <2>2. CASE UNCHANGED places
    BY <2>1, <2>2 DEF Control, Placed, Locked, ThreadPlaced, TaskPlaced, places, life, locks
  <2>3. CASE pc[t] = "suspended" /\ MovesAlone(t, "resumed", "none")
    <3>1. stage[t] # "locked"
      BY <1>2, <2>3 DEF TaskPlaced, Trying
    <3> QED
      BY <1>4, <1>7, <2>1, <2>3, <3>1
  <2> QED
    BY <1>2, <1>17, <2>2, <2>3, TaskMoves
<1>18. CASE AwaitResume(t)
  <2>1. UNCHANGED <<life, locks>> /\ stage[t] # "locked"
    BY <1>2, <1>18 DEF AwaitResume, TaskPlaced, Trying
  <2> QED
    BY <1>2, <1>4, <1>7, <1>18, <2>1, TaskMoves
<1>19. CASE TaskDecides(t)
  <2>1. UNCHANGED <<life, locks>> /\ stage[t] # "locked"
    BY <1>2, <1>19 DEF TaskDecides, TaskPlaced, Trying
  <2> QED
    BY <1>2, <1>4, <1>7, <1>19, <2>1, TaskMoves
<1> QED
  BY <1>8, <1>9, <1>10, <1>11, <1>12, <1>13, <1>14, <1>15, <1>16, <1>17, <1>18, <1>19 DEF TaskStep

\* A client that returns a connection is in no attempt.
LEMMA ReturnPlaces ==
    ASSUME Placed, NEW p \in Clients,
           GiveBack(p) \/ (p \in Tasks /\ FrameDies(p)) \/ ReturnStep(p)
    PROVE  /\ stage[p] = "none" /\ pc[p] # "register"
           /\ \E place \in {"out"} \cup Returning : Moves(p, place, "none")
<1>1. pc[p] \in {"held", "spoiled"} \cup Returning \/ (p \in Tasks /\ pc[p] = "suspended")
  BY DEF GiveBack, FrameDies, ReturnStep, Offer, Discard, NoteFreed, Look, WakeTask, WakeThread,
         Returning
<1>2. stage[p] = "none"
  <2>1. CASE p \in Threads
    <3>1. ThreadPlaced(p) /\ p \notin Tasks
      BY <2>1, ConnectionPoolAssumption DEF Placed
    <3> QED
      BY <1>1, <3>1 DEF ThreadPlaced, Trying, Returning
  <2>2. CASE p \in Tasks
    <3>1. TaskPlaced(p)
      BY <2>2 DEF Placed
    <3> QED
      BY <1>1, <3>1 DEF TaskPlaced, Trying, Returning
  <2> QED
    BY <2>1, <2>2 DEF Clients
<1>3. p \in Procs
  BY DEF Procs
<1>4. \E place \in {"out"} \cup Returning : Moves(p, place, "none")
  <2> USE DEF MovesAlone, Returning
  <2>1. CASE GiveBack(p)
    BY <1>2, <1>3, <2>1, ReturnMoves
  <2>2. CASE FrameDies(p)
    BY <1>2, <1>3, <2>2, ReturnMoves
  <2>3. CASE Offer(p)
    BY <1>2, <1>3, <2>3, ReturnMoves
  <2>4. CASE Discard(p) \/ NoteFreed(p) \/ Look(p) \/ WakeTask(p) \/ WakeThread(p)
    BY <1>2, <1>3, <2>4, ReturnMoves
  <2> QED
    BY <2>1, <2>2, <2>3, <2>4 DEF ReturnStep
<1> QED
  BY <1>1, <1>2, <1>4 DEF Returning

\* The steps of a return, by a client.
LEMMA ReturnControl ==
    ASSUME Control, NEW p \in Clients,
           GiveBack(p) \/ (p \in Tasks /\ FrameDies(p)) \/ ReturnStep(p)
    PROVE  Control'
<1>1. p \in Procs /\ p # Nobody /\ Placed
  BY ConnectionPoolAssumption DEF Procs, Control
<1>2. stage[p] = "none"
  BY <1>1, ReturnPlaces
<1>3. UNCHANGED <<life, asyncOwner>>
  BY DEF GiveBack, FrameDies, ReturnStep, Offer, Discard, NoteFreed, Look, WakeTask, WakeThread,
         locks
<1>4. p \in Tasks => asyncOwner # p
  BY <1>2 DEF Control, Locked
<1>5. ASSUME NEW place \in {"out"} \cup Returning, Moves(p, place, "none"),
             livenessOwner' \in {livenessOwner, p, Nobody},
             livenessOwner # p /\ livenessOwner # Nobody => livenessOwner' = livenessOwner,
             livenessOwner' = p => alive,
             place \in Returning => livenessOwner' = p
      PROVE  Control'
  <2>1. Fits(p)'
    <3>1. CASE p \in Threads
      BY <1>5, <3>1, ThreadFits DEF Returning
    <3>2. CASE p \in Tasks
      BY <1>5, <3>2, TaskFits DEF Returning, Outside
    <3> QED
      BY <3>1, <3>2 DEF Clients
  <2> QED
    BY <1>3, <1>4, <1>5, <2>1, ClientControl
<1>6. pc[p] \in Returning => livenessOwner = p /\ alive
  BY <1>1 DEF Control, Locked
<1>7. livenessOwner = p => alive
  BY <1>1 DEF Control, Locked
<1> USE DEF MovesAlone
<1>8. CASE GiveBack(p)
  <2>1. livenessOwner = Nobody
    BY <1>8 DEF GiveBack
  <2> QED
    BY <1>1, <1>2, <1>5, <1>8, <2>1, ReturnMoves DEF Returning
<1>9. CASE FrameDies(p)
  <2>1. livenessOwner = Nobody
    BY <1>9 DEF FrameDies
  <2> QED
    BY <1>1, <1>2, <1>5, <1>9, <2>1, ReturnMoves DEF Returning
<1>10. CASE Offer(p)
  <2>1. livenessOwner = p /\ alive
    BY <1>6, <1>10 DEF Offer, Returning
  <2> QED
    BY <1>1, <1>2, <1>5, <1>10, <2>1, ReturnMoves DEF Returning, ReleaseLiveness
<1>11. CASE Discard(p) \/ NoteFreed(p) \/ WakeTask(p)
  <2>1. livenessOwner = p /\ alive /\ livenessOwner' = p
    BY <1>6, <1>11 DEF Discard, NoteFreed, WakeTask, Returning, locks
  <2> QED
    BY <1>1, <1>2, <1>5, <1>11, <2>1, ReturnMoves DEF Returning
<1>12. CASE Look(p)
  <2>1. livenessOwner = p /\ alive
    BY <1>6, <1>12 DEF Look, Returning
  <2> QED
    BY <1>1, <1>2, <1>5, <1>12, <2>1, ReturnMoves DEF Returning, ReleaseLiveness
<1>13. CASE WakeThread(p)
  <2>1. livenessOwner = p /\ livenessOwner' = Nobody
    BY <1>6, <1>13 DEF WakeThread, Returning, ReleaseLiveness
  <2> QED
    BY <1>1, <1>2, <1>5, <1>13, <2>1, ReturnMoves DEF Returning
<1> QED
  BY <1>8, <1>9, <1>10, <1>11, <1>12, <1>13 DEF ReturnStep

\* Where the health thread goes.
LEMMA HealthPlaces ==
    ASSUME Placed, ReturnStep(Health) \/ Evict
    PROVE  \E place \in {"out"} \cup (Returning \ {"offer", "discard"}) : Moves(Health, place, "none")
<1>1. Health \in Procs /\ stage[Health] = "none" /\ pc[Health] \notin {"offer", "discard"}
  BY DEF Placed, Returning, Procs
<1> USE DEF MovesAlone, Returning
<1>2. CASE Evict
  BY <1>1, <1>2, DestructorMoves
<1>3. CASE NoteFreed(Health) \/ Look(Health) \/ WakeTask(Health) \/ WakeThread(Health)
  BY <1>1, <1>3, ReturnMoves
<1> QED
  BY <1>1, <1>2, <1>3 DEF ReturnStep, Offer, Discard

\* The health thread wakes waiters after an eviction, as long as the destructor has not joined it.
LEMMA HealthControl ==
    ASSUME Control, ReturnStep(Health) \/ Evict
    PROVE  Control'
<1>1. /\ Health \in Procs /\ Destructor \in Procs /\ Health \notin Clients /\ Health \notin Tasks
      /\ Health \notin Threads /\ Health # Destructor /\ Health # Nobody
  BY ConnectionPoolAssumption DEF Procs, Clients
<1>2. Placed /\ stage[Health] = "none" /\ pc[Health] \notin {"offer", "discard"}
  BY DEF Control, Placed, Returning
<1>3. livenessOwner # Health
  BY <1>1 DEF Control, Locked
<1>4. UNCHANGED <<life, locks>>
  BY <1>2, <1>3 DEF ReturnStep, Offer, Discard, NoteFreed, Look, WakeTask, WakeThread, Evict, locks,
                    ReleaseLiveness
<1>5. pc[Destructor] \in {"out", "request"}
  <2>1. ASSUME Evict PROVE pc[Destructor] \in {"out", "request"}
    BY <2>1 DEF Evict, HealthRuns
  <2>2. ASSUME ReturnStep(Health) PROVE pc[Health] # "out"
    BY <2>2 DEF ReturnStep, Offer, Discard, NoteFreed, Look, WakeTask, WakeThread
  <2> QED
    BY <2>1, <2>2 DEF Control, Locked
<1>6. PICK place \in {"out"} \cup (Returning \ {"offer", "discard"}) : Moves(Health, place, "none")
  BY <1>2, HealthPlaces
<1>7. Fits(Health)'
  BY <1>1, <1>6 DEF Moves, Fits
<1>8. Placed'
  BY <1>1, <1>2, <1>6, <1>7, PlacedKept
<1>9. pc'[Destructor] = pc[Destructor]
  BY <1>1, <1>5, <1>6 DEF Moves
<1>10. UNCHANGED <<alive, shuttingDown, livenessOwner, asyncOwner>>
  BY <1>4 DEF life, locks
<1>11. /\ alive' \in BOOLEAN /\ (alive' <=> pc'[Destructor] = "out")
       /\ shuttingDown' \in BOOLEAN /\ (shuttingDown' <=> pc'[Destructor] \in Closing)
  BY <1>9, <1>10 DEF Control, Locked
<1>12. livenessOwner' # Nobody => alive'
  BY <1>10 DEF Control, Locked
<1>13. Locked'
  BY <1>1, <1>5, <1>6, <1>8, <1>9, <1>10, <1>11, <1>12, LockedKept
<1> QED
  BY <1>8, <1>13 DEF Control

\* The destructor.
LEMMA DestructorControl ==
    ASSUME Control, BeginDestruction \/ DestructorStep
    PROVE  Control'
<1>1. /\ Health \in Procs /\ Destructor \in Procs /\ Destructor \notin Clients
      /\ Destructor \notin Tasks /\ Destructor \notin Threads /\ Health # Destructor
  BY ConnectionPoolAssumption DEF Procs, Clients
<1>2. Placed /\ stage[Destructor] = "none"
  BY DEF Control, Placed
<1>3. UNCHANGED <<livenessOwner, asyncOwner>>
  BY DEF BeginDestruction, DestructorStep, JoinHealth, CloseIdle, AwaitThreads, Sweep, Free, locks
<1>4. ASSUME NEW place \in {"request", "close"} \cup Closing, Moves(Destructor, place, "none"),
             alive' = FALSE, shuttingDown' \in BOOLEAN, shuttingDown' <=> place \in Closing,
             livenessOwner = Nobody,
             place # "request" => pc[Health] = "out"
      PROVE  Control'
  <2>1. Fits(Destructor)'
    BY <1>1, <1>4 DEF Moves, Fits
  <2>2. Placed'
    BY <1>1, <1>2, <1>4, <2>1, PlacedKept
  <2>3. pc'[Destructor] = place /\ (pc[Health] = "out" => pc'[Health] = "out")
    BY <1>1, <1>4 DEF Moves
  <2>4. /\ alive' \in BOOLEAN /\ (alive' <=> pc'[Destructor] = "out")
        /\ shuttingDown' \in BOOLEAN /\ (shuttingDown' <=> pc'[Destructor] \in Closing)
    BY <1>4, <2>3 DEF Closing
  <2>5. pc'[Destructor] \notin {"out", "request"} => pc'[Health] = "out"
    BY <1>4, <2>3
  <2>6. Locked'
    BY <1>1, <1>3, <1>4, <2>2, <2>4, <2>5, LockedKept
  <2> QED
    BY <2>2, <2>6 DEF Control
<1>5. pc[Destructor] # "out" => alive = FALSE /\ livenessOwner = Nobody
  BY DEF Control, Locked
<1>6. pc[Destructor] \notin {"out", "request"} => pc[Health] = "out"
  BY DEF Control, Locked
<1>7. shuttingDown \in BOOLEAN /\ (shuttingDown <=> pc[Destructor] \in Closing)
  BY DEF Control, Locked
<1> USE DEF MovesAlone
<1>8. CASE BeginDestruction
  <2>1. alive' = FALSE /\ shuttingDown' = FALSE /\ livenessOwner = Nobody
    BY <1>7, <1>8 DEF BeginDestruction, Closing
  <2> QED
    BY <1>2, <1>4, <1>8, <2>1, DestructorMoves DEF Closing
<1>9. CASE JoinHealth
  <2>1. pc[Destructor] = "request" /\ pc[Health] = "out" /\ alive' = alive /\ shuttingDown' = FALSE
    BY <1>7, <1>9 DEF JoinHealth, life, Closing
  <2> QED
    BY <1>2, <1>4, <1>5, <1>9, <2>1, DestructorMoves DEF Closing
<1>10. CASE CloseIdle
  <2>1. pc[Destructor] = "close" /\ alive' = alive /\ shuttingDown' = TRUE
    BY <1>10 DEF CloseIdle
  <2> QED
    BY <1>2, <1>4, <1>5, <1>6, <1>10, <2>1, DestructorMoves DEF Closing
<1>11. CASE AwaitThreads \/ Sweep \/ Free
  <2>1. pc[Destructor] \in Closing /\ alive' = alive /\ shuttingDown' = TRUE
    BY <1>7, <1>11 DEF AwaitThreads, Sweep, Free, life, Closing
  <2>2. \E place \in Closing : Moves(Destructor, place, "none")
    BY <1>2, <1>11, DestructorMoves DEF Closing
  <2> QED
    BY <1>4, <1>5, <1>6, <2>1, <2>2 DEF Closing
<1> QED
  BY <1>8, <1>9, <1>10, <1>11 DEF DestructorStep

\* The steps of the pool, one by one.
Steps ==
    \/ \E p \in Threads : CallFromThread(p) \/ ThreadStep(p) \/ ThreadTimeout(p)
    \/ \E t \in Tasks : CallFromTask(t) \/ TaskStep(t)
    \/ \E p \in Clients : GiveBack(p) \/ (p \in Tasks /\ FrameDies(p)) \/ ReturnStep(p)
    \/ \E tasks \in SUBSET Tasks : expireTimedOutWaiters(tasks)
    \/ ReturnStep(Health) \/ Evict
    \/ BeginDestruction \/ DestructorStep

\* Next is these steps, actor by actor.
LEMMA NextSteps == ASSUME Next PROVE Steps
<1>1. Threads \subseteq Clients /\ Tasks \subseteq Clients
  BY DEF Clients
<1> QED
  BY <1>1 DEF Next, Steps, ClientStep, Expire

\* Control is inductive by itself.
LEMMA ControlInit == ASSUME Init PROVE Control
<1>1. "out" \in Pcs /\ "none" \in Stages /\ "out" \in Outside
  BY DEF Pcs, Stages, Outside
<1>2. /\ pc \in [Procs -> Pcs] /\ stage \in [Procs -> Stages]
      /\ \A p \in Procs : pc[p] = "out" /\ stage[p] = "none"
  BY <1>1 DEF Init
<1>3. Placed
  <2>1. Threads \subseteq Procs /\ Tasks \subseteq Procs /\ {Health, Destructor} \subseteq Procs
    BY DEF Procs, Clients
  <2> QED
    BY <1>1, <1>2, <2>1 DEF Placed, ThreadPlaced, TaskPlaced
<1>4. Locked
  <2>1. Tasks \subseteq Procs /\ Clients \subseteq Procs /\ {Health, Destructor} \subseteq Procs
    BY DEF Procs, Clients
  <2>2. \A t \in Tasks : t # Nobody
    BY <2>1, ConnectionPoolAssumption
  <2>3. alive = TRUE /\ shuttingDown = FALSE /\ livenessOwner = Nobody /\ asyncOwner = Nobody
    BY DEF Init
  <2>4. \A q \in Procs : pc[q] \notin Returning \cup Closing
    BY <1>2 DEF Returning, Closing
  <2> QED
    BY <1>2, <2>1, <2>2, <2>3, <2>4 DEF Locked
<1> QED
  BY <1>3, <1>4 DEF Control

\* Every step keeps the places and the locks in order.
LEMMA ControlStep == ASSUME Control, Next PROVE Control'
<1>1. ASSUME NEW tasks, expireTimedOutWaiters(tasks) PROVE Control'
  <2>1. UNCHANGED <<pc, stage, alive, shuttingDown, livenessOwner, asyncOwner>>
    BY <1>1 DEF expireTimedOutWaiters, locks, life, places
  <2> QED
    BY <2>1 DEF Control, Placed, Locked, ThreadPlaced, TaskPlaced
<1>2. Steps
  BY NextSteps
<1> QED
  BY <1>1, <1>2, ThreadControl, TaskControl, ReturnControl, HealthControl, DestructorControl DEF Steps

-----------------------------------------------------------------------------
(* Counted: who enters or leaves a wait is counted                         *)

\* A number that counts the members of a set, when one of them is in it or not, before and after.
Tally(n, was, is) == IF was THEN IF is THEN n ELSE n - 1
                            ELSE IF is THEN n + 1 ELSE n

\* Adding or removing one member changes the number as Tally says.
LEMMA TallyCounts ==
    ASSUME NEW S, IsFiniteSet(S), NEW p, NEW is \in BOOLEAN
    PROVE  LET T == IF is THEN S \cup {p} ELSE S \ {p}
           IN  IsFiniteSet(T) /\ Cardinality(T) = Tally(Cardinality(S), p \in S, is)
<1>1. CASE is
  BY <1>1, FS_AddElement DEF Tally
<1>2. CASE ~is /\ p \in S
  BY <1>2, FS_RemoveElement DEF Tally
<1>3. CASE ~is /\ p \notin S
  <2>1. S \ {p} = S
    BY <1>3
  <2> QED
    BY <1>3, <2>1 DEF Tally
<1> QED
  BY <1>1, <1>2, <1>3

\* There are finitely many waiters of either kind.
LEMMA WaitersFinite ==
    IsFiniteSet(WaitingThreads) /\ IsFiniteSet(RegisteringTasks)
<1>1. IsFiniteSet(Clients) /\ WaitingThreads \subseteq Clients /\ RegisteringTasks \subseteq Clients
  BY ConnectionPoolAssumption DEF WaitingThreads, RegisteringTasks, Clients
<1> QED
  BY <1>1, FS_Subset

\* Only the process that moves enters or leaves.
LEMMA CountedMoves ==
    ASSUME Placed, Counted, NEW p \in Procs, NEW place, NEW attempt, Moves(p, place, attempt),
           syncWaiting' = Tally(syncWaiting, p \in WaitingThreads, p \in Threads /\ attempt = "wait"),
           registering' = Tally(registering, p \in RegisteringTasks,
                                p \in Tasks /\ (place = "register" \/ attempt \in {"suspend", "locked"}))
    PROVE  Counted'
<1> DEFINE waits == p \in Threads /\ attempt = "wait"
           registers == p \in Tasks /\ (place = "register" \/ attempt \in {"suspend", "locked"})
<1>1. \A q \in Procs \ {p} : stage'[q] = stage[q] /\ (pc'[q] = "register" <=> pc[q] = "register")
  BY DEF Moves
<1>2. pc'[p] = place /\ stage'[p] = attempt
  BY DEF Moves
<1>3. Threads \subseteq Procs /\ Tasks \subseteq Procs
  BY DEF Procs, Clients
<1>4. WaitingThreads' = IF waits THEN WaitingThreads \cup {p} ELSE WaitingThreads \ {p}
  BY <1>1, <1>2, <1>3 DEF WaitingThreads
<1>5. RegisteringTasks' = IF registers THEN RegisteringTasks \cup {p} ELSE RegisteringTasks \ {p}
  BY <1>1, <1>2, <1>3 DEF RegisteringTasks
<1>6. waits \in BOOLEAN /\ registers \in BOOLEAN
  OBVIOUS
<1> HIDE DEF waits, registers
<1>7. Cardinality(WaitingThreads') = Tally(Cardinality(WaitingThreads), p \in WaitingThreads, waits)
  BY <1>4, <1>6, WaitersFinite, TallyCounts
<1>8. Cardinality(RegisteringTasks')
         = Tally(Cardinality(RegisteringTasks), p \in RegisteringTasks, registers)
  BY <1>5, <1>6, WaitersFinite, TallyCounts
<1> QED
  BY <1>7, <1>8 DEF Counted, waits, registers

\* The same for a thread, and for a coroutine.
LEMMA ThreadCounted ==
    ASSUME Placed, Counted, NEW p \in Threads, NEW place, NEW attempt, Moves(p, place, attempt),
           UNCHANGED registering,
           syncWaiting' = Tally(syncWaiting, stage[p] = "wait", attempt = "wait")
    PROVE  Counted'
<1>1. p \in Procs /\ p \notin Tasks
  BY ConnectionPoolAssumption DEF Procs, Clients
<1>2. p \in WaitingThreads <=> stage[p] = "wait"
  BY DEF WaitingThreads
<1>3. syncWaiting' = Tally(syncWaiting, p \in WaitingThreads, p \in Threads /\ attempt = "wait")
  BY <1>2 DEF Tally
<1>4. registering' = Tally(registering, p \in RegisteringTasks,
                           p \in Tasks /\ (place = "register" \/ attempt \in {"suspend", "locked"}))
  BY <1>1 DEF Tally, RegisteringTasks
<1> QED
  BY <1>1, <1>3, <1>4, CountedMoves

\* What a coroutine counts when it moves.
LEMMA TaskCounted ==
    ASSUME Placed, Counted, NEW t \in Tasks, NEW place, NEW attempt, Moves(t, place, attempt),
           UNCHANGED syncWaiting,
           registering' = Tally(registering, pc[t] = "register" \/ stage[t] \in {"suspend", "locked"},
                                place = "register" \/ attempt \in {"suspend", "locked"})
    PROVE  Counted'
<1>1. t \in Procs /\ t \notin Threads
  BY ConnectionPoolAssumption DEF Procs, Clients
<1>2. t \in RegisteringTasks <=> pc[t] = "register" \/ stage[t] \in {"suspend", "locked"}
  BY DEF RegisteringTasks
<1>3. syncWaiting' = Tally(syncWaiting, t \in WaitingThreads, t \in Threads /\ attempt = "wait")
  BY <1>1 DEF Tally, WaitingThreads
<1>4. registering' = Tally(registering, t \in RegisteringTasks,
                           t \in Tasks /\ (place = "register" \/ attempt \in {"suspend", "locked"}))
  BY <1>2 DEF Tally
<1> QED
  BY <1>1, <1>3, <1>4, CountedMoves

\* A client that changes neither whether it waits nor whether it registers.
LEMMA ClientCounted ==
    ASSUME Placed, Counted, NEW p \in Clients, NEW place, NEW attempt, Moves(p, place, attempt),
           UNCHANGED <<syncWaiting, registering>>,
           stage[p] = "wait" <=> attempt = "wait",
           pc[p] = "register" \/ stage[p] \in {"suspend", "locked"}
             <=> place = "register" \/ attempt \in {"suspend", "locked"}
    PROVE  Counted'
<1>1. CASE p \in Threads
  <2>1. syncWaiting' = Tally(syncWaiting, stage[p] = "wait", attempt = "wait")
    BY DEF Tally
  <2> QED
    BY <1>1, <2>1, ThreadCounted
<1>2. CASE p \in Tasks
  <2>1. registering' = Tally(registering, pc[p] = "register" \/ stage[p] \in {"suspend", "locked"},
                             place = "register" \/ attempt \in {"suspend", "locked"})
    BY DEF Tally
  <2> QED
    BY <1>2, <2>1, TaskCounted
<1> QED
  BY <1>1, <1>2 DEF Clients

\* An attempt counts nobody in or out.
LEMMA TryCounted ==
    ASSUME Control, Counted, NEW p \in Clients, TryStep(p)
    PROVE  Counted'
<1>1. UNCHANGED <<syncWaiting, registering>>
  BY DEF TryStep, PopEmpty, PopEntry, Drop, NoteDrop, Reserve, Create, queue
<1>2. Placed /\ p \in Procs
  BY DEF Control, Procs
<1>3. PICK place \in Trying : Moves(p, place, stage[p])
  BY <1>2, TryPlaces DEF MovesAlone
<1>4. pc[p] # "register" /\ place # "register"
  BY <1>2, TryPlaces DEF Trying
<1> QED
  BY <1>1, <1>2, <1>3, <1>4, ClientCounted

\* A thread counts itself in when its wait begins, and out when it ends, however it ends.
LEMMA ThreadStepCounted ==
    ASSUME Control, Counted, NEW p \in Threads,
           CallFromThread(p) \/ ThreadStep(p) \/ ThreadTimeout(p)
    PROVE  Counted'
<1>1. p \in Clients /\ p \in Procs /\ Placed /\ ThreadPlaced(p)
  BY DEF Clients, Procs, Control, Placed
<1>2. UNCHANGED registering \/ TryStep(p)
  BY DEF CallFromThread, ThreadStep, ThreadTimeout, ThreadGot, ThreadEmpty, ThreadGate,
         ThreadEnter, ThreadWaits, ThreadWoken, queue
<1> USE DEF MovesAlone
<1>3. CASE TryStep(p)
  BY <1>1, <1>3, TryCounted
<1>4. CASE CallFromThread(p) /\ ~TryStep(p)
  <2>1. stage[p] = "none" /\ UNCHANGED syncWaiting
    BY <1>1, <1>4 DEF CallFromThread, ThreadPlaced, Trying, Returning
  <2>2. \E attempt \in {"fast", "try"} : Moves(p, "pop", attempt)
    BY <1>1, <1>4, ThreadMoves
  <2> QED
    BY <1>2, <1>1, <1>4, <2>1, <2>2, ThreadCounted DEF Tally
<1>5. CASE ThreadGot(p) /\ ~TryStep(p)
  <2>1. Moves(p, "held", "none")
    BY <1>1, <1>5, ThreadMoves
  <2>2. syncWaiting' = Tally(syncWaiting, stage[p] = "wait", FALSE)
    BY <1>5 DEF ThreadGot, Tally
  <2> QED
    BY <1>1, <1>2, <1>5, <2>1, <2>2, ThreadCounted
<1>6. CASE ThreadEmpty(p) /\ ~TryStep(p)
  <2>1. stage[p] \in {"fast", "grow", "try"} /\ UNCHANGED syncWaiting
    BY <1>1, <1>6 DEF ThreadEmpty, ThreadPlaced, Returning
  <2>2. \E place \in {"pop", "gate", "out"}, attempt \in {"grow", "none"} : Moves(p, place, attempt)
    BY <1>1, <1>6, <2>1, ThreadMoves
  <2> QED
    BY <1>1, <1>2, <1>6, <2>1, <2>2, ThreadCounted DEF Tally
<1>7. CASE ThreadGate(p) /\ ~TryStep(p)
  <2>1. stage[p] = "grow" /\ UNCHANGED syncWaiting
    BY <1>1, <1>7 DEF ThreadGate, ThreadPlaced, Returning, Trying
  <2>2. \E place \in {"out", "enter"}, attempt \in {"grow", "none"} : Moves(p, place, attempt)
    BY <1>1, <1>7, <2>1, ThreadMoves
  <2> QED
    BY <1>1, <1>2, <1>7, <2>1, <2>2, ThreadCounted DEF Tally
<1>8. CASE ThreadEnter(p) /\ ~TryStep(p)
  <2>1. stage[p] = "grow"
    BY <1>1, <1>8 DEF ThreadEnter, ThreadPlaced, Returning, Trying
  <2>2. CASE shuttingDown
    <3>1. Moves(p, "out", "none") /\ UNCHANGED syncWaiting
      BY <1>1, <1>8, <2>2, ThreadMoves DEF ThreadEnter
    <3> QED
      BY <1>1, <1>2, <1>8, <2>1, <3>1, ThreadCounted DEF Tally
  <2>3. CASE ~shuttingDown
    <3>1. Moves(p, "pop", "wait") /\ syncWaiting' = syncWaiting + 1
      BY <1>1, <1>8, <2>3, ThreadMoves DEF ThreadEnter
    <3> QED
      BY <1>1, <1>2, <1>8, <2>1, <3>1, ThreadCounted DEF Tally
  <2> QED
    BY <2>2, <2>3
<1>9. ASSUME stage[p] = "wait", Leave(p), UNCHANGED registering PROVE Counted'
  <2>1. Moves(p, "out", "none") /\ syncWaiting' = syncWaiting - 1
    BY <1>1, <1>9, ThreadMoves DEF Leave
  <2> QED
    BY <1>1, <1>9, <2>1, ThreadCounted DEF Tally
<1>10. ASSUME stage[p] = "wait", UNCHANGED <<syncWaiting, registering>>,
              Moves(p, "pop", "wait") \/ Moves(p, "asleep", "wait")
       PROVE  Counted'
  BY <1>1, <1>10, ThreadCounted DEF Tally
<1>11. CASE ThreadWaits(p) /\ ~TryStep(p)
  <2>1. stage[p] = "wait" /\ (shuttingDown \/ UNCHANGED syncWaiting)
    BY <1>11 DEF ThreadWaits
  <2> QED
    BY <1>1, <1>2, <1>9, <1>10, <1>11, <2>1, ThreadMoves
<1>12. CASE ThreadWoken(p) /\ ~TryStep(p)
  <2>1. stage[p] = "wait" /\ (shuttingDown \/ UNCHANGED syncWaiting)
    BY <1>1, <1>12 DEF ThreadWoken, ThreadPlaced, Trying, Returning
  <2> QED
    BY <1>1, <1>2, <1>9, <1>10, <1>12, <2>1, ThreadMoves
<1>13. CASE ThreadTimeout(p) /\ ~TryStep(p)
  <2>1. stage[p] = "wait" /\ Leave(p)
    BY <1>1, <1>13 DEF ThreadTimeout, ThreadPlaced, Trying, Returning
  <2> QED
    BY <1>2, <1>9, <1>13, <2>1
<1> QED
  BY <1>3, <1>4, <1>5, <1>6, <1>7, <1>8, <1>11, <1>12, <1>13 DEF ThreadStep

\* A coroutine is counted from await_suspend() to its end, in the list or not.
LEMMA TaskStepCounted ==
    ASSUME Control, Counted, NEW t \in Tasks, CallFromTask(t) \/ TaskStep(t)
    PROVE  Counted'
<1>1. t \in Clients /\ t \in Procs /\ Placed /\ TaskPlaced(t)
  BY DEF Clients, Procs, Control, Placed
\* Only registering and unregistering count.
<1>2. ASSUME NEW place, NEW attempt, Moves(t, place, attempt), UNCHANGED <<syncWaiting, registering>>,
             pc[t] = "register" \/ stage[t] \in {"suspend", "locked"}
               <=> place = "register" \/ attempt \in {"suspend", "locked"}
      PROVE  Counted'
  <2>1. registering' = Tally(registering, pc[t] = "register" \/ stage[t] \in {"suspend", "locked"},
                             place = "register" \/ attempt \in {"suspend", "locked"})
    BY <1>2 DEF Tally
  <2> QED
    BY <1>1, <1>2, <2>1, TaskCounted
<1>3. ASSUME NEW place \in Outside, Unregister(t, place), UNCHANGED syncWaiting,
             pc[t] = "register" \/ stage[t] \in {"suspend", "locked"}
      PROVE  Counted'
  <2>1. Moves(t, place, "none") /\ registering' = registering - 1
    BY <1>1, <1>3, GoOutside DEF Unregister, MovesAlone
  <2>2. registering' = Tally(registering, pc[t] = "register" \/ stage[t] \in {"suspend", "locked"},
                             place = "register" \/ "none" \in {"suspend", "locked"})
    BY <1>3, <2>1 DEF Tally, Outside
  <2> QED
    BY <1>1, <1>3, <2>1, <2>2, TaskCounted
<1>4. {"resumed", "suspended", "refused", "taken", "decide", "spoiled", "held", "out"} \subseteq Outside
  BY DEF Outside
<1> USE DEF MovesAlone
<1>5. CASE TryStep(t)
  BY <1>1, <1>5, TryCounted
<1>6. ASSUME pc[t] \in Outside
      PROVE  pc[t] # "register" /\ stage[t] \notin {"suspend", "locked"}
  BY <1>1, <1>6 DEF TaskPlaced, Outside, Trying, Returning
<1>7. CASE CallFromTask(t)
  <2>1. pc[t] \in Outside /\ UNCHANGED <<syncWaiting, registering>>
    BY <1>7 DEF CallFromTask, queue, Outside
  <2> QED
    BY <1>1, <1>2, <1>6, <1>7, <2>1, TaskMoves
<1>8. CASE TaskGot(t)
  <2>1. pc[t] = "got" /\ UNCHANGED syncWaiting
    BY <1>8 DEF TaskGot
  <2>2. CASE stage[t] = "ready"
    <3>1. UNCHANGED registering
      BY <1>8, <2>2 DEF TaskGot, queue
    <3> QED
      BY <1>1, <1>2, <1>8, <2>1, <2>2, <3>1, TaskMoves
  <2>3. CASE stage[t] # "ready"
    <3>1. stage[t] \in {"suspend", "locked"}
      BY <1>1, <2>1, <2>3 DEF TaskPlaced, Outside, Returning
    <3>2. Unregister(t, "resumed")
      BY <1>8, <2>3 DEF TaskGot
    <3> QED
      BY <1>3, <1>4, <2>1, <3>1, <3>2
  <2> QED
    BY <2>2, <2>3
<1>9. CASE TaskNotReady(t)
  <2>1. /\ UNCHANGED syncWaiting /\ pc[t] = "empty" /\ stage[t] = "ready"
        /\ registering' = registering + 1
    BY <1>9 DEF TaskNotReady
  <2>2. registering' = Tally(registering, pc[t] = "register" \/ stage[t] \in {"suspend", "locked"},
                             "register" = "register" \/ "ready" \in {"suspend", "locked"})
    BY <2>1 DEF Tally
  <2> QED
    BY <1>1, <1>9, <2>1, <2>2, TaskCounted, TaskMoves
<1>10. CASE TaskRegister(t)
  <2>1. UNCHANGED syncWaiting /\ pc[t] = "register"
    BY <1>10 DEF TaskRegister
  <2> QED
    BY <1>1, <1>2, <1>3, <1>4, <1>10, <2>1, TaskMoves
<1>11. CASE TaskNeedsLock(t)
  <2>1. UNCHANGED syncWaiting /\ stage[t] = "suspend"
    BY <1>11 DEF TaskNeedsLock
  <2>2. CASE Unregister(t, "resumed")
    BY <1>3, <1>4, <2>1, <2>2
  <2>3. CASE UNCHANGED queue /\ Moves(t, "lock", "suspend")
    BY <1>2, <2>1, <2>3 DEF queue
  <2> QED
    BY <1>1, <1>11, <2>2, <2>3, TaskMoves
<1>12. CASE TaskLocks(t)
  <2>1. UNCHANGED <<syncWaiting, registering>> /\ stage[t] = "suspend"
    BY <1>1, <1>12 DEF TaskLocks, queue, TaskPlaced, Outside, Trying, Returning
  <2> QED
    BY <1>1, <1>2, <1>12, <2>1, TaskMoves
<1>13. CASE TaskComparesEpoch(t)
  <2>1. UNCHANGED <<syncWaiting, registering>> /\ stage[t] = "locked"
    BY <1>13 DEF TaskComparesEpoch, queue
  <2> QED
    BY <1>1, <1>2, <1>13, <2>1, TaskMoves
<1>14. CASE TaskEnlist(t)
  <2>1. UNCHANGED syncWaiting /\ stage[t] = "locked"
    BY <1>1, <1>14 DEF TaskEnlist, TaskPlaced, Outside, Trying, Returning
  <2>2. \E place \in {"suspended", "resumed", "refused"} : Unregister(t, place)
    BY <1>14 DEF TaskEnlist
  <2> QED
    BY <1>3, <1>4, <2>1, <2>2
<1>15. CASE TaskResume(t)
  <2>1. UNCHANGED <<syncWaiting, registering>>
    BY <1>15 DEF TaskResume, queue
  <2>2. CASE UNCHANGED places
    <3>1. UNCHANGED <<pc, stage, syncWaiting, registering>>
      BY <2>1, <2>2 DEF places
    <3> QED
      BY <3>1 DEF Counted, WaitingThreads, RegisteringTasks
  <2>3. CASE pc[t] = "suspended" /\ Moves(t, "resumed", "none")
    BY <1>2, <1>4, <1>6, <2>1, <2>3
  <2> QED
    BY <1>1, <1>15, <2>2, <2>3, TaskMoves
<1>16. CASE AwaitResume(t)
  <2>1. pc[t] \in Outside /\ UNCHANGED <<syncWaiting, registering>>
    BY <1>16 DEF AwaitResume, queue, Outside
  <2> QED
    BY <1>1, <1>2, <1>6, <1>16, <2>1, TaskMoves
<1>17. CASE TaskDecides(t)
  <2>1. pc[t] \in Outside /\ UNCHANGED <<syncWaiting, registering>>
    BY <1>17 DEF TaskDecides, queue, Outside
  <2> QED
    BY <1>1, <1>2, <1>6, <1>17, <2>1, TaskMoves
<1> QED
  BY <1>5, <1>7, <1>8, <1>9, <1>10, <1>11, <1>12, <1>13, <1>14, <1>15, <1>16, <1>17 DEF TaskStep

\* Nobody else counts.
LEMMA OtherCounted ==
    ASSUME Control, Counted, NEW p \in {Health, Destructor}, NEW place, NEW attempt,
           Moves(p, place, attempt), UNCHANGED <<syncWaiting, registering>>
    PROVE  Counted'
<1>1. p \in Procs /\ p \notin Threads /\ p \notin Tasks
  BY ConnectionPoolAssumption DEF Procs, Clients
<1>2. syncWaiting' = Tally(syncWaiting, p \in WaitingThreads, p \in Threads /\ attempt = "wait")
  BY <1>1 DEF Tally, WaitingThreads
<1>3. registering' = Tally(registering, p \in RegisteringTasks,
                           p \in Tasks /\ (place = "register" \/ attempt \in {"suspend", "locked"}))
  BY <1>1 DEF Tally, RegisteringTasks
<1> QED
  BY <1>1, <1>2, <1>3, CountedMoves DEF Control

\* Every step keeps the two counts right.
LEMMA CountedStep ==
    ASSUME Control, Counted, Next
    PROVE  Counted'
<1>1. ASSUME NEW p \in Clients, GiveBack(p) \/ (p \in Tasks /\ FrameDies(p)) \/ ReturnStep(p)
      PROVE  Counted'
  <2>1. UNCHANGED <<syncWaiting, registering>>
    BY <1>1 DEF GiveBack, FrameDies, ReturnStep, Offer, Discard, NoteFreed, Look, WakeTask,
                WakeThread, queue
  <2>2. PICK place \in {"out"} \cup Returning : Moves(p, place, "none")
    BY <1>1, ReturnPlaces DEF Control
  <2>3. stage[p] = "none" /\ pc[p] # "register" /\ place # "register"
    BY <1>1, ReturnPlaces DEF Control, Returning
  <2> QED
    BY <2>1, <2>2, <2>3, ClientCounted DEF Control
<1>2. ASSUME ReturnStep(Health) \/ Evict PROVE Counted'
  <2>1. UNCHANGED <<syncWaiting, registering>>
    BY <1>2 DEF Evict, ReturnStep, Offer, Discard, NoteFreed, Look, WakeTask, WakeThread, queue
  <2> QED
    BY <1>2, <2>1, HealthPlaces, OtherCounted DEF Control
<1>3. ASSUME BeginDestruction \/ DestructorStep PROVE Counted'
  <2>1. UNCHANGED <<syncWaiting, registering>>
    BY <1>3 DEF BeginDestruction, DestructorStep, JoinHealth, CloseIdle, AwaitThreads, Sweep, Free,
                queue
  <2>2. \E place \in Pcs : Moves(Destructor, place, stage[Destructor])
    BY <1>3, DestructorMoves DEF Control, MovesAlone, DestructorStep, Pcs
  <2> QED
    BY <2>1, <2>2, OtherCounted
<1>4. ASSUME NEW tasks, expireTimedOutWaiters(tasks) PROVE Counted'
  <2>1. UNCHANGED <<pc, stage, syncWaiting, registering>>
    BY <1>4 DEF expireTimedOutWaiters, places
  <2> QED
    BY <2>1 DEF Counted, WaitingThreads, RegisteringTasks
<1>5. Steps
  BY NextSteps
<1> QED
  BY <1>1, <1>2, <1>3, <1>4, <1>5, ThreadStepCounted, TaskStepCounted DEF Steps

-----------------------------------------------------------------------------
(* Queued: every coroutine that waits is in one place                      *)

\* Whatever a client does, it moves at most itself and sleepers.
LEMMA StepMoves ==
    ASSUME Placed, NEW p \in Clients,
           \/ p \in Threads /\ (CallFromThread(p) \/ ThreadStep(p) \/ ThreadTimeout(p))
           \/ p \in Tasks /\ (CallFromTask(p) \/ TaskStep(p))
           \/ GiveBack(p) \/ (p \in Tasks /\ FrameDies(p)) \/ ReturnStep(p)
    PROVE  \E place, attempt : Moves(p, place, attempt)
<1>1. p \in Procs
  BY DEF Procs
<1> USE DEF MovesAlone
<1>2. CASE TryStep(p)
  BY <1>1, <1>2, TryPlaces
<1>3. CASE p \in Threads /\ (CallFromThread(p) \/ ThreadStep(p) \/ ThreadTimeout(p)) /\ ~TryStep(p)
  <2>1. ThreadEmpty(p) => stage[p] \in {"fast", "grow", "try"}
    BY <1>3 DEF Placed, ThreadPlaced, ThreadEmpty, Returning
  <2> QED
    BY <1>1, <1>3, <2>1, ThreadMoves DEF ThreadStep, ThreadTimeout
<1>4. CASE p \in Tasks /\ (CallFromTask(p) \/ TaskStep(p)) /\ ~TryStep(p)
  <2>1. UNCHANGED places => Moves(p, pc[p], stage[p])
    BY <1>1 DEF places, Moves, Placed
  <2> QED
    BY <1>1, <1>4, <2>1, TaskMoves DEF TaskStep
<1>5. CASE GiveBack(p) \/ (p \in Tasks /\ FrameDies(p)) \/ ReturnStep(p)
  BY <1>5, ReturnPlaces
<1> QED
  BY <1>2, <1>3, <1>4, <1>5

\* A coroutine stays where it is when another process moves: it never sleeps on the condition.
LEMMA TasksStay ==
    ASSUME Placed, NEW p \in Procs, NEW place, NEW attempt, Moves(p, place, attempt),
           NEW t \in Tasks, t # p
    PROVE  pc'[t] = pc[t] /\ stage'[t] = stage[t]
<1>1. t \in Procs /\ TaskPlaced(t)
  BY DEF Procs, Clients, Placed
<1>2. pc[t] # "asleep"
  BY <1>1 DEF TaskPlaced, Outside, Returning, Trying
<1> QED
  BY <1>1, <1>2 DEF Moves

\* Coroutines that move may be suspended now; the others keep their places, tickets and
\* connections, or got one with a ticket.
LEMMA ListedAfter ==
    ASSUME Placed, Listed, NEW p \in Procs, NEW place, NEW attempt, Moves(p, place, attempt),
           alive' => alive,
           ListTypes',
           p \in Tasks => Waits(p)',
           \A t \in Tasks \ {p} :
               /\ t \in Involved' <=> t \in Involved
               /\ t \in posted \cup lost => t \in posted' \cup lost'
               /\ t \in handed' => \/ t \in handed
                                   \/ pc[t] = "suspended" /\ t \in posted' \cup lost'
    PROVE  Listed'
<1>1. ASSUME NEW t \in Tasks, t # p PROVE Waits(t)'
  <2>1. pc'[t] = pc[t]
    BY <1>1, TasksStay
  <2>2. Waits(t)
    BY DEF Listed
  <2> QED
    BY <1>1, <2>1, <2>2 DEF Waits
<1> QED
  BY <1>1 DEF Listed

\* Who is somewhere else is in no list, and was handed nothing.
LEMMA NotInvolved ==
    ASSUME Listed, NEW t \in Tasks
    PROVE  /\ pc[t] \notin {"suspended", "out"} => t \notin Involved
           /\ pc[t] = "out" /\ alive => t \notin Involved
           /\ pc[t] \notin {"suspended", "resumed"} => t \notin handed
BY DEF Listed, Waits

\* Steps that change no list and hand out nothing.
LEMMA ListedKept ==
    ASSUME Placed, Listed, NEW p \in Procs, NEW place, NEW attempt, Moves(p, place, attempt),
           alive' => alive,
           UNCHANGED <<waiters, handed, posted, lost>>, moved' \subseteq Tasks, woken' \subseteq Tasks,
           p \in Tasks => p \notin Involved /\ p \notin handed /\ place # "suspended"
    PROVE  Listed'
<1>1. ListTypes'
  BY DEF Listed, ListTypes
<1>2. Involved' = Involved
  BY DEF Involved
<1>3. p \in Tasks => Waits(p)'
  BY <1>2 DEF Waits, Moves
<1> QED
  BY <1>1, <1>2, <1>3, ListedAfter

\* Tickets sent are accepted or refused.
LEMMA Posted ==
    ASSUME NEW tickets, tickets \subseteq Tasks, Post(tickets), ListTypes
    PROVE  /\ posted' \cup lost' = posted \cup lost \cup tickets
           /\ posted' \subseteq Tasks /\ lost' \subseteq Tasks
           /\ tickets \cap (posted \cup lost) = {} => posted' \cap lost' = {}
BY DEF Post, ListTypes

\* The epoch is noted for coroutines only.
LEMMA MovedTasks ==
    ASSUME moved \subseteq Tasks, noteSlotFreedForRegisteringWaiters
    PROVE  moved' \subseteq Tasks
BY DEF noteSlotFreedForRegisteringWaiters, Registering

\* Threads touch no entry and no ticket.
LEMMA ThreadListed ==
    ASSUME Control, Listed, NEW p \in Threads,
           CallFromThread(p) \/ ThreadStep(p) \/ ThreadTimeout(p)
    PROVE  Listed'
<1>1. p \in Clients /\ p \in Procs /\ p \notin Tasks /\ Placed
  BY ConnectionPoolAssumption DEF Clients, Procs, Control
<1>2. UNCHANGED <<alive, awaiters, waiters>>
  BY DEF CallFromThread, ThreadStep, ThreadTimeout, ThreadGot, ThreadEmpty, ThreadGate, ThreadEnter,
         ThreadWaits, ThreadWoken, TryStep, PopEmpty, PopEntry, Drop, NoteDrop, Reserve, Create,
         queue, life
<1>3. UNCHANGED moved \/ noteSlotFreedForRegisteringWaiters
  BY DEF CallFromThread, ThreadStep, ThreadTimeout, ThreadGot, ThreadEmpty, ThreadGate, ThreadEnter,
         ThreadWaits, ThreadWoken, TryStep, PopEmpty, PopEntry, Drop, NoteDrop, Reserve, Create,
         queue
<1>4. moved' \subseteq Tasks
  BY <1>3, MovedTasks DEF Listed, ListTypes
<1>5. woken' \subseteq Tasks
  BY <1>2 DEF Listed, ListTypes, awaiters
<1>6. \E place, attempt : Moves(p, place, attempt)
  BY <1>1, StepMoves
<1> QED
  BY <1>1, <1>2, <1>4, <1>5, <1>6, ListedKept DEF awaiters

\* The entries and tickets change when a coroutine enlists, is resumed, or takes what it has.
LEMMA TaskListed ==
    ASSUME Control, Listed, NEW t \in Tasks, CallFromTask(t) \/ TaskStep(t)
    PROVE  Listed'
<1>1. t \in Clients /\ t \in Procs /\ Placed /\ TaskPlaced(t)
  BY DEF Clients, Procs, Control, Placed
<1>2. UNCHANGED alive
  BY DEF CallFromTask, TaskStep, TaskGot, TaskNotReady, TaskRegister, TaskNeedsLock, TaskLocks,
         TaskComparesEpoch, TaskEnlist, TaskResume, AwaitResume, TaskDecides, TryStep, PopEmpty,
         PopEntry, Drop, NoteDrop, Reserve, Create, life
<1>3. UNCHANGED moved \/ noteSlotFreedForRegisteringWaiters \/ moved' = moved \ {t}
  BY DEF CallFromTask, TaskStep, TaskGot, TaskNotReady, TaskRegister, TaskNeedsLock, TaskLocks,
         TaskComparesEpoch, TaskEnlist, TaskResume, AwaitResume, TaskDecides, TryStep, PopEmpty,
         PopEntry, Drop, NoteDrop, Reserve, Create, queue, Unregister
<1>4. moved' \subseteq Tasks
  BY <1>3, MovedTasks DEF Listed, ListTypes
<1>5. UNCHANGED woken \/ woken' = woken \ {t}
  BY DEF CallFromTask, TaskStep, TaskGot, TaskNotReady, TaskRegister, TaskNeedsLock, TaskLocks,
         TaskComparesEpoch, TaskEnlist, TaskResume, AwaitResume, TaskDecides, TryStep, PopEmpty,
         PopEntry, Drop, NoteDrop, Reserve, Create, awaiters
<1>6. woken' \subseteq Tasks
  BY <1>5 DEF Listed, ListTypes
<1>7. ListTypes
  BY DEF Listed
\* A step between places where nobody waits.
<1>8. ASSUME NEW place, NEW attempt, Moves(t, place, attempt), place # "suspended",
             pc[t] \notin {"suspended", "out", "resumed"} \/ (pc[t] = "out" /\ alive),
             UNCHANGED <<waiters, handed, posted, lost>>
      PROVE  Listed'
  BY <1>1, <1>2, <1>4, <1>6, <1>8, NotInvolved, ListedKept
<1> USE DEF MovesAlone
<1>9. CASE TryStep(t)
  <2>1. UNCHANGED <<waiters, handed, posted, lost>>
    BY <1>9 DEF TryStep, PopEmpty, PopEntry, Drop, NoteDrop, Reserve, Create, queue, awaiters
  <2>2. PICK place \in Trying : Moves(t, place, stage[t])
    BY <1>1, <1>9, TryPlaces
  <2>3. pc[t] \in Trying
    BY <1>1, <1>9, TryPlaces
  <2> QED
    BY <1>8, <2>1, <2>2, <2>3 DEF Trying
<1>10. CASE CallFromTask(t)
  <2>1. pc[t] = "out" /\ alive /\ UNCHANGED <<waiters, handed, posted, lost>>
    BY <1>10 DEF CallFromTask, queue, Open, Control, Locked
  <2> QED
    BY <1>1, <1>8, <1>10, <2>1, TaskMoves
<1>11. CASE TaskGot(t)
  <2>1. pc[t] = "got" /\ handed' = handed \cup {t} /\ UNCHANGED <<waiters, posted, lost>>
    BY <1>11 DEF TaskGot, queue
  <2>2. Moves(t, "resumed", "none") /\ t \notin Involved
    BY <1>1, <1>11, <2>1, TaskMoves, NotInvolved
  <2>3. ListTypes' /\ Involved' = Involved
    BY <1>4, <1>6, <1>7, <2>1 DEF ListTypes, Involved
  <2>4. Waits(t)'
    BY <2>2, <2>3 DEF Waits, Moves
  <2> QED
    BY <1>1, <1>2, <2>1, <2>2, <2>3, <2>4, ListedAfter
<1>12. CASE TaskNotReady(t)
  <2>1. pc[t] = "empty" /\ UNCHANGED <<waiters, handed, posted, lost>>
    BY <1>12 DEF TaskNotReady, awaiters
  <2> QED
    BY <1>1, <1>8, <1>12, <2>1, TaskMoves
<1>13. CASE TaskRegister(t)
  <2>1. pc[t] = "register" /\ UNCHANGED <<waiters, handed, posted, lost>>
    BY <1>13 DEF TaskRegister, awaiters
  <2> QED
    BY <1>1, <1>8, <1>13, <2>1, TaskMoves
<1>14. CASE TaskNeedsLock(t)
  <2>1. pc[t] = "empty" /\ UNCHANGED <<waiters, handed, posted, lost>>
    BY <1>14 DEF TaskNeedsLock, awaiters, queue
  <2> QED
    BY <1>1, <1>8, <1>14, <2>1, TaskMoves
<1>15. CASE TaskLocks(t)
  <2>1. pc[t] = "lock" /\ UNCHANGED <<waiters, handed, posted, lost>>
    BY <1>15 DEF TaskLocks, awaiters, queue
  <2> QED
    BY <1>1, <1>8, <1>15, <2>1, TaskMoves
<1>16. CASE TaskComparesEpoch(t)
  <2>1. pc[t] = "empty" /\ UNCHANGED <<waiters, handed, posted, lost>>
    BY <1>16 DEF TaskComparesEpoch, awaiters, queue
  <2> QED
    BY <1>1, <1>8, <1>16, <2>1, TaskMoves
<1>17. CASE TaskEnlist(t)
  <2>1. pc[t] = "enlist" /\ UNCHANGED <<handed, posted, lost>>
    BY <1>17 DEF TaskEnlist
  <2>2. CASE waiters' = Append(waiters, t) /\ Moves(t, "suspended", "none")
    <3>1. t \notin Involved /\ t \notin handed
      BY <2>1, NotInvolved
    <3>2. /\ waiters' \in Seq(Tasks) /\ IsInjective(waiters')
          /\ ToSet(waiters') = ToSet(waiters) \cup {t}
      BY <1>7, <2>2, <3>1, AppendedList DEF ListTypes, Involved
    <3>3. ListTypes' /\ Involved' = Involved \cup {t}
      BY <1>4, <1>6, <1>7, <2>1, <3>1, <3>2 DEF ListTypes, Involved
    <3>4. Waits(t)'
      BY <2>1, <2>2, <3>1, <3>3 DEF Waits, Moves
    <3> QED
      BY <1>1, <1>2, <2>1, <2>2, <3>3, <3>4, ListedAfter
  <2>3. CASE UNCHANGED waiters /\ (Moves(t, "resumed", "none") \/ Moves(t, "refused", "none"))
    BY <1>8, <2>1, <2>3
  <2> QED
    BY <1>1, <1>17, <2>2, <2>3, TaskMoves
<1>18. CASE TaskResume(t)
  <2>1. t \in posted /\ posted' = posted \ {t} /\ UNCHANGED <<waiters, handed, lost>>
    BY <1>18 DEF TaskResume, queue
  <2>2. ListTypes'
    BY <1>4, <1>6, <1>7, <2>1 DEF ListTypes
  <2>3. t \notin ToSet(waiters) \cup lost /\ t \notin Involved'
    BY <1>7, <2>1 DEF ListTypes, Involved
  <2>4. \A u \in Tasks \ {t} :
            /\ u \in Involved' <=> u \in Involved
            /\ u \in posted \cup lost => u \in posted' \cup lost'
            /\ u \in handed' => \/ u \in handed
                                \/ pc[u] = "suspended" /\ u \in posted' \cup lost'
    BY <2>1 DEF Involved
  <2>5. CASE pc[t] = "suspended" /\ Moves(t, "resumed", "none")
    <3>1. Waits(t)'
      BY <2>3, <2>5 DEF Waits, Moves
    <3> QED
      BY <1>1, <1>2, <2>1, <2>2, <2>4, <2>5, <3>1, ListedAfter
  <2>6. CASE pc[t] # "suspended" /\ UNCHANGED places
    <3>1. Moves(t, pc[t], stage[t]) /\ pc' = pc
      BY <1>1, <2>6 DEF places, Moves, Placed
    <3>2. Waits(t)'
      <4>1. Waits(t)
        BY DEF Listed
      <4> QED
        BY <2>1, <2>3, <2>6, <3>1, <4>1 DEF Waits
    <3> QED
      BY <1>1, <1>2, <2>1, <2>2, <2>4, <3>1, <3>2, ListedAfter
  <2> QED
    BY <1>1, <1>18, <2>5, <2>6, TaskMoves
<1>19. CASE AwaitResume(t)
  <2>1. pc[t] = "resumed" /\ handed' = handed \ {t} /\ UNCHANGED <<waiters, posted, lost>>
    BY <1>19 DEF AwaitResume, queue
  <2>2. PICK place \in {"taken", "decide"} : Moves(t, place, "none")
    BY <1>1, <1>19, TaskMoves
  <2>3. t \notin Involved
    BY <2>1, NotInvolved
  <2>4. ListTypes' /\ Involved' = Involved
    BY <1>4, <1>6, <1>7, <2>1 DEF ListTypes, Involved
  <2>5. Waits(t)'
    BY <2>1, <2>2, <2>3, <2>4 DEF Waits, Moves
  <2> QED
    BY <1>1, <1>2, <2>1, <2>2, <2>4, <2>5, ListedAfter
<1>20. CASE TaskDecides(t)
  <2>1. pc[t] \in {"taken", "refused", "decide"} /\ UNCHANGED <<waiters, handed, posted, lost>>
    BY <1>20 DEF TaskDecides, awaiters, queue
  <2>2. \E place, attempt : Moves(t, place, attempt) /\ place # "suspended"
    BY <1>1, <1>20, TaskMoves
  <2> QED
    BY <1>8, <2>1, <2>2
<1> QED
  BY <1>9, <1>10, <1>11, <1>12, <1>13, <1>14, <1>15, <1>16, <1>17, <1>18, <1>19, <1>20 DEF TaskStep

\* A return hands over to the first in the list, or wakes it.  The health thread only wakes.
LEMMA ReturnListed ==
    ASSUME Control, Listed, NEW p \in Procs, p = Health \/ p \in Clients,
           GiveBack(p) \/ (p \in Tasks /\ FrameDies(p)) \/ ReturnStep(p),
           p = Health => ReturnStep(p)
    PROVE  Listed'
<1>1. Placed /\ ListTypes
  BY DEF Control, Listed
<1>2. Health \notin Tasks /\ Health \notin Clients
  BY ConnectionPoolAssumption DEF Clients
<1>3. UNCHANGED alive
  BY DEF GiveBack, FrameDies, ReturnStep, Offer, Discard, NoteFreed, Look, WakeTask, WakeThread, life
<1>4. moved' \subseteq Tasks
  <2>1. UNCHANGED moved \/ noteSlotFreedForRegisteringWaiters
    BY DEF GiveBack, FrameDies, ReturnStep, Offer, Discard, NoteFreed, Look, WakeTask, WakeThread,
           queue
  <2> QED
    BY <1>1, <2>1, MovedTasks DEF ListTypes
<1>5. PICK place \in {"out"} \cup Returning : Moves(p, place, "none")
  BY <1>1, <1>2, ReturnPlaces, HealthPlaces
<1>6. place # "suspended"
  BY DEF Returning
<1>7. CASE GiveBack(p) \/ Discard(p) \/ NoteFreed(p) \/ Look(p) \/ WakeThread(p)
  <2>1. UNCHANGED <<waiters, handed, posted, lost, woken>>
    BY <1>7 DEF GiveBack, Discard, NoteFreed, Look, WakeThread, queue, awaiters
  <2>2. pc[p] \notin {"suspended", "out", "resumed"}
    BY <1>7 DEF GiveBack, Discard, NoteFreed, Look, WakeThread
  <2>3. woken' \subseteq Tasks
    BY <1>1, <2>1 DEF ListTypes
  <2> QED
    BY <1>1, <1>3, <1>4, <1>5, <1>6, <2>1, <2>2, <2>3, NotInvolved, ListedKept
\* A frame that dies takes its entry, its ticket and what it was handed with it.
<1>8. CASE p \in Tasks /\ FrameDies(p)
  <2>1. /\ posted' = posted \ {p} /\ lost' = lost \ {p} /\ handed' = handed \ {p}
        /\ woken' = woken
        /\ IF alive THEN waiters' = Without(waiters, {p}) ELSE waiters' = waiters
    BY <1>8 DEF FrameDies
  <2>2. /\ waiters' \in Seq(Tasks) /\ IsInjective(waiters')
        /\ ToSet(waiters') = ToSet(waiters) \ {p} \/ (~alive /\ ToSet(waiters') = ToSet(waiters))
    BY <1>1, <2>1, WithoutProperties DEF ListTypes
  <2>3. ListTypes'
    BY <1>1, <1>4, <2>1, <2>2 DEF ListTypes
  <2>4. \A t \in Tasks \ {p} : /\ t \in Involved' <=> t \in Involved
                               /\ t \in posted \cup lost => t \in posted' \cup lost'
    BY <2>1, <2>2 DEF Involved
  <2>5. Waits(p)'
    <3>1. p \in Involved' => ~alive'
      BY <1>3, <2>1, <2>2 DEF Involved
    <3>2. ~alive => place = "out"
      <4>1. ~alive => Moves(p, "out", "none")
        BY <1>1, <1>8, ReturnMoves DEF MovesAlone
      <4> QED
        BY <1>5, <4>1 DEF Moves
    <3> QED
      BY <1>3, <1>5, <1>6, <2>1, <3>1, <3>2 DEF Waits, Moves
  <2> QED
    BY <1>1, <1>3, <1>5, <2>1, <2>3, <2>4, <2>5, ListedAfter
\* The first in the list leaves it with a ticket.
<1>9. ASSUME waiters # << >>, waiters' = Tail(waiters), Post({Head(waiters)}),
             pc[p] \in Returning,
             woken' \subseteq Tasks,
             \/ handed' = handed
             \/ alive /\ handed' = handed \cup {Head(waiters)}
      PROVE  Listed'
  <2> DEFINE h == Head(waiters)
  <2>1. /\ h \in Tasks /\ h \in ToSet(waiters) /\ waiters' \in Seq(Tasks) /\ IsInjective(waiters')
        /\ ToSet(waiters) = ToSet(waiters') \cup {h} /\ h \notin ToSet(waiters')
    BY <1>1, <1>9, HeadTaken DEF ListTypes
  <2>2. h \notin posted \cup lost
    BY <1>1, <2>1 DEF ListTypes
  <2>3. /\ posted' \cup lost' = posted \cup lost \cup {h}
        /\ posted' \subseteq Tasks /\ lost' \subseteq Tasks /\ posted' \cap lost' = {}
    BY <1>1, <1>9, <2>1, <2>2, Posted
  <2> HIDE DEF h
  <2>4. ListTypes'
    BY <1>1, <1>4, <1>9, <2>1, <2>3 DEF ListTypes, h
  <2>5. Involved' = Involved
    BY <2>1, <2>3 DEF Involved
  <2>6. alive => pc[h] = "suspended"
    BY <2>1 DEF Listed, Waits, Involved
  <2>7. \A t \in Tasks \ {p} : t \in handed' => \/ t \in handed
                                                \/ pc[t] = "suspended" /\ t \in posted' \cup lost'
    BY <1>9, <2>3, <2>6 DEF h
  <2>8. p \in Tasks => Waits(p)'
    <3>1. p \in Tasks => p \notin Involved /\ p \notin handed
      BY <1>9, NotInvolved DEF Returning
    <3>2. p \in Tasks => p \notin handed'
      BY <1>9, <2>1, <3>1 DEF Involved, h
    <3> QED
      BY <1>5, <1>6, <2>5, <3>1, <3>2 DEF Waits, Moves
  <2> QED
    BY <1>1, <1>3, <1>5, <2>3, <2>4, <2>5, <2>7, <2>8, ListedAfter
<1>10. ASSUME pc[p] \in Returning, UNCHANGED <<waiters, handed, posted, lost, woken>> PROVE Listed'
  <2>1. p \in Tasks => p \notin Involved /\ p \notin handed
    BY <1>10, NotInvolved DEF Returning
  <2>2. woken' \subseteq Tasks
    BY <1>1, <1>10 DEF ListTypes
  <2> QED
    BY <1>1, <1>3, <1>4, <1>5, <1>6, <1>10, <2>1, <2>2, ListedKept
<1>11. CASE Offer(p)
  <2>1. pc[p] \in Returning /\ alive /\ UNCHANGED woken
    <3>1. pc[p] = "offer" /\ UNCHANGED woken
      BY <1>11 DEF Offer
    <3>2. p \in Clients
      BY <3>1 DEF Control, Placed
    <3>3. p # Nobody
      BY ConnectionPoolAssumption
    <3> QED
      BY <3>1, <3>2, <3>3 DEF Control, Locked, Returning
  <2>2. woken' \subseteq Tasks
    BY <1>1, <2>1 DEF ListTypes
  <2>3. CASE OfferToWaiter
    BY <1>9, <1>11, <2>1, <2>2, <2>3 DEF Offer, OfferToWaiter
  <2>4. CASE ~OfferToWaiter
    BY <1>10, <1>11, <2>1, <2>4 DEF Offer
  <2> QED
    BY <2>3, <2>4
<1>12. CASE WakeTask(p)
  <2>1. pc[p] \in Returning /\ UNCHANGED handed
    BY <1>12 DEF WakeTask, Returning
  <2>2. CASE waiters # << >>
    <3>1. Head(waiters) \in Tasks
      BY <1>1, <2>2, HeadTaken DEF ListTypes
    <3>2. woken' \subseteq Tasks
      BY <1>1, <1>12, <2>2, <3>1 DEF WakeTask, ListTypes
    <3> QED
      BY <1>9, <1>12, <2>1, <2>2, <3>2 DEF WakeTask
  <2>3. CASE waiters = << >>
    BY <1>10, <1>12, <2>1, <2>3 DEF WakeTask
  <2> QED
    BY <2>2, <2>3
<1> QED
  BY <1>7, <1>8, <1>11, <1>12 DEF ReturnStep

\* The destructor ends the list.  Before that the health thread takes out who is late.
LEMMA OtherListed ==
    ASSUME Control, Listed,
           \/ \E tasks \in SUBSET Tasks : expireTimedOutWaiters(tasks)
           \/ Evict \/ BeginDestruction \/ DestructorStep
    PROVE  Listed'
<1>1. Placed /\ ListTypes
  BY DEF Control, Listed
<1>2. /\ Health \in Procs /\ Health \notin Tasks
      /\ Destructor \in Procs /\ Destructor \notin Tasks
  BY ConnectionPoolAssumption DEF Procs, Clients
<1>3. CASE Evict
  <2>1. UNCHANGED <<alive, waiters, handed, posted, lost, moved, woken>>
    BY <1>3 DEF Evict, queue, awaiters, life
  <2> QED
    BY <1>1, <1>2, <1>3, <2>1, HealthPlaces, ListedKept DEF ListTypes
<1>4. CASE BeginDestruction \/ JoinHealth \/ CloseIdle \/ AwaitThreads \/ Free
  <2>1. UNCHANGED <<waiters, handed, posted, lost, moved, woken>> /\ (alive' => alive)
    BY <1>4 DEF BeginDestruction, JoinHealth, CloseIdle, AwaitThreads, Free, queue, awaiters, life
  <2>2. \E place : Moves(Destructor, place, stage[Destructor])
    BY <1>1, <1>4, DestructorMoves DEF MovesAlone
  <2> QED
    BY <1>1, <1>2, <2>1, <2>2, ListedKept DEF ListTypes
<1>5. CASE Sweep
  <2>1. /\ UNCHANGED <<alive, handed, lost, moved, woken>>
        /\ posted' = posted \cup ToSet(waiters) /\ waiters' = << >>
    BY <1>5 DEF Sweep, life
  <2>2. ToSet(waiters) \subseteq Tasks
    BY <1>1 DEF ListTypes, ToSet
  <2>3. /\ waiters' \in Seq(Tasks) /\ IsInjective(waiters') /\ ToSet(waiters') = {}
    BY <2>1 DEF ToSet, IsInjective
  <2>4. ListTypes'
    BY <1>1, <2>1, <2>2, <2>3 DEF ListTypes
  <2>5. Involved' = Involved
    BY <2>1, <2>3 DEF Involved
  <2>6. Moves(Destructor, "free", stage[Destructor])
    BY <1>1, <1>5, DestructorMoves DEF MovesAlone
  <2> QED
    BY <1>1, <1>2, <2>1, <2>4, <2>5, <2>6, ListedAfter
<1>6. ASSUME NEW tasks \in SUBSET Tasks, expireTimedOutWaiters(tasks) PROVE Listed'
  <2>1. /\ UNCHANGED <<alive, handed, moved, woken, pc, stage>>
        /\ tasks \subseteq ToSet(waiters) /\ waiters' = Without(waiters, tasks) /\ Post(tasks)
    BY <1>6 DEF expireTimedOutWaiters, life, places, PostExpired
  <2>2. /\ waiters' \in Seq(Tasks) /\ IsInjective(waiters')
        /\ ToSet(waiters') = ToSet(waiters) \ tasks
    BY <1>1, <2>1, WithoutProperties DEF ListTypes
  <2>3. tasks \cap (posted \cup lost) = {}
    BY <1>1, <2>1 DEF ListTypes
  <2>4. /\ posted' \cup lost' = posted \cup lost \cup tasks
        /\ posted' \subseteq Tasks /\ lost' \subseteq Tasks /\ posted' \cap lost' = {}
    BY <1>1, <2>1, <2>3, Posted
  <2>5. ListTypes'
    BY <1>1, <2>1, <2>2, <2>4 DEF ListTypes
  <2>6. Involved' = Involved
    BY <2>1, <2>2, <2>4 DEF Involved
  <2>7. Moves(Health, pc[Health], stage[Health])
    BY <1>1, <1>2, <2>1 DEF Moves, Placed
  <2> QED
    BY <1>1, <1>2, <2>1, <2>4, <2>5, <2>6, <2>7, ListedAfter
<1> QED
  BY <1>3, <1>4, <1>5, <1>6 DEF DestructorStep

\* Every step keeps every waiting coroutine in one place.
LEMMA ListedStep == ASSUME Control, Listed, Next PROVE Listed'
<1>1. Clients \subseteq Procs /\ Health \in Procs
  BY DEF Procs
<1>2. ASSUME NEW p \in Clients, GiveBack(p) \/ (p \in Tasks /\ FrameDies(p)) \/ ReturnStep(p)
      PROVE  Listed'
  <2>1. p # Health
    BY ConnectionPoolAssumption
  <2> QED
    BY <1>1, <1>2, <2>1, ReturnListed
<1>3. ASSUME ReturnStep(Health) PROVE Listed'
  BY <1>1, <1>3, ReturnListed
<1>4. Steps
  BY NextSteps
<1> QED
  BY <1>2, <1>3, <1>4, ThreadListed, TaskListed, OtherListed DEF Steps

\* Once the destructor is past the threads none waits, and once it is past the list it stays empty.
LEMMA DrainedKept ==
    ASSUME Placed, Drained, NEW p \in Procs \ {Destructor}, NEW place, NEW attempt,
           Moves(p, place, attempt),
           pc[Destructor] \in {"free", "gone"} => UNCHANGED waiters,
           pc[Destructor] \in {"sweep", "free", "gone"} => UNCHANGED syncWaiting
    PROVE  Drained'
<1>1. Destructor \in Procs
  BY DEF Procs
<1>2. pc'[Destructor] \in {"sweep", "free", "gone"} => pc'[Destructor] = pc[Destructor]
  BY <1>1 DEF Moves
<1> QED
  BY <1>2 DEF Drained

\* What the destructor has emptied stays empty: nobody enters or enlists during shutdown.
LEMMA DrainedStep == ASSUME Control, Counted, Queued, Next PROVE Drained'
<1>1. /\ Placed /\ Drained /\ ListTypes
      /\ pc[Destructor] \in {"sweep", "free", "gone"} => shuttingDown /\ ~alive
  BY DEF Queued, Listed, Control, Locked, Closing
<1>2. Clients \subseteq Procs \ {Destructor} /\ Health \in Procs \ {Destructor}
  BY ConnectionPoolAssumption DEF Procs, Clients
<1>3. ASSUME NEW p \in Threads, CallFromThread(p) \/ ThreadStep(p) \/ ThreadTimeout(p)
      PROVE  Drained'
  <2>1. p \in Clients /\ ThreadPlaced(p)
    BY <1>1 DEF Clients, Placed
  <2>2. UNCHANGED waiters
    BY <1>3 DEF CallFromThread, ThreadStep, ThreadTimeout, ThreadGot, ThreadEmpty, ThreadGate,
                ThreadEnter, ThreadWaits, ThreadWoken, TryStep, PopEmpty, PopEntry, Drop, NoteDrop,
                Reserve, Create, queue
  <2>3. ASSUME pc[Destructor] \in {"sweep", "free", "gone"} PROVE UNCHANGED syncWaiting
    <3>1. stage[p] # "wait"
      <4>1. WaitingThreads = {}
        <5>1. Cardinality(WaitingThreads) = 0
          BY <1>1, <2>3 DEF Counted, Drained
        <5> QED
          BY <5>1, WaitersFinite, FS_EmptySet
      <4> QED
        BY <4>1 DEF WaitingThreads
    <3>2. pc[p] \notin {"asleep", "woken"}
      BY <2>1, <3>1 DEF ThreadPlaced, Returning, Trying
    <3> QED
      BY <1>1, <1>3, <2>3, <3>1, <3>2
         DEF CallFromThread, ThreadStep, ThreadTimeout, ThreadGot, ThreadEmpty, ThreadGate,
             ThreadEnter, ThreadWaits, ThreadWoken, TryStep, PopEmpty, PopEntry, Drop, NoteDrop,
             Reserve, Create
  <2> QED
    BY <1>1, <1>2, <1>3, <2>1, <2>2, <2>3, StepMoves, DrainedKept
<1>4. ASSUME NEW t \in Tasks, CallFromTask(t) \/ TaskStep(t) PROVE Drained'
  <2>1. t \in Clients
    BY DEF Clients
  <2>2. UNCHANGED syncWaiting
    BY <1>4 DEF CallFromTask, TaskStep, TaskGot, TaskNotReady, TaskRegister, TaskNeedsLock, TaskLocks,
                TaskComparesEpoch, TaskEnlist, TaskResume, AwaitResume, TaskDecides, TryStep, PopEmpty,
                PopEntry, Drop, NoteDrop, Reserve, Create
  <2>3. shuttingDown => UNCHANGED waiters
    BY <1>4 DEF CallFromTask, TaskStep, TaskGot, TaskNotReady, TaskRegister, TaskNeedsLock, TaskLocks,
                TaskComparesEpoch, TaskEnlist, TaskResume, AwaitResume, TaskDecides, TryStep, PopEmpty,
                PopEntry, Drop, NoteDrop, Reserve, Create, queue, MayEnlist
  <2> QED
    BY <1>1, <1>2, <1>4, <2>1, <2>2, <2>3, StepMoves, DrainedKept
<1>5. ASSUME NEW p \in Clients, GiveBack(p) \/ (p \in Tasks /\ FrameDies(p)) \/ ReturnStep(p)
      PROVE  Drained'
  <2>1. UNCHANGED syncWaiting
    BY <1>5 DEF GiveBack, FrameDies, ReturnStep, Offer, Discard, NoteFreed, Look, WakeTask, WakeThread
  <2>2. ~alive => UNCHANGED waiters
    <3>1. pc[p] \in Returning => alive
      <4>1. p # Nobody
        BY ConnectionPoolAssumption DEF Procs
      <4> QED
        BY <4>1 DEF Control, Locked
    <3> QED
      BY <1>5, <3>1 DEF GiveBack, FrameDies, ReturnStep, Offer, Discard, NoteFreed, Look, WakeTask,
                        WakeThread, queue, Returning
  <2> QED
    BY <1>1, <1>2, <1>5, <2>1, <2>2, StepMoves, DrainedKept
<1>6. ASSUME ReturnStep(Health) \/ Evict PROVE Drained'
  <2>1. UNCHANGED syncWaiting
    BY <1>6 DEF ReturnStep, Offer, Discard, NoteFreed, Look, WakeTask, WakeThread, Evict
  <2>2. pc[Destructor] \notin {"free", "gone"}
    <3>1. pc[Health] # "out" \/ pc[Destructor] \in {"out", "request"}
      BY <1>6 DEF ReturnStep, Offer, Discard, NoteFreed, Look, WakeTask, WakeThread, Evict,
                  HealthRuns
    <3> QED
      BY <3>1 DEF Control, Locked
  <2>3. \E place : Moves(Health, place, "none")
    BY <1>1, <1>6, HealthPlaces
  <2> QED
    BY <1>1, <1>2, <2>1, <2>2, <2>3, DrainedKept
<1>7. ASSUME NEW tasks, expireTimedOutWaiters(tasks) PROVE Drained'
  <2>1. pc[Destructor] \in {"out", "request"} /\ UNCHANGED <<pc, stage>>
    BY <1>7 DEF expireTimedOutWaiters, HealthRuns, places
  <2> QED
    BY <2>1 DEF Drained
<1>8. CASE BeginDestruction
  BY <1>1, <1>8, DestructorMoves DEF MovesAlone, Moves, Drained
<1>9. CASE JoinHealth
  BY <1>1, <1>9, DestructorMoves DEF MovesAlone, Moves, Drained
<1>10. CASE CloseIdle \/ AwaitThreads
  <2>1. \/ syncWaiting = 0 /\ pc'[Destructor] = "sweep"
        \/ pc'[Destructor] = "asleep"
    BY <1>1, <1>10, DestructorMoves DEF MovesAlone, Moves
  <2>2. UNCHANGED syncWaiting
    BY <1>10 DEF CloseIdle, AwaitThreads
  <2> QED
    BY <2>1, <2>2 DEF Drained
<1>11. CASE Sweep
  <2>1. pc[Destructor] = "sweep" /\ waiters' = << >> /\ UNCHANGED syncWaiting
    BY <1>11 DEF Sweep
  <2> QED
    BY <1>1, <2>1 DEF Drained
<1>12. CASE Free
  <2>1. pc[Destructor] = "free" /\ UNCHANGED <<waiters, syncWaiting>>
    BY <1>12 DEF Free, queue
  <2> QED
    BY <1>1, <2>1 DEF Drained
<1>13. Steps
  BY NextSteps
<1> QED
  BY <1>3, <1>4, <1>5, <1>6, <1>7, <1>8, <1>9, <1>10, <1>11, <1>12, <1>13 DEF Steps, DestructorStep

\* Queued is inductive relative to Control and Counted.
LEMMA QueuedStep == ASSUME Control, Counted, Queued, Next PROVE Queued'
BY ListedStep, DrainedStep DEF Queued

-----------------------------------------------------------------------------
(* IdleSeen: nothing becomes idle under the eyes of who is about to wait   *)

\* A list is empty when nobody is in it.
LEMMA EmptyList ==
    ASSUME NEW S, NEW s \in Seq(S)
    PROVE  s = << >> <=> ToSet(s) = {}
<1>1. Len(s) \in Nat /\ DOMAIN s = 1 .. Len(s)
  OBVIOUS
<1>2. ASSUME s # << >> PROVE ToSet(s) # {}
  <2>1. Head(s) \in ToSet(s)
    BY <1>2, HeadTaken
  <2> QED
    BY <2>1
<1> QED
  BY <1>2 DEF ToSet

\* The mark of a coroutine that holds m_asyncMutex is taken away by itself only.
LEMMA MarkKept ==
    ASSUME Control, Counted, Listed, NEW p,
           UNCHANGED moved \/ noteSlotFreedForRegisteringWaiters \/ moved' = moved \ {p},
           NEW t \in Tasks, t # p, stage[t] = "locked", t \in moved
    PROVE  t \in moved'
<1>1. t \in Registering
  BY DEF Registering
<1> QED
  BY <1>1 DEF noteSlotFreedForRegisteringWaiters

\* Somebody that notes a freed slot marks every coroutine under m_asyncMutex.
LEMMA NotedMarks ==
    ASSUME Counted, noteSlotFreedForRegisteringWaiters, NEW t \in Tasks, stage[t] = "locked"
    PROVE  t \in moved'
<1>1. t \in RegisteringTasks /\ t \in Registering
  BY DEF RegisteringTasks, Registering
<1>2. registering # 0
  BY <1>1, WaitersFinite, FS_EmptySet DEF Counted
<1> QED
  BY <1>1, <1>2 DEF noteSlotFreedForRegisteringWaiters

\* Steps that add nothing to the idle stack.
LEMMA IdleSeenKept ==
    ASSUME Control, IdleSeen, NEW p \in Procs, NEW place, NEW attempt, Moves(p, place, attempt),
           idle' \in Nat, idle' <= idle,
           waiters' # << >> => waiters # << >> \/ idle' = 0,
           p \in Tasks => (FoundNothing(p)' => idle' = 0),
           \A t \in Tasks \ {p} : stage[t] = "locked" /\ t \in moved => t \in moved'
    PROVE  IdleSeen'
<1>1. ASSUME NEW t \in Tasks, t # p, FoundNothing(t)' PROVE idle' = 0
  <2>1. pc'[t] = pc[t] /\ stage'[t] = stage[t]
    BY <1>1, TasksStay DEF Control
  <2>2. FoundNothing(t)
    BY <1>1, <2>1 DEF FoundNothing
  <2>3. idle = 0
    BY <2>2 DEF IdleSeen
  <2> QED
    BY <2>3
<1>2. \A t \in Tasks : FoundNothing(t)' => idle' = 0
  BY <1>1
<1>3. NoIdleBesideWaiters'
  BY DEF IdleSeen, NoIdleBesideWaiters
<1> QED
  BY <1>2, <1>3 DEF IdleSeen

\* An attempt under m_asyncMutex that ends with nothing saw the stack empty, or is marked.
LEMMA TryIdleSeen ==
    ASSUME Control, Counted, Listed, IdleSeen, NEW p \in Clients, TryStep(p)
    PROVE  IdleSeen'
<1>1. p \in Procs /\ Placed /\ idle \in Nat /\ (p \in Tasks => TaskPlaced(p))
  BY DEF Procs, Control, Placed, IdleSeen
<1>2. PICK place \in Trying : Moves(p, place, stage[p])
  BY <1>1, TryPlaces DEF MovesAlone
<1>3. UNCHANGED waiters /\ idle' \in Nat /\ idle' <= idle
  BY <1>1 DEF TryStep, PopEmpty, PopEntry, Drop, NoteDrop, Reserve, Create, queue, books
<1>4. \A t \in Tasks \ {p} : stage[t] = "locked" /\ t \in moved => t \in moved'
  <2>1. UNCHANGED moved \/ noteSlotFreedForRegisteringWaiters
    BY DEF TryStep, PopEmpty, PopEntry, Drop, NoteDrop, Reserve, Create, queue
  <2> QED
    BY <2>1, MarkKept
<1>5. pc'[p] = place /\ stage'[p] = stage[p]
  BY <1>2 DEF Moves
<1>6. ASSUME p \in Tasks, FoundNothing(p)' PROVE idle' = 0
  <2>1. place = "empty" /\ stage[p] = "locked" /\ p \notin moved'
    BY <1>5, <1>6 DEF FoundNothing, Trying
  <2>2. PopEmpty(p) => idle' = 0
    BY DEF PopEmpty, books
  <2>3. ~PopEntry(p) /\ ~Drop(p)
    BY <1>1, <1>5, <2>1, TryStepMoves DEF MovesAlone, Moves
  <2>4. ~NoteDrop(p)
    BY <1>6, <2>1, NotedMarks DEF NoteDrop
  <2>5. ~Reserve(p) /\ ~Create(p)
    BY <1>1, <1>6, <2>1 DEF TaskPlaced, Reserve, Create
  <2> QED
    BY <2>2, <2>3, <2>4, <2>5 DEF TryStep
<1> QED
  BY <1>1, <1>2, <1>3, <1>4, <1>6, IdleSeenKept

\* Threads put nothing back and enlist nobody.
LEMMA ThreadIdleSeen ==
    ASSUME Control, Counted, Listed, IdleSeen, NEW p \in Threads,
           CallFromThread(p) \/ ThreadStep(p) \/ ThreadTimeout(p)
    PROVE  IdleSeen'
<1>1. p \in Clients /\ p \in Procs /\ p \notin Tasks /\ Placed
  BY ConnectionPoolAssumption DEF Clients, Procs, Control
<1>2. CASE TryStep(p)
  BY <1>1, <1>2, TryIdleSeen
<1>3. CASE ~TryStep(p)
  <2>1. UNCHANGED <<waiters, idle, moved>>
    BY <1>3 DEF CallFromThread, ThreadStep, ThreadTimeout, ThreadGot, ThreadEmpty, ThreadGate,
                ThreadEnter, ThreadWaits, ThreadWoken, queue, books
  <2>2. \E place, attempt : Moves(p, place, attempt)
    BY <1>1, StepMoves
  <2> QED
    BY <1>1, <2>1, <2>2, IdleSeenKept DEF IdleSeen
<1> QED
  BY <1>2, <1>3

\* A coroutine enlists only with the stack still empty.
LEMMA TaskIdleSeen ==
    ASSUME Control, Counted, Listed, IdleSeen, NEW t \in Tasks, CallFromTask(t) \/ TaskStep(t)
    PROVE  IdleSeen'
<1>1. t \in Clients /\ t \in Procs /\ Placed /\ idle \in Nat
  BY DEF Clients, Procs, Control, IdleSeen
<1> USE DEF MovesAlone
<1>2. CASE TryStep(t)
  BY <1>1, <1>2, TryIdleSeen
<1>3. CASE ~TryStep(t)
  <2>1. UNCHANGED idle
    BY <1>3 DEF CallFromTask, TaskStep, TaskGot, TaskNotReady, TaskRegister, TaskNeedsLock, TaskLocks,
                TaskComparesEpoch, TaskEnlist, TaskResume, AwaitResume, TaskDecides, books
  <2>2. UNCHANGED moved \/ moved' = moved \ {t}
    BY <1>3 DEF CallFromTask, TaskStep, TaskGot, TaskNotReady, TaskRegister, TaskNeedsLock, TaskLocks,
                TaskComparesEpoch, TaskEnlist, TaskResume, AwaitResume, TaskDecides, queue, Unregister
  <2>3. UNCHANGED waiters \/ TaskEnlist(t)
    BY <1>3 DEF CallFromTask, TaskStep, TaskGot, TaskNotReady, TaskRegister, TaskNeedsLock, TaskLocks,
                TaskComparesEpoch, TaskResume, AwaitResume, TaskDecides, queue
  <2>4. waiters' # << >> => waiters # << >> \/ idle' = 0
    <3>1. TaskEnlist(t) => idle = 0
      BY DEF TaskEnlist, IdleSeen, FoundNothing
    <3> QED
      BY <2>1, <2>3, <3>1
  <2>5. \A u \in Tasks \ {t} : stage[u] = "locked" /\ u \in moved => u \in moved'
    BY <2>2
  <2>6. FoundNothing(t)' => idle' = 0
    <3>1. CASE TaskComparesEpoch(t)
      <4>1. pc[t] = "empty" /\ stage[t] = "locked"
        BY <3>1 DEF TaskComparesEpoch
      <4>2. CASE Moves(t, "register", "locked")
        BY <4>2 DEF Moves, FoundNothing
      <4>3. CASE t \notin moved
        BY <2>1, <4>1, <4>3 DEF IdleSeen, FoundNothing
      <4> QED
        BY <1>1, <3>1, <4>2, <4>3, TaskMoves
    <3>2. CASE TaskResume(t) /\ UNCHANGED places
      <4>1. UNCHANGED <<pc, stage, moved>>
        BY <3>2 DEF places, TaskResume, queue
      <4> QED
        BY <2>1, <4>1 DEF FoundNothing, IdleSeen
    <3>3. CASE \/ CallFromTask(t) \/ TaskGot(t) \/ TaskNotReady(t) \/ TaskRegister(t)
               \/ TaskNeedsLock(t) \/ TaskLocks(t)
      <4>1. \E place \in {"pop", "resumed", "register", "lock"} : \E attempt : Moves(t, place, attempt)
        BY <1>1, <3>3, TaskMoves
      <4> QED
        BY <4>1 DEF FoundNothing, Moves
    <3>4. CASE TaskEnlist(t) \/ (TaskResume(t) /\ ~UNCHANGED places) \/ AwaitResume(t) \/ TaskDecides(t)
      <4>1. \E place \in Outside \cup {"pop"} : \E attempt : Moves(t, place, attempt)
        BY <1>1, <3>4, TaskMoves DEF Outside
      <4> QED
        BY <4>1 DEF FoundNothing, Moves, Outside
    <3> QED
      BY <1>3, <3>1, <3>2, <3>3, <3>4 DEF TaskStep
  <2>7. \E place, attempt : Moves(t, place, attempt)
    BY <1>1, StepMoves
  <2> QED
    BY <1>1, <2>1, <2>4, <2>5, <2>6, <2>7, IdleSeenKept
<1> QED
  BY <1>2, <1>3

\* What is put back found m_asyncMutex free: nobody was under it.
LEMMA ReturnIdleSeen ==
    ASSUME Control, Counted, Listed, IdleSeen, NEW p \in Procs, p = Health \/ p \in Clients,
           GiveBack(p) \/ (p \in Tasks /\ FrameDies(p)) \/ ReturnStep(p),
           p = Health => ReturnStep(p)
    PROVE  IdleSeen'
<1>1. Placed /\ ListTypes /\ idle \in Nat /\ Health \notin Clients
  BY ConnectionPoolAssumption DEF Control, Listed, IdleSeen
<1>2. PICK place \in {"out"} \cup Returning : Moves(p, place, "none")
  BY <1>1, ReturnPlaces, HealthPlaces
<1>3. ~FoundNothing(p)'
  BY <1>2 DEF FoundNothing, Moves, Returning
<1>4. \A t \in Tasks \ {p} : stage[t] = "locked" /\ t \in moved => t \in moved'
  <2>1. UNCHANGED moved \/ noteSlotFreedForRegisteringWaiters
    BY DEF GiveBack, FrameDies, ReturnStep, Offer, Discard, NoteFreed, Look, WakeTask, WakeThread,
           queue
  <2> QED
    BY <2>1, MarkKept
<1>5. waiters' # << >> => waiters # << >>
  <2>1. \/ UNCHANGED waiters \/ waiters # << >>
        \/ waiters' = Without(waiters, {p})
    BY DEF GiveBack, FrameDies, ReturnStep, Offer, OfferToWaiter, Discard, NoteFreed, Look, WakeTask,
           WakeThread, queue
  <2>2. ASSUME waiters' = Without(waiters, {p}), waiters = << >> PROVE waiters' = << >>
    <3>1. waiters' \in Seq(Tasks) /\ ToSet(waiters') \subseteq ToSet(waiters)
      BY <1>1, <2>2, WithoutProperties DEF ListTypes
    <3> QED
      BY <1>1, <2>2, <3>1, EmptyList DEF ListTypes
  <2> QED
    BY <2>1, <2>2
<1>6. CASE UNCHANGED idle
  BY <1>1, <1>2, <1>3, <1>4, <1>5, <1>6, IdleSeenKept
<1>7. CASE Offer(p) /\ idle' = idle + 1
  <2>1. asyncOwner = Nobody /\ (waiters = << >> \/ UNCHANGED idle)
    BY <1>7 DEF Offer, OfferToWaiter
  <2>2. CASE waiters = << >>
    <3>1. waiters' = << >> /\ idle' \in Nat
      BY <1>1, <1>5, <1>7, <2>2
    <3>2. ASSUME NEW t \in Tasks, FoundNothing(t)' PROVE FALSE
      <4>1. t # p
        BY <1>3, <3>2
      <4>2. pc'[t] = pc[t] /\ stage'[t] = stage[t]
        BY <1>1, <1>2, <4>1, TasksStay
      <4>3. pc[t] \in {"enlist", "empty"} /\ (pc[t] = "empty" => stage[t] = "locked")
        BY <3>2, <4>2 DEF FoundNothing
      <4>4. stage[t] = "locked"
        BY <1>1, <4>3 DEF Placed, TaskPlaced, Outside, Returning, Trying
      <4>5. asyncOwner = t
        BY <4>3, <4>4 DEF Control, Locked
      <4> QED
        BY <2>1, <4>5, ConnectionPoolAssumption DEF Procs, Clients
    <3> QED
      BY <3>1, <3>2 DEF IdleSeen, NoIdleBesideWaiters
  <2> QED
    BY <1>6, <2>1, <2>2
<1> QED
  BY <1>6, <1>7 DEF GiveBack, FrameDies, ReturnStep, Offer, Discard, NoteFreed, Look, WakeTask,
                    WakeThread, books

\* The health thread and the destructor only take away.
LEMMA OtherIdleSeen ==
    ASSUME Control, Listed, IdleSeen,
           \/ \E tasks \in SUBSET Tasks : expireTimedOutWaiters(tasks)
           \/ Evict \/ BeginDestruction \/ DestructorStep
    PROVE  IdleSeen'
<1>1. Placed /\ ListTypes /\ idle \in Nat
  BY DEF Control, Listed, IdleSeen
<1>2. /\ Health \in Procs /\ Health \notin Tasks
      /\ Destructor \in Procs /\ Destructor \notin Tasks
  BY ConnectionPoolAssumption DEF Procs, Clients
<1>3. idle' \in Nat /\ idle' <= idle
  BY <1>1 DEF expireTimedOutWaiters, Evict, BeginDestruction, DestructorStep, JoinHealth, CloseIdle,
              AwaitThreads, Sweep, Free, books
<1>4. UNCHANGED moved
  BY DEF expireTimedOutWaiters, Evict, BeginDestruction, DestructorStep, JoinHealth, CloseIdle,
         AwaitThreads, Sweep, Free, queue
<1>5. waiters' # << >> => waiters # << >>
  <2>1. ASSUME NEW tasks \in SUBSET Tasks, expireTimedOutWaiters(tasks) PROVE waiters # << >>
    BY <2>1, <1>1, EmptyList DEF expireTimedOutWaiters, ListTypes
  <2>2. UNCHANGED waiters \/ waiters' = << >> \/ \E tasks \in SUBSET Tasks : expireTimedOutWaiters(tasks)
    BY DEF Evict, BeginDestruction, DestructorStep, JoinHealth, CloseIdle, AwaitThreads, Sweep, Free,
           queue
  <2> QED
    BY <2>1, <2>2
<1>6. \E p \in {Health, Destructor} : \E place, attempt : Moves(p, place, attempt)
  <2>1. CASE \E tasks \in SUBSET Tasks : expireTimedOutWaiters(tasks)
    <3>1. UNCHANGED <<pc, stage>>
      BY <2>1 DEF expireTimedOutWaiters, places
    <3>2. Moves(Health, pc[Health], stage[Health])
      BY <1>1, <1>2, <3>1 DEF Moves, Placed
    <3> QED
      BY <3>2
  <2>2. CASE Evict
    BY <1>1, <2>2, HealthPlaces
  <2>3. CASE BeginDestruction \/ DestructorStep
    BY <1>1, <2>3, DestructorMoves DEF DestructorStep, MovesAlone
  <2> QED
    BY <2>1, <2>2, <2>3
<1> QED
  BY <1>2, <1>3, <1>4, <1>5, <1>6, IdleSeenKept

\* Every step keeps IdleSeen.
LEMMA IdleSeenStep == ASSUME Control, Counted, Listed, IdleSeen, Next PROVE IdleSeen'
<1>1. Clients \subseteq Procs /\ Health \in Procs
  BY DEF Procs
<1>2. ASSUME NEW p \in Clients, GiveBack(p) \/ (p \in Tasks /\ FrameDies(p)) \/ ReturnStep(p)
      PROVE  IdleSeen'
  <2>1. p # Health
    BY ConnectionPoolAssumption
  <2> QED
    BY <1>1, <1>2, <2>1, ReturnIdleSeen
<1>3. ASSUME ReturnStep(Health) PROVE IdleSeen'
  BY <1>1, <1>3, ReturnIdleSeen
<1>4. Steps
  BY NextSteps
<1> QED
  BY <1>2, <1>3, <1>4, ThreadIdleSeen, TaskIdleSeen, OtherIdleSeen DEF Steps

-----------------------------------------------------------------------------
(* Accounted: every step moves a slot from one place to another            *)

\* Finitely many connections are in hand.
LEMMA InHandFinite ==
    ASSUME Listed
    PROVE  /\ IsFiniteSet(Loose) /\ Cardinality(Loose) \in Nat
           /\ IsFiniteSet(Borrowed) /\ Cardinality(Borrowed) \in Nat
<1>1. IsFiniteSet(Clients) /\ Loose \subseteq Clients /\ Borrowed \subseteq Clients
  BY ConnectionPoolAssumption DEF Listed, ListTypes, Loose, Borrowed, Clients
<1> QED
  BY <1>1, FS_Subset, FS_CardinalityType

\* Who has one in hand is counted.
LEMMA InHandSome ==
    ASSUME Listed, NEW p \in Clients
    PROVE  /\ p \in handed \/ pc[p] \in LooseAt => Cardinality(Loose) >= 1
           /\ pc[p] \in BorrowedAt => Cardinality(Borrowed) >= 1
<1>1. p \in handed \/ pc[p] \in LooseAt => Cardinality(Loose) # 0
  BY InHandFinite, FS_EmptySet DEF Loose
<1>2. pc[p] \in BorrowedAt => Cardinality(Borrowed) # 0
  BY InHandFinite, FS_EmptySet DEF Borrowed
<1> QED
  BY <1>1, <1>2, InHandFinite

\* A client that moves changes at most its own part.
LEMMA InHandMoves ==
    ASSUME Placed, Listed, NEW p \in Clients, NEW place, NEW attempt, Moves(p, place, attempt),
           handed' \ {p} = handed \ {p}
    PROVE  /\ Cardinality(Loose') = Tally(Cardinality(Loose), p \in handed \/ pc[p] \in LooseAt,
                                          p \in handed' \/ place \in LooseAt)
           /\ Cardinality(Borrowed') = Tally(Cardinality(Borrowed), pc[p] \in BorrowedAt,
                                             place \in BorrowedAt)
<1> DEFINE loose == p \in handed' \/ place \in LooseAt
           borrowed == place \in BorrowedAt
<1>1. Clients \subseteq Procs /\ p \in Procs
  BY DEF Procs
<1>2. pc'[p] = place
  BY DEF Moves
<1>3. \A q \in Clients \ {p} : /\ pc'[q] \in LooseAt <=> pc[q] \in LooseAt
                               /\ pc'[q] \in BorrowedAt <=> pc[q] \in BorrowedAt
  BY <1>1 DEF Moves, LooseAt, BorrowedAt
<1>4. Loose' = IF loose THEN Loose \cup {p} ELSE Loose \ {p}
  <2>1. \A q : q # p => (q \in handed' <=> q \in handed)
    OBVIOUS
  <2>2. p \in Loose' <=> loose
    BY <1>2 DEF Loose, LooseAt
  <2>3. ASSUME NEW q, q # p PROVE q \in Loose' <=> q \in Loose
    BY <1>3, <2>1, <2>3 DEF Loose
  <2> HIDE DEF loose
  <2> QED
    BY <2>2, <2>3
<1>5. Borrowed' = IF borrowed THEN Borrowed \cup {p} ELSE Borrowed \ {p}
  <2>1. p \in Borrowed' <=> borrowed
    BY <1>2 DEF Borrowed, BorrowedAt
  <2>2. ASSUME NEW q, q # p PROVE q \in Borrowed' <=> q \in Borrowed
    BY <1>3, <2>2 DEF Borrowed
  <2> HIDE DEF borrowed
  <2> QED
    BY <2>1, <2>2
<1>6. p \in Loose <=> p \in handed \/ pc[p] \in LooseAt
  BY DEF Loose
<1>7. p \in Borrowed <=> pc[p] \in BorrowedAt
  BY DEF Borrowed
<1>8. loose \in BOOLEAN /\ borrowed \in BOOLEAN
  OBVIOUS
<1> HIDE DEF loose, borrowed
<1>9. Cardinality(Loose') = Tally(Cardinality(Loose), p \in Loose, loose)
  BY <1>4, <1>8, InHandFinite, TallyCounts
<1>10. Cardinality(Borrowed') = Tally(Cardinality(Borrowed), p \in Borrowed, borrowed)
  BY <1>5, <1>8, InHandFinite, TallyCounts
<1> QED
  BY <1>6, <1>7, <1>9, <1>10 DEF Tally, loose, borrowed

\* A client that moves without the books, between places of the same kind.
LEMMA AccountedKept ==
    ASSUME Placed, Listed, Accounted, NEW p \in Clients, NEW place, NEW attempt,
           Moves(p, place, attempt), UNCHANGED <<idle, created, active, alive>>,
           handed' \ {p} = handed \ {p},
           p \in handed \/ pc[p] \in LooseAt <=> p \in handed' \/ place \in LooseAt,
           pc[p] \in BorrowedAt <=> place \in BorrowedAt
    PROVE  Accounted'
<1>1. /\ Cardinality(Loose') = Cardinality(Loose)
      /\ Cardinality(Borrowed') = Cardinality(Borrowed)
  BY InHandMoves DEF Tally
<1> QED
  BY <1>1 DEF Accounted

\* An attempt takes an idle connection or a free slot in hand, or gives the slot up.
LEMMA TryAccounted ==
    ASSUME Control, Listed, IdleSeen, Accounted, NEW p \in Clients, TryStep(p)
    PROVE  Accounted'
<1>1. Placed /\ p \in Procs /\ idle \in Nat /\ maximumPoolSize \in Nat
  BY ConnectionPoolAssumption DEF Control, IdleSeen, Procs
<1>2. p \notin handed /\ pc[p] \notin BorrowedAt
  <2>1. pc[p] \in Trying
    BY <1>1, TryPlaces
  <2>2. p \in handed => p \in Tasks
    BY DEF Listed, ListTypes
  <2> QED
    BY <2>1, <2>2, NotInvolved DEF Trying, BorrowedAt
<1>3. UNCHANGED <<handed, alive>>
  BY DEF TryStep, PopEmpty, PopEntry, Drop, NoteDrop, Reserve, Create, awaiters, life
<1>4. Cardinality(Loose) \in Nat /\ Cardinality(Borrowed) \in Nat
  BY InHandFinite
\* Where it goes decides whether it has a slot in hand.
<1>5. ASSUME NEW place \in Trying, Moves(p, place, stage[p])
      PROVE  /\ Cardinality(Borrowed') = Cardinality(Borrowed)
             /\ Cardinality(Loose')
                  = Tally(Cardinality(Loose), pc[p] \in LooseAt, place \in LooseAt)
  <2>1. place \notin BorrowedAt
    BY DEF Trying, BorrowedAt
  <2>2. /\ Cardinality(Loose') = Tally(Cardinality(Loose), p \in handed \/ pc[p] \in LooseAt,
                                       p \in handed' \/ place \in LooseAt)
        /\ Cardinality(Borrowed') = Tally(Cardinality(Borrowed), pc[p] \in BorrowedAt,
                                          place \in BorrowedAt)
    BY <1>1, <1>3, <1>5, InHandMoves
  <2> QED
    BY <1>2, <1>3, <2>1, <2>2 DEF Tally
<1>6. {"pop", "drop", "noteDrop", "reserve", "create", "got", "empty"} \subseteq Trying
  BY DEF Trying
<1> USE <1>1, <1>3, <1>4, <1>5, <1>6 DEF MovesAlone
<1>7. CASE PopEmpty(p) \/ NoteDrop(p)
  <2>1. UNCHANGED <<idle, created, active>> /\ pc[p] \notin LooseAt
    BY <1>7 DEF PopEmpty, NoteDrop, books, LooseAt
  <2>2. Moves(p, "empty", stage[p]) \/ Moves(p, "reserve", stage[p])
    BY <1>7, TryStepMoves
  <2>3. /\ Cardinality(Borrowed') = Cardinality(Borrowed)
        /\ Cardinality(Loose') = Cardinality(Loose)
    BY <2>1, <2>2 DEF Tally, LooseAt
  <2> QED
    BY <2>1, <2>3 DEF Accounted
<1>8. CASE PopEntry(p)
  <2>1. /\ idle > 0 /\ idle' = idle - 1 /\ UNCHANGED <<created, active>>
        /\ pc[p] \notin LooseAt
    BY <1>8 DEF PopEntry, LooseAt
  <2>2. Moves(p, "got", stage[p]) \/ Moves(p, "drop", stage[p])
    BY <1>8, TryStepMoves
  <2>3. /\ Cardinality(Borrowed') = Cardinality(Borrowed)
        /\ Cardinality(Loose') = Cardinality(Loose) + 1
    BY <2>1, <2>2 DEF Tally, LooseAt
  <2> QED
    BY <2>1, <2>3 DEF Accounted
<1>9. CASE Drop(p)
  <2>1. created' = created - 1 /\ UNCHANGED <<idle, active>> /\ pc[p] \in LooseAt
    BY <1>9 DEF Drop, LooseAt
  <2>2. Moves(p, "noteDrop", stage[p])
    BY <1>9, TryStepMoves
  <2>3. /\ Cardinality(Borrowed') = Cardinality(Borrowed)
        /\ Cardinality(Loose') = Cardinality(Loose) - 1
    BY <2>1, <2>2 DEF Tally, LooseAt
  <2>4. Cardinality(Loose) >= 1
    BY <2>1, InHandSome
  <2> QED
    BY <2>1, <2>3, <2>4 DEF Accounted
<1>10. CASE Reserve(p)
  <2>1. pc[p] \notin LooseAt /\ UNCHANGED <<idle, active>>
    BY <1>10 DEF Reserve, LooseAt
  <2>2. CASE Go(p, "empty") /\ UNCHANGED created
    <3>1. Moves(p, "empty", stage[p])
      BY <2>2, GoInside DEF Pcs, Outside
    <3>2. /\ Cardinality(Borrowed') = Cardinality(Borrowed)
          /\ Cardinality(Loose') = Cardinality(Loose)
      BY <2>1, <3>1 DEF Tally, LooseAt
    <3> QED
      BY <2>1, <2>2, <3>2 DEF Accounted
  <2>3. CASE Go(p, "create") /\ created' = created + 1 /\ created < maximumPoolSize
    <3>1. Moves(p, "create", stage[p])
      BY <2>3, GoInside DEF Pcs, Outside
    <3>2. /\ Cardinality(Borrowed') = Cardinality(Borrowed)
          /\ Cardinality(Loose') = Cardinality(Loose) + 1
      BY <2>1, <3>1 DEF Tally, LooseAt
    <3> QED
      BY <2>1, <2>3, <3>2 DEF Accounted
  <2> QED
    BY <1>10, <2>2, <2>3 DEF Reserve, MayCreate
<1>11. CASE Create(p)
  <2>1. pc[p] \in LooseAt /\ UNCHANGED <<idle, active>>
    BY <1>11 DEF Create, LooseAt
  <2>2. CASE Go(p, "got") /\ UNCHANGED created
    <3>1. Moves(p, "got", stage[p])
      BY <2>2, GoInside DEF Pcs, Outside
    <3>2. /\ Cardinality(Borrowed') = Cardinality(Borrowed)
          /\ Cardinality(Loose') = Cardinality(Loose)
      BY <2>1, <3>1 DEF Tally, LooseAt
    <3> QED
      BY <2>1, <2>2, <3>2 DEF Accounted
  <2>3. CASE Go(p, "empty") /\ created' = created - 1
    <3>1. Moves(p, "empty", stage[p])
      BY <2>3, GoInside DEF Pcs, Outside
    <3>2. /\ Cardinality(Borrowed') = Cardinality(Borrowed)
          /\ Cardinality(Loose') = Cardinality(Loose) - 1
      BY <2>1, <3>1 DEF Tally, LooseAt
    <3>3. Cardinality(Loose) >= 1
      BY <2>1, InHandSome
    <3> QED
      BY <2>1, <2>3, <3>2, <3>3 DEF Accounted
  <2> QED
    BY <1>11, <2>2, <2>3 DEF Create, FreeSlotOfFailure
<1> QED
  BY <1>7, <1>8, <1>9, <1>10, <1>11 DEF TryStep

\* A thread that got a connection has borrowed it.
LEMMA ThreadAccounted ==
    ASSUME Control, Listed, IdleSeen, Accounted, NEW p \in Threads,
           CallFromThread(p) \/ ThreadStep(p) \/ ThreadTimeout(p)
    PROVE  Accounted'
<1>1. /\ p \in Clients /\ p \in Procs /\ Placed /\ ThreadPlaced(p) /\ p \notin handed
      /\ idle \in Nat /\ maximumPoolSize \in Nat
  <2>1. p \notin Tasks
    BY ConnectionPoolAssumption
  <2>2. handed \subseteq Tasks
    BY DEF Listed, ListTypes
  <2> QED
    BY <2>1, <2>2, ConnectionPoolAssumption DEF Clients, Procs, Control, Placed, IdleSeen
<1>2. CASE TryStep(p)
  BY <1>1, <1>2, TryAccounted
<1>3. CASE ThreadGot(p)
  <2>1. /\ pc[p] \in LooseAt /\ pc[p] \notin BorrowedAt
        /\ active' = active + 1 /\ UNCHANGED <<idle, created, alive, handed>>
    BY <1>3 DEF ThreadGot, LooseAt, BorrowedAt, life, awaiters
  <2>2. Moves(p, "held", "none")
    BY <1>1, <1>3, ThreadMoves
  <2>3. /\ Cardinality(Loose') = Cardinality(Loose) - 1
        /\ Cardinality(Borrowed') = Cardinality(Borrowed) + 1
    BY <1>1, <2>1, <2>2, InHandMoves DEF Tally, LooseAt, BorrowedAt
  <2> QED
    BY <1>1, <2>1, <2>3, InHandFinite DEF Accounted
<1>4. CASE ~TryStep(p) /\ ~ThreadGot(p)
  <2>1. UNCHANGED <<idle, created, active, alive, handed>>
    BY <1>4 DEF CallFromThread, ThreadStep, ThreadTimeout, ThreadEmpty, ThreadGate,
                ThreadEnter, ThreadWaits, ThreadWoken, life, awaiters, books
  <2>2. pc[p] \notin LooseAt \cup BorrowedAt
    BY <1>4 DEF CallFromThread, ThreadStep, ThreadTimeout, ThreadEmpty, ThreadGate,
                ThreadEnter, ThreadWaits, ThreadWoken, LooseAt, BorrowedAt
  <2>3. PICK place \in {"out", "pop", "gate", "enter", "asleep"} : \E attempt : Moves(p, place, attempt)
    <3>1. ThreadEmpty(p) => stage[p] \in {"fast", "grow", "try"}
      BY <1>1 DEF ThreadPlaced, ThreadEmpty, Returning
    <3> QED
      BY <1>1, <1>4, <3>1, ThreadMoves DEF ThreadStep, ThreadTimeout, MovesAlone
  <2>4. place \notin LooseAt \cup BorrowedAt
    BY DEF LooseAt, BorrowedAt
  <2> QED
    BY <1>1, <2>1, <2>2, <2>3, <2>4, AccountedKept
<1> QED
  BY <1>2, <1>3, <1>4

\* A connection handed to a coroutine is in hand until the coroutine takes it.
LEMMA TaskAccounted ==
    ASSUME Control, Listed, IdleSeen, Accounted, NEW t \in Tasks, CallFromTask(t) \/ TaskStep(t)
    PROVE  Accounted'
<1>1. /\ t \in Clients /\ t \in Procs /\ Placed
      /\ idle \in Nat /\ maximumPoolSize \in Nat
  BY ConnectionPoolAssumption DEF Clients, Procs, Control, IdleSeen
<1>2. t \in handed => pc[t] \in {"suspended", "resumed"}
  BY NotInvolved
<1>3. UNCHANGED alive
  BY DEF CallFromTask, TaskStep, TaskGot, TaskNotReady, TaskRegister, TaskNeedsLock, TaskLocks,
         TaskComparesEpoch, TaskEnlist, TaskResume, AwaitResume, TaskDecides, TryStep, PopEmpty,
         PopEntry, Drop, NoteDrop, Reserve, Create, life
<1> USE DEF MovesAlone
<1>4. CASE TryStep(t)
  BY <1>1, <1>4, TryAccounted
<1>5. CASE TaskGot(t)
  <2>1. pc[t] = "got" /\ handed' = handed \cup {t} /\ UNCHANGED <<idle, created, active>>
    BY <1>5 DEF TaskGot, books
  <2>2. Moves(t, "resumed", "none")
    BY <1>1, <1>5, TaskMoves
  <2> QED
    BY <1>1, <1>3, <2>1, <2>2, AccountedKept DEF LooseAt, BorrowedAt
<1>6. CASE AwaitResume(t)
  <2>1. pc[t] = "resumed" /\ handed' = handed \ {t} /\ UNCHANGED <<idle, created>>
    BY <1>6 DEF AwaitResume
  <2>2. CASE t \in handed /\ alive /\ active' = active + 1 /\ Moves(t, "taken", "none")
    <3>1. /\ Cardinality(Loose') = Cardinality(Loose) - 1
          /\ Cardinality(Borrowed') = Cardinality(Borrowed) + 1
      BY <1>1, <2>1, <2>2, InHandMoves DEF Tally, LooseAt, BorrowedAt
    <3> QED
      BY <1>1, <2>1, <2>2, <3>1, InHandFinite DEF Accounted
  <2>3. CASE t \in handed /\ ~alive /\ UNCHANGED active /\ Moves(t, "decide", "none")
    <3>1. /\ Cardinality(Loose') = Cardinality(Loose) - 1
          /\ Cardinality(Borrowed') = Cardinality(Borrowed)
      BY <1>1, <2>1, <2>3, InHandMoves DEF Tally, LooseAt, BorrowedAt
    <3> QED
      BY <1>1, <1>3, <2>1, <2>3, <3>1, InHandFinite DEF Accounted
  <2>4. CASE t \notin handed /\ UNCHANGED active /\ Moves(t, "decide", "none")
    BY <1>1, <1>3, <2>1, <2>4, AccountedKept DEF LooseAt, BorrowedAt
  <2> QED
    BY <1>1, <1>6, <2>2, <2>3, <2>4, TaskMoves
<1>7. CASE TaskResume(t)
  <2>1. UNCHANGED <<handed, idle, created, active>>
    BY <1>7 DEF TaskResume, books
  <2>2. CASE pc[t] = "suspended" /\ Moves(t, "resumed", "none")
    BY <1>1, <1>3, <2>1, <2>2, AccountedKept DEF LooseAt, BorrowedAt
  <2>3. CASE UNCHANGED places
    <3>1. UNCHANGED pc
      BY <2>3 DEF places
    <3> QED
      BY <1>3, <2>1, <3>1 DEF Accounted, Loose, Borrowed
  <2> QED
    BY <1>1, <1>7, <2>2, <2>3, TaskMoves
<1>8. CASE TaskDecides(t)
  <2>1. UNCHANGED <<handed, idle, created, active>> /\ t \notin handed
    BY <1>2, <1>8 DEF TaskDecides, books, awaiters
  <2> QED
    BY <1>1, <1>3, <1>8, <2>1, TaskMoves, AccountedKept DEF LooseAt, BorrowedAt
<1>9. CASE \/ CallFromTask(t) \/ TaskNotReady(t) \/ TaskRegister(t) \/ TaskNeedsLock(t)
           \/ TaskLocks(t) \/ TaskComparesEpoch(t) \/ TaskEnlist(t)
  <2>1. UNCHANGED <<handed, idle, created, active>>
    BY <1>9 DEF CallFromTask, TaskNotReady, TaskRegister, TaskNeedsLock, TaskLocks,
                TaskComparesEpoch, TaskEnlist, books, awaiters
  <2>2. pc[t] \in {"out", "empty", "register", "lock", "enlist"}
    BY <1>9 DEF CallFromTask, TaskNotReady, TaskRegister, TaskNeedsLock, TaskLocks,
                TaskComparesEpoch, TaskEnlist
  <2>3. \E place \in {"pop", "register", "resumed", "lock", "enlist", "suspended", "refused"} :
            \E attempt : Moves(t, place, attempt)
    BY <1>1, <1>9, TaskMoves
  <2>4. t \notin handed
    BY <1>2, <2>2
  <2> QED
    BY <1>1, <1>3, <2>1, <2>2, <2>3, <2>4, AccountedKept DEF LooseAt, BorrowedAt
<1> QED
  BY <1>4, <1>5, <1>6, <1>7, <1>8, <1>9 DEF TaskStep

\* The health thread and the destructor have nothing in hand.
LEMMA OthersInHand ==
    ASSUME NEW p \in {Health, Destructor}, NEW place, NEW attempt, Moves(p, place, attempt),
           UNCHANGED handed
    PROVE  Loose' = Loose /\ Borrowed' = Borrowed
<1>1. \A q \in Clients : q \in Procs /\ q # p
  BY ConnectionPoolAssumption DEF Procs
<1>2. \A q \in Clients : /\ pc'[q] \in LooseAt <=> pc[q] \in LooseAt
                         /\ pc'[q] \in BorrowedAt <=> pc[q] \in BorrowedAt
  BY <1>1 DEF Moves, LooseAt, BorrowedAt
<1> QED
  BY <1>2 DEF Loose, Borrowed

\* A return puts the connection back, hands it over, or gives up its slot.
LEMMA ReturnAccounted ==
    ASSUME Control, Listed, IdleSeen, Accounted, NEW p \in Clients,
           GiveBack(p) \/ (p \in Tasks /\ FrameDies(p)) \/ ReturnStep(p)
    PROVE  Accounted'
<1>1. /\ Placed /\ p \in Procs /\ idle \in Nat /\ maximumPoolSize \in Nat
      /\ stage[p] = "none" /\ p # Nobody
  BY ConnectionPoolAssumption, ReturnPlaces DEF Control, IdleSeen, Procs
<1>2. UNCHANGED alive
  BY DEF GiveBack, FrameDies, ReturnStep, Offer, Discard, NoteFreed, Look, WakeTask, WakeThread, life
<1>3. pc[p] \notin {"suspended", "resumed"} => p \notin handed
  <2>1. handed \subseteq Tasks
    BY DEF Listed, ListTypes
  <2> QED
    BY <2>1, NotInvolved
<1>4. /\ Cardinality(Loose) \in Nat /\ Cardinality(Borrowed) \in Nat
  BY InHandFinite
<1> USE DEF MovesAlone
<1>5. CASE GiveBack(p)
  <2>1. pc[p] \in {"held", "spoiled"} /\ UNCHANGED <<idle, created, handed>> /\ p \notin handed
    BY <1>3, <1>5 DEF GiveBack, awaiters
  <2>2. CASE /\ alive /\ active' = active - 1
             /\ Moves(p, "discard", stage[p]) \/ Moves(p, "offer", stage[p])
    <3>1. /\ Cardinality(Loose') = Cardinality(Loose) + 1
          /\ Cardinality(Borrowed') = Cardinality(Borrowed) - 1
      BY <1>1, <2>1, <2>2, InHandMoves DEF Tally, LooseAt, BorrowedAt
    <3>2. Cardinality(Borrowed) >= 1
      BY <2>1, InHandSome DEF BorrowedAt
    <3> QED
      BY <1>1, <1>2, <1>4, <2>1, <2>2, <3>1, <3>2 DEF Accounted
  <2>3. CASE ~alive /\ UNCHANGED active /\ Moves(p, "out", "none")
    <3>1. /\ Cardinality(Loose') = Cardinality(Loose)
          /\ Cardinality(Borrowed') = Cardinality(Borrowed) - 1
      BY <1>1, <2>1, <2>3, InHandMoves DEF Tally, LooseAt, BorrowedAt
    <3> QED
      BY <1>1, <1>2, <1>4, <2>1, <2>3, <3>1 DEF Accounted
  <2> QED
    BY <1>1, <1>5, <2>2, <2>3, ReturnMoves
<1>6. CASE p \in Tasks /\ FrameDies(p)
  <2>1. pc[p] = "suspended" /\ UNCHANGED <<idle, created, active>> /\ handed' = handed \ {p}
    BY <1>6 DEF FrameDies, books
  <2>2. CASE p \in handed /\ (Moves(p, "discard", stage[p]) \/ Moves(p, "offer", stage[p]))
    BY <1>1, <1>2, <2>1, <2>2, AccountedKept DEF LooseAt, BorrowedAt
  <2>3. CASE p \notin handed /\ Moves(p, "out", "none")
    BY <1>1, <1>2, <2>1, <2>3, AccountedKept DEF LooseAt, BorrowedAt
  <2>4. CASE p \in handed /\ ~alive /\ Moves(p, "out", "none")
    <3>1. /\ Cardinality(Loose') = Cardinality(Loose) - 1
          /\ Cardinality(Borrowed') = Cardinality(Borrowed)
      BY <1>1, <2>1, <2>4, InHandMoves DEF Tally, LooseAt, BorrowedAt
    <3> QED
      BY <1>1, <1>2, <1>4, <2>1, <2>4, <3>1 DEF Accounted
  <2> QED
    BY <1>1, <1>6, <2>2, <2>3, <2>4, ReturnMoves
<1>7. CASE Offer(p)
  <2>1. pc[p] = "offer" /\ p \notin handed /\ UNCHANGED <<created, active>>
    BY <1>3, <1>7 DEF Offer
  <2>2. CASE waiters # << >>
    <3> DEFINE h == Head(waiters)
    <3>1. Moves(p, "out", "none") /\ handed' = handed \cup {h} /\ UNCHANGED idle
      BY <1>1, <1>7, <2>2, ReturnMoves DEF Offer, OfferToWaiter
    <3>2. h \in Tasks /\ h \in ToSet(waiters) /\ h \notin posted \cup lost
      BY <2>2, HeadTaken DEF Listed, ListTypes
    <3>3. alive
      BY <1>1, <2>1 DEF Control, Locked, Returning
    <3>4. pc[h] = "suspended" /\ h \notin handed
      BY <3>2, <3>3 DEF Listed, Waits, Involved
    <3>5. h \in Clients /\ h # p
      BY <2>1, <3>2, <3>4 DEF Clients
    <3> HIDE DEF h
    <3>6. \A q \in Clients \ {p} : /\ pc'[q] \in LooseAt <=> pc[q] \in LooseAt
                                   /\ pc'[q] \in BorrowedAt <=> pc[q] \in BorrowedAt
      BY <3>1 DEF Moves, LooseAt, BorrowedAt, Procs
    <3>7. pc'[p] = "out"
      BY <3>1 DEF Moves
    <3>8. Loose' = (Loose \ {p}) \cup {h} /\ p \in Loose /\ h \notin Loose
      <4>1. p \in Loose /\ h \notin Loose
        BY <2>1, <3>4 DEF Loose, LooseAt
      <4>2. p \notin Loose'
        BY <2>1, <3>1, <3>5, <3>7 DEF Loose, LooseAt
      <4>3. ASSUME NEW q, q # p PROVE q \in Loose' <=> q \in Loose \/ q = h
        BY <3>1, <3>6, <4>3 DEF Loose
      <4> QED
        BY <3>5, <4>1, <4>2, <4>3
    <3>9. Borrowed' = Borrowed
      <4>1. p \notin Borrowed /\ p \notin Borrowed'
        BY <2>1, <3>7 DEF Borrowed, BorrowedAt
      <4> QED
        BY <3>6, <4>1 DEF Borrowed
    <3>10. Cardinality(Loose') = Cardinality(Loose)
      <4>1. IsFiniteSet(Loose) /\ IsFiniteSet(Loose \ {p})
        BY InHandFinite, FS_RemoveElement
      <4>2. Cardinality(Loose \ {p}) = Cardinality(Loose) - 1
        BY <3>8, <4>1, FS_RemoveElement
      <4>3. Cardinality(Loose') = Cardinality(Loose \ {p}) + 1
        BY <3>8, <4>1, FS_AddElement
      <4> QED
        BY <1>4, <4>2, <4>3
    <3> QED
      BY <1>2, <2>1, <3>1, <3>9, <3>10 DEF Accounted
  <2>3. CASE waiters = << >>
    <3>1. UNCHANGED handed
      BY <1>7, <2>3 DEF Offer, OfferToWaiter
    <3>2. CASE idle' = idle + 1 /\ Moves(p, "out", "none")
      <4>1. /\ Cardinality(Loose') = Cardinality(Loose) - 1
            /\ Cardinality(Borrowed') = Cardinality(Borrowed)
        BY <1>1, <2>1, <3>1, <3>2, InHandMoves DEF Tally, LooseAt, BorrowedAt
      <4> QED
        BY <1>1, <1>2, <1>4, <2>1, <3>2, <4>1 DEF Accounted
    <3>3. CASE UNCHANGED idle /\ Moves(p, "discard", stage[p])
      BY <1>1, <1>2, <2>1, <3>1, <3>3, AccountedKept DEF LooseAt, BorrowedAt
    <3> QED
      BY <1>1, <1>7, <2>3, <3>2, <3>3, ReturnMoves
  <2> QED
    BY <2>2, <2>3
<1>8. CASE Discard(p)
  <2>1. /\ pc[p] = "discard" /\ p \notin handed /\ UNCHANGED <<idle, active, handed>>
        /\ created' = created - 1
    BY <1>3, <1>8 DEF Discard, awaiters
  <2>2. Moves(p, "noteFreed", stage[p])
    BY <1>1, <1>8, ReturnMoves
  <2>3. /\ Cardinality(Loose') = Cardinality(Loose) - 1
        /\ Cardinality(Borrowed') = Cardinality(Borrowed)
    BY <1>1, <2>1, <2>2, InHandMoves DEF Tally, LooseAt, BorrowedAt
  <2>4. Cardinality(Loose) >= 1
    BY <2>1, InHandSome DEF LooseAt
  <2> QED
    BY <1>1, <1>2, <1>4, <2>1, <2>3, <2>4 DEF Accounted
<1>9. CASE NoteFreed(p) \/ Look(p) \/ WakeTask(p) \/ WakeThread(p)
  <2>1. /\ UNCHANGED <<idle, created, active, handed>>
        /\ pc[p] \in {"noteFreed", "look", "lookAgain", "wakeTask", "wakeThread"}
    BY <1>9 DEF NoteFreed, Look, WakeTask, WakeThread, books, awaiters
  <2>2. \E place \in {"look", "lookAgain", "wakeTask", "wakeThread", "out"} :
            \E attempt : Moves(p, place, attempt)
    BY <1>1, <1>9, ReturnMoves
  <2> QED
    BY <1>1, <1>2, <1>3, <2>1, <2>2, AccountedKept DEF LooseAt, BorrowedAt
<1> QED
  BY <1>5, <1>6, <1>7, <1>8, <1>9 DEF ReturnStep

\* An eviction gives up the slots of what it takes, and the destructor closes what is idle.
LEMMA OtherAccounted ==
    ASSUME Control, Listed, IdleSeen, Accounted,
           \/ \E tasks \in SUBSET Tasks : expireTimedOutWaiters(tasks)
           \/ ReturnStep(Health) \/ Evict \/ BeginDestruction \/ DestructorStep
    PROVE  Accounted'
<1>1. /\ Placed /\ Health \in Procs /\ idle \in Nat /\ maximumPoolSize \in Nat
      /\ pc[Health] \notin {"offer", "discard"}
  BY ConnectionPoolAssumption DEF Control, Placed, Procs, IdleSeen, Returning
<1>2. UNCHANGED handed
  BY <1>1 DEF ReturnStep, Offer, Discard, NoteFreed, Look, WakeTask, WakeThread, Evict, BeginDestruction,
         DestructorStep, JoinHealth, CloseIdle, AwaitThreads, Sweep, Free, expireTimedOutWaiters,
         awaiters
<1>3. Loose' = Loose /\ Borrowed' = Borrowed
  <2>1. CASE \E tasks \in SUBSET Tasks : expireTimedOutWaiters(tasks)
    <3>1. UNCHANGED pc
      BY <2>1 DEF expireTimedOutWaiters, places
    <3> QED
      BY <1>2, <3>1 DEF Loose, Borrowed
  <2>2. CASE ReturnStep(Health) \/ Evict
    BY <1>1, <1>2, <2>2, HealthPlaces, OthersInHand
  <2>3. CASE BeginDestruction \/ DestructorStep
    <3>1. \E place, attempt : Moves(Destructor, place, attempt)
      BY <1>1, <2>3, DestructorMoves DEF DestructorStep, MovesAlone
    <3> QED
      BY <1>2, <3>1, OthersInHand
  <2> QED
    BY <2>1, <2>2, <2>3
<1>4. Cardinality(Loose) \in Nat /\ Cardinality(Borrowed) \in Nat
  BY InHandFinite
<1>5. UNCHANGED active /\ (alive' => alive)
  BY DEF ReturnStep, Offer, Discard, NoteFreed, Look, WakeTask, WakeThread, Evict, BeginDestruction,
         DestructorStep, JoinHealth, CloseIdle, AwaitThreads, Sweep, Free, expireTimedOutWaiters,
         books, life
<1>6. CASE UNCHANGED <<idle, created>>
  BY <1>3, <1>5, <1>6 DEF Accounted
<1>7. CASE Evict
  <2>1. PICK n \in 1 .. idle : idle' = idle - n /\ created' = created - n
    BY <1>7 DEF Evict
  <2> QED
    BY <1>1, <1>3, <1>4, <1>5, <2>1 DEF Accounted
<1>8. CASE CloseIdle
  <2>1. idle' = 0 /\ UNCHANGED created /\ ~alive'
    <3>1. pc[Destructor] = "close" /\ alive' = alive /\ idle' = 0 /\ UNCHANGED created
      BY <1>8 DEF CloseIdle
    <3> QED
      BY <3>1 DEF Control, Locked
  <2> QED
    BY <1>1, <1>3, <1>4, <1>5, <2>1 DEF Accounted
<1> QED
  BY <1>1, <1>6, <1>7, <1>8
     DEF ReturnStep, Offer, Discard, NoteFreed, Look, WakeTask, WakeThread, BeginDestruction,
         DestructorStep, JoinHealth, AwaitThreads, Sweep, Free, expireTimedOutWaiters, books

\* Every step keeps the books.
LEMMA AccountedStep == ASSUME Control, Listed, IdleSeen, Accounted, Next PROVE Accounted'
<1>1. Steps
  BY NextSteps
<1> QED
  BY <1>1, ThreadAccounted, TaskAccounted, ReturnAccounted, OtherAccounted DEF Steps

-----------------------------------------------------------------------------
(* IdleIsFetched: who wakes or tries is counted on, who sleeps saw nothing *)

\* Finitely many threads are on their way.
LEMMA InFlightFinite == IsFiniteSet(InFlight) /\ Cardinality(InFlight) \in Nat
<1>1. IsFiniteSet(Clients) /\ InFlight \subseteq Clients
  BY ConnectionPoolAssumption DEF InFlight, Clients
<1> QED
  BY <1>1, FS_Subset, FS_CardinalityType

\* With nothing idle, or with nobody asleep, there is nothing to fetch.
LEMMA NothingToFetch ==
    ASSUME idle' = 0 \/ \A q \in Threads : pc'[q] # "asleep"
    PROVE  IdleIsFetched'
<1>1. IsFiniteSet(InFlight') /\ Cardinality(InFlight') \in Nat
  <2>1. IsFiniteSet(Clients) /\ InFlight' \subseteq Clients
    BY ConnectionPoolAssumption DEF InFlight, Clients
  <2> QED
    BY <2>1, FS_Subset, FS_CardinalityType
<1> QED
  BY <1>1 DEF IdleIsFetched

\* After notify_all() nobody sleeps.
LEMMA AllAwake ==
    ASSUME NEW p \in Procs, NEW place, NotifyAll(p, place), place # "asleep",
           NEW q \in Threads
    PROVE  pc'[q] # "asleep"
<1>1. q \in Procs
  BY DEF Procs, Clients
<1> QED
  BY <1>1 DEF NotifyAll, Asleep

\* Those that were on their way still are when another process moves.
LEMMA StillInFlight ==
    ASSUME NEW p \in Procs, NEW place, NEW attempt, Moves(p, place, attempt)
    PROVE  /\ InFlight \ {p} \subseteq InFlight' \ {p}
           /\ \A q \in Threads \ {p} : pc'[q] = "asleep" => pc[q] = "asleep"
<1>1. \A q \in Threads \ {p} :
          /\ q \in Procs
          /\ stage'[q] = stage[q]
          /\ pc'[q] = pc[q] \/ (pc[q] = "asleep" /\ pc'[q] = "woken")
  BY DEF Moves, Procs, Clients
<1> QED
  BY <1>1 DEF InFlight

\* A step that puts nothing back, and whose process is not one that somebody counts on.
LEMMA FetchedKept ==
    ASSUME IdleSeen, IdleIsFetched, NEW p \in Procs, NEW place, NEW attempt, Moves(p, place, attempt),
           idle' \in Nat, idle' <= idle,
           p \in InFlight => p \in InFlight',
           p \in Threads => place # "asleep"
    PROVE  IdleIsFetched'
<1>1. InFlight \subseteq InFlight'
  BY StillInFlight
<1>2. IsFiniteSet(InFlight')
  <2>1. IsFiniteSet(Clients) /\ InFlight' \subseteq Clients
    BY ConnectionPoolAssumption DEF InFlight, Clients
  <2> QED
    BY <2>1, FS_Subset
<1>3. Cardinality(InFlight) <= Cardinality(InFlight') /\ Cardinality(InFlight') \in Nat
  BY <1>1, <1>2, FS_Subset, FS_CardinalityType
<1>4. (\E q \in Threads : pc'[q] = "asleep") => \E q \in Threads : pc[q] = "asleep"
  BY StillInFlight DEF Moves
<1> QED
  BY <1>3, <1>4, InFlightFinite DEF IdleIsFetched, IdleSeen

\* A thread that was counted on takes one, or sees that nothing is idle.
LEMMA TryFetched ==
    ASSUME Control, IdleSeen, IdleIsFetched, NEW p \in Clients, TryStep(p)
    PROVE  IdleIsFetched'
<1>1. Placed /\ p \in Procs /\ idle \in Nat
  BY DEF Control, Procs, IdleSeen
<1>2. PICK place \in Trying : Moves(p, place, stage[p])
  BY <1>1, TryPlaces DEF MovesAlone
<1>3. place # "asleep"
  BY DEF Trying
<1>4. CASE PopEmpty(p)
  BY <1>4, NothingToFetch DEF PopEmpty, books
<1>5. CASE PopEntry(p)
  <2>1. idle > 0 /\ idle' = idle - 1 /\ pc[p] = "pop"
    BY <1>5 DEF PopEntry
  <2>2. IsFiniteSet(InFlight') /\ IsFiniteSet(InFlight)
    <3>1. IsFiniteSet(Clients) /\ InFlight' \subseteq Clients
      BY ConnectionPoolAssumption DEF InFlight, Clients
    <3> QED
      BY <3>1, InFlightFinite, FS_Subset
  <2>3. InFlight \ {p} \subseteq InFlight'
    BY <1>1, <1>2, StillInFlight
  <2>4. Cardinality(InFlight) - 1 <= Cardinality(InFlight \ {p})
    <3>1. CASE p \in InFlight
      <4>1. Cardinality(InFlight \ {p}) = Cardinality(InFlight) - 1
        BY <2>2, <3>1, FS_RemoveElement
      <4> QED
        BY <4>1, InFlightFinite
    <3>2. CASE p \notin InFlight
      <4>1. InFlight \ {p} = InFlight
        BY <3>2
      <4> QED
        BY <4>1, InFlightFinite
    <3> QED
      BY <3>1, <3>2
  <2>5. /\ Cardinality(InFlight \ {p}) <= Cardinality(InFlight')
        /\ Cardinality(InFlight \ {p}) \in Nat /\ Cardinality(InFlight') \in Nat
    BY <2>2, <2>3, FS_Subset, FS_CardinalityType
  <2>6. (\E q \in Threads : pc'[q] = "asleep") => \E q \in Threads : pc[q] = "asleep"
    BY <1>1, <1>2, <1>3, StillInFlight DEF Moves
  <2> QED
    BY <1>1, <2>1, <2>4, <2>5, <2>6, InFlightFinite DEF IdleIsFetched
<1>6. CASE Drop(p) \/ NoteDrop(p) \/ Reserve(p) \/ Create(p)
  <2>1. UNCHANGED idle /\ p \notin InFlight
    BY <1>6 DEF Drop, NoteDrop, Reserve, Create, books, InFlight
  <2> QED
    BY <1>1, <1>2, <1>3, <2>1, FetchedKept
<1> QED
  BY <1>4, <1>5, <1>6 DEF TryStep

\* A thread sleeps only when it saw nothing idle, and one that leaves wakes all the others.
LEMMA ThreadFetched ==
    ASSUME Control, IdleSeen, IdleIsFetched, NEW p \in Threads,
           CallFromThread(p) \/ ThreadStep(p) \/ ThreadTimeout(p)
    PROVE  IdleIsFetched'
<1>1. p \in Clients /\ p \in Procs /\ Placed /\ ThreadPlaced(p) /\ idle \in Nat
  BY DEF Clients, Procs, Control, Placed, IdleSeen
<1>2. CASE TryStep(p)
  BY <1>1, <1>2, TryFetched
<1>3. ASSUME Leave(p) PROVE IdleIsFetched'
  BY <1>1, <1>3, AllAwake, NothingToFetch DEF Leave
<1>4. ASSUME ~TryStep(p), p \notin InFlight \/ p \in InFlight', NEW place, NEW attempt,
             Moves(p, place, attempt), place # "asleep"
      PROVE  IdleIsFetched'
  <2>1. UNCHANGED idle
    BY <1>4 DEF CallFromThread, ThreadStep, ThreadTimeout, ThreadGot, ThreadEmpty, ThreadGate,
                ThreadEnter, ThreadWaits, ThreadWoken, books
  <2> QED
    BY <1>1, <1>4, <2>1, FetchedKept
<1> USE DEF MovesAlone
<1>5. CASE /\ CallFromThread(p) \/ ThreadGot(p) \/ ThreadEmpty(p) \/ ThreadGate(p) \/ ThreadEnter(p)
           /\ ~TryStep(p)
  <2>1. p \notin InFlight
    BY <1>5 DEF CallFromThread, ThreadGot, ThreadEmpty, ThreadGate, ThreadEnter, InFlight
  <2>2. \E place \in {"pop", "held", "gate", "out", "enter"} : \E attempt : Moves(p, place, attempt)
    <3>1. ThreadEmpty(p) => stage[p] \in {"fast", "grow", "try"}
      BY <1>1 DEF ThreadPlaced, ThreadEmpty, Returning
    <3> QED
      BY <1>1, <1>5, <3>1, ThreadMoves
  <2> QED
    BY <1>4, <1>5, <2>1, <2>2
<1>6. ASSUME Moves(p, "pop", "wait"), ~TryStep(p) PROVE IdleIsFetched'
  <2>1. p \in InFlight'
    BY <1>6 DEF Moves, InFlight
  <2> QED
    BY <1>4, <1>6, <2>1
<1>7. CASE ThreadWaits(p) /\ ~TryStep(p)
  <2>1. CASE ~(idle > 0)
    <3>1. idle' = 0
      BY <1>1, <1>7, <2>1 DEF ThreadWaits, books
    <3> QED
      BY <3>1, NothingToFetch
  <2> QED
    BY <1>1, <1>3, <1>6, <1>7, <2>1, ThreadMoves
<1>8. CASE ThreadWoken(p) /\ ~TryStep(p)
  BY <1>1, <1>3, <1>6, <1>8, ThreadMoves
<1>9. CASE ThreadTimeout(p)
  BY <1>3, <1>9 DEF ThreadTimeout
<1> QED
  BY <1>2, <1>5, <1>7, <1>8, <1>9 DEF ThreadStep

\* What is put back wakes a sleeping thread, which is then on its way: the destructor does not
\* sleep while connections are offered.
LEMMA OfferFetched ==
    ASSUME Control, IdleSeen, IdleIsFetched, NEW p \in Clients, Offer(p), idle' = idle + 1
    PROVE  IdleIsFetched'
<1>1. Placed /\ p \in Procs /\ idle \in Nat /\ p # Nobody
  BY ConnectionPoolAssumption DEF Control, Procs, IdleSeen
<1>2. pc[p] = "offer" /\ NotifyOne(p, "out")
  BY <1>1 DEF Offer
<1>3. Moves(p, "out", "none")
  BY <1>1, <1>2, NotifyOutside DEF Outside
<1>4. CASE Asleep = {}
  <2>1. \A q \in Threads : q \in Procs /\ pc[q] # "asleep"
    BY <1>4 DEF Asleep, Procs, Clients
  <2>2. \A q \in Threads : pc'[q] # "asleep"
    BY <1>3, <2>1 DEF Moves
  <2> QED
    BY <2>2, NothingToFetch
<1>5. CASE Asleep # {}
  <2>1. PICK s \in Asleep : pc' = [pc EXCEPT ![p] = "out", ![s] = "woken"]
    BY <1>2, <1>5 DEF NotifyOne
  <2>2. s \in Procs /\ pc[s] = "asleep"
    BY DEF Asleep
  <2>3. s \in Threads
    <3>1. s # Destructor
      <4>1. alive
        BY <1>1, <1>2 DEF Control, Locked, Returning
      <4> QED
        BY <2>2, <4>1 DEF Control, Locked
    <3>2. s # Health
      BY <2>2 DEF Control, Placed, Returning
    <3>3. s \notin Tasks
      BY <2>2 DEF Control, Placed, TaskPlaced, Outside, Returning, Trying
    <3> QED
      BY <2>2, <3>1, <3>2, <3>3 DEF Procs, Clients
  <2>4. s # p /\ s \notin InFlight /\ p \notin InFlight
    BY <1>2, <2>2 DEF InFlight
  <2>5. pc'[s] = "woken"
    BY <1>1, <2>1, <2>2, <2>4 DEF Placed
  <2>6. InFlight \cup {s} \subseteq InFlight'
    <3>1. s \in InFlight'
      BY <2>3, <2>5 DEF InFlight
    <3> QED
      BY <1>1, <1>3, <2>4, <3>1, StillInFlight
  <2>7. IsFiniteSet(InFlight')
    <3>1. IsFiniteSet(Clients) /\ InFlight' \subseteq Clients
      BY ConnectionPoolAssumption DEF InFlight, Clients
    <3> QED
      BY <3>1, FS_Subset
  <2>8. Cardinality(InFlight) + 1 <= Cardinality(InFlight') /\ Cardinality(InFlight') \in Nat
    <3>1. Cardinality(InFlight \cup {s}) = Cardinality(InFlight) + 1
      BY <2>4, InFlightFinite, FS_AddElement
    <3> QED
      BY <2>6, <2>7, <3>1, FS_Subset, FS_CardinalityType
  <2>9. idle <= Cardinality(InFlight)
    BY <2>2, <2>3 DEF IdleIsFetched
  <2> QED
    BY <1>1, <2>8, <2>9, InFlightFinite DEF IdleIsFetched
<1> QED
  BY <1>4, <1>5

\* Every step keeps IdleIsFetched.
LEMMA IdleIsFetchedStep ==
    ASSUME Control, IdleSeen, IdleIsFetched, Next
    PROVE  IdleIsFetched'
<1>1. /\ Placed /\ idle \in Nat
      /\ Health \in Procs \ Threads /\ Destructor \in Procs \ Threads
  BY ConnectionPoolAssumption DEF Control, IdleSeen, Procs, Clients
<1>2. ASSUME NEW p \in Procs \ Threads, NEW place, NEW attempt, Moves(p, place, attempt),
             idle' \in Nat, idle' <= idle
      PROVE  IdleIsFetched'
  BY <1>2, FetchedKept DEF InFlight
<1>3. ASSUME NEW t \in Tasks, CallFromTask(t) \/ TaskStep(t) PROVE IdleIsFetched'
  <2>1. t \in Clients /\ t \in Procs \ Threads
    BY ConnectionPoolAssumption DEF Procs, Clients
  <2>2. CASE TryStep(t)
    BY <2>1, <2>2, TryFetched
  <2>3. CASE ~TryStep(t)
    <3>1. UNCHANGED idle
      BY <1>3, <2>3 DEF CallFromTask, TaskStep, TaskGot, TaskNotReady, TaskRegister, TaskNeedsLock,
             TaskLocks, TaskComparesEpoch, TaskEnlist, TaskResume, AwaitResume, TaskDecides, books
    <3>2. \E place, attempt : Moves(t, place, attempt)
      BY <1>1, <1>3, <2>1, StepMoves
    <3> QED
      BY <1>1, <1>2, <2>1, <3>1, <3>2
  <2> QED
    BY <2>2, <2>3
<1>4. ASSUME NEW p \in Clients, GiveBack(p) \/ (p \in Tasks /\ FrameDies(p)) \/ ReturnStep(p)
      PROVE  IdleIsFetched'
  <2>1. UNCHANGED idle \/ (Offer(p) /\ idle' = idle + 1)
    BY <1>4 DEF GiveBack, FrameDies, ReturnStep, Offer, Discard, NoteFreed, Look, WakeTask, WakeThread,
                books
  <2>2. p \in Procs /\ p \notin InFlight
    <3>1. pc[p] \in {"held", "spoiled", "suspended"} \cup Returning
      BY <1>4 DEF GiveBack, FrameDies, ReturnStep, Offer, Discard, NoteFreed, Look, WakeTask,
                  WakeThread, Returning
    <3> QED
      BY <3>1 DEF InFlight, Returning, Procs
  <2>3. PICK place \in {"out"} \cup Returning : Moves(p, place, "none")
    BY <1>1, <1>4, ReturnPlaces
  <2>4. place # "asleep"
    BY DEF Returning
  <2> QED
    BY <1>1, <2>1, <2>2, <2>3, <2>4, OfferFetched, FetchedKept
<1>5. ASSUME ReturnStep(Health) \/ Evict PROVE IdleIsFetched'
  <2>1. idle' \in Nat /\ idle' <= idle
    <3>1. pc[Health] # "offer"
      BY <1>1 DEF Placed, Returning
    <3> QED
      BY <1>1, <1>5, <3>1 DEF ReturnStep, Offer, Discard, NoteFreed, Look, WakeTask, WakeThread,
                              Evict, books
  <2> QED
    BY <1>1, <1>2, <1>5, <2>1, HealthPlaces
<1>6. ASSUME BeginDestruction \/ DestructorStep PROVE IdleIsFetched'
  <2>1. idle' \in Nat /\ idle' <= idle
    BY <1>1, <1>6 DEF BeginDestruction, DestructorStep, JoinHealth, CloseIdle, AwaitThreads, Sweep,
                      Free, books
  <2>2. \E place, attempt : Moves(Destructor, place, attempt)
    BY <1>1, <1>6, DestructorMoves DEF DestructorStep, MovesAlone
  <2> QED
    BY <1>1, <1>2, <2>1, <2>2
<1>7. ASSUME NEW tasks, expireTimedOutWaiters(tasks) PROVE IdleIsFetched'
  <2>1. UNCHANGED <<pc, stage, idle>>
    BY <1>7 DEF expireTimedOutWaiters, places, books
  <2> QED
    BY <2>1 DEF IdleIsFetched, InFlight
<1>8. Steps
  BY NextSteps
<1> QED
  BY <1>3, <1>4, <1>5, <1>6, <1>7, <1>8, ThreadFetched DEF Steps

-----------------------------------------------------------------------------
(* The theorems                                                            *)

\* The invariant holds at the start.
LEMMA InvInit == ASSUME Init PROVE Inv
<1>1. Control
  BY ControlInit
<1>2. /\ Threads \subseteq Procs /\ Tasks \subseteq Procs /\ Clients \subseteq Procs
      /\ Destructor \in Procs
      /\ \A p \in Procs : pc[p] = "out" /\ stage[p] = "none"
  BY DEF Procs, Clients, Init
<1>3. Counted
  <2>1. WaitingThreads = {} /\ RegisteringTasks = {}
    BY <1>2 DEF WaitingThreads, RegisteringTasks
  <2> QED
    BY <2>1, FS_EmptySet DEF Counted, Init
<1>4. Queued
  <2>1. ToSet(waiters) = {} /\ IsInjective(waiters) /\ waiters \in Seq(Tasks)
    BY DEF Init, ToSet, IsInjective
  <2>2. Listed
    BY <1>2, <2>1 DEF Init, Listed, ListTypes, Waits, Involved
  <2>3. Drained
    BY <1>2 DEF Init, Drained
  <2> QED
    BY <2>2, <2>3 DEF Queued
<1>5. IdleSeen
  BY DEF Init, IdleSeen, NoIdleBesideWaiters
<1>6. Accounted
  <2>1. Loose = {} /\ Borrowed = {}
    BY <1>2 DEF Init, Loose, Borrowed, LooseAt, BorrowedAt
  <2> QED
    BY <2>1, FS_EmptySet, ConnectionPoolAssumption DEF Init, Accounted
<1>7. IdleIsFetched
  BY <1>2 DEF IdleIsFetched
<1> QED
  BY <1>1, <1>3, <1>4, <1>5, <1>6, <1>7 DEF Inv

\* Every step keeps it.
LEMMA InvStep == ASSUME Inv, [Next]_vars PROVE Inv'
<1>1. CASE Next
  BY <1>1, ControlStep, CountedStep, QueuedStep, IdleSeenStep, AccountedStep, IdleIsFetchedStep
     DEF Inv, Queued
<1>2. CASE UNCHANGED vars
  BY <1>2 DEF Inv, vars, books, locks, life, queue, awaiters, places, Control, Placed, Locked,
     ThreadPlaced, TaskPlaced, Counted, WaitingThreads, RegisteringTasks, Queued, Listed, ListTypes,
     Waits, Involved, Drained, IdleSeen, FoundNothing, NoIdleBesideWaiters, Accounted, Loose,
     Borrowed, IdleIsFetched, InFlight
<1> QED
  BY <1>1, <1>2

\* The inductive invariant holds in every reachable state.
THEOREM PoolInvariant == Spec => []Inv
BY InvInit, InvStep, PTL DEF Spec

\* While the pool lives, m_totalCreated is the number of connections in the idle stack and in
\* hand, and m_activeCount the number of those borrowed, whoever fails, dies or returns.
THEOREM PoolBooksAgree == Spec => []BooksAgree
<1>1. ASSUME Inv PROVE BooksAgree
  <2>1. InHand = Loose \cup Borrowed
    BY <1>1 DEF InHand, Loose, Borrowed, LooseAt, BorrowedAt
  <2>2. Loose \cap Borrowed = {}
    <3>1. \A t \in handed : pc[t] \notin BorrowedAt
      BY <1>1 DEF Inv, Queued, Listed, ListTypes, Waits, BorrowedAt
    <3> QED
      BY <3>1 DEF Loose, Borrowed, LooseAt, BorrowedAt
  <2>3. /\ IsFiniteSet(Loose) /\ Cardinality(Loose) \in Nat
        /\ IsFiniteSet(Borrowed) /\ Cardinality(Borrowed) \in Nat
    BY <1>1, InHandFinite DEF Inv, Queued
  <2>4. Cardinality(InHand) = Cardinality(Loose) + Cardinality(Borrowed)
    BY <2>1, <2>2, <2>3, FS_Union, FS_EmptySet
  <2>5. idle \in Nat
    BY <1>1 DEF Inv, IdleSeen
  <2>6. Borrowed = {p \in Clients : pc[p] \in {"taken", "held", "spoiled"}}
    BY DEF Borrowed, BorrowedAt
  <2> QED
    BY <1>1, <2>3, <2>4, <2>5, <2>6 DEF BooksAgree, Inv, Accounted
<1> QED
  BY <1>1, PoolInvariant, PTL

\* A connection never lies idle while a coroutine is in the list.
THEOREM PoolNoIdleBesideWaiters == Spec => []NoIdleBesideWaiters
<1>1. Inv => NoIdleBesideWaiters
  BY DEF Inv, IdleSeen
<1> QED
  BY <1>1, PoolInvariant, PTL

\* No put-back falls into the gap between a thread's last attempt and its sleep.
THEOREM PoolIdleIsFetched == Spec => []IdleIsFetched
<1>1. Inv => IdleIsFetched
  BY DEF Inv
<1> QED
  BY <1>1, PoolInvariant, PTL

\* What was handed over comes with a ticket, and the end of the pool tells everybody.
THEOREM PoolNobodyLeftBehind == Spec => []NobodyLeftBehind
<1>1. ASSUME Inv PROVE NobodyLeftBehind
  <2>1. Listed /\ Drained
    BY <1>1 DEF Inv, Queued
  <2>2. ASSUME NEW t \in handed, pc[t] = "suspended" PROVE t \in posted \cup lost
    BY <2>1, <2>2 DEF Listed, ListTypes, Waits
  <2>3. ASSUME pc[Destructor] = "gone"
        PROVE  /\ waiters = << >> /\ syncWaiting = 0
               /\ \A t \in Tasks : pc[t] = "suspended" => t \in posted \cup lost
    <3>1. waiters = << >> /\ syncWaiting = 0
      BY <2>1, <2>3 DEF Drained
    <3>2. ToSet(waiters) = {}
      BY <3>1 DEF ToSet
    <3> QED
      BY <2>1, <3>1, <3>2 DEF Listed, Waits, Involved
  <2> QED
    BY <2>2, <2>3 DEF NobodyLeftBehind
<1> QED
  BY <1>1, PoolInvariant, PTL

\* Types, the limit on the size, and the two counts of those who wait and register.
THEOREM PoolTypeCorrect == Spec => []TypeOK
<1>1. ASSUME Inv PROVE TypeOK
  <2>1. /\ idle \in Nat /\ created \in 0 .. maximumPoolSize /\ active \in Nat
        /\ created >= idle + Cardinality(Loose) + active
    BY <1>1 DEF Inv, IdleSeen, Accounted
  <2>2. Cardinality(Loose) \in Nat /\ maximumPoolSize \in Nat
    BY <1>1, InHandFinite, ConnectionPoolAssumption DEF Inv, Queued
  <2>3. idle \in 0 .. maximumPoolSize /\ active \in 0 .. maximumPoolSize
    BY <2>1, <2>2
  <2>4. /\ waiters \in Seq(Tasks) /\ IsInjective(waiters) /\ moved \in SUBSET Tasks
        /\ {handed, posted, lost, woken} \subseteq SUBSET Tasks
    BY <1>1 DEF Inv, Queued, Listed, ListTypes
  <2>5. /\ alive \in BOOLEAN /\ shuttingDown \in BOOLEAN
        /\ livenessOwner \in Procs \cup {Nobody} /\ asyncOwner \in Tasks \cup {Nobody}
        /\ pc \in [Procs -> Pcs] /\ stage \in [Procs -> Stages]
    BY <1>1 DEF Inv, Control, Placed, Locked, Procs
  <2>6. WaitingThreads = {p \in Threads :
            \/ pc[p] \in {"asleep", "woken"}
            \/ /\ stage[p] = "wait"
               /\ pc[p] \in {"pop", "drop", "noteDrop", "reserve", "create", "got", "empty"}}
    <3>1. \A p \in Threads : ThreadPlaced(p)
      BY <1>1 DEF Inv, Control, Placed
    <3> QED
      BY <3>1 DEF WaitingThreads, ThreadPlaced, Trying, Returning
  <2>7. RegisteringTasks = {t \in Tasks : pc[t] \in {"register", "enlist"}
                                          \/ stage[t] \in {"suspend", "locked"}}
    <3>1. \A t \in Tasks : TaskPlaced(t)
      BY <1>1 DEF Inv, Control, Placed
    <3> QED
      BY <3>1 DEF RegisteringTasks, TaskPlaced, Trying, Returning, Outside
  <2> QED
    BY <1>1, <2>1, <2>3, <2>4, <2>5, <2>6, <2>7 DEF TypeOK, Inv, Counted
<1> QED
  BY <1>1, PoolInvariant, PTL
=============================================================================
