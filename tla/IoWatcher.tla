----------------------------- MODULE IoWatcher -----------------------------
(***************************************************************************)
(* The registration of one descriptor (Core/EventLoop/IoWatcher): at most  *)
(* one coroutine waits in each direction, the kernel watches the directions *)
(* somebody waits for, and a wait ends by an event, by its stop token, or  *)
(* when the watcher is destroyed.  The coroutine of each direction is named *)
(* by the direction.  A watcher may be destroyed and another built at its  *)
(* address while an event or a cancellation for the old one is under way.  *)
(*                                                                         *)
(* Everything happens on the loop thread, except RequestStop and the       *)
(* kernel.  User code runs between the steps of the loop: running names    *)
(* the coroutine of this descriptor that does.  Of that code the module    *)
(* assumes what IoWatcher.cpp:318 says, that only the reader destroys the  *)
(* frame of the other, and that nobody destroys a frame whose handle a     *)
(* dying watcher has put into the local queue.                             *)
(***************************************************************************)
EXTENDS Naturals, Sequences, SequencesExt

CONSTANTS
    MaxWaits,        \* bound: g_attachGeneration
    MaxReopens,      \* bound: watchers built after the first
    MaxModFailures,  \* bound: epoll_ctl() fails this often
    PostMayFail,     \* BOOLEAN: postRemote() may refuse a cancellation
    CanHangUp        \* BOOLEAN: the peer may hang up

ASSUME WatcherAssumption ==
    /\ {MaxWaits, MaxReopens, MaxModFailures} \subseteq Nat
    /\ {PostMayFail, CanHangUp} \subseteq BOOLEAN

Directions == {"read", "write"}
HangUp == "hangup"
Unknown == {"unknown"}

VARIABLES
    level,         \* what the kernel has to report: directions, HangUp
    mask,          \* the directions the kernel watches
    isRegistered,  \* the watcher lives and is in the loop's table of watchers
    armedEvents,   \* m_armedEvents: a set of directions, or Unknown
    readyEvents,   \* m_readyEvents
    slot,          \* generation of the waiter of each direction, 0 when there is none
    generation,    \* g_attachGeneration
    reported,      \* the event of the descriptor in the backend's batch, {} when none
    taken,         \* handles that handleEvents() or a cancellation is about to resume
    localQueue,    \* handles that ~IoWatcher() scheduled
    running,       \* the coroutine that runs, or "none"
    frame,         \* of each coroutine: free, suspended (in a wait here) or gone
    isAttached,    \* awaiters whose m_isAttached is set
    callback,      \* generation that the stop callback of a wait carries, 0 when none
    stopped,       \* the waits whose token was stopped
    outcome,       \* what the last wait of each coroutine returned
    cancels,       \* posted cancellations: direction and generation
    idleReports,   \* reports of a direction that found no waiter, since its last wait
    modFailures, reopens

kernelVars == <<level, mask, modFailures>>
ownVars == <<isRegistered, armedEvents, readyEvents, slot, generation>>
loopVars == <<reported, taken, localQueue, running>>
awaiterVars == <<frame, isAttached, callback, stopped, outcome>>
vars == <<kernelVars, ownVars, loopVars, awaiterVars, cancels, idleReports, reopens>>

Nobody == [d \in Directions |-> 0]

\* A watcher is registered for reading when it is built.
Probe == {"read"}

Init ==
    /\ level = {} /\ mask = Probe
    /\ isRegistered = TRUE
    /\ armedEvents = Probe /\ readyEvents = {}
    /\ slot = Nobody
    /\ generation = 0 /\ modFailures = 0 /\ reopens = 0
    /\ reported = {} /\ taken = << >> /\ localQueue = << >> /\ running = "none"
    /\ frame = [d \in Directions |-> "free"]
    /\ isAttached = {} /\ stopped = {} /\ cancels = {}
    /\ callback = Nobody /\ idleReports = Nobody
    /\ outcome = [d \in Directions |-> "none"]

LoopIsFree == running = "none" /\ taken = << >>
UserCodeRuns == running # "none" \/ taken = << >>

Waiting == {d \in Directions : slot[d] # 0}
Vacated(D) == [d \in Directions |-> IF d \in D THEN 0 ELSE slot[d]]
OneOf(d, D) == IF d \in D THEN <<d>> ELSE << >>
Outcome(D, how) == [d \in Directions |-> IF d \in D THEN how ELSE outcome[d]]

-----------------------------------------------------------------------------
(* armEvents(): nothing to do, done, or failed                             *)

Armed(events) ==
    \/ events = armedEvents /\ UNCHANGED <<mask, armedEvents, modFailures>>
    \/ events # armedEvents /\ mask' = events /\ armedEvents' = events /\ UNCHANGED modFailures

\* Mutant: the kernel is taken to watch nothing.
ArmingFailedAsZero(events) ==
    /\ events # armedEvents
    /\ modFailures < MaxModFailures
    /\ modFailures' = modFailures + 1
    /\ armedEvents' = {}
    /\ UNCHANGED mask

ArmingFailed(events) ==
    /\ events # armedEvents
    /\ modFailures < MaxModFailures
    /\ modFailures' = modFailures + 1
    /\ armedEvents' = Unknown
    /\ UNCHANGED mask

-----------------------------------------------------------------------------
(* Awaiting: the coroutine of direction d runs                             *)

\* await_ready(): a readiness nobody took ends the wait before it begins.
WaitReady(d) ==
    /\ running = d /\ isRegistered
    /\ d \in readyEvents
    /\ readyEvents' = readyEvents \ {d}
    /\ outcome' = [outcome EXCEPT ![d] = "ready"]
    /\ UNCHANGED <<kernelVars, isRegistered, armedEvents, slot, generation, loopVars>>
    /\ UNCHANGED <<frame, isAttached, callback, stopped, cancels, idleReports, reopens>>

\* The token was stopped before: cancelled at once.
WaitStopped(d) ==
    /\ running = d /\ isRegistered
    /\ d \notin readyEvents
    /\ stopped' = stopped \cup {d}
    /\ outcome' = [outcome EXCEPT ![d] = "cancelled"]
    /\ UNCHANGED <<kernelVars, ownVars, loopVars>>
    /\ UNCHANGED <<frame, isAttached, callback, cancels, idleReports, reopens>>

\* What the kernel must watch when d waits too.  Mutant: only d.
NeededAlone(d) == {d}
Needed(d) == Waiting \cup {d}

\* attachWaiter() and the rest of await_suspend(), with a stop callback or without.
WaitSuspends(d) ==
    /\ running = d /\ isRegistered
    /\ d \notin readyEvents
    /\ generation < MaxWaits
    /\ generation' = generation + 1
    /\ slot' = [slot EXCEPT ![d] = generation']
    /\ Armed(Needed(d))
    /\ isAttached' = isAttached \cup {d}
    /\ callback' \in {[callback EXCEPT ![d] = g] : g \in {0, generation'}}
    /\ stopped' = stopped \ {d}
    /\ outcome' = [outcome EXCEPT ![d] = "none"]
    /\ frame' = [frame EXCEPT ![d] = "suspended"]
    /\ running' = "none"
    /\ idleReports' = [idleReports EXCEPT ![d] = 0]
    /\ UNCHANGED <<level, isRegistered, readyEvents, reported, taken, localQueue>>
    /\ UNCHANGED <<cancels, reopens>>

\* The direction cannot be watched: the wait ends as closed.
WaitFails(d) ==
    /\ running = d /\ isRegistered
    /\ d \notin readyEvents
    /\ generation < MaxWaits
    /\ generation' = generation + 1
    /\ ArmingFailed(Needed(d))
    /\ stopped' = stopped \ {d}
    /\ outcome' = [outcome EXCEPT ![d] = "closed"]
    /\ UNCHANGED <<level, isRegistered, readyEvents, slot, loopVars>>
    /\ UNCHANGED <<frame, isAttached, callback, cancels, idleReports, reopens>>

-----------------------------------------------------------------------------
(* What user code does besides                                             *)

\* A coroutine is resumed by something else: it was never suspended here, or no longer.
RunElsewhere(d) ==
    /\ LoopIsFree
    /\ frame[d] = "free"
    /\ running' = d
    /\ UNCHANGED <<kernelVars, ownVars, reported, taken, localQueue>>
    /\ UNCHANGED <<awaiterVars, cancels, idleReports, reopens>>

\* It suspends somewhere else, and has forgotten its last wait.
Return ==
    /\ running # "none"
    /\ running' = "none"
    /\ stopped' = stopped \ {running}
    /\ outcome' = [outcome EXCEPT ![running] = "none"]
    /\ UNCHANGED <<kernelVars, ownVars, reported, taken, localQueue>>
    /\ UNCHANGED <<frame, isAttached, callback, cancels, idleReports, reopens>>

detachWaiter(d) == slot' = Vacated({d})

\* The reader destroys the writer's frame: ~Awaiter().
DestroyWriter ==
    /\ running = "read"
    /\ frame["write"] = "suspended"
    /\ ~Contains(localQueue, "write")
    /\ frame' = [frame EXCEPT !["write"] = "gone"]
    /\ callback' = [callback EXCEPT !["write"] = 0]
    /\ isAttached' = isAttached \ {"write"}
    /\ IF "write" \in isAttached THEN detachWaiter("write") ELSE UNCHANGED slot
    /\ UNCHANGED <<kernelVars, isRegistered, armedEvents, readyEvents, generation, loopVars>>
    /\ UNCHANGED <<stopped, outcome, cancels, idleReports, reopens>>

\* markDetached() of the awaiters in the slots D.  Mutant: they are not told.
TellNobody(D) == UNCHANGED isAttached
TellDetached(D) == isAttached' = isAttached \ D

\* Mutant: only the reader.
ScheduleReader(D) == OneOf("read", D)

\* The reader's handle, then the writer's.
ScheduleOrder(D) == OneOf("read", D) \o OneOf("write", D)

\* ~IoWatcher(): the waiters are told, and scheduled for after it.
Destroy ==
    /\ UserCodeRuns
    /\ isRegistered
    /\ isRegistered' = FALSE
    /\ armedEvents' = {} /\ mask' = {}
    /\ slot' = Nobody
    /\ TellDetached(Waiting)
    /\ localQueue' = localQueue \o ScheduleOrder(Waiting)
    /\ outcome' = Outcome(Waiting, "closed")
    /\ UNCHANGED <<level, modFailures, readyEvents, generation, reported, taken, running>>
    /\ UNCHANGED <<frame, callback, stopped, cancels, idleReports, reopens>>

\* A new connection: another descriptor, a watcher and frames at the same addresses.
\* What is reported or posted for the old ones stays.
Reopen ==
    /\ LoopIsFree
    /\ ~isRegistered
    /\ \A d \in Directions : frame[d] # "suspended"
    /\ reopens < MaxReopens
    /\ reopens' = reopens + 1
    /\ level' = {} /\ mask' = Probe
    /\ isRegistered' = TRUE
    /\ armedEvents' = Probe /\ readyEvents' = {}
    /\ slot' = Nobody
    /\ frame' = [d \in Directions |-> "free"]
    /\ idleReports' = Nobody
    /\ outcome' = [d \in Directions |-> "none"]
    /\ stopped' = {}
    /\ UNCHANGED <<modFailures, generation, loopVars, isAttached, callback, cancels>>

-----------------------------------------------------------------------------
(* The kernel and the stop token                                           *)

LevelChanges ==
    /\ isRegistered
    /\ \/ \E d \in Directions : level' = IF d \in level THEN level \ {d} ELSE level \cup {d}
       \/ CanHangUp /\ level' = level \cup {HangUp}
    /\ UNCHANGED <<mask, modFailures, ownVars, loopVars, awaiterVars, cancels, idleReports, reopens>>

\* onStopRequested(), on any thread: the cancellation is posted with the generation of
\* the wait, or refused.
RequestStop(d) ==
    /\ callback[d] # 0
    /\ callback' = [callback EXCEPT ![d] = 0]
    /\ stopped' = stopped \cup {d}
    /\ \/ cancels' = cancels \cup {[dir |-> d, generation |-> callback[d]]}
       \/ PostMayFail /\ UNCHANGED cancels
    /\ UNCHANGED <<kernelVars, ownVars, loopVars, frame, isAttached, outcome, idleReports, reopens>>

\* The backend reports the directions that are watched, and a hang-up in any case.
Poll ==
    /\ LoopIsFree
    /\ isRegistered /\ reported = {}
    /\ reported' = level \cap (mask \cup {HangUp})
    /\ reported' # {}
    /\ UNCHANGED <<kernelVars, ownVars, taken, localQueue, running>>
    /\ UNCHANGED <<awaiterVars, cancels, idleReports, reopens>>

-----------------------------------------------------------------------------
(* The loop                                                                *)

\* The writer is resumed before the reader.  Mutant: ScheduleOrder.
ResumeOrder(D) == OneOf("write", D) \o OneOf("read", D)

\* takeWaiter() of the directions D
TakeWaiters(D) ==
    /\ slot' = Vacated(D)
    /\ TellDetached(D)
    /\ taken' = ResumeOrder(D)

\* The directions an event is about: a hang-up is about both.
About(event) == IF HangUp \in event THEN Directions ELSE event

\* Whoever waits for another direction stays watched, and so does whom the report wakes:
\* it likely waits again.
Wanted == Waiting

ReportLimit == MaxModFailures + 2
ReportIdle(D) ==
    idleReports' = [d \in Directions |->
        IF d \in D \ Waiting /\ idleReports[d] < ReportLimit THEN idleReports[d] + 1 ELSE idleReports[d]]

\* handleEvents(): the waiters of what was reported are taken, the readiness nobody
\* waits for is kept; if the kernel cannot be told, everybody is taken.
HandleEvents ==
    /\ LoopIsFree
    /\ reported # {} /\ isRegistered
    /\ reported' = {}
    /\ LET D == About(reported)
       IN  /\ readyEvents' = readyEvents \cup (D \ Waiting)
           /\ ReportIdle(D)
           /\ \/ /\ Armed(Wanted)
                 /\ TakeWaiters(D \cap Waiting)
                 /\ outcome' = Outcome(D \cap Waiting, "ready")
              \/ /\ ArmingFailed(Wanted)
                 /\ TakeWaiters(Waiting)
                 /\ outcome' = [d \in Directions |->
                        IF d \notin Waiting THEN outcome[d]
                        ELSE IF d \in D THEN "ready" ELSE "closed"]
    /\ UNCHANGED <<level, isRegistered, generation, localQueue, running>>
    /\ UNCHANGED <<frame, callback, stopped, cancels, reopens>>

\* The watcher of the event is no longer in the table.
EventDropped ==
    /\ LoopIsFree
    /\ reported # {} /\ ~isRegistered
    /\ reported' = {}
    /\ UNCHANGED <<kernelVars, ownVars, taken, localQueue, running>>
    /\ UNCHANGED <<awaiterVars, cancels, idleReports, reopens>>

\* Mutant: whoever waits now.
SameAddress(c) == slot[c.dir] # 0

SameWait(c) == slot[c.dir] # 0 /\ slot[c.dir] = c.generation

\* A posted cancellation runs: cancelWaiterIfMatches()
RunCancel(c) ==
    /\ LoopIsFree
    /\ cancels' = cancels \ {c}
    /\ IF isRegistered /\ SameWait(c)
       THEN TakeWaiters({c.dir}) /\ outcome' = Outcome({c.dir}, "cancelled")
       ELSE UNCHANGED <<slot, isAttached, taken, outcome>>
    /\ UNCHANGED <<kernelVars, isRegistered, armedEvents, readyEvents, generation>>
    /\ UNCHANGED <<reported, localQueue, running, frame, callback, stopped, idleReports, reopens>>

\* A coroutine goes on; its awaiter ends, and the stop callback with it.
Resume(d) ==
    /\ running' = d
    /\ frame' = [frame EXCEPT ![d] = "free"]
    /\ callback' = [callback EXCEPT ![d] = 0]
    /\ UNCHANGED <<kernelVars, ownVars, reported, isAttached, stopped, outcome>>
    /\ UNCHANGED <<cancels, idleReports, reopens>>

ResumeTaken ==
    /\ running = "none" /\ taken # << >>
    /\ taken' = Tail(taken)
    /\ Resume(Head(taken))
    /\ UNCHANGED localQueue

RunLocal ==
    /\ LoopIsFree
    /\ localQueue # << >>
    /\ localQueue' = Tail(localQueue)
    /\ Resume(Head(localQueue))
    /\ UNCHANGED taken

Await(d) == WaitReady(d) \/ WaitStopped(d) \/ WaitSuspends(d) \/ WaitFails(d)

Next ==
    \/ \E d \in Directions : Await(d) \/ RunElsewhere(d) \/ RequestStop(d)
    \/ Return \/ DestroyWriter \/ Destroy \/ Reopen
    \/ LevelChanges \/ Poll
    \/ HandleEvents \/ EventDropped
    \/ \E c \in cancels : RunCancel(c)
    \/ ResumeTaken \/ RunLocal

Spec == Init /\ [][Next]_vars

\* The loop goes on: user code returns, what was taken is resumed, and every pass polls,
\* dispatches and runs what was posted, however often other coroutines run.
Fairness ==
    /\ WF_vars(Return) /\ WF_vars(ResumeTaken)
    /\ SF_vars(Poll) /\ SF_vars(HandleEvents \/ EventDropped)
    /\ SF_vars(RunLocal)
    /\ SF_vars(\E c \in cancels : RunCancel(c))

FairSpec == Spec /\ Fairness

-----------------------------------------------------------------------------
(* Properties                                                              *)

\* Types.
TypeOK ==
    /\ level \subseteq Directions \cup {HangUp} /\ mask \subseteq Directions
    /\ isRegistered \in BOOLEAN
    /\ armedEvents \in (SUBSET Directions) \cup {Unknown} /\ readyEvents \subseteq Directions
    /\ slot \in [Directions -> 0 .. MaxWaits] /\ generation \in 0 .. MaxWaits
    /\ reported \subseteq Directions \cup {HangUp}
    /\ taken \in Seq(Directions) /\ localQueue \in Seq(Directions)
    /\ running \in Directions \cup {"none"}
    /\ frame \in [Directions -> {"free", "suspended", "gone"}]
    /\ isAttached \subseteq Directions /\ stopped \subseteq Directions
    /\ callback \in [Directions -> 0 .. MaxWaits]
    /\ outcome \in [Directions -> {"none", "ready", "closed", "cancelled"}]
    /\ cancels \subseteq [dir : Directions, generation : 1 .. MaxWaits]
    /\ idleReports \in [Directions -> 0 .. ReportLimit]
    /\ modFailures \in 0 .. MaxModFailures /\ reopens \in 0 .. MaxReopens

\* A coroutine suspended here is in exactly one place: the slot of a living watcher, the
\* hands of the loop, or the local queue.  Nobody waits for ever on a watcher that is
\* gone and nobody is resumed twice; a freed frame is in none of them, so none is resumed
\* (IoWatcher.cpp:219, :318).
InOnePlace ==
    \A d \in Directions :
        /\ frame[d] = "suspended" <=>
              slot[d] # 0 \/ Contains(taken, d) \/ Contains(localQueue, d)
        /\ slot[d] # 0 => isRegistered /\ ~Contains(taken, d) /\ ~Contains(localQueue, d)
        /\ ~(Contains(taken, d) /\ Contains(localQueue, d))

\* An awaiter believes itself attached exactly while its watcher has it in a slot: its
\* destructor never calls a watcher that is gone, nor empties the slot of another
\* (IoWatcher.cpp:198).
AttachedWhileInSlot == isAttached = Waiting

\* The kernel watches every direction somebody waits for, whatever attached, detached,
\* failed or was reported before, and the books say what it watches or that they do not
\* know (IoWatcher.cpp:464).
WaiterIsWatched ==
    isRegistered => Waiting \subseteq mask /\ armedEvents \in {mask, Unknown}

\* A wait ends as cancelled only if its own token was stopped: a cancellation that comes
\* late never hits a later wait, nor one on another watcher at the same address.  It ends
\* as closed only if the watcher is gone or the kernel refused (IoWatcher.cpp:374).
EndsForItsReason ==
    \A d \in Directions :
        /\ outcome[d] = "cancelled" => d \in stopped
        /\ outcome[d] = "closed" => ~isRegistered \/ modFailures > 0

\* As long as the peer has not hung up, a direction nobody waits for is reported once and
\* then no longer watched, or once more for every failure to tell the kernel.
QuietUntilHangUp ==
    HangUp \notin level => \A d \in Directions : idleReports[d] <= 1 + modFailures

\* Who waits for a direction that stays ready is resumed, and so is whoever was asked to
\* stop, as long as no post is refused (IoWatcher.cpp:148).
WaiterIsResumed ==
    \A d \in Directions :
        /\ frame[d] = "suspended" /\ d \in level ~> frame[d] # "suspended" \/ d \notin level
        /\ frame[d] = "suspended" /\ d \in stopped /\ ~PostMayFail ~> frame[d] # "suspended"
        /\ frame[d] = "suspended" /\ ~isRegistered ~> frame[d] # "suspended"
=============================================================================
