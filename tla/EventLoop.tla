----------------------------- MODULE EventLoop -----------------------------
(***************************************************************************)
(* One event loop (Core/EventLoop): the thread in run(), its Scheduler and *)
(* its EventNotifier, and the threads that post to it, wake it or stop it. *)
(*                                                                         *)
(* The wakeup descriptor is registered level-triggered, so wait() reports  *)
(* it as long as it is readable.  The other descriptors are one abstract   *)
(* source of events (ioReady) whose handler is user code.                  *)
(***************************************************************************)
EXTENDS EventNotifier, Scheduler

CONSTANTS
    IoSpawn,          \* the items an I/O event's handler may post locally
    MayFailToWait,    \* whether the backend's wait() may throw
    MaxSignals        \* bound: how often stop() and wake() are called

ASSUME EventLoopAssumption ==
    /\ IoSpawn \subseteq Items
    /\ MayFailToWait \in BOOLEAN
    /\ MaxSignals \in Nat

VARIABLES
    loopPc,           \* where the loop thread is inside run()
    stopRequested,    \* m_stopRequested
    running,          \* m_running
    stoppedByFailure, \* m_stoppedByFailure
    blocking,         \* the timeout of the next wait() is -1, not 0
    events,           \* ready events of this round not yet dispatched
    ioReady,          \* some watched descriptor is ready
    remoteSeen,       \* the remote count the loop thread is sure to see (below)
    signals           \* how often stop() and wake() have been called

ownVars == <<loopPc, stopRequested, running, stoppedByFailure, blocking,
             events, ioReady, remoteSeen, signals>>
vars == <<notifierVars, schedulerVars, ownVars>>

LoopPcs ==
    {"new", "pump", "checkStop", "hasWork", "wait", "dispatch", "dispatchPump", "stopped"}

\* Types of the composed loop: every field, flag, queue and position in its range.
TypeOK ==
    /\ NotifierTypeOK
    /\ SchedulerTypeOK
    /\ loopPc \in LoopPcs
    /\ stopRequested \in BOOLEAN
    /\ running \in BOOLEAN
    /\ stoppedByFailure \in BOOLEAN
    /\ blocking \in BOOLEAN
    /\ events \in SUBSET {"wakeup", "io"}
    /\ ioReady \in BOOLEAN
    /\ remoteSeen \in Nat
    /\ signals \in 0..MaxSignals

Init ==
    /\ NotifierInit
    /\ SchedulerInit
    /\ loopPc = "new"
    /\ stopRequested = FALSE
    /\ running = FALSE
    /\ stoppedByFailure = FALSE
    /\ blocking = FALSE
    /\ events = {}
    /\ ioReady = FALSE
    /\ remoteSeen = 0
    /\ signals = 0

-----------------------------------------------------------------------------
(* Other threads.  The end of the critical section and the call of notify()*)
(* are one step; what notify() does comes after it, step by step.          *)

scheduleRemote(t, h) ==
    /\ notifyPc[t] = "idle"
    /\ \/ ScheduleRemoteAccepted(h) /\ NotifyCall(t)
       \/ RemoteRejected /\ UNCHANGED notifierVars
    /\ UNCHANGED ownVars

tryPostRemote(t, c) ==
    /\ notifyPc[t] = "idle"
    /\ \/ PostRemoteAccepted(c) /\ NotifyCall(t)
       \/ RemoteRejected /\ UNCHANGED notifierVars
    /\ UNCHANGED ownVars

Signal(t) ==
    /\ signals < MaxSignals
    /\ signals' = signals + 1
    /\ NotifyCall(t)

\* stop(): the flag first, the wakeup after it.
stop(t) ==
    /\ Signal(t)
    /\ stopRequested' = TRUE
    /\ UNCHANGED <<schedulerVars, loopPc, running, stoppedByFailure, blocking,
                   events, ioReady, remoteSeen>>

wake(t) ==
    /\ Signal(t)
    /\ UNCHANGED <<schedulerVars, loopPc, stopRequested, running, stoppedByFailure,
                   blocking, events, ioReady, remoteSeen>>

Notify(t) ==
    /\ NotifyStep(t)
    /\ UNCHANGED <<schedulerVars, ownVars>>

\* Before run() any thread may use the local queues (assertLocalQueueUse lets
\* it pass); while the loop runs, schedule() and postLocal() throw unless the
\* caller is the loop thread, and that is UserCode.
ScheduleBeforeRun ==
    /\ loopPc = "new"
    /\ (\E h \in Handles : schedule(h)) \/ (\E c \in Callables : postLocal(c))
    /\ UNCHANGED <<notifierVars, ownVars>>

IoBecomesReady ==
    /\ ~ioReady
    /\ ioReady' = TRUE
    /\ UNCHANGED <<notifierVars, schedulerVars, loopPc, stopRequested, running,
                   stoppedByFailure, blocking, events, remoteSeen, signals>>

-----------------------------------------------------------------------------
(* The loop thread                                                         *)

\* A call of runAll() from one of its two call sites in run().
StartPass(from, to) ==
    /\ loopPc = from
    /\ RunAllCall
    /\ loopPc' = to
    /\ UNCHANGED <<notifierVars, stopRequested, stoppedByFailure, blocking,
                   events, ioReady, remoteSeen, signals>>

\* Mutant: run() starts by clearing the stop flag, and loses an early stop().
RunClearingStop ==
    /\ loopPc = "new"
    /\ RunAllCall
    /\ loopPc' = "pump"
    /\ running' = TRUE
    /\ stopRequested' = FALSE
    /\ UNCHANGED <<notifierVars, stoppedByFailure, blocking, events, ioReady,
                   remoteSeen, signals>>

\* run() begins: stopRequested is deliberately not cleared.
Run ==
    /\ StartPass("new", "pump")
    /\ running' = TRUE

\* The counts the pass leaves behind are the loop thread's own writes: a later
\* relaxed read of them cannot return less than what TakeBatch left.
Pump ==
    /\ loopPc \in {"pump", "dispatchPump"}
    /\ PassStep
    /\ remoteSeen' = IF passPc = "take" THEN Len(globalQueue') + Len(remoteCallables')
                                        ELSE remoteSeen
    /\ UNCHANGED <<notifierVars, loopPc, stopRequested, running, stoppedByFailure,
                   blocking, events, ioReady, signals>>

PassReturns ==
    /\ loopPc = "pump"
    /\ passPc = "idle"
    /\ loopPc' = "checkStop"
    /\ UNCHANGED <<notifierVars, schedulerVars, stopRequested, running, stoppedByFailure,
                   blocking, events, ioReady, remoteSeen, signals>>

CheckStop ==
    /\ loopPc = "checkStop"
    /\ loopPc' = IF stopRequested THEN "stopped" ELSE "hasWork"
    /\ running' = ~stopRequested
    /\ UNCHANGED <<notifierVars, schedulerVars, stopRequested, stoppedByFailure,
                   blocking, events, ioReady, remoteSeen, signals>>

\* The timeout is 0 when hasWork().  Its reads are relaxed: they may miss the
\* posts made since the last batch was taken, and then see only remoteSeen.
ChooseTimeout ==
    /\ loopPc = "hasWork"
    /\ loopPc' = "wait"
    /\ blocking' \in {~hasWork, ~(LocalWork \/ remoteSeen > 0)}
    /\ UNCHANGED <<notifierVars, schedulerVars, stopRequested, running, stoppedByFailure,
                   events, ioReady, remoteSeen, signals>>

ReadyEvents == (IF readable THEN {"wakeup"} ELSE {}) \cup (IF ioReady THEN {"io"} ELSE {})

WaitReturns ==
    /\ loopPc = "wait"
    /\ blocking => ReadyEvents # {}
    /\ events' = ReadyEvents
    /\ loopPc' = "dispatch"
    /\ UNCHANGED <<notifierVars, schedulerVars, stopRequested, running, stoppedByFailure,
                   blocking, ioReady, remoteSeen, signals>>

\* The backend's wait() is interrupted by a signal and returns no events.
WaitInterrupted ==
    /\ loopPc = "wait"
    /\ events' = {}
    /\ loopPc' = "dispatch"
    /\ UNCHANGED <<notifierVars, schedulerVars, stopRequested, running, stoppedByFailure,
                   blocking, ioReady, remoteSeen, signals>>

\* Mutant: the failure is published but the loop goes on.
WaitFailsAndGoesOn ==
    /\ MayFailToWait
    /\ loopPc = "wait"
    /\ loopPc' = "checkStop"
    /\ stoppedByFailure' = TRUE
    /\ running' = FALSE
    /\ UNCHANGED <<notifierVars, schedulerVars, stopRequested, blocking, events,
                   ioReady, remoteSeen, signals>>

\* wait() throws: run() catches it, publishes the failure and returns.
WaitFails ==
    /\ MayFailToWait
    /\ loopPc = "wait"
    /\ loopPc' = "stopped"
    /\ stoppedByFailure' = TRUE
    /\ running' = FALSE
    /\ UNCHANGED <<notifierVars, schedulerVars, stopRequested, blocking, events,
                   ioReady, remoteSeen, signals>>

\* dispatchReadyEvents(): the wakeup sentinel drains the notifier ...
DispatchWakeup ==
    /\ loopPc = "dispatch"
    /\ "wakeup" \in events
    /\ DrainCall
    /\ events' = events \ {"wakeup"}
    /\ UNCHANGED <<schedulerVars, loopPc, stopRequested, running, stoppedByFailure,
                   blocking, ioReady, remoteSeen, signals>>

Drain ==
    /\ DrainStep
    /\ UNCHANGED <<schedulerVars, ownVars>>

\* ... and any other event goes to its watcher, whose handler is user code.
DispatchIo ==
    /\ loopPc = "dispatch"
    /\ drainPc = "idle"
    /\ "io" \in events
    /\ UserCode(IoSpawn, localQueue, localCallables)
    /\ ioReady' = FALSE
    /\ events' = events \ {"io"}
    /\ UNCHANGED <<notifierVars, remoteVars, passVars, counterVars, loopPc,
                   stopRequested, running, stoppedByFailure, blocking, remoteSeen, signals>>

\* The batch is dispatched: runAll() once more, then the next round's runAll().
DispatchDone ==
    /\ events = {}
    /\ drainPc = "idle"
    /\ StartPass("dispatch", "dispatchPump")
    /\ UNCHANGED running

NextRound ==
    /\ StartPass("dispatchPump", "pump")
    /\ UNCHANGED running

LoopStep ==
    \/ Run
    \/ Pump
    \/ PassReturns
    \/ CheckStop
    \/ ChooseTimeout
    \/ WaitReturns
    \/ DispatchWakeup
    \/ Drain
    \/ DispatchIo
    \/ DispatchDone
    \/ NextRound

Next ==
    \/ \E t \in Threads :
          \/ \E h \in Handles : scheduleRemote(t, h)
          \/ \E c \in Callables : tryPostRemote(t, c)
          \/ stop(t)
          \/ wake(t)
          \/ Notify(t)
    \/ ScheduleBeforeRun
    \/ IoBecomesReady
    \/ LoopStep
    \/ WaitInterrupted
    \/ WaitFails

Spec == Init /\ [][Next]_vars

\* The operating system runs every thread that can take a step: the loop
\* thread, and a thread inside notify().  Nobody has to post, stop, send I/O or
\* interrupt a wait().
Fairness ==
    /\ WF_vars(LoopStep)
    /\ \A t \in Threads : WF_vars(Notify(t))

FairSpec == Spec /\ Fairness

-----------------------------------------------------------------------------
(* Properties                                                              *)

Blocked == loopPc = "wait" /\ blocking

\* A wakeup is on its way: the descriptor is readable, or a thread is inside
\* notify().
WakeComing == readable \/ \E t \in Threads : notifyPc[t] # "idle"

\* The loop never sleeps for good on work.  Blocked in wait(-1) it has no local
\* work (nobody would wake it for that), and if a remote item is queued or
\* stop() was called, a wakeup is on its way.  Only a failed write of the
\* descriptor is excused.
NoLostWakeup ==
    Blocked =>
        /\ ~LocalWork
        /\ writeFailures = 0 /\ (Backlog > 0 \/ stopRequested) => WakeComing

\* isRunning() never lies to the thread that tears the loop down: once run()
\* has started, "not running" means that its thread will dispatch nothing more.
NotRunningMeansStopped ==
    /\ ~running => loopPc \in {"new", "stopped"}
    /\ stoppedByFailure => ~running
    /\ ~running => passPc = "idle" /\ drainPc = "idle"

\* Positions of the loop thread from which it takes another batch, or reads
\* stopRequested, before it can block.
WillTake == loopPc = "dispatch" \/ passPc \in {"drainLocal", "take"}
WillCheckStop == loopPc \notin {"hasWork", "wait"}

\* Why NoLostWakeup holds, step by step: every post since the last batch and
\* every stop() is announced by a wakeup on its way, or the loop thread is at a
\* place from which it looks again before it blocks.
LoopInvariant ==
    /\ running = (loopPc \notin {"new", "stopped"})
    /\ stoppedByFailure => loopPc = "stopped"
    /\ passPc # "idle" => loopPc \in {"pump", "dispatchPump"}
    /\ drainPc # "idle" => loopPc = "dispatch"
    /\ remoteSeen <= Backlog
    /\ Blocked => ~LocalWork /\ remoteSeen = 0
    /\ writeFailures = 0 /\ remoteSeen < Backlog => WakeComing \/ WillTake
    /\ writeFailures = 0 /\ stopRequested => WakeComing \/ WillCheckStop

\* stop() ends run(), also when it comes before run(), when every queue is
\* busy and when the items repost themselves for ever.  Only a failed write of
\* the descriptor is excused.
StopEndsRun == stopRequested ~> (loopPc = "stopped" \/ writeFailures > 0)

\* runAll() always returns to the loop, even fed by items that repost
\* themselves: I/O events are always polled again.
LoopKeepsPolling == []<>(loopPc \in {"wait", "stopped"})

\* The first drain of a pass has used up its budget: no batch can be taken.
LocalSpendsThePass == passPc = "take" /\ passRemaining = 0

\* An accepted remote item waits for ever only if local items use up pass after
\* pass, or the write of the descriptor failed.
BacklogIsTakenBetweenLocals ==
    \/ []<>LocalSpendsThePass
    \/ Backlog > 0 ~> (passPc = "runBatch" \/ loopPc = "stopped" \/ writeFailures > 0)

=============================================================================
