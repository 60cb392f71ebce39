----------------------------- MODULE Scheduler -----------------------------
(***************************************************************************)
(* The ready queues of one event loop (Core/Coroutine/Scheduler): two      *)
(* queues only the loop thread touches (a LIFO stack of coroutine handles  *)
(* and a FIFO of callables), two FIFO queues any thread posts to under     *)
(* m_globalMutex, and the pass runAll() that empties them within one       *)
(* budget.                                                                 *)
(*                                                                         *)
(* A critical section of m_globalMutex is one step; a pass is split at     *)
(* every item it runs and at every batch it takes, so that posts interleave*)
(* with it.  What an item does when it runs is user code: it may throw, it *)
(* may finish a coroutine frame, and it may post locally the items Spawn   *)
(* names (its own remote posts are posts of some thread).  Counters that   *)
(* are only reported count up to CounterCap.                               *)
(***************************************************************************)
EXTENDS Naturals, Sequences, SequencesExt

CONSTANTS
    Handles,                \* coroutine handles
    Callables,              \* std::function<void()> objects
    Spawn,                  \* Spawn[i]: the items that item i may post locally when it runs
    kMaximumItemsPerPass,
    kMaximumRemoteBacklog,
    MaxLocal,               \* bound: length of either local queue
    CounterCap              \* bound: the observability counters saturate here

Items == Handles \cup Callables

ASSUME SchedulerAssumption ==
    /\ Handles \cap Callables = {}
    /\ Spawn \in [Items -> SUBSET Items]
    /\ kMaximumItemsPerPass \in Nat \ {0}
    /\ kMaximumRemoteBacklog \in Nat \ {0}
    /\ MaxLocal \in Nat
    /\ CounterCap \in Nat

VARIABLES
    localQueue,             \* m_localQueue, a stack whose top is the last element
    localCallables,         \* m_localCallables
    globalQueue,            \* m_globalQueue
    remoteCallables,        \* m_remoteCallables
    globalCount,            \* m_globalCount, the length of globalQueue read without the lock
    remoteCallableCount,    \* m_remoteCallableCount, likewise
    finished,               \* the handles whose frame has reached its final suspend point
    passPc,                 \* where the loop thread is inside runAll()
    batch,                  \* handles taken by this pass and not yet run
    callableBatch,          \* callables taken by this pass and not yet run
    taken,                  \* takenTotalCount of this pass
    failedDispatchCount,
    skippedCompletedHandleCount,
    saturatedRemoteRejectionCount

remoteVars == <<globalQueue, remoteCallables, globalCount, remoteCallableCount>>
counterVars == <<failedDispatchCount, skippedCompletedHandleCount, saturatedRemoteRejectionCount>>
passVars == <<passPc, batch, callableBatch, taken>>
schedulerVars ==
    <<localQueue, localCallables, remoteVars, finished, passVars, counterVars>>

PassPcs == {"idle", "drainLocal", "take", "runBatch", "redrain"}

\* Types of the queues and counters; the lock-free counts never go below zero.
SchedulerTypeOK ==
    /\ localQueue \in Seq(Handles)
    /\ localCallables \in Seq(Callables)
    /\ globalQueue \in Seq(Handles)
    /\ remoteCallables \in Seq(Callables)
    /\ globalCount \in Nat
    /\ remoteCallableCount \in Nat
    /\ finished \in SUBSET Handles
    /\ passPc \in PassPcs
    /\ batch \in Seq(Handles)
    /\ callableBatch \in Seq(Callables)
    /\ taken \in Nat
    /\ failedDispatchCount \in 0..CounterCap
    /\ skippedCompletedHandleCount \in 0..CounterCap
    /\ saturatedRemoteRejectionCount \in 0..CounterCap

SchedulerInit ==
    /\ localQueue = <<>>
    /\ localCallables = <<>>
    /\ globalQueue = <<>>
    /\ remoteCallables = <<>>
    /\ globalCount = 0
    /\ remoteCallableCount = 0
    /\ finished = {}
    /\ passPc = "idle"
    /\ batch = <<>>
    /\ callableBatch = <<>>
    /\ taken = 0
    /\ failedDispatchCount = 0
    /\ skippedCompletedHandleCount = 0
    /\ saturatedRemoteRejectionCount = 0

Bump(count) == IF count < CounterCap THEN count + 1 ELSE count

Backlog == Len(globalQueue) + Len(remoteCallables)

\* hasWork(): the two remote counts are relaxed atomics, read without the lock.
LocalWork == localQueue # <<>> \/ localCallables # <<>>

\* Mutant: waiting local callables do not count as work.
hasWorkWithoutCallables ==
    localQueue # <<>> \/ globalCount > 0 \/ remoteCallableCount > 0

hasWork == LocalWork \/ globalCount > 0 \/ remoteCallableCount > 0

-----------------------------------------------------------------------------
(* Posting from any thread                                                 *)

\* scheduleRemote(h) up to the unlock: the bound is tested and the handle
\* pushed under one lock.
ScheduleRemoteAccepted(h) ==
    /\ Backlog < kMaximumRemoteBacklog
    /\ globalQueue' = Append(globalQueue, h)
    /\ globalCount' = globalCount + 1
    /\ UNCHANGED <<localQueue, localCallables, remoteCallables, remoteCallableCount,
                   finished, passVars, counterVars>>

\* tryPostRemote(c) up to the unlock.
PostRemoteAccepted(c) ==
    /\ Backlog < kMaximumRemoteBacklog
    /\ remoteCallables' = Append(remoteCallables, c)
    /\ remoteCallableCount' = remoteCallableCount + 1
    /\ UNCHANGED <<localQueue, localCallables, globalQueue, globalCount,
                   finished, passVars, counterVars>>

\* Either post at the bound: noteRemoteQueueSaturation(), nothing is queued.
RemoteRejected ==
    /\ Backlog >= kMaximumRemoteBacklog
    /\ saturatedRemoteRejectionCount' = Bump(saturatedRemoteRejectionCount)
    /\ UNCHANGED <<localQueue, localCallables, remoteVars, finished, passVars,
                   failedDispatchCount, skippedCompletedHandleCount>>

-----------------------------------------------------------------------------
(* Posting from the loop thread                                            *)

schedule(h) ==
    /\ Len(localQueue) < MaxLocal
    /\ localQueue' = Append(localQueue, h)
    /\ UNCHANGED <<localCallables, remoteVars, finished, passVars, counterVars>>

postLocal(c) ==
    /\ Len(localCallables) < MaxLocal
    /\ localCallables' = Append(localCallables, c)
    /\ UNCHANGED <<localQueue, remoteVars, finished, passVars, counterVars>>

-----------------------------------------------------------------------------
(* Running one item                                                        *)

AtMostOneOf(S) == {<<>>} \cup {<<x>> : x \in S}

\* User code allowed to post the items of S runs; lq and lc are the local
\* queues it starts from.
UserCode(S, lq, lc) ==
    /\ \E hs \in AtMostOneOf(S \cap Handles) :
          /\ Len(lq \o hs) <= MaxLocal
          /\ localQueue' = lq \o hs
    /\ \E cs \in AtMostOneOf(S \cap Callables) :
          /\ Len(lc \o cs) <= MaxLocal
          /\ localCallables' = lc \o cs
    /\ \E hs \in AtMostOneOf(Handles) : finished' = finished \cup ToSet(hs)

\* runGuarded(): the code runs to its end, or throws and is caught and counted;
\* what it did before it threw stays done.
runGuarded(S, lq, lc) ==
    /\ UserCode(S, lq, lc)
    /\ failedDispatchCount' \in {failedDispatchCount, Bump(failedDispatchCount)}

RunCallable(c, lq, lc) ==
    /\ runGuarded(Spawn[c], lq, lc)
    /\ UNCHANGED <<skippedCompletedHandleCount, saturatedRemoteRejectionCount>>

\* dispatchHandle(h): a frame already at its final suspend point is skipped
\* and counted, never resumed.
DispatchHandle(h, lq, lc) ==
    /\ \/ /\ h \notin finished
          /\ runGuarded(Spawn[h], lq, lc)
          /\ UNCHANGED skippedCompletedHandleCount
       \/ /\ h \in finished
          /\ localQueue' = lq
          /\ localCallables' = lc
          /\ skippedCompletedHandleCount' = Bump(skippedCompletedHandleCount)
          /\ UNCHANGED <<finished, failedDispatchCount>>
    /\ UNCHANGED saturatedRemoteRejectionCount

-----------------------------------------------------------------------------
(* runAll(), on the loop thread                                            *)

RunAllCall ==
    /\ passPc = "idle"
    /\ passPc' = "drainLocal"
    /\ taken' = 0
    /\ UNCHANGED <<localQueue, localCallables, remoteVars, finished, batch,
                   callableBatch, counterVars>>

\* Mutant: local items are not charged to the budget of the pass.
DrainLocalOneForFree ==
    /\ passPc \in {"drainLocal", "redrain"}
    /\ taken < kMaximumItemsPerPass
    /\ \/ /\ localCallables # <<>>
          /\ RunCallable(Head(localCallables), localQueue, Tail(localCallables))
       \/ /\ localCallables = <<>>
          /\ localQueue # <<>>
          /\ DispatchHandle(Last(localQueue), Front(localQueue), localCallables)
    /\ UNCHANGED <<remoteVars, passVars>>

\* One round of drainLocalTasks(): callables before the top handle.  Both
\* calls pass what is left of the pass's budget.
DrainLocalOne ==
    /\ passPc \in {"drainLocal", "redrain"}
    /\ taken < kMaximumItemsPerPass
    /\ \/ /\ localCallables # <<>>
          /\ RunCallable(Head(localCallables), localQueue, Tail(localCallables))
       \/ /\ localCallables = <<>>
          /\ localQueue # <<>>
          /\ DispatchHandle(Last(localQueue), Front(localQueue), localCallables)
    /\ taken' = taken + 1
    /\ UNCHANGED <<remoteVars, passPc, batch, callableBatch>>

\* drainLocalTasks() returns: the second call is followed by the test that
\* ends the pass once the budget is spent.
DrainLocalReturn ==
    /\ passPc \in {"drainLocal", "redrain"}
    /\ taken >= kMaximumItemsPerPass \/ ~LocalWork
    /\ passPc' = IF passPc = "redrain" /\ taken >= kMaximumItemsPerPass THEN "idle" ELSE "take"
    /\ UNCHANGED <<localQueue, localCallables, remoteVars, finished, batch,
                   callableBatch, taken, counterVars>>

passRemaining == kMaximumItemsPerPass - taken

\* The length of the longest prefix of s that fits into room.
Fit(s, room) == IF Len(s) <= room THEN Len(s) ELSE room

\* Mutant: the callables are swapped out whole and only those that fit are kept.
TakeBatchClearing ==
    /\ passPc = "take"
    /\ LET nc == Fit(remoteCallables, passRemaining)
           nh == Fit(globalQueue, passRemaining - nc)
       IN  /\ callableBatch' = SubSeq(remoteCallables, 1, nc)
           /\ remoteCallables' = <<>>
           /\ remoteCallableCount' = 0
           /\ batch' = SubSeq(globalQueue, 1, nh)
           /\ globalQueue' = SubSeq(globalQueue, nh + 1, Len(globalQueue))
           /\ globalCount' = globalCount - nh
           /\ taken' = taken + nc + nh
           /\ passPc' = IF nc + nh = 0 THEN "idle" ELSE "runBatch"
    /\ UNCHANGED <<localQueue, localCallables, finished, counterVars>>

\* One critical section: callables first, handles fill what room is left, and
\* the counts go down by what was taken.  An empty batch ends the pass.
TakeBatch ==
    /\ passPc = "take"
    /\ LET nc == Fit(remoteCallables, passRemaining)
           nh == Fit(globalQueue, passRemaining - nc)
       IN  /\ callableBatch' = SubSeq(remoteCallables, 1, nc)
           /\ remoteCallables' = SubSeq(remoteCallables, nc + 1, Len(remoteCallables))
           /\ remoteCallableCount' = remoteCallableCount - nc
           /\ batch' = SubSeq(globalQueue, 1, nh)
           /\ globalQueue' = SubSeq(globalQueue, nh + 1, Len(globalQueue))
           /\ globalCount' = globalCount - nh
           /\ taken' = taken + nc + nh
           /\ passPc' = IF nc + nh = 0 THEN "idle" ELSE "runBatch"
    /\ UNCHANGED <<localQueue, localCallables, finished, counterVars>>

RunBatchCallable ==
    /\ passPc = "runBatch"
    /\ callableBatch # <<>>
    /\ RunCallable(Head(callableBatch), localQueue, localCallables)
    /\ callableBatch' = Tail(callableBatch)
    /\ UNCHANGED <<remoteVars, passPc, batch, taken>>

RunBatchHandle ==
    /\ passPc = "runBatch"
    /\ callableBatch = <<>>
    /\ batch # <<>>
    /\ DispatchHandle(Head(batch), localQueue, localCallables)
    /\ batch' = Tail(batch)
    /\ UNCHANGED <<remoteVars, passPc, callableBatch, taken>>

BatchDone ==
    /\ passPc = "runBatch"
    /\ callableBatch = <<>>
    /\ batch = <<>>
    /\ passPc' = "redrain"
    /\ UNCHANGED <<localQueue, localCallables, remoteVars, finished, batch,
                   callableBatch, taken, counterVars>>

PassStep ==
    \/ DrainLocalOne
    \/ DrainLocalReturn
    \/ TakeBatch
    \/ RunBatchCallable
    \/ RunBatchHandle
    \/ BatchDone

-----------------------------------------------------------------------------
(* runOne(), on the loop thread: one item, in this order of preference     *)

runOne ==
    /\ passPc = "idle"
    /\ \/ /\ remoteCallables # <<>>
          /\ RunCallable(Head(remoteCallables), localQueue, localCallables)
          /\ remoteCallables' = Tail(remoteCallables)
          /\ remoteCallableCount' = remoteCallableCount - 1
          /\ UNCHANGED <<globalQueue, globalCount>>
       \/ /\ remoteCallables = <<>>
          /\ localCallables # <<>>
          /\ RunCallable(Head(localCallables), localQueue, Tail(localCallables))
          /\ UNCHANGED remoteVars
       \/ /\ remoteCallables = <<>>
          /\ localCallables = <<>>
          /\ localQueue # <<>>
          /\ DispatchHandle(Last(localQueue), Front(localQueue), localCallables)
          /\ UNCHANGED remoteVars
       \/ /\ remoteCallables = <<>>
          /\ ~LocalWork
          /\ globalQueue # <<>>
          /\ DispatchHandle(Head(globalQueue), localQueue, localCallables)
          /\ globalQueue' = Tail(globalQueue)
          /\ globalCount' = globalCount - 1
          /\ UNCHANGED <<remoteCallables, remoteCallableCount>>
    /\ UNCHANGED passVars

-----------------------------------------------------------------------------
(* The scheduler on its own: no wakeup notifier and no owner loop          *)

SchedulerNext ==
    \/ \E h \in Handles : ScheduleRemoteAccepted(h)
    \/ \E c \in Callables : PostRemoteAccepted(c)
    \/ RemoteRejected
    \/ passPc = "idle" /\ \E h \in Handles : schedule(h)
    \/ passPc = "idle" /\ \E c \in Callables : postLocal(c)
    \/ RunAllCall
    \/ PassStep
    \/ runOne

SchedulerSpec == SchedulerInit /\ [][SchedulerNext]_schedulerVars

-----------------------------------------------------------------------------
(* Refinement: what a pass has taken and not yet run is still owed         *)

Owed == INSTANCE ReadyQueues WITH
    Capacity <- kMaximumRemoteBacklog + kMaximumItemsPerPass,
    owedHandles <- batch \o globalQueue,
    owedCallables <- callableBatch \o remoteCallables,
    stack <- localQueue,
    fifo <- localCallables

\* Nothing accepted is lost, run twice or run out of order, whatever the
\* batches and budgets of runAll() and whichever items throw or are skipped.
ImplementsReadyQueues == Owed!Spec

-----------------------------------------------------------------------------
(* Properties                                                              *)

\* One runAll() runs at most kMaximumItemsPerPass items, local and remote
\* together, however its items repost: otherwise the loop never gets back to
\* its I/O events.
PassWithinBudget == taken <= kMaximumItemsPerPass

\* The lock-free counts say exactly what is still queued: one that reads zero
\* over a non-empty queue lets the loop go to sleep on its backlog.
CountsMatchQueues ==
    /\ globalCount = Len(globalQueue)
    /\ remoteCallableCount = Len(remoteCallables)

\* A batch only exists while a pass runs it, and is paid for out of its budget.
BatchesBelongToPass ==
    /\ passPc # "runBatch" => batch = <<>> /\ callableBatch = <<>>
    /\ Len(batch) + Len(callableBatch) <= taken

\* The cross-thread queues never outgrow their bound, whoever posts.
BacklogBounded == Backlog <= kMaximumRemoteBacklog

\* What every step of the scheduler preserves: the budget of a pass, counts
\* that match their queues, batches that belong to a pass, a bounded backlog.
SchedulerInvariant ==
    /\ PassWithinBudget
    /\ CountsMatchQueues
    /\ BatchesBelongToPass
    /\ BacklogBounded
=============================================================================
