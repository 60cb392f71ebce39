--------------------------- MODULE AsyncExecutor ---------------------------
(***************************************************************************)
(* The pool of threads that runs blocking work for coroutines              *)
(* (Core/Coroutine/AsyncExecutor): submissions from any thread, a bounded  *)
(* FIFO queue under m_mutex with a condition variable, workers that run    *)
(* the work and send the coroutine back to its event loop, a destructor    *)
(* that lets the workers finish what was accepted.                         *)
(*                                                                         *)
(* A critical section of m_mutex is one step.  notify_one() is called      *)
(* after the lock is released, and is a step of its own.  The work itself, *)
(* whether it returns or throws, only fills the shared state of its        *)
(* submission and is left out; the event loop is "ready", the coroutines   *)
(* it has yet to resume.                                                   *)
(***************************************************************************)
EXTENDS Naturals, Sequences, FiniteSets, SequencesExt

CONSTANTS
    Workers,
    Submissions,            \* calls of submit(), each the only one of its coroutine
    MaximumPending,         \* workerCount() * kMaximumPendingTasksPerWorker
    LoopMayRefuse,          \* submissions whose loop may refuse them: scheduleRemote() throws,
                            \* or is at its backlog limit
    None                    \* no task in hand

ASSUME AsyncExecutorAssumption ==
    /\ IsFiniteSet(Workers) /\ Workers # {}
    /\ IsFiniteSet(Submissions)
    /\ MaximumPending \in Nat \ {0}
    /\ LoopMayRefuse \subseteq Submissions
    /\ None \notin Submissions

VARIABLES
    isStopping,             \* m_isStopping
    stopRequested,          \* the stop tokens of the workers, all set together
    tasks,                  \* m_tasks
    pc,                     \* where each worker is in workerLoop()
    task,                   \* the task each worker has in hand
    completedCount,         \* m_completedCount
    notifying,              \* submissions between the unlock and notify_one() in enqueue()
    frame,                  \* what became of the submitting coroutine
    continuation,           \* SubmissionState::continuation is not null
    ready                   \* handed to completionLoop, not yet resumed

vars == <<isStopping, stopRequested, tasks, pc, task, completedCount, notifying, frame,
          continuation, ready>>

WorkerPcs == {"lock", "asleep", "run", "post", "count", "exited"}
Frames == {"running", "suspended", "resumed", "failed", "destroyed"}

Init ==
    /\ isStopping = FALSE
    /\ stopRequested = FALSE
    /\ tasks = << >>
    /\ pc = [w \in Workers |-> "lock"]
    /\ task = [w \in Workers |-> None]
    /\ completedCount = 0
    /\ notifying = {}
    /\ frame = [s \in Submissions |-> "running"]
    /\ continuation = [s \in Submissions |-> FALSE]
    /\ ready = {}

-----------------------------------------------------------------------------
(* The submitting coroutine: await_suspend() and enqueue(). *)

\* Mutant: enqueue() does not look at m_isStopping.
EnqueueWhileStopping(s) ==
    /\ frame[s] = "running"
    /\ Len(tasks) < MaximumPending
    /\ tasks' = Append(tasks, s)
    /\ notifying' = notifying \cup {s}
    /\ frame' = [frame EXCEPT ![s] = "suspended"]
    /\ continuation' = [continuation EXCEPT ![s] = TRUE]
    /\ UNCHANGED <<isStopping, stopRequested, pc, task, completedCount, ready>>

EnqueueAccepted(s) ==
    /\ frame[s] = "running"
    /\ ~isStopping
    /\ Len(tasks) < MaximumPending
    /\ tasks' = Append(tasks, s)
    /\ notifying' = notifying \cup {s}
    /\ frame' = [frame EXCEPT ![s] = "suspended"]
    /\ continuation' = [continuation EXCEPT ![s] = TRUE]
    /\ UNCHANGED <<isStopping, stopRequested, pc, task, completedCount, ready>>

\* Refused: the coroutine goes on at once with an exception in await_resume().
EnqueueRejected(s) ==
    /\ frame[s] = "running"
    /\ isStopping \/ Len(tasks) >= MaximumPending
    /\ frame' = [frame EXCEPT ![s] = "failed"]
    /\ UNCHANGED <<isStopping, stopRequested, tasks, pc, task, completedCount, notifying,
                   continuation, ready>>

\* Mutant: notify_one() only when the queue was empty before the push.
NotifyOneWhenFirst(s) ==
    /\ s \in notifying
    /\ notifying' = notifying \ {s}
    /\ IF Len(tasks) <= 1 /\ \E w \in Workers : pc[w] = "asleep"
       THEN \E w \in Workers : /\ pc[w] = "asleep"
                               /\ pc' = [pc EXCEPT ![w] = "lock"]
       ELSE UNCHANGED pc
    /\ UNCHANGED <<isStopping, stopRequested, tasks, task, completedCount, frame,
                   continuation, ready>>

NotifyOne(s) ==
    /\ s \in notifying
    /\ notifying' = notifying \ {s}
    /\ IF \E w \in Workers : pc[w] = "asleep"
       THEN \E w \in Workers : /\ pc[w] = "asleep"
                               /\ pc' = [pc EXCEPT ![w] = "lock"]
       ELSE UNCHANGED pc
    /\ UNCHANGED <<isStopping, stopRequested, tasks, task, completedCount, frame,
                   continuation, ready>>

\* The loop resumes the coroutine; await_resume() yields the result.
Resume(s) ==
    /\ s \in ready
    /\ ready' = ready \ {s}
    /\ frame' = [frame EXCEPT ![s] = "resumed"]
    /\ UNCHANGED <<isStopping, stopRequested, tasks, pc, task, completedCount, notifying,
                   continuation>>

\* ~SubmissionAwaiter() of a frame destroyed while its work is queued or running.  Once
\* the continuation is taken the frame must live until it is resumed (AsyncExecutor.h:20).
DestroyFrame(s) ==
    /\ frame[s] = "suspended"
    /\ s \notin notifying
    /\ continuation[s]
    /\ continuation' = [continuation EXCEPT ![s] = FALSE]
    /\ frame' = [frame EXCEPT ![s] = "destroyed"]
    /\ UNCHANGED <<isStopping, stopRequested, tasks, pc, task, completedCount, notifying,
                   ready>>

-----------------------------------------------------------------------------
(* A worker: workerLoop() and the closure that await_suspend() queued. *)

FallAsleep(w) ==
    /\ pc[w] = "lock"
    /\ ~stopRequested /\ tasks = << >>
    /\ pc' = [pc EXCEPT ![w] = "asleep"]
    /\ UNCHANGED <<isStopping, stopRequested, tasks, task, completedCount, notifying, frame,
                   continuation, ready>>

\* A condition variable may wake for no reason.
SpuriousWakeup(w) ==
    /\ pc[w] = "asleep"
    /\ pc' = [pc EXCEPT ![w] = "lock"]
    /\ UNCHANGED <<isStopping, stopRequested, tasks, task, completedCount, notifying, frame,
                   continuation, ready>>

\* Mutant: a worker leaves as soon as it is asked to, whatever is queued.
ExitAtOnce(w) ==
    /\ pc[w] = "lock"
    /\ stopRequested
    /\ pc' = [pc EXCEPT ![w] = "exited"]
    /\ UNCHANGED <<isStopping, stopRequested, tasks, task, completedCount, notifying, frame,
                   continuation, ready>>

Exit(w) ==
    /\ pc[w] = "lock"
    /\ stopRequested /\ tasks = << >>
    /\ pc' = [pc EXCEPT ![w] = "exited"]
    /\ UNCHANGED <<isStopping, stopRequested, tasks, task, completedCount, notifying, frame,
                   continuation, ready>>

TakeTask(w) ==
    /\ pc[w] = "lock"
    /\ tasks # << >>
    /\ task' = [task EXCEPT ![w] = Head(tasks)]
    /\ tasks' = Tail(tasks)
    /\ pc' = [pc EXCEPT ![w] = "run"]
    /\ UNCHANGED <<isStopping, stopRequested, completedCount, notifying, frame, continuation,
                   ready>>

\* Mutant: the closure posts the handle without taking it out of the shared state.
RunTaskKeepingHandle(w) ==
    /\ pc[w] = "run"
    /\ pc' = [pc EXCEPT ![w] = "post"]
    /\ UNCHANGED <<isStopping, stopRequested, tasks, task, completedCount, notifying, frame,
                   continuation, ready>>

\* The work ends and the closure takes the handle; none is left if the frame died.
RunTask(w) ==
    /\ pc[w] = "run"
    /\ pc' = [pc EXCEPT ![w] = IF continuation[task[w]] THEN "post" ELSE "count"]
    /\ continuation' = [continuation EXCEPT ![task[w]] = FALSE]
    /\ UNCHANGED <<isStopping, stopRequested, tasks, task, completedCount, notifying, frame,
                   ready>>

\* completionLoop->scheduler().scheduleRemote(): the last time the loop is touched.
PostResume(w) ==
    /\ pc[w] = "post"
    /\ \/ ready' = ready \cup {task[w]}
       \/ task[w] \in LoopMayRefuse /\ UNCHANGED ready
    /\ pc' = [pc EXCEPT ![w] = "count"]
    /\ UNCHANGED <<isStopping, stopRequested, tasks, task, completedCount, notifying, frame,
                   continuation>>

CountTask(w) ==
    /\ pc[w] = "count"
    /\ completedCount' = completedCount + 1
    /\ task' = [task EXCEPT ![w] = None]
    /\ pc' = [pc EXCEPT ![w] = "lock"]
    /\ UNCHANGED <<isStopping, stopRequested, tasks, notifying, frame, continuation, ready>>

WorkerStep(w) ==
    FallAsleep(w) \/ Exit(w) \/ TakeTask(w) \/ RunTask(w) \/ PostResume(w) \/ CountTask(w)

-----------------------------------------------------------------------------
(* ~AsyncExecutor(): the flag first, then the stop requests under the lock. *)

StopAccepting ==
    /\ ~isStopping
    /\ isStopping' = TRUE
    /\ UNCHANGED <<stopRequested, tasks, pc, task, completedCount, notifying, frame,
                   continuation, ready>>

\* Mutant: one sleeping worker is woken instead of all of them.
RequestStopWakingOne ==
    /\ isStopping /\ ~stopRequested
    /\ stopRequested' = TRUE
    /\ IF \E w \in Workers : pc[w] = "asleep"
       THEN \E w \in Workers : /\ pc[w] = "asleep"
                               /\ pc' = [pc EXCEPT ![w] = "lock"]
       ELSE UNCHANGED pc
    /\ UNCHANGED <<isStopping, tasks, task, completedCount, notifying, frame, continuation,
                   ready>>

RequestStop ==
    /\ isStopping /\ ~stopRequested
    /\ stopRequested' = TRUE
    /\ pc' = [w \in Workers |-> IF pc[w] = "asleep" THEN "lock" ELSE pc[w]]
    /\ UNCHANGED <<isStopping, tasks, task, completedCount, notifying, frame, continuation,
                   ready>>

\* The jthreads are joined: the destructor has returned and nothing is left to happen.
Joined == \A w \in Workers : pc[w] = "exited"

Next ==
    \/ \E s \in Submissions : \/ EnqueueAccepted(s) \/ EnqueueRejected(s) \/ NotifyOne(s)
                              \/ Resume(s) \/ DestroyFrame(s)
    \/ \E w \in Workers : WorkerStep(w) \/ SpuriousWakeup(w)
    \/ StopAccepting \/ RequestStop

Spec == Init /\ [][Next]_vars

(***************************************************************************)
(* Threads that can run do run: workers, a submitter inside enqueue(), the *)
(* destructor once it began, and the event loop.  Nobody has to submit, to *)
(* destroy a frame or to destroy the executor, and no wake-up is spurious  *)
(* on purpose.                                                             *)
(***************************************************************************)
Fairness ==
    /\ \A w \in Workers : WF_vars(WorkerStep(w))
    /\ \A s \in Submissions : WF_vars(NotifyOne(s)) /\ WF_vars(Resume(s))
    /\ WF_vars(RequestStop)

FairSpec == Spec /\ Fairness

-----------------------------------------------------------------------------
Busy == {w \in Workers : pc[w] \in {"run", "post", "count"}}

\* Types; a worker holds a task exactly while it is busy with one, and the queue stays
\* within its limit.
TypeOK ==
    /\ isStopping \in BOOLEAN /\ stopRequested \in BOOLEAN
    /\ tasks \in Seq(Submissions) /\ Len(tasks) <= MaximumPending
    /\ pc \in [Workers -> WorkerPcs]
    /\ task \in [Workers -> Submissions \cup {None}]
    /\ \A w \in Workers : task[w] = None <=> w \notin Busy
    /\ completedCount \in Nat
    /\ notifying \subseteq Submissions /\ ready \subseteq Submissions
    /\ frame \in [Submissions -> Frames]
    /\ continuation \in [Submissions -> BOOLEAN]

\* No accepted task is dropped at shutdown (AsyncExecutor.cpp:141): once one worker has
\* left, nothing is queued and nothing will be.
QueueIsEmptyAfterExit ==
    (\E w \in Workers : pc[w] = "exited") => isStopping /\ tasks = << >>

\* No task waits while a worker sleeps, unless a worker that was woken for it or a
\* notify_one() is still on its way (enqueue() notifies outside the lock).
NoTaskWaitsForASleeper ==
    (\E w \in Workers : pc[w] = "asleep") =>
        Len(tasks) <= Cardinality({w \in Workers : pc[w] = "lock"}) + Cardinality(notifying)

\* A coroutine is posted only while its frame waits for it, and by one worker only: a
\* frame that was destroyed or resumed is never handed to the loop again.
PostedFramesWait ==
    /\ \A s \in ready : frame[s] = "suspended" /\ ~continuation[s]
    /\ \A w \in Workers : pc[w] = "post" =>
          /\ frame[task[w]] = "suspended" /\ ~continuation[task[w]] /\ task[w] \notin ready
          /\ \A v \in Workers \ {w} : task[v] # task[w]

\* Every accepted submission comes to an end, across a shutdown too, when the loop takes
\* what is posted to it.
SubmissionEnds ==
    \A s \in Submissions \ LoopMayRefuse : (frame[s] = "suspended") ~> (frame[s] # "suspended")

\* The destructor returns: every worker leaves (AsyncExecutor.cpp:71-73 fears one that
\* sleeps through the stop request).
DestructorReturns == isStopping ~> Joined
=============================================================================
