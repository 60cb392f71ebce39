------------------------ MODULE AsyncExecutorProofs ------------------------
(***************************************************************************)
(* Proofs about AsyncExecutor for any number of workers and submissions    *)
(* and any queue limit.                                                    *)
(*                                                                         *)
(* PostedFramesWait is not inductive: that a worker about to post holds    *)
(* the only claim to a waiting frame depends on where the submission was   *)
(* before.  Places says that an accepted submission is queued once, or in  *)
(* one worker's hands, or already posted, and what its frame and its       *)
(* continuation look like in each place.                                   *)
(*                                                                         *)
(* Wakeups compares the queue with the workers on their way to it and the  *)
(* calls of notify_one() to come, which needs each of those calls to be of *)
(* a submission of its own.                                                *)
(***************************************************************************)
EXTENDS AsyncExecutor, FiniteSetTheorems, TLAPS

\* The destructor's order: the flag, then the stop requests, then the workers leave.
ShutdownOrder ==
    /\ stopRequested => isStopping
    /\ \A w \in Workers : pc[w] = "exited" => stopRequested /\ tasks = << >>

Waiting(s) == frame[s] \in {"suspended", "destroyed"}
              /\ (frame[s] = "suspended" <=> continuation[s]) /\ s \notin ready

Places ==
    /\ \A i, j \in 1 .. Len(tasks) : tasks[i] = tasks[j] => i = j
    /\ \A i \in 1 .. Len(tasks), w \in Workers : task[w] # tasks[i]
    /\ \A i \in 1 .. Len(tasks) : Waiting(tasks[i])
    /\ \A v, w \in Workers : v # w /\ task[v] # None => task[v] # task[w]
    /\ \A w \in Workers :
          /\ pc[w] = "run" => Waiting(task[w])
          /\ pc[w] = "post" => /\ frame[task[w]] = "suspended"
                               /\ ~continuation[task[w]]
                               /\ task[w] \notin ready
          /\ pc[w] = "count" => frame[task[w]] \in {"suspended", "resumed", "destroyed"}
    /\ \A s \in ready : frame[s] = "suspended" /\ ~continuation[s]

Coming == {w \in Workers : pc[w] = "lock"}

\* Who is about to call notify_one() has been accepted; and no task waits for a sleeper.
Wakeups ==
    /\ \A s \in notifying : frame[s] # "running"
    /\ (\E w \in Workers : pc[w] = "asleep") =>
          Len(tasks) <= Cardinality(Coming) + Cardinality(notifying)

Inv == TypeOK /\ ShutdownOrder /\ Places /\ Wakeups

USE DEF WorkerPcs, Frames, Busy

\* The initial state satisfies the inductive invariant.
LEMMA InvInit == Init => Inv
<1> SUFFICES ASSUME Init PROVE Inv
  OBVIOUS
<1>1. TypeOK
  <2>1. tasks = << >> /\ tasks \in Seq(Submissions) /\ Len(tasks) = 0
    BY DEF Init
  <2>2. frame \in [Submissions -> Frames] /\ continuation \in [Submissions -> BOOLEAN]
    BY DEF Init
  <2>3. /\ pc \in [Workers -> WorkerPcs]
        /\ task \in [Workers -> Submissions \cup {None}]
        /\ \A w \in Workers : task[w] = None /\ w \notin Busy
    BY DEF Init
  <2>4. isStopping \in BOOLEAN /\ stopRequested \in BOOLEAN
    BY DEF Init
  <2>5. completedCount \in Nat /\ notifying \subseteq Submissions /\ ready \subseteq Submissions
    BY DEF Init
  <2>6. Len(tasks) <= MaximumPending
    BY <2>1, AsyncExecutorAssumption
  <2> QED
    BY <2>1, <2>2, <2>3, <2>4, <2>5, <2>6 DEF TypeOK
<1>2. ShutdownOrder
  BY DEF Init, ShutdownOrder
<1>3. Places
  BY DEF Init, Places
<1>4. Wakeups
  BY DEF Init, Wakeups
<1> QED
  BY <1>1, <1>2, <1>3, <1>4 DEF Inv

\* Every step keeps the types.
LEMMA TypeStep == Inv /\ [Next]_vars => TypeOK'
<1> SUFFICES ASSUME Inv, [Next]_vars PROVE TypeOK'
  OBVIOUS
<1> USE AsyncExecutorAssumption DEF Inv, TypeOK
<1>1. ASSUME NEW s \in Submissions, EnqueueAccepted(s) PROVE TypeOK'
  BY <1>1 DEF EnqueueAccepted
<1>2. ASSUME NEW s \in Submissions, EnqueueRejected(s) PROVE TypeOK'
  BY <1>2 DEF EnqueueRejected
<1>3. ASSUME NEW s \in Submissions, NotifyOne(s) PROVE TypeOK'
  BY <1>3 DEF NotifyOne
<1>4. ASSUME NEW s \in Submissions, Resume(s) PROVE TypeOK'
  BY <1>4 DEF Resume
<1>5. ASSUME NEW s \in Submissions, DestroyFrame(s) PROVE TypeOK'
  BY <1>5 DEF DestroyFrame
<1>6. ASSUME NEW w \in Workers, FallAsleep(w) PROVE TypeOK'
  BY <1>6 DEF FallAsleep
<1>7. ASSUME NEW w \in Workers, Exit(w) PROVE TypeOK'
  BY <1>7 DEF Exit
<1>8. ASSUME NEW w \in Workers, TakeTask(w) PROVE TypeOK'
  BY <1>8 DEF TakeTask
<1>9. ASSUME NEW w \in Workers, RunTask(w) PROVE TypeOK'
  BY <1>9 DEF RunTask
<1>10. ASSUME NEW w \in Workers, PostResume(w) PROVE TypeOK'
  BY <1>10 DEF PostResume
<1>11. ASSUME NEW w \in Workers, CountTask(w) PROVE TypeOK'
  BY <1>11 DEF CountTask
<1>12. ASSUME NEW w \in Workers, SpuriousWakeup(w) PROVE TypeOK'
  BY <1>12 DEF SpuriousWakeup
<1>13. CASE StopAccepting
  BY <1>13 DEF StopAccepting
<1>14. CASE RequestStop
  BY <1>14 DEF RequestStop
<1>15. CASE UNCHANGED vars
  BY <1>15 DEF vars
<1> QED
  BY <1>1, <1>2, <1>3, <1>4, <1>5, <1>6, <1>7, <1>8, <1>9, <1>10, <1>11, <1>12, <1>13,
     <1>14, <1>15 DEF Next, WorkerStep

\* A worker leaves only after the stop request and with the queue empty, and nothing is
\* accepted afterwards.
LEMMA ShutdownStep == Inv /\ [Next]_vars => ShutdownOrder'
<1> SUFFICES ASSUME Inv, [Next]_vars PROVE ShutdownOrder'
  OBVIOUS
<1> USE DEF Inv, TypeOK, ShutdownOrder
<1>1. ASSUME NEW s \in Submissions,
             EnqueueAccepted(s) \/ EnqueueRejected(s) \/ NotifyOne(s) \/ Resume(s)
                \/ DestroyFrame(s)
      PROVE  ShutdownOrder'
  BY <1>1 DEF EnqueueAccepted, EnqueueRejected, NotifyOne, Resume, DestroyFrame
<1>2. ASSUME NEW w \in Workers, WorkerStep(w) \/ SpuriousWakeup(w)
      PROVE  ShutdownOrder'
  BY <1>2 DEF WorkerStep, FallAsleep, Exit, TakeTask, RunTask, PostResume, CountTask,
              SpuriousWakeup
<1>3. CASE StopAccepting \/ RequestStop \/ UNCHANGED vars
  BY <1>3 DEF StopAccepting, RequestStop, vars
<1> QED
  BY <1>1, <1>2, <1>3 DEF Next

\* A submission moves from the queue to one worker to the loop and is never in two places.
LEMMA PlacesStep == Inv /\ [Next]_vars => Places'
<1> SUFFICES ASSUME Inv, [Next]_vars PROVE Places'
  OBVIOUS
<1> USE AsyncExecutorAssumption DEF Inv, TypeOK
<1>1. ASSUME NEW s \in Submissions, EnqueueAccepted(s) PROVE Places'
  <2>0. frame[s] \notin {"suspended", "resumed", "destroyed"}
    BY <1>1 DEF EnqueueAccepted
  <2>1. /\ \A i \in 1 .. Len(tasks) : tasks[i] # s
        /\ \A w \in Workers : task[w] # s
        /\ s \notin ready
    <3>1. \A i \in 1 .. Len(tasks) : tasks[i] # s
      BY <2>0 DEF Places, Waiting
    <3>2. ASSUME NEW w \in Workers PROVE task[w] # s
      <4>1. CASE pc[w] \in {"run", "post", "count"}
        BY <2>0, <4>1 DEF Places, Waiting
      <4>2. CASE pc[w] \notin {"run", "post", "count"}
        BY <4>2
      <4> QED
        BY <4>1, <4>2
    <3>3. s \notin ready
      BY <2>0 DEF Places
    <3> QED
      BY <3>1, <3>2, <3>3
  <2>2. /\ Len(tasks') = Len(tasks) + 1
        /\ \A i \in 1 .. Len(tasks) : tasks'[i] = tasks[i]
        /\ tasks'[Len(tasks) + 1] = s
    BY <1>1 DEF EnqueueAccepted
  <2>3. \A i \in 1 .. Len(tasks') : i \in 1 .. Len(tasks) \/ i = Len(tasks) + 1
    BY <2>2
  <2> QED
    BY <1>1, <2>1, <2>2, <2>3 DEF EnqueueAccepted, Places, Waiting
<1>2. ASSUME NEW s \in Submissions, EnqueueRejected(s) PROVE Places'
  BY <1>2 DEF EnqueueRejected, Places, Waiting
<1>3. ASSUME NEW s \in Submissions, NotifyOne(s) PROVE Places'
  BY <1>3 DEF NotifyOne, Places, Waiting
<1>4. ASSUME NEW s \in Submissions, Resume(s) PROVE Places'
  BY <1>4 DEF Resume, Places, Waiting
<1>5. ASSUME NEW s \in Submissions, DestroyFrame(s) PROVE Places'
  BY <1>5 DEF DestroyFrame, Places, Waiting
<1>6. ASSUME NEW w \in Workers,
             FallAsleep(w) \/ Exit(w) \/ SpuriousWakeup(w)
      PROVE  Places'
  BY <1>6 DEF FallAsleep, Exit, SpuriousWakeup, Places, Waiting
<1>7. ASSUME NEW w \in Workers, TakeTask(w) PROVE Places'
  <2>1. /\ Len(tasks') = Len(tasks) - 1
        /\ \A i \in 1 .. Len(tasks') : i + 1 \in 1 .. Len(tasks) /\ tasks'[i] = tasks[i + 1]
        /\ 1 \in 1 .. Len(tasks)
        /\ task' = [task EXCEPT ![w] = tasks[1]]
    BY <1>7 DEF TakeTask
  <2>2. \A i \in 1 .. Len(tasks') : tasks'[i] # tasks[1]
    BY <2>1 DEF Places
  <2>3. /\ Waiting(tasks[1])
        /\ \A v \in Workers : task[v] # tasks[1]
    BY <2>1 DEF Places
  <2> QED
    BY <1>7, <2>1, <2>2, <2>3 DEF TakeTask, Places, Waiting
<1>8. ASSUME NEW w \in Workers, RunTask(w) PROVE Places'
  BY <1>8 DEF RunTask, Places, Waiting
<1>9. ASSUME NEW w \in Workers, PostResume(w) PROVE Places'
  BY <1>9 DEF PostResume, Places, Waiting
<1>10. ASSUME NEW w \in Workers, CountTask(w) PROVE Places'
  BY <1>10 DEF CountTask, Places, Waiting
<1>11. CASE StopAccepting
  BY <1>11 DEF StopAccepting, Places, Waiting
<1>12. CASE RequestStop
  BY <1>12 DEF RequestStop, Places, Waiting
<1>13. CASE UNCHANGED vars
  BY <1>13 DEF vars, Places, Waiting
<1> QED
  BY <1>1, <1>2, <1>3, <1>4, <1>5, <1>6, <1>7, <1>8, <1>9, <1>10, <1>11, <1>12, <1>13
     DEF Next, WorkerStep

\* The number of workers on their way to the queue, when one of them joins or leaves.
LEMMA ComingChanges ==
    ASSUME TypeOK
    PROVE  /\ Cardinality(Coming) \in Nat /\ Cardinality(notifying) \in Nat
           /\ \A w \in Workers, to \in WorkerPcs :
                 pc' = [pc EXCEPT ![w] = to] =>
                    Cardinality(Coming') = IF w \in Coming
                                           THEN Cardinality(Coming) - (IF to = "lock" THEN 0 ELSE 1)
                                           ELSE Cardinality(Coming) + (IF to = "lock" THEN 1 ELSE 0)
           /\ \A s \in Submissions :
                 /\ Cardinality(notifying \cup {s}) =
                       Cardinality(notifying) + (IF s \in notifying THEN 0 ELSE 1)
                 /\ Cardinality(notifying \ {s}) =
                       Cardinality(notifying) - (IF s \in notifying THEN 1 ELSE 0)
<1>1. IsFiniteSet(Coming) /\ IsFiniteSet(notifying)
  <2>1. Coming \in SUBSET Workers /\ notifying \in SUBSET Submissions
    BY DEF Coming, TypeOK
  <2> QED
    BY <2>1, AsyncExecutorAssumption, FS_Subset
<1>2. Cardinality(Coming) \in Nat /\ Cardinality(notifying) \in Nat
  BY <1>1, FS_CardinalityType
<1>3. ASSUME NEW w \in Workers, NEW to \in WorkerPcs, pc' = [pc EXCEPT ![w] = to]
      PROVE  Cardinality(Coming') = IF w \in Coming
                                    THEN Cardinality(Coming) - (IF to = "lock" THEN 0 ELSE 1)
                                    ELSE Cardinality(Coming) + (IF to = "lock" THEN 1 ELSE 0)
  <2>1. Coming' = IF to = "lock" THEN Coming \cup {w} ELSE Coming \ {w}
    BY <1>3 DEF Coming, TypeOK
  <2>2. Cardinality(Coming \cup {w}) =
           IF w \in Coming THEN Cardinality(Coming) ELSE Cardinality(Coming) + 1
    BY <1>1, FS_AddElement
  <2>3. Cardinality(Coming \ {w}) =
           IF w \in Coming THEN Cardinality(Coming) - 1 ELSE Cardinality(Coming)
    BY <1>1, FS_RemoveElement
  <2> HIDE DEF WorkerPcs
  <2> QED
    BY <1>2, <2>1, <2>2, <2>3
<1>4. ASSUME NEW s \in Submissions
      PROVE  /\ Cardinality(notifying \cup {s}) =
                   Cardinality(notifying) + (IF s \in notifying THEN 0 ELSE 1)
             /\ Cardinality(notifying \ {s}) =
                   Cardinality(notifying) - (IF s \in notifying THEN 1 ELSE 0)
  <2>1. Cardinality(notifying \cup {s}) =
           IF s \in notifying THEN Cardinality(notifying) ELSE Cardinality(notifying) + 1
    BY <1>1, FS_AddElement
  <2>2. Cardinality(notifying \ {s}) =
           IF s \in notifying THEN Cardinality(notifying) - 1 ELSE Cardinality(notifying)
    BY <1>1, FS_RemoveElement
  <2> QED
    BY <1>2, <2>1, <2>2
<1> QED
  BY <1>2, <1>3, <1>4

\* A task joins the queue with a notify_one() of its own, which wakes a worker while one
\* sleeps; and a worker leaves for sleep or for good only when the queue is empty.
LEMMA WakeupsStep == Inv /\ [Next]_vars => Wakeups'
<1> SUFFICES ASSUME Inv, [Next]_vars PROVE Wakeups'
  OBVIOUS
<1>0. TypeOK /\ Wakeups /\ tasks \in Seq(Submissions) /\ Len(tasks) \in Nat
      /\ Cardinality(Coming) \in Nat /\ Cardinality(notifying) \in Nat
      /\ pc \in [Workers -> WorkerPcs] /\ frame \in [Submissions -> Frames]
      /\ notifying \subseteq Submissions
  BY ComingChanges DEF Inv, TypeOK
<1>c. UNCHANGED pc => Coming' = Coming
  BY DEF Coming
<1>f. ASSUME UNCHANGED <<tasks, notifying, pc>>,
             \A s \in Submissions : frame[s] # "running" => frame'[s] # "running"
      PROVE  Wakeups'
  BY <1>0, <1>c, <1>f DEF Wakeups
\* A worker moves and the frames do not.
<1>m. ASSUME NEW w \in Workers, NEW to \in WorkerPcs, pc' = [pc EXCEPT ![w] = to],
             to # "asleep", UNCHANGED <<notifying, frame>>,
             Len(tasks') <= Len(tasks) + Cardinality(Coming') - Cardinality(Coming),
             Len(tasks') \in Nat, Cardinality(Coming') \in Nat
      PROVE  Wakeups'
  <2>1. (\E v \in Workers : pc'[v] = "asleep") => \E v \in Workers : pc[v] = "asleep"
    BY <1>0, <1>m
  <2> QED
    BY <1>0, <1>m, <2>1 DEF Wakeups
\* A worker moves and the queue is empty.
<1>e. ASSUME tasks' = << >>, UNCHANGED <<notifying, frame>>, Cardinality(Coming') \in Nat
      PROVE  Wakeups'
  <2>1. Len(tasks') = 0
    BY <1>e
  <2> QED
    BY <1>0, <1>e, <2>1 DEF Wakeups
<1>n. TypeOK' /\ Cardinality(Coming') \in Nat
  <2>1. IsFiniteSet(Workers) /\ Coming' \in SUBSET Workers
    BY AsyncExecutorAssumption DEF Coming
  <2>2. IsFiniteSet(Coming')
    BY <2>1, FS_Subset
  <2> QED
    BY <2>2, TypeStep, FS_CardinalityType
<1>1. ASSUME NEW s \in Submissions, EnqueueAccepted(s) PROVE Wakeups'
  <2>1. s \notin notifying
    BY <1>0, <1>1 DEF EnqueueAccepted, Wakeups
  <2>2. Cardinality(notifying') = Cardinality(notifying) + 1
    BY <1>0, <1>1, <2>1, ComingChanges DEF EnqueueAccepted
  <2>3. Len(tasks') = Len(tasks) + 1 /\ UNCHANGED pc
    BY <1>0, <1>1 DEF EnqueueAccepted
  <2>4. \A t \in notifying' : frame'[t] # "running"
    BY <1>0, <1>1 DEF EnqueueAccepted, Wakeups
  <2> QED
    BY <1>0, <1>c, <2>2, <2>3, <2>4 DEF Wakeups
<1>2. ASSUME NEW s \in Submissions, EnqueueRejected(s) \/ Resume(s) \/ DestroyFrame(s)
      PROVE  Wakeups'
  BY <1>0, <1>2, <1>f DEF EnqueueRejected, Resume, DestroyFrame
<1>3. ASSUME NEW s \in Submissions, NotifyOne(s) PROVE Wakeups'
  <2>1. Cardinality(notifying') = Cardinality(notifying) - 1
    BY <1>0, <1>3, ComingChanges DEF NotifyOne
  <2>2. \A t \in notifying' : frame'[t] # "running"
    BY <1>0, <1>3 DEF NotifyOne, Wakeups
  <2>3. UNCHANGED tasks
    BY <1>3 DEF NotifyOne
  <2>4. CASE \E w \in Workers : pc[w] = "asleep"
    <3>1. PICK w \in Workers : pc[w] = "asleep" /\ pc' = [pc EXCEPT ![w] = "lock"]
      BY <1>3, <2>4 DEF NotifyOne
    <3>2. Cardinality(Coming') = Cardinality(Coming) + 1
      BY <1>0, <3>1, ComingChanges DEF Coming
    <3> QED
      BY <1>0, <2>1, <2>2, <2>3, <2>4, <3>2 DEF Wakeups
  <2>5. CASE ~ \E w \in Workers : pc[w] = "asleep"
    BY <1>3, <2>2, <2>5 DEF NotifyOne, Wakeups
  <2> QED
    BY <2>4, <2>5
<1>4. ASSUME NEW w \in Workers, FallAsleep(w) \/ Exit(w) PROVE Wakeups'
  BY <1>4, <1>e, <1>n DEF FallAsleep, Exit
<1>5. ASSUME NEW w \in Workers, TakeTask(w) PROVE Wakeups'
  <2>1. Len(tasks') = Len(tasks) - 1 /\ Len(tasks) # 0
    BY <1>0, <1>5 DEF TakeTask
  <2>2. pc' = [pc EXCEPT ![w] = "run"] /\ w \in Coming
    BY <1>5 DEF TakeTask, Coming
  <2>3. Cardinality(Coming') = Cardinality(Coming) - 1
    BY <1>0, <2>2, ComingChanges
  <2>4. Len(tasks') <= Len(tasks) + Cardinality(Coming') - Cardinality(Coming)
    BY <1>0, <1>n, <2>1, <2>3
  <2>5. Len(tasks') \in Nat /\ UNCHANGED <<notifying, frame>>
    BY <1>0, <1>5, <2>1 DEF TakeTask
  <2>6. "run" \in WorkerPcs /\ "run" # "asleep"
    OBVIOUS
  <2> QED
    BY <1>m, <1>n, <2>2, <2>4, <2>5, <2>6
\* A worker that is not on its way goes anywhere but to sleep.
<1>6. ASSUME NEW w \in Workers, NEW to \in WorkerPcs, pc[w] # "lock", to # "asleep",
             pc' = [pc EXCEPT ![w] = to], UNCHANGED <<tasks, notifying, frame>>
      PROVE  Wakeups'
  <2>1. w \notin Coming
    BY <1>6 DEF Coming
  <2>2. Cardinality(Coming') = Cardinality(Coming) + (IF to = "lock" THEN 1 ELSE 0)
    BY <1>0, <1>6, <2>1, ComingChanges
  <2>3. Cardinality(Coming') >= Cardinality(Coming)
    BY <1>0, <2>2
  <2>4. Len(tasks') = Len(tasks)
    BY <1>6
  <2>5. Len(tasks') <= Len(tasks) + Cardinality(Coming') - Cardinality(Coming)
    BY <1>0, <1>n, <2>3, <2>4
  <2>6. UNCHANGED <<notifying, frame>> /\ Len(tasks') \in Nat
    BY <1>0, <1>6, <2>4
  <2> QED
    BY <1>6, <1>m, <1>n, <2>5, <2>6
<1>7. ASSUME NEW w \in Workers, RunTask(w) PROVE Wakeups'
  <2>1. pc[w] = "run" /\ UNCHANGED <<tasks, notifying, frame>>
    BY <1>7 DEF RunTask
  <2>2. CASE continuation[task[w]]
    BY <1>6, <1>7, <2>1, <2>2 DEF RunTask
  <2>3. CASE ~ continuation[task[w]]
    BY <1>6, <1>7, <2>1, <2>3 DEF RunTask
  <2> QED
    BY <2>2, <2>3
<1>8. ASSUME NEW w \in Workers, PostResume(w) \/ CountTask(w) \/ SpuriousWakeup(w)
      PROVE  Wakeups'
  BY <1>6, <1>8 DEF PostResume, CountTask, SpuriousWakeup
<1>9. CASE StopAccepting
  BY <1>9, <1>f DEF StopAccepting
<1>10. CASE RequestStop
  <2>1. ~ \E w \in Workers : pc'[w] = "asleep"
    BY <1>0, <1>10 DEF RequestStop
  <2> QED
    BY <1>0, <1>10, <2>1 DEF RequestStop, Wakeups
<1>11. CASE UNCHANGED vars
  BY <1>11, <1>f DEF vars
<1> QED
  BY <1>1, <1>2, <1>3, <1>4, <1>5, <1>7, <1>8, <1>9, <1>10, <1>11 DEF Next, WorkerStep

\* The inductive invariant holds in every reachable state.
THEOREM AsyncExecutorInvariant == Spec => []Inv
<1>1. Inv /\ [Next]_vars => Inv'
  BY TypeStep, ShutdownStep, PlacesStep, WakeupsStep DEF Inv
<1> QED
  BY InvInit, <1>1, PTL DEF Spec

\* Shutdown drops no accepted task, whatever the number of workers: once a worker has
\* left workerLoop(), m_isStopping is set and the queue is and stays empty.
THEOREM AsyncExecutorDrains == Spec => []QueueIsEmptyAfterExit
<1>1. Inv => QueueIsEmptyAfterExit
  BY DEF Inv, ShutdownOrder, QueueIsEmptyAfterExit
<1> QED
  BY AsyncExecutorInvariant, <1>1, PTL

\* The handle exchange in the queued closure keeps its promise: what is handed to the
\* event loop is a frame that still waits, and one worker only hands it over.
THEOREM AsyncExecutorPostsWaitingFrames == Spec => []PostedFramesWait
<1>1. Inv => PostedFramesWait
  BY AsyncExecutorAssumption DEF Inv, TypeOK, Places, PostedFramesWait
<1> QED
  BY AsyncExecutorInvariant, <1>1, PTL

\* No task waits while a worker sleeps, although enqueue() notifies outside the lock: a
\* worker on its way or a notify_one() to come answers for each queued task, whatever the
\* number of workers (AsyncExecutor.cpp:74).
THEOREM AsyncExecutorNoTaskWaits == Spec => []NoTaskWaitsForASleeper
<1>1. Inv => NoTaskWaitsForASleeper
  BY DEF Inv, Wakeups, Coming, NoTaskWaitsForASleeper
<1> QED
  BY AsyncExecutorInvariant, <1>1, PTL
=============================================================================
