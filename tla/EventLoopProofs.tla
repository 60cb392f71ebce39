-------------------------- MODULE EventLoopProofs --------------------------
(***************************************************************************)
(* Two results, for any number of threads, items, budgets and bounds.      *)
(*                                                                         *)
(* The scheduler: what every one of its actions preserves, whichever       *)
(* composition takes them, and that it implements ReadyQueues.             *)
(*                                                                         *)
(* The loop: no wakeup is lost.  The inductive invariant is Inv: types, the*)
(* scheduler's invariant, the notifier's PendingIsServed, and              *)
(* LoopInvariant, which says where the loop thread may be while a post or a*)
(* stop() is not yet announced.                                            *)
(***************************************************************************)
EXTENDS EventLoop, SequenceTheorems, TLAPS

-----------------------------------------------------------------------------
(* The scheduler                                                           *)

\* What every action of the scheduler preserves.
SchedInv == SchedulerTypeOK /\ SchedulerInvariant

\* The part of the state that running an item may change.
LocalTypeOK ==
    /\ localQueue \in Seq(Handles)
    /\ localCallables \in Seq(Callables)
    /\ finished \in SUBSET Handles
    /\ failedDispatchCount \in 0..CounterCap
    /\ skippedCompletedHandleCount \in 0..CounterCap
    /\ saturatedRemoteRejectionCount \in 0..CounterCap

\* Saturating counters stay in their range.
LEMMA BumpType ==
    ASSUME NEW n \in 0..CounterCap
    PROVE  Bump(n) \in 0..CounterCap
BY SchedulerAssumption DEF Bump

\* A choice of at most one element of a set is a sequence over that set.
LEMMA AtMostOneOfType ==
    ASSUME NEW S, NEW T, S \subseteq T, NEW s \in AtMostOneOf(S)
    PROVE  s \in Seq(T) /\ Len(s) <= 1
<1>1. CASE s = <<>>
  BY <1>1
<1>2. CASE \E x \in S : s = <<x>>
  <2>1. PICK x \in S : s = <<x>>
    BY <1>2
  <2>2. x \in T
    OBVIOUS
  <2> QED
    BY <2>1, <2>2
<1> QED
  BY <1>1, <1>2 DEF AtMostOneOf

\* User code leaves well-typed local queues behind.
LEMMA UserCodeType ==
    ASSUME SchedulerTypeOK, NEW S, NEW lq \in Seq(Handles), NEW lc \in Seq(Callables),
           UserCode(S, lq, lc)
    PROVE  /\ localQueue' \in Seq(Handles)
           /\ localCallables' \in Seq(Callables)
           /\ finished' \in SUBSET Handles
<1>1. PICK hs \in AtMostOneOf(S \cap Handles) : localQueue' = lq \o hs
  BY DEF UserCode
<1>2. PICK cs \in AtMostOneOf(S \cap Callables) : localCallables' = lc \o cs
  BY DEF UserCode
<1>3. PICK fs \in AtMostOneOf(Handles) : finished' = finished \cup ToSet(fs)
  BY DEF UserCode
<1>4. hs \in Seq(Handles) /\ cs \in Seq(Callables) /\ fs \in Seq(Handles)
  <2>1. S \cap Handles \subseteq Handles /\ S \cap Callables \subseteq Callables
    OBVIOUS
  <2> QED
    BY <2>1, AtMostOneOfType
<1>5. ToSet(fs) \subseteq Handles
  BY <1>4 DEF ToSet
<1> QED
  BY <1>1, <1>2, <1>3, <1>4, <1>5, ConcatProperties DEF SchedulerTypeOK

\* Running a callable or dispatching a handle leaves the local state well typed.
LEMMA RunType ==
    ASSUME SchedulerTypeOK, NEW lq \in Seq(Handles), NEW lc \in Seq(Callables),
           \/ \E c \in Callables : RunCallable(c, lq, lc)
           \/ \E h \in Handles : DispatchHandle(h, lq, lc)
    PROVE  LocalTypeOK'
<1> USE DEF SchedulerTypeOK, LocalTypeOK
<1>0. \A n \in 0..CounterCap : Bump(n) \in 0..CounterCap
  BY BumpType
<1>1. CASE \E c \in Callables : RunCallable(c, lq, lc)
  BY <1>0, <1>1, UserCodeType DEF RunCallable, runGuarded
<1>2. ASSUME NEW h \in Handles, DispatchHandle(h, lq, lc)
      PROVE  LocalTypeOK'
  BY <1>0, <1>2, UserCodeType DEF DispatchHandle, runGuarded
<1> QED
  BY <1>1, <1>2

-----------------------------------------------------------------------------
(* What is left of a queue when a prefix that fits is taken                *)

\* A batch is no longer than its queue and than the room it is given.
LEMMA FitRange ==
    ASSUME NEW S, NEW s \in Seq(S), NEW room \in Nat
    PROVE  /\ Fit(s, room) \in 0..Len(s)
           /\ Fit(s, room) <= room
BY DEF Fit

\* Cutting a queue in two leaves two queues of the same items.
LEMMA TakePrefix ==
    ASSUME NEW S, NEW s \in Seq(S), NEW n \in 0..Len(s)
    PROVE  /\ SubSeq(s, 1, n) \in Seq(S)
           /\ Len(SubSeq(s, 1, n)) = n
           /\ SubSeq(s, n + 1, Len(s)) \in Seq(S)
           /\ Len(SubSeq(s, n + 1, Len(s))) = Len(s) - n
           /\ SubSeq(s, 1, n) \o SubSeq(s, n + 1, Len(s)) = s
<1>1. \A i \in 1..Len(s) : s[i] \in S
  OBVIOUS
<1>2. /\ SubSeq(s, 1, n) \in Seq(S)
      /\ Len(SubSeq(s, 1, n)) = n
  BY <1>1, SubSeqProperties
<1>3. /\ SubSeq(s, n + 1, Len(s)) \in Seq(S)
      /\ Len(SubSeq(s, n + 1, Len(s))) = Len(s) - n
  BY <1>1, SubSeqProperties
<1>4. SubSeq(s, 1, n) \o SubSeq(s, n + 1, Len(s)) = SubSeq(s, 1, Len(s))
  <2>1. /\ 1 \in 1..Len(s) + 1
        /\ n \in 1 - 1..Len(s)
        /\ Len(s) \in n..Len(s)
    OBVIOUS
  <2> QED
    BY <2>1, ConcatAdjacentSubSeq
<1> QED
  BY <1>2, <1>3, <1>4, SubSeqFull

-----------------------------------------------------------------------------
(* Every action preserves the types and the invariant                      *)

\* Posts from other threads and from the loop thread keep the invariant.
LEMMA PostPreserves ==
    ASSUME SchedInv,
           \/ \E h \in Handles : ScheduleRemoteAccepted(h)
           \/ \E c \in Callables : PostRemoteAccepted(c)
           \/ RemoteRejected
           \/ \E h \in Handles : schedule(h)
           \/ \E c \in Callables : postLocal(c)
           \/ RunAllCall
    PROVE  SchedInv'
<1> USE SchedulerAssumption DEF SchedInv, SchedulerTypeOK, SchedulerInvariant, PassWithinBudget,
        CountsMatchQueues, BatchesBelongToPass, BacklogBounded, Backlog, PassPcs,
        remoteVars, passVars, counterVars
<1>1. ASSUME NEW h \in Handles, ScheduleRemoteAccepted(h) PROVE SchedInv'
  BY <1>1 DEF ScheduleRemoteAccepted
<1>2. ASSUME NEW c \in Callables, PostRemoteAccepted(c) PROVE SchedInv'
  BY <1>2 DEF PostRemoteAccepted
<1>3. CASE RemoteRejected
  BY <1>3, BumpType DEF RemoteRejected
<1>4. ASSUME NEW h \in Handles, schedule(h) PROVE SchedInv'
  BY <1>4 DEF schedule
<1>5. ASSUME NEW c \in Callables, postLocal(c) PROVE SchedInv'
  BY <1>5 DEF postLocal
<1>6. CASE RunAllCall
  BY <1>6 DEF RunAllCall
<1> QED
  BY <1>1, <1>2, <1>3, <1>4, <1>5, <1>6

\* Taking a batch under the lock stays within the budget and keeps the counts right.
LEMMA TakeBatchPreserves ==
    ASSUME SchedInv, TakeBatch
    PROVE  SchedInv'
<1> DEFINE nc == Fit(remoteCallables, passRemaining)
           nh == Fit(globalQueue, passRemaining - nc)
<1>1. passRemaining \in Nat /\ taken + passRemaining = kMaximumItemsPerPass
  BY SchedulerAssumption DEF SchedInv, SchedulerTypeOK, SchedulerInvariant, PassWithinBudget, passRemaining
<1>2. nc \in 0..Len(remoteCallables) /\ nc <= passRemaining
  BY <1>1, FitRange DEF SchedInv, SchedulerTypeOK
<1>3. nh \in 0..Len(globalQueue) /\ nh <= passRemaining - nc
  <2>1. passRemaining - nc \in Nat
    BY <1>1, <1>2 DEF SchedInv, SchedulerTypeOK
  <2> QED
    BY <2>1, FitRange DEF SchedInv, SchedulerTypeOK
<1>4. /\ callableBatch' \in Seq(Callables) /\ Len(callableBatch') = nc
      /\ remoteCallables' \in Seq(Callables)
      /\ Len(remoteCallables') = Len(remoteCallables) - nc
  BY <1>2, TakePrefix DEF SchedInv, SchedulerTypeOK, TakeBatch
<1>5. /\ batch' \in Seq(Handles) /\ Len(batch') = nh
      /\ globalQueue' \in Seq(Handles)
      /\ Len(globalQueue') = Len(globalQueue) - nh
  BY <1>3, TakePrefix DEF SchedInv, SchedulerTypeOK, TakeBatch
<1>6. /\ remoteCallableCount' = remoteCallableCount - nc
      /\ globalCount' = globalCount - nh
      /\ taken' = taken + nc + nh
      /\ passPc' = IF nc + nh = 0 THEN "idle" ELSE "runBatch"
      /\ UNCHANGED <<localQueue, localCallables, finished, counterVars>>
  BY DEF TakeBatch
<1> HIDE DEF nc, nh
<1>7. SchedulerTypeOK'
  BY <1>2, <1>3, <1>4, <1>5, <1>6
     DEF SchedInv, SchedulerTypeOK, SchedulerInvariant, CountsMatchQueues, counterVars, PassPcs
<1>8. PassWithinBudget' /\ CountsMatchQueues' /\ BacklogBounded'
  <2>1. PassWithinBudget'
    BY <1>1, <1>2, <1>3, <1>6, SchedulerAssumption DEF SchedInv, SchedulerTypeOK, PassWithinBudget
  <2>2. CountsMatchQueues'
    BY <1>4, <1>5, <1>6 DEF SchedInv, SchedulerInvariant, CountsMatchQueues
  <2>3. BacklogBounded'
    BY <1>2, <1>3, <1>4, <1>5, SchedulerAssumption
       DEF SchedInv, SchedulerTypeOK, SchedulerInvariant, BacklogBounded, Backlog
  <2> QED
    BY <2>1, <2>2, <2>3
<1>9. BatchesBelongToPass'
  <2>1. Len(batch') + Len(callableBatch') <= taken'
    BY <1>2, <1>3, <1>4, <1>5, <1>6 DEF SchedInv, SchedulerTypeOK
  <2>2. ASSUME passPc' # "runBatch" PROVE batch' = <<>> /\ callableBatch' = <<>>
    <3>1. nc = 0 /\ nh = 0
      BY <2>2, <1>2, <1>3, <1>6
    <3> QED
      BY <3>1, <1>4, <1>5, EmptySeq
  <2> QED
    BY <2>1, <2>2 DEF BatchesBelongToPass
<1> QED
  BY <1>7, <1>8, <1>9 DEF SchedInv, SchedulerInvariant

\* A step that runs an item, leaves the remote queues alone and keeps the
\* batches and the count of its pass in order keeps the invariant.
LEMMA ItemOfPassPreserves ==
    ASSUME SchedInv, LocalTypeOK', UNCHANGED <<remoteVars, passPc>>,
           batch' \in Seq(Handles), callableBatch' \in Seq(Callables),
           passPc # "runBatch" => UNCHANGED <<batch, callableBatch>>,
           taken' \in Nat, taken' <= kMaximumItemsPerPass,
           Len(batch') + Len(callableBatch') <= taken'
    PROVE  SchedInv'
<1>1. SchedulerTypeOK'
  BY DEF SchedInv, SchedulerTypeOK, LocalTypeOK, remoteVars
<1>2. PassWithinBudget'
  BY DEF PassWithinBudget
<1>3. CountsMatchQueues' /\ BacklogBounded'
  BY DEF SchedInv, SchedulerInvariant, CountsMatchQueues, BacklogBounded, Backlog, remoteVars
<1>4. BatchesBelongToPass'
  BY DEF SchedInv, SchedulerInvariant, BatchesBelongToPass
<1> QED
  BY <1>1, <1>2, <1>3, <1>4 DEF SchedInv, SchedulerInvariant

\* A step that runs one item and touches no remote queue, no count and no more
\* of the pass than the parts named keeps the invariant.
LEMMA PassStepPreserves ==
    ASSUME SchedInv, PassStep
    PROVE  SchedInv'
<1>0. SchedulerTypeOK
  BY DEF SchedInv
<1>1. CASE DrainLocalOne
  <2>1. LocalTypeOK'
    <3>1. CASE /\ localCallables # <<>>
               /\ RunCallable(Head(localCallables), localQueue, Tail(localCallables))
      <4>1. /\ Head(localCallables) \in Callables
            /\ Tail(localCallables) \in Seq(Callables)
            /\ localQueue \in Seq(Handles)
        BY <3>1, <1>0, HeadTailProperties DEF SchedulerTypeOK
      <4> QED
        BY <1>0, <3>1, <4>1, RunType
    <3>2. CASE /\ localQueue # <<>>
               /\ DispatchHandle(Last(localQueue), Front(localQueue), localCallables)
      <4>1. /\ Last(localQueue) \in Handles
            /\ Front(localQueue) \in Seq(Handles)
            /\ localCallables \in Seq(Callables)
        BY <3>2, <1>0, TakePrefix DEF Last, Front, SchedulerTypeOK
      <4> QED
        BY <1>0, <3>2, <4>1, RunType
    <3> QED
      BY <1>1, <3>1, <3>2 DEF DrainLocalOne
  <2>2. /\ UNCHANGED <<remoteVars, passPc, batch, callableBatch>>
        /\ taken' = taken + 1 /\ taken < kMaximumItemsPerPass
    BY <1>1 DEF DrainLocalOne
  <2>3. taken' \in Nat /\ taken' <= kMaximumItemsPerPass
    BY <1>0, <2>2, SchedulerAssumption DEF SchedulerTypeOK
  <2>4. Len(batch') + Len(callableBatch') <= taken'
    BY <1>0, <2>2 DEF SchedInv, SchedulerInvariant, BatchesBelongToPass, SchedulerTypeOK
  <2>5. batch' \in Seq(Handles) /\ callableBatch' \in Seq(Callables)
    BY <1>0, <2>2 DEF SchedulerTypeOK
  <2> QED
    BY <2>1, <2>2, <2>3, <2>4, <2>5, ItemOfPassPreserves
<1>2. CASE DrainLocalReturn
  BY <1>2 DEF DrainLocalReturn, SchedInv, SchedulerTypeOK, SchedulerInvariant, PassWithinBudget,
     CountsMatchQueues, BatchesBelongToPass, BacklogBounded, Backlog, PassPcs, remoteVars, counterVars
<1>3. CASE TakeBatch
  BY <1>3, TakeBatchPreserves
<1>4. CASE RunBatchCallable
  <2>1. /\ Head(callableBatch) \in Callables
        /\ Tail(callableBatch) \in Seq(Callables)
        /\ Len(Tail(callableBatch)) = Len(callableBatch) - 1
    BY <1>0, <1>4, HeadTailProperties DEF RunBatchCallable, SchedulerTypeOK
  <2>2. LocalTypeOK'
    <3>1. localQueue \in Seq(Handles) /\ localCallables \in Seq(Callables)
      BY <1>0 DEF SchedulerTypeOK
    <3> QED
      BY <1>0, <1>4, <2>1, <3>1, RunType DEF RunBatchCallable
  <2>3. /\ passPc = "runBatch"
        /\ callableBatch' = Tail(callableBatch)
        /\ UNCHANGED <<remoteVars, passPc, batch, taken>>
    BY <1>4 DEF RunBatchCallable
  <2>4. taken' \in Nat /\ taken' <= kMaximumItemsPerPass
    BY <1>0, <2>3 DEF SchedInv, SchedulerInvariant, PassWithinBudget, SchedulerTypeOK
  <2>5. Len(batch') + Len(callableBatch') <= taken'
    BY <1>0, <2>1, <2>3 DEF SchedInv, SchedulerInvariant, BatchesBelongToPass, SchedulerTypeOK
  <2>6. batch' \in Seq(Handles) /\ callableBatch' \in Seq(Callables)
    BY <1>0, <2>1, <2>3 DEF SchedulerTypeOK
  <2> QED
    BY <2>2, <2>3, <2>4, <2>5, <2>6, ItemOfPassPreserves
<1>5. CASE RunBatchHandle
  <2>1. /\ Head(batch) \in Handles
        /\ Tail(batch) \in Seq(Handles)
        /\ Len(Tail(batch)) = Len(batch) - 1
    BY <1>0, <1>5, HeadTailProperties DEF RunBatchHandle, SchedulerTypeOK
  <2>2. LocalTypeOK'
    <3>1. localQueue \in Seq(Handles) /\ localCallables \in Seq(Callables)
      BY <1>0 DEF SchedulerTypeOK
    <3> QED
      BY <1>0, <1>5, <2>1, <3>1, RunType DEF RunBatchHandle
  <2>3. /\ passPc = "runBatch"
        /\ batch' = Tail(batch)
        /\ UNCHANGED <<remoteVars, passPc, callableBatch, taken>>
    BY <1>5 DEF RunBatchHandle
  <2>4. taken' \in Nat /\ taken' <= kMaximumItemsPerPass
    BY <1>0, <2>3 DEF SchedInv, SchedulerInvariant, PassWithinBudget, SchedulerTypeOK
  <2>5. Len(batch') + Len(callableBatch') <= taken'
    BY <1>0, <2>1, <2>3 DEF SchedInv, SchedulerInvariant, BatchesBelongToPass, SchedulerTypeOK
  <2>6. batch' \in Seq(Handles) /\ callableBatch' \in Seq(Callables)
    BY <1>0, <2>1, <2>3 DEF SchedulerTypeOK
  <2> QED
    BY <2>2, <2>3, <2>4, <2>5, <2>6, ItemOfPassPreserves
<1>6. CASE BatchDone
  BY <1>6 DEF BatchDone, SchedInv, SchedulerTypeOK, SchedulerInvariant, PassWithinBudget,
     CountsMatchQueues, BatchesBelongToPass, BacklogBounded, Backlog, PassPcs, remoteVars, counterVars
<1> QED
  BY <1>1, <1>2, <1>3, <1>4, <1>5, <1>6 DEF PassStep

\* runOne() between passes: the local state well typed, the remote counts still
\* the lengths of their queues and the backlog no longer than before.
LEMMA ItemOfRunOnePreserves ==
    ASSUME SchedInv, LocalTypeOK', UNCHANGED passVars,
           globalQueue' \in Seq(Handles), remoteCallables' \in Seq(Callables),
           globalCount' = Len(globalQueue'), remoteCallableCount' = Len(remoteCallables'),
           Len(globalQueue') <= Len(globalQueue), Len(remoteCallables') <= Len(remoteCallables)
    PROVE  SchedInv'
<1>0. globalCount' \in Nat /\ remoteCallableCount' \in Nat
  BY LenProperties
<1>1. SchedulerTypeOK'
  <2>1. /\ UNCHANGED <<passPc, batch, callableBatch, taken>>
        /\ SchedulerTypeOK
    BY DEF passVars, SchedInv
  <2> QED
    BY <1>0, <2>1 DEF SchedulerTypeOK, LocalTypeOK
<1>2. PassWithinBudget' /\ BatchesBelongToPass'
  BY DEF SchedInv, SchedulerInvariant, PassWithinBudget, BatchesBelongToPass, passVars
<1>3. CountsMatchQueues'
  BY DEF CountsMatchQueues
<1>4. BacklogBounded'
  BY SchedulerAssumption
     DEF SchedInv, SchedulerTypeOK, SchedulerInvariant, BacklogBounded, Backlog
<1> QED
  BY <1>1, <1>2, <1>3, <1>4 DEF SchedInv, SchedulerInvariant

\* runOne() keeps the invariant, whichever queue it takes its item from.
LEMMA RunOnePreserves ==
    ASSUME SchedInv, runOne
    PROVE  SchedInv'
<1>0. /\ SchedulerTypeOK
      /\ localQueue \in Seq(Handles)
      /\ localCallables \in Seq(Callables)
      /\ globalQueue \in Seq(Handles)
      /\ remoteCallables \in Seq(Callables)
  BY DEF SchedInv, SchedulerTypeOK
<1>a. /\ globalCount = Len(globalQueue)
      /\ remoteCallableCount = Len(remoteCallables)
      /\ UNCHANGED passVars
  BY DEF SchedInv, SchedulerInvariant, CountsMatchQueues, runOne
<1>1. CASE /\ remoteCallables # <<>>
           /\ RunCallable(Head(remoteCallables), localQueue, localCallables)
           /\ remoteCallables' = Tail(remoteCallables)
           /\ remoteCallableCount' = remoteCallableCount - 1
           /\ UNCHANGED <<globalQueue, globalCount>>
  <2>1. /\ Head(remoteCallables) \in Callables
        /\ remoteCallables' \in Seq(Callables)
        /\ Len(remoteCallables') = Len(remoteCallables) - 1
        /\ Len(remoteCallables') <= Len(remoteCallables)
    BY <1>0, <1>1, HeadTailProperties
  <2>2. LocalTypeOK'
    BY <1>0, <1>1, <2>1, RunType
  <2>3. /\ globalQueue' \in Seq(Handles)
        /\ globalCount' = Len(globalQueue')
        /\ Len(globalQueue') <= Len(globalQueue)
        /\ remoteCallableCount' = Len(remoteCallables')
    BY <1>0, <1>a, <1>1, <2>1
  <2> QED
    BY <1>a, <2>1, <2>2, <2>3, ItemOfRunOnePreserves
<1>2. CASE /\ localCallables # <<>>
           /\ RunCallable(Head(localCallables), localQueue, Tail(localCallables))
           /\ UNCHANGED remoteVars
  <2>1. Head(localCallables) \in Callables /\ Tail(localCallables) \in Seq(Callables)
    BY <1>0, <1>2, HeadTailProperties
  <2>2. LocalTypeOK'
    BY <1>0, <1>2, <2>1, RunType
  <2>3. UNCHANGED <<globalQueue, remoteCallables, globalCount, remoteCallableCount>>
    BY <1>2 DEF remoteVars
  <2> QED
    BY <1>0, <1>a, <2>2, <2>3, ItemOfRunOnePreserves
<1>3. CASE /\ localQueue # <<>>
           /\ DispatchHandle(Last(localQueue), Front(localQueue), localCallables)
           /\ UNCHANGED remoteVars
  <2>1. Last(localQueue) \in Handles /\ Front(localQueue) \in Seq(Handles)
    BY <1>0, <1>3, TakePrefix DEF Last, Front
  <2>2. LocalTypeOK'
    BY <1>0, <1>3, <2>1, RunType
  <2>3. UNCHANGED <<globalQueue, remoteCallables, globalCount, remoteCallableCount>>
    BY <1>3 DEF remoteVars
  <2> QED
    BY <1>0, <1>a, <2>2, <2>3, ItemOfRunOnePreserves
<1>4. CASE /\ globalQueue # <<>>
           /\ DispatchHandle(Head(globalQueue), localQueue, localCallables)
           /\ globalQueue' = Tail(globalQueue)
           /\ globalCount' = globalCount - 1
           /\ UNCHANGED <<remoteCallables, remoteCallableCount>>
  <2>1. /\ Head(globalQueue) \in Handles
        /\ globalQueue' \in Seq(Handles)
        /\ Len(globalQueue') = Len(globalQueue) - 1
        /\ Len(globalQueue') <= Len(globalQueue)
    BY <1>0, <1>4, HeadTailProperties
  <2>2. LocalTypeOK'
    BY <1>0, <1>4, <2>1, RunType
  <2>3. /\ remoteCallables' \in Seq(Callables)
        /\ remoteCallableCount' = Len(remoteCallables')
        /\ Len(remoteCallables') <= Len(remoteCallables)
        /\ globalCount' = Len(globalQueue')
    BY <1>0, <1>a, <1>4, <2>1
  <2> QED
    BY <1>a, <2>1, <2>2, <2>3, ItemOfRunOnePreserves
<1> QED
  BY <1>1, <1>2, <1>3, <1>4 DEF runOne

\* A step that leaves the scheduler alone keeps its invariant.
LEMMA StutterPreserves ==
    ASSUME SchedInv, UNCHANGED schedulerVars
    PROVE  SchedInv'
BY DEF SchedInv, SchedulerTypeOK, SchedulerInvariant, PassWithinBudget, CountsMatchQueues,
       BatchesBelongToPass, BacklogBounded, Backlog, schedulerVars, remoteVars, passVars, counterVars

\* A new scheduler satisfies the invariant.
LEMMA InitHolds == SchedulerInit => SchedInv
BY SchedulerAssumption
   DEF SchedulerInit, SchedInv, SchedulerTypeOK, SchedulerInvariant, PassWithinBudget,
       CountsMatchQueues, BatchesBelongToPass, BacklogBounded, Backlog, PassPcs

-----------------------------------------------------------------------------
\* Whatever is posted, whatever the items do and however posts interleave with
\* a pass of runAll() or with runOne(): the queues keep their types, a pass
\* stays within kMaximumItemsPerPass, the lock-free counts match the queues and
\* the backlog stays within kMaximumRemoteBacklog.
THEOREM SchedulerSafety == SchedulerSpec => []SchedulerTypeOK /\ []SchedulerInvariant
<1>1. SchedInv /\ [SchedulerNext]_schedulerVars => SchedInv'
  <2> SUFFICES ASSUME SchedInv, [SchedulerNext]_schedulerVars PROVE SchedInv'
    OBVIOUS
  <2>1. CASE UNCHANGED schedulerVars
    BY <2>1, StutterPreserves
  <2>2. CASE PassStep
    BY <2>2, PassStepPreserves
  <2>3. CASE runOne
    BY <2>3, RunOnePreserves
  <2> QED
    BY <2>1, <2>2, <2>3, PostPreserves DEF SchedulerNext
<1> QED
  BY <1>1, InitHolds, PTL DEF SchedulerSpec, SchedInv

-----------------------------------------------------------------------------
(* The scheduler implements ReadyQueues                                    *)

\* What user code posts is an extension by posts in the sense of ReadyQueues.
LEMMA GrownByChoice ==
    ASSUME NEW S, NEW T, S \subseteq T, NEW s \in Seq(T), NEW x \in AtMostOneOf(S)
    PROVE  s \o x \in Owed!Grown(s, T)
<1>1. CASE x = <<>>
  <2>1. s \o x = s
    BY <1>1, ConcatEmptySeq
  <2> QED
    BY <2>1 DEF Owed!Grown
<1>2. CASE \E e \in S : x = <<e>>
  <2>1. PICK e \in S : x = <<e>>
    BY <1>2
  <2>2. e \in T /\ s \o <<e>> = Append(s, e)
    BY AppendIsConcat
  <2> QED
    BY <2>1, <2>2 DEF Owed!Grown
<1> QED
  BY <1>1, <1>2 DEF AtMostOneOf

\* User code posts at most one item of either kind.
LEMMA UserCodePosts ==
    ASSUME NEW S, NEW lq \in Seq(Handles), NEW lc \in Seq(Callables), UserCode(S, lq, lc)
    PROVE  Owed!PostsFrom(lq, lc)
<1>1. PICK hs \in AtMostOneOf(S \cap Handles) : localQueue' = lq \o hs
  BY DEF UserCode
<1>2. PICK cs \in AtMostOneOf(S \cap Callables) : localCallables' = lc \o cs
  BY DEF UserCode
<1>3. S \cap Handles \subseteq Handles /\ S \cap Callables \subseteq Callables
  OBVIOUS
<1>4. lq \o hs \in Owed!Grown(lq, Handles) /\ lc \o cs \in Owed!Grown(lc, Callables)
  BY <1>3, GrownByChoice
<1> QED
  BY <1>1, <1>2, <1>4 DEF Owed!PostsFrom

\* So does an item that runs, is skipped or throws.
LEMMA RunPosts ==
    ASSUME NEW lq \in Seq(Handles), NEW lc \in Seq(Callables),
           \/ \E c \in Callables : RunCallable(c, lq, lc)
           \/ \E h \in Handles : DispatchHandle(h, lq, lc)
    PROVE  Owed!PostsFrom(lq, lc)
<1>1. CASE \E c \in Callables : RunCallable(c, lq, lc)
  BY <1>1, UserCodePosts DEF RunCallable, runGuarded
<1>2. ASSUME NEW h \in Handles, DispatchHandle(h, lq, lc) PROVE Owed!PostsFrom(lq, lc)
  <2>1. CASE UserCode(Spawn[h], lq, lc)
    BY <2>1, UserCodePosts
  <2>2. CASE localQueue' = lq /\ localCallables' = lc
    BY <2>2 DEF Owed!PostsFrom, Owed!Grown
  <2> QED
    BY <1>2, <2>1, <2>2 DEF DispatchHandle, runGuarded
<1> QED
  BY <1>1, <1>2

\* The queues of the mapping under the operations of a pass.
LEMMA OwedFacts ==
    ASSUME NEW S, NEW b \in Seq(S), NEW q \in Seq(S)
    PROVE  /\ b \o q \in Seq(S)
           /\ Len(b \o q) = Len(b) + Len(q)
           /\ b = <<>> => b \o q = q
           /\ b # <<>> => b \o q # <<>> /\ Tail(b) \o q = Tail(b \o q)
           /\ \A x \in S : b \o Append(q, x) = Append(b \o q, x)
<1>1. /\ b \o q \in Seq(S)
      /\ Len(b \o q) = Len(b) + Len(q)
  BY ConcatProperties
<1>2. b = <<>> => b \o q = q
  BY ConcatEmptySeq
<1>3. ASSUME b # <<>> PROVE b \o q # <<>> /\ Tail(b) \o q = Tail(b \o q)
  BY <1>3
<1>4. ASSUME NEW x \in S PROVE b \o Append(q, x) = Append(b \o q, x)
  BY <1>4
<1> QED
  BY <1>1, <1>2, <1>3, <1>4

\* Every step of the scheduler is a step, or a stutter, of ReadyQueues.
LEMMA StepRefines ==
    ASSUME SchedInv, SchedInv', [SchedulerNext]_schedulerVars
    PROVE  [Owed!Next]_(Owed!vars)
<1> DEFINE hq == batch \o globalQueue
           cq == callableBatch \o remoteCallables
<1>0. /\ localQueue \in Seq(Handles) /\ localCallables \in Seq(Callables)
      /\ globalQueue \in Seq(Handles) /\ remoteCallables \in Seq(Callables)
      /\ batch \in Seq(Handles) /\ callableBatch \in Seq(Callables)
      /\ taken \in Nat /\ Len(batch) + Len(callableBatch) <= kMaximumItemsPerPass
      /\ passPc # "runBatch" => batch = <<>> /\ callableBatch = <<>>
  BY SchedulerAssumption DEF SchedInv, SchedulerTypeOK, SchedulerInvariant, PassWithinBudget,
     BatchesBelongToPass
<1>a. /\ hq \in Seq(Handles) /\ Len(hq) = Len(batch) + Len(globalQueue)
      /\ cq \in Seq(Callables) /\ Len(cq) = Len(callableBatch) + Len(remoteCallables)
  BY <1>0, OwedFacts
<1>1. ASSUME NEW h \in Handles, ScheduleRemoteAccepted(h) PROVE Owed!Accept
  <2>1. (batch \o globalQueue)' = Append(hq, h) /\ UNCHANGED <<cq, localQueue, localCallables>>
    BY <1>0, <1>1, OwedFacts DEF ScheduleRemoteAccepted, passVars
  <2>2. Len(hq) + Len(cq) < kMaximumRemoteBacklog + kMaximumItemsPerPass
    BY <1>0, <1>a, <1>1, SchedulerAssumption DEF ScheduleRemoteAccepted, Backlog
  <2> QED
    BY <2>1, <2>2 DEF Owed!Accept
<1>2. ASSUME NEW c \in Callables, PostRemoteAccepted(c) PROVE Owed!Accept
  <2>1. (callableBatch \o remoteCallables)' = Append(cq, c) /\ UNCHANGED <<hq, localQueue, localCallables>>
    BY <1>0, <1>2, OwedFacts DEF PostRemoteAccepted, passVars
  <2>2. Len(hq) + Len(cq) < kMaximumRemoteBacklog + kMaximumItemsPerPass
    BY <1>0, <1>a, <1>2, SchedulerAssumption DEF PostRemoteAccepted, Backlog
  <2> QED
    BY <2>1, <2>2 DEF Owed!Accept
<1>3. CASE RemoteRejected
  BY <1>3 DEF RemoteRejected, remoteVars, passVars, Owed!vars
<1>4. ASSUME NEW h \in Handles, schedule(h) PROVE Owed!PostLocally
  BY <1>4 DEF schedule, remoteVars, passVars, Owed!PostLocally, Owed!PostsFrom, Owed!Grown
<1>5. ASSUME NEW c \in Callables, postLocal(c) PROVE Owed!PostLocally
  BY <1>5 DEF postLocal, remoteVars, passVars, Owed!PostLocally, Owed!PostsFrom, Owed!Grown
<1>6. CASE RunAllCall
  BY <1>6 DEF RunAllCall, remoteVars, Owed!vars
<1>7. CASE DrainLocalOne
  <2>0. UNCHANGED <<hq, cq>>
    BY <1>7 DEF DrainLocalOne, remoteVars
  <2>1. CASE /\ localCallables # <<>>
             /\ RunCallable(Head(localCallables), localQueue, Tail(localCallables))
    <3>1. Head(localCallables) \in Callables /\ Tail(localCallables) \in Seq(Callables)
      BY <1>0, <2>1, HeadTailProperties
    <3>2. Owed!PostsFrom(localQueue, Tail(localCallables))
      BY <1>0, <2>1, <3>1, RunPosts
    <3> QED
      BY <2>0, <2>1, <3>2 DEF Owed!Run, Owed!Next
  <2>2. CASE /\ localQueue # <<>>
             /\ DispatchHandle(Last(localQueue), Front(localQueue), localCallables)
    <3>1. Last(localQueue) \in Handles /\ Front(localQueue) \in Seq(Handles)
      BY <1>0, <2>2, TakePrefix DEF Last, Front
    <3>2. Owed!PostsFrom(Front(localQueue), localCallables)
      BY <1>0, <2>2, <3>1, RunPosts
    <3> QED
      BY <2>0, <2>2, <3>2 DEF Owed!Run, Owed!Next, Owed!Front, Front
  <2> QED
    BY <1>7, <2>1, <2>2 DEF DrainLocalOne
<1>8. CASE DrainLocalReturn
  BY <1>8 DEF DrainLocalReturn, remoteVars, Owed!vars
<1>9. CASE TakeBatch
  <2> DEFINE nc == Fit(remoteCallables, passRemaining)
             nh == Fit(globalQueue, passRemaining - nc)
  <2>1. passRemaining \in Nat
    BY SchedulerAssumption DEF SchedInv, SchedulerTypeOK, SchedulerInvariant, PassWithinBudget, passRemaining
  <2>2. nc \in 0..Len(remoteCallables) /\ nc <= passRemaining
    BY <1>0, <2>1, FitRange
  <2>3. nh \in 0..Len(globalQueue)
    <3>1. passRemaining - nc \in Nat
      BY <1>0, <2>1, <2>2
    <3> QED
      BY <1>0, <3>1, FitRange
  <2>4. (callableBatch \o remoteCallables)' = remoteCallables
    BY <1>0, <1>9, <2>2, TakePrefix DEF TakeBatch
  <2>5. (batch \o globalQueue)' = globalQueue
    BY <1>0, <1>9, <2>3, TakePrefix DEF TakeBatch
  <2>6. cq = remoteCallables /\ hq = globalQueue
    BY <1>0, <1>9, OwedFacts DEF TakeBatch
  <2> QED
    BY <1>9, <2>4, <2>5, <2>6 DEF TakeBatch, Owed!vars
<1>10. CASE RunBatchCallable
  <2>1. Head(callableBatch) \in Callables
    BY <1>0, <1>10, HeadTailProperties DEF RunBatchCallable
  <2>2. Owed!PostsFrom(localQueue, localCallables)
    BY <1>0, <1>10, <2>1, RunPosts DEF RunBatchCallable
  <2>3. cq # <<>> /\ (callableBatch \o remoteCallables)' = Tail(cq) /\ UNCHANGED hq
    BY <1>0, <1>10, OwedFacts DEF RunBatchCallable, remoteVars
  <2> QED
    BY <2>2, <2>3 DEF Owed!Run, Owed!Next
<1>11. CASE RunBatchHandle
  <2>1. Head(batch) \in Handles
    BY <1>0, <1>11, HeadTailProperties DEF RunBatchHandle
  <2>2. Owed!PostsFrom(localQueue, localCallables)
    BY <1>0, <1>11, <2>1, RunPosts DEF RunBatchHandle
  <2>3. hq # <<>> /\ (batch \o globalQueue)' = Tail(hq) /\ UNCHANGED cq
    BY <1>0, <1>11, OwedFacts DEF RunBatchHandle, remoteVars
  <2> QED
    BY <2>2, <2>3 DEF Owed!Run, Owed!Next
<1>12. CASE BatchDone
  BY <1>12 DEF BatchDone, remoteVars, Owed!vars
<1>13. CASE runOne
  <2>0. cq = remoteCallables /\ hq = globalQueue
    BY <1>0, <1>13, OwedFacts DEF runOne
  <2>a. (callableBatch \o remoteCallables)' = remoteCallables' /\ (batch \o globalQueue)' = globalQueue'
    <3>1. batch' = <<>> /\ callableBatch' = <<>>
      BY <1>0, <1>13 DEF runOne, passVars
    <3>2. globalQueue' \in Seq(Handles) /\ remoteCallables' \in Seq(Callables)
      BY DEF SchedInv, SchedulerTypeOK
    <3> QED
      BY <3>1, <3>2, ConcatEmptySeq
  <2>1. CASE /\ remoteCallables # <<>>
             /\ RunCallable(Head(remoteCallables), localQueue, localCallables)
             /\ remoteCallables' = Tail(remoteCallables)
             /\ UNCHANGED <<globalQueue, globalCount>>
    <3>1. Head(remoteCallables) \in Callables
      BY <1>0, <2>1, HeadTailProperties
    <3>2. Owed!PostsFrom(localQueue, localCallables)
      BY <1>0, <2>1, <3>1, RunPosts
    <3> QED
      BY <2>0, <2>a, <2>1, <3>2 DEF Owed!Run, Owed!Next
  <2>2. CASE /\ localCallables # <<>>
             /\ RunCallable(Head(localCallables), localQueue, Tail(localCallables))
             /\ UNCHANGED remoteVars
    <3>1. Head(localCallables) \in Callables /\ Tail(localCallables) \in Seq(Callables)
      BY <1>0, <2>2, HeadTailProperties
    <3>2. Owed!PostsFrom(localQueue, Tail(localCallables))
      BY <1>0, <2>2, <3>1, RunPosts
    <3> QED
      BY <2>0, <2>a, <2>2, <3>2 DEF Owed!Run, Owed!Next, remoteVars
  <2>3. CASE /\ localQueue # <<>>
             /\ DispatchHandle(Last(localQueue), Front(localQueue), localCallables)
             /\ UNCHANGED remoteVars
    <3>1. Last(localQueue) \in Handles /\ Front(localQueue) \in Seq(Handles)
      BY <1>0, <2>3, TakePrefix DEF Last, Front
    <3>2. Owed!PostsFrom(Front(localQueue), localCallables)
      BY <1>0, <2>3, <3>1, RunPosts
    <3> QED
      BY <2>0, <2>a, <2>3, <3>2 DEF Owed!Run, Owed!Next, Owed!Front, Front, remoteVars
  <2>4. CASE /\ globalQueue # <<>>
             /\ DispatchHandle(Head(globalQueue), localQueue, localCallables)
             /\ globalQueue' = Tail(globalQueue)
             /\ UNCHANGED <<remoteCallables, remoteCallableCount>>
    <3>1. Head(globalQueue) \in Handles
      BY <1>0, <2>4, HeadTailProperties
    <3>2. Owed!PostsFrom(localQueue, localCallables)
      BY <1>0, <2>4, <3>1, RunPosts
    <3> QED
      BY <2>0, <2>a, <2>4, <3>2 DEF Owed!Run, Owed!Next
  <2> QED
    BY <1>13, <2>1, <2>2, <2>3, <2>4 DEF runOne
<1>14. CASE UNCHANGED schedulerVars
  BY <1>14 DEF schedulerVars, remoteVars, passVars, Owed!vars
<1>15. CASE PassStep
  BY <1>15, <1>7, <1>8, <1>9, <1>10, <1>11, <1>12 DEF PassStep
<1> QED
  BY <1>1, <1>2, <1>3, <1>4, <1>5, <1>6, <1>13, <1>14, <1>15 DEF SchedulerNext, Owed!Next

\* Nothing accepted is lost, run twice or run out of order by runAll() and
\* runOne(), whatever the budget, the bound and the number of items.
THEOREM SchedulerRefinement == SchedulerSpec => ImplementsReadyQueues
<1>1. SchedulerInit => Owed!Init
  BY DEF SchedulerInit, Owed!Init
<1>2. SchedulerSpec => []SchedInv
  BY SchedulerSafety, PTL DEF SchedInv
<1>3. SchedInv /\ SchedInv' /\ [SchedulerNext]_schedulerVars => [Owed!Next]_(Owed!vars)
  BY StepRefines
<1> QED
  BY <1>1, <1>2, <1>3, PTL DEF SchedulerSpec, ImplementsReadyQueues, Owed!Spec

-----------------------------------------------------------------------------
(* The loop                                                                *)

\* The types of the loop's own state.
OwnTypeOK ==
    /\ loopPc \in LoopPcs
    /\ stopRequested \in BOOLEAN
    /\ running \in BOOLEAN
    /\ stoppedByFailure \in BOOLEAN
    /\ blocking \in BOOLEAN
    /\ events \in SUBSET {"wakeup", "io"}
    /\ ioReady \in BOOLEAN
    /\ remoteSeen \in Nat
    /\ signals \in 0..MaxSignals

\* The inductive invariant.
Inv ==
    /\ NotifierTypeOK
    /\ SchedInv
    /\ OwnTypeOK
    /\ PendingIsServed
    /\ LoopInvariant

\* The inductive invariant includes the types.
LEMMA InvImpliesTypeOK == Inv => TypeOK
BY DEF Inv, SchedInv, TypeOK, OwnTypeOK

\* The backlog is a number.
LEMMA BacklogNat == SchedulerTypeOK => Backlog \in Nat
BY DEF SchedulerTypeOK, Backlog

-----------------------------------------------------------------------------
(* The notifier                                                            *)

\* A thread that enters notify() keeps the notifier's invariant and announces a wakeup.
LEMMA NotifyCallPreserves ==
    ASSUME NotifierTypeOK, PendingIsServed, NEW t \in Threads, NotifyCall(t)
    PROVE  /\ NotifierTypeOK'
           /\ PendingIsServed'
           /\ WakeComing'
           /\ UNCHANGED <<drainPc, writeFailures, readable>>
BY DEF NotifierTypeOK, PendingIsServed, Writing, NotifyCall, NotifyPcs, WakeComing

\* A step of notify() ends with the wakeup still on its way, unless it fails or
\* is coalesced with a wakeup that a drain in progress is about to consume.
LEMMA NotifyStepPreserves ==
    ASSUME NotifierTypeOK, PendingIsServed, NEW t \in Threads, NotifyStep(t)
    PROVE  /\ NotifierTypeOK'
           /\ PendingIsServed'
           /\ writeFailures' = 0 => writeFailures = 0 /\ (WakeComing' \/ drainPc # "idle")
           /\ UNCHANGED drainPc
<1> USE NotifierAssumption DEF NotifierTypeOK, PendingIsServed, Writing, WakeComing, NotifyPcs
<1>1. CASE NotifyExchange(t)
  BY <1>1 DEF NotifyExchange
<1>2. CASE NotifyWrite(t)
  BY <1>2 DEF NotifyWrite
<1>3. CASE NotifyInterrupted(t)
  BY <1>3 DEF NotifyInterrupted
<1>4. CASE NotifyWriteFails(t)
  <2>1. writeFailures' \in 0..MaxWriteFailures /\ writeFailures' # 0
    BY <1>4 DEF NotifyWriteFails
  <2>2. wakeupPending' = FALSE /\ UNCHANGED <<readable, drainPc>>
    BY <1>4 DEF NotifyWriteFails
  <2>3. notifyPc' \in [Threads -> NotifyPcs]
    BY <1>4 DEF NotifyWriteFails
  <2> QED
    BY <2>1, <2>2, <2>3
<1> QED
  BY <1>1, <1>2, <1>3, <1>4 DEF NotifyStep

\* drain() keeps the notifier's invariant.
LEMMA DrainPreserves ==
    ASSUME NotifierTypeOK, PendingIsServed, DrainStep \/ DrainCall
    PROVE  NotifierTypeOK' /\ PendingIsServed' /\ UNCHANGED writeFailures
<1> USE NotifierAssumption DEF NotifierTypeOK, PendingIsServed, Writing, DrainPcs
<1>1. CASE DrainCall
  BY <1>1 DEF DrainCall
<1>2. CASE DrainFlush
  BY <1>2 DEF DrainFlush
<1>3. CASE DrainClear
  BY <1>3 DEF DrainClear
<1> QED
  BY <1>1, <1>2, <1>3 DEF DrainStep

\* Steps that leave the notifier alone keep its invariant.
LEMMA NotifierStutter ==
    ASSUME NotifierTypeOK, PendingIsServed, UNCHANGED notifierVars
    PROVE  NotifierTypeOK' /\ PendingIsServed' /\ (WakeComing' <=> WakeComing)
BY DEF NotifierTypeOK, PendingIsServed, Writing, WakeComing, notifierVars

-----------------------------------------------------------------------------
(* One step of the system                                                  *)

\* Posting grows the backlog by one and announces it.
LEMMA PostStep ==
    ASSUME Inv, NEW t \in Threads,
           (\E h \in Handles : scheduleRemote(t, h)) \/ (\E c \in Callables : tryPostRemote(t, c))
    PROVE  Inv'
<1>1. CASE /\ RemoteRejected
           /\ UNCHANGED notifierVars
           /\ UNCHANGED ownVars
  <2>1. SchedInv'
    BY <1>1, PostPreserves DEF Inv
  <2>2. NotifierTypeOK' /\ PendingIsServed' /\ (WakeComing' <=> WakeComing)
    BY <1>1, NotifierStutter DEF Inv
  <2>3. UNCHANGED <<Backlog, LocalWork, passPc>>
    BY <1>1 DEF RemoteRejected, Backlog, LocalWork, remoteVars, passVars
  <2>4. OwnTypeOK'
    BY <1>1 DEF Inv, OwnTypeOK, ownVars
  <2>5. LoopInvariant'
    BY <1>1, <2>2, <2>3 DEF Inv, LoopInvariant, Blocked, WillTake, WillCheckStop, ownVars, notifierVars
  <2> QED
    BY <2>1, <2>2, <2>4, <2>5 DEF Inv
<1>2. CASE /\ (\E h \in Handles : ScheduleRemoteAccepted(h)) \/ (\E c \in Callables : PostRemoteAccepted(c))
           /\ NotifyCall(t)
           /\ UNCHANGED ownVars
  <2>1. SchedInv'
    BY <1>2, PostPreserves DEF Inv
  <2>2. /\ NotifierTypeOK' /\ PendingIsServed' /\ WakeComing'
        /\ UNCHANGED <<drainPc, writeFailures, readable>>
    BY <1>2, NotifyCallPreserves DEF Inv
  <2>3. UNCHANGED <<LocalWork, passPc>>
    BY <1>2 DEF ScheduleRemoteAccepted, PostRemoteAccepted, LocalWork, passVars
  <2>4. Backlog' = Backlog + 1
    <3> globalQueue \in Seq(Handles) /\ remoteCallables \in Seq(Callables)
      BY DEF Inv, SchedInv, SchedulerTypeOK
    <3>1. CASE \E h \in Handles : ScheduleRemoteAccepted(h)
      BY <3>1 DEF ScheduleRemoteAccepted, Backlog
    <3>2. CASE \E c \in Callables : PostRemoteAccepted(c)
      BY <3>2 DEF PostRemoteAccepted, Backlog
    <3> QED
      BY <1>2, <3>1, <3>2
  <2>5. OwnTypeOK'
    BY <1>2 DEF Inv, OwnTypeOK, ownVars
  <2>6. remoteSeen' <= Backlog'
    BY <1>2, <2>4, BacklogNat DEF Inv, SchedInv, OwnTypeOK, LoopInvariant, ownVars
  <2>7. LoopInvariant'
    BY <1>2, <2>2, <2>3, <2>6 DEF Inv, LoopInvariant, Blocked, ownVars
  <2> QED
    BY <2>1, <2>2, <2>5, <2>7 DEF Inv
<1> QED
  BY <1>1, <1>2 DEF scheduleRemote, tryPostRemote

\* stop() and wake() announce themselves; a step of notify() keeps what it
\* announces, or a drain in progress will have seen it.
LEMMA SignalStep ==
    ASSUME Inv, NEW t \in Threads, stop(t) \/ wake(t)
    PROVE  Inv'
<1>1. SchedInv' /\ UNCHANGED <<Backlog, LocalWork, passPc>>
  BY StutterPreserves DEF Inv, stop, wake, Backlog, LocalWork, schedulerVars, remoteVars, passVars
<1>2. /\ NotifierTypeOK' /\ PendingIsServed' /\ WakeComing'
      /\ UNCHANGED <<drainPc, writeFailures, readable>>
  BY NotifyCallPreserves DEF Inv, stop, wake, Signal
<1>3. /\ UNCHANGED <<loopPc, running, stoppedByFailure, blocking, events, ioReady, remoteSeen>>
      /\ stopRequested' \in BOOLEAN
      /\ signals' \in 0..MaxSignals
  <2>1. signals' \in 0..MaxSignals
    BY EventLoopAssumption DEF Inv, OwnTypeOK, stop, wake, Signal
  <2> QED
    BY <2>1 DEF Inv, OwnTypeOK, stop, wake
<1>4. OwnTypeOK'
  BY <1>3 DEF Inv, OwnTypeOK
<1>5. LoopInvariant'
  BY <1>1, <1>2, <1>3 DEF Inv, LoopInvariant, Blocked
<1> QED
  BY <1>1, <1>2, <1>4, <1>5 DEF Inv

\* The steps inside notify() keep the invariant.
LEMMA NotifyStepInv ==
    ASSUME Inv, NEW t \in Threads, Notify(t)
    PROVE  Inv'
<1>1. SchedInv' /\ UNCHANGED <<Backlog, LocalWork, passPc>>
  BY StutterPreserves DEF Inv, Notify, Backlog, LocalWork, schedulerVars, remoteVars, passVars
<1>2. /\ NotifierTypeOK' /\ PendingIsServed'
      /\ writeFailures' = 0 => writeFailures = 0 /\ (WakeComing' \/ drainPc # "idle")
      /\ UNCHANGED drainPc
  BY NotifyStepPreserves DEF Inv, Notify
<1>3. UNCHANGED ownVars
  BY DEF Notify
<1>4. OwnTypeOK'
  BY <1>3 DEF Inv, OwnTypeOK, ownVars
<1>5. LoopInvariant'
  BY <1>1, <1>2, <1>3 DEF Inv, LoopInvariant, Blocked, WillTake, WillCheckStop, ownVars
<1> QED
  BY <1>1, <1>2, <1>4, <1>5 DEF Inv

\* Local posts made before run() keep the invariant.
LEMMA BeforeRunStep ==
    ASSUME Inv, ScheduleBeforeRun
    PROVE  Inv'
<1>1. SchedInv'
  BY PostPreserves DEF Inv, ScheduleBeforeRun
<1>2. NotifierTypeOK' /\ PendingIsServed' /\ (WakeComing' <=> WakeComing)
  BY NotifierStutter DEF Inv, ScheduleBeforeRun
<1>3. UNCHANGED <<Backlog, passPc, ownVars, notifierVars>> /\ loopPc = "new"
  BY DEF ScheduleBeforeRun, schedule, postLocal, Backlog, remoteVars, passVars
<1>4. OwnTypeOK'
  BY <1>3 DEF Inv, OwnTypeOK, ownVars
<1>5. LoopInvariant'
  BY <1>2, <1>3 DEF Inv, LoopInvariant, Blocked, WillTake, WillCheckStop, ownVars, notifierVars
<1> QED
  BY <1>1, <1>2, <1>4, <1>5 DEF Inv

\* Entering runAll() from any of its call sites keeps the invariant.
LEMMA StartPassStep ==
    ASSUME Inv, Run \/ DispatchDone \/ NextRound
    PROVE  Inv'
<1>1. RunAllCall /\ UNCHANGED notifierVars
  BY DEF Run, DispatchDone, NextRound, StartPass
<1>2. SchedInv'
  BY <1>1, PostPreserves DEF Inv
<1>3. NotifierTypeOK' /\ PendingIsServed' /\ (WakeComing' <=> WakeComing)
  BY <1>1, NotifierStutter DEF Inv
<1>4. /\ UNCHANGED Backlog
      /\ passPc' = "drainLocal"
      /\ drainPc' = drainPc /\ writeFailures' = writeFailures
      /\ UNCHANGED <<stopRequested, stoppedByFailure, blocking, events, ioReady, remoteSeen, signals>>
      /\ loopPc' \in {"pump", "dispatchPump"}
      /\ running' = TRUE
  BY DEF Inv, LoopInvariant, Run, DispatchDone, NextRound, StartPass, RunAllCall, Backlog, remoteVars,
         notifierVars
<1>5. drainPc = "idle" /\ ~stoppedByFailure
  BY DEF Inv, LoopInvariant, Run, DispatchDone, NextRound, StartPass
<1>6. OwnTypeOK'
  BY <1>4 DEF Inv, OwnTypeOK, LoopPcs
<1>7. LoopInvariant'
  BY <1>3, <1>4, <1>5 DEF Inv, LoopInvariant, Blocked, WillTake, WillCheckStop
<1> QED
  BY <1>2, <1>3, <1>6, <1>7 DEF Inv

\* A step of a pass: only TakeBatch changes the backlog, and then the loop
\* thread has seen all of it.
LEMMA PumpStep ==
    ASSUME Inv, Pump
    PROVE  Inv'
<1>1. SchedInv'
  BY PassStepPreserves DEF Inv, Pump
<1>2. NotifierTypeOK' /\ PendingIsServed' /\ (WakeComing' <=> WakeComing)
  BY NotifierStutter DEF Inv, Pump
<1>3. /\ UNCHANGED <<loopPc, stopRequested, running, stoppedByFailure, blocking, events, ioReady, signals>>
      /\ drainPc' = drainPc /\ writeFailures' = writeFailures
      /\ loopPc \in {"pump", "dispatchPump"}
  BY DEF Pump, notifierVars
<1>4. Backlog \in Nat /\ Backlog' \in Nat
  <2>1. /\ globalQueue \in Seq(Handles) /\ remoteCallables \in Seq(Callables)
        /\ globalQueue' \in Seq(Handles) /\ remoteCallables' \in Seq(Callables)
    BY <1>1 DEF Inv, SchedInv, SchedulerTypeOK
  <2> QED
    BY <2>1 DEF Backlog
<1>5. CASE passPc = "take"
  <2>1. remoteSeen' = Backlog'
    BY <1>5 DEF Pump, Backlog
  <2>2. OwnTypeOK'
    BY <1>3, <1>4, <2>1 DEF Inv, OwnTypeOK
  <2>3. LoopInvariant'
    BY <1>2, <1>3, <1>4, <2>1 DEF Inv, LoopInvariant, Blocked, WillTake, WillCheckStop
  <2> QED
    BY <1>1, <1>2, <2>2, <2>3 DEF Inv
<1>6. CASE passPc # "take"
  <2>1. /\ UNCHANGED <<Backlog, remoteSeen>>
        /\ passPc = "drainLocal" => passPc' \in {"drainLocal", "take"}
    BY <1>6 DEF Pump, PassStep, DrainLocalOne, DrainLocalReturn, TakeBatch, RunBatchCallable,
       RunBatchHandle, BatchDone, Backlog, remoteVars
  <2>2. OwnTypeOK'
    BY <1>3, <2>1 DEF Inv, OwnTypeOK
  <2>3. LoopInvariant'
    BY <1>2, <1>3, <1>6, <2>1 DEF Inv, LoopInvariant, Blocked, WillTake, WillCheckStop
  <2> QED
    BY <1>1, <1>2, <2>2, <2>3 DEF Inv
<1> QED
  BY <1>5, <1>6

\* wait(-1) is only chosen without local work and with no remote item left over
\* from the last batch.
LEMMA TimeoutIsRight ==
    ASSUME Inv, ChooseTimeout
    PROVE  blocking' => ~LocalWork /\ remoteSeen = 0
<1>1. Backlog \in Nat /\ remoteSeen \in Nat /\ remoteSeen <= Backlog
  BY BacklogNat DEF Inv, SchedInv, OwnTypeOK, LoopInvariant
<1>2. ~hasWork => ~LocalWork /\ Backlog = 0
  BY DEF hasWork, Inv, SchedInv, SchedulerTypeOK, SchedulerInvariant, CountsMatchQueues, Backlog
<1>3. ~(LocalWork \/ remoteSeen > 0) => ~LocalWork /\ remoteSeen = 0
  BY <1>1
<1>4. ~hasWork => remoteSeen = 0
  BY <1>1, <1>2
<1>5. blocking' = ~hasWork \/ blocking' = ~(LocalWork \/ remoteSeen > 0)
  BY DEF ChooseTimeout
<1> QED
  BY <1>2, <1>3, <1>4, <1>5, Zenon

\* The steps of run() that touch neither the scheduler nor the notifier.
LEMMA ControlStep ==
    ASSUME Inv,
           IoBecomesReady \/ PassReturns \/ CheckStop \/ ChooseTimeout \/ WaitReturns
              \/ WaitInterrupted \/ WaitFails
    PROVE  Inv'
<1>1. UNCHANGED <<notifierVars, schedulerVars, remoteSeen, signals>>
  BY DEF IoBecomesReady, PassReturns, CheckStop, ChooseTimeout, WaitReturns, WaitInterrupted,
         WaitFails
<1>2. SchedInv'
  BY <1>1, StutterPreserves DEF Inv
<1>3. NotifierTypeOK' /\ PendingIsServed' /\ (WakeComing' <=> WakeComing)
  BY <1>1, NotifierStutter DEF Inv
<1>4. UNCHANGED <<Backlog, LocalWork, passPc, drainPc, writeFailures>>
  BY <1>1 DEF notifierVars, schedulerVars, remoteVars, passVars, Backlog, LocalWork
<1>5. OwnTypeOK'
  <2> USE <1>1 DEF Inv, OwnTypeOK, LoopPcs
  <2>1. CASE IoBecomesReady BY <2>1 DEF IoBecomesReady
  <2>2. CASE PassReturns BY <2>2 DEF PassReturns
  <2>3. CASE CheckStop BY <2>3 DEF CheckStop
  <2>4. CASE ChooseTimeout
    <3>1. blocking' \in BOOLEAN
      BY <2>4 DEF ChooseTimeout
    <3> QED
      BY <2>4, <3>1 DEF ChooseTimeout
  <2>5. CASE WaitReturns BY <2>5 DEF WaitReturns, ReadyEvents
  <2>6. CASE WaitFails BY <2>6 DEF WaitFails
  <2>7. CASE WaitInterrupted BY <2>7 DEF WaitInterrupted
  <2> QED
    BY <2>1, <2>2, <2>3, <2>4, <2>5, <2>6, <2>7
<1>6. LoopInvariant'
  <2> USE <1>1, <1>3, <1>4 DEF Inv, LoopInvariant, Blocked, WillTake, WillCheckStop
  <2>1. CASE IoBecomesReady BY <2>1 DEF IoBecomesReady
  <2>2. CASE PassReturns BY <2>2 DEF PassReturns
  <2>3. CASE CheckStop BY <2>3 DEF CheckStop
  <2>4. CASE ChooseTimeout
    <3>1. blocking' => ~LocalWork /\ remoteSeen = 0
      BY <2>4, TimeoutIsRight
    <3> QED
      BY <2>4, <3>1 DEF ChooseTimeout
  <2>5. CASE WaitReturns BY <2>5 DEF WaitReturns
  <2>6. CASE WaitFails BY <2>6 DEF WaitFails
  <2>7. CASE WaitInterrupted BY <2>7 DEF WaitInterrupted
  <2> QED
    BY <2>1, <2>2, <2>3, <2>4, <2>5, <2>6, <2>7
<1> QED
  BY <1>2, <1>3, <1>5, <1>6 DEF Inv

\* While the loop thread drains or dispatches it is at a place from which it
\* takes a batch and checks the flag again.
LEMMA DispatchStep ==
    ASSUME Inv, DispatchWakeup \/ Drain \/ DispatchIo
    PROVE  Inv'
<1>1. SchedInv'
  <2>1. CASE DispatchWakeup \/ Drain
    BY <2>1, StutterPreserves DEF Inv, DispatchWakeup, Drain
  <2>2. CASE DispatchIo
    <3>1. UserCode(IoSpawn, localQueue, localCallables) /\ UNCHANGED <<remoteVars, passVars, counterVars>>
      BY <2>2 DEF DispatchIo
    <3>2. /\ localQueue' \in Seq(Handles)
          /\ localCallables' \in Seq(Callables)
          /\ finished' \in SUBSET Handles
      <4>1. SchedulerTypeOK /\ localQueue \in Seq(Handles) /\ localCallables \in Seq(Callables)
        BY DEF Inv, SchedInv, SchedulerTypeOK
      <4> QED
        BY <3>1, <4>1, UserCodeType
    <3> QED
      BY <3>1, <3>2 DEF Inv, SchedInv, SchedulerTypeOK, SchedulerInvariant, PassWithinBudget,
         CountsMatchQueues, BatchesBelongToPass, BacklogBounded, Backlog, remoteVars, passVars, counterVars
  <2> QED
    BY <2>1, <2>2
<1>2. NotifierTypeOK' /\ PendingIsServed' /\ UNCHANGED writeFailures
  <2>1. CASE DispatchWakeup \/ Drain
    BY <2>1, DrainPreserves DEF Inv, DispatchWakeup, Drain
  <2>2. CASE DispatchIo
    BY <2>2, NotifierStutter DEF Inv, DispatchIo, notifierVars
  <2> QED
    BY <2>1, <2>2
<1>3. /\ UNCHANGED <<Backlog, passPc, loopPc, stopRequested, running, stoppedByFailure, blocking,
                     remoteSeen, signals>>
      /\ loopPc = "dispatch"
  <2>1. CASE DispatchWakeup
    BY <2>1 DEF DispatchWakeup, Backlog, schedulerVars, remoteVars, passVars
  <2>2. CASE Drain
    BY <2>2 DEF Inv, LoopInvariant, Drain, DrainStep, DrainFlush, DrainClear, ownVars, Backlog,
       schedulerVars, remoteVars, passVars
  <2>3. CASE DispatchIo
    BY <2>3 DEF DispatchIo, Backlog, remoteVars, passVars
  <2> QED
    BY <2>1, <2>2, <2>3
<1>4. events' \in SUBSET {"wakeup", "io"} /\ ioReady' \in BOOLEAN
  BY DEF Inv, OwnTypeOK, DispatchWakeup, Drain, DispatchIo, ownVars
<1>5. OwnTypeOK'
  BY <1>3, <1>4 DEF Inv, OwnTypeOK
<1>6. LoopInvariant'
  BY <1>2, <1>3 DEF Inv, LoopInvariant, Blocked, WillTake, WillCheckStop
<1> QED
  BY <1>1, <1>2, <1>5, <1>6 DEF Inv

\* A stuttering step keeps the invariant.
LEMMA StutterStep ==
    ASSUME Inv, UNCHANGED vars
    PROVE  Inv'
<1>1. UNCHANGED <<notifierVars, schedulerVars, ownVars>>
  BY DEF vars
<1>2. SchedInv' /\ UNCHANGED <<Backlog, LocalWork, passPc>>
  BY <1>1, StutterPreserves DEF Inv, schedulerVars, remoteVars, passVars, Backlog, LocalWork
<1>3. NotifierTypeOK' /\ PendingIsServed' /\ (WakeComing' <=> WakeComing)
  BY <1>1, NotifierStutter DEF Inv
<1>4. OwnTypeOK'
  BY <1>1 DEF Inv, OwnTypeOK, ownVars
<1>5. LoopInvariant'
  BY <1>1, <1>2, <1>3 DEF Inv, LoopInvariant, Blocked, WillTake, WillCheckStop, ownVars, notifierVars
<1> QED
  BY <1>2, <1>3, <1>4, <1>5 DEF Inv

\* A new event loop satisfies the invariant.
LEMMA InvInit == Init => Inv
<1> SUFFICES ASSUME Init PROVE Inv
  OBVIOUS
<1>1. NotifierTypeOK /\ PendingIsServed
  <2>1. writeFailures \in 0..MaxWriteFailures
    BY NotifierAssumption DEF Init, NotifierInit
  <2>2. notifyPc \in [Threads -> NotifyPcs]
    BY DEF Init, NotifierInit, NotifyPcs
  <2>3. wakeupPending = FALSE /\ readable = FALSE /\ drainPc = "idle"
    BY DEF Init, NotifierInit
  <2> QED
    BY <2>1, <2>2, <2>3 DEF NotifierTypeOK, DrainPcs, PendingIsServed
<1>2. SchedInv /\ Backlog = 0
  BY InitHolds DEF Init, SchedulerInit, Backlog
<1>3. OwnTypeOK
  <2>1. signals \in 0..MaxSignals /\ remoteSeen \in Nat
    BY EventLoopAssumption DEF Init
  <2>2. /\ loopPc = "new" /\ events = {}
        /\ stopRequested = FALSE /\ running = FALSE /\ stoppedByFailure = FALSE
        /\ blocking = FALSE /\ ioReady = FALSE
    BY DEF Init
  <2> QED
    BY <2>1, <2>2 DEF OwnTypeOK, LoopPcs
<1>4. LoopInvariant
  <2>1. /\ loopPc = "new" /\ passPc = "idle" /\ drainPc = "idle"
        /\ running = FALSE /\ stoppedByFailure = FALSE
        /\ remoteSeen = 0
    BY DEF Init, NotifierInit, SchedulerInit
  <2>2. running = (loopPc \notin {"new", "stopped"})
    BY <2>1, Zenon
  <2>3. remoteSeen <= Backlog /\ ~(remoteSeen < Backlog)
    BY <1>2, <2>1
  <2> QED
    BY <2>1, <2>2, <2>3 DEF LoopInvariant, Blocked, WillCheckStop
<1> QED
  BY <1>1, <1>2, <1>3, <1>4 DEF Inv

\* The invariant is inductive.
LEMMA InvNext == Inv /\ [Next]_vars => Inv'
<1> SUFFICES ASSUME Inv, [Next]_vars PROVE Inv'
  OBVIOUS
<1>1. CASE UNCHANGED vars
  BY <1>1, StutterStep
<1>2. CASE \E t \in Threads :
              \/ \E h \in Handles : scheduleRemote(t, h)
              \/ \E c \in Callables : tryPostRemote(t, c)
              \/ stop(t)
              \/ wake(t)
              \/ Notify(t)
  BY <1>2, PostStep, SignalStep, NotifyStepInv
<1>3. CASE ScheduleBeforeRun
  BY <1>3, BeforeRunStep
<1>4. CASE LoopStep
  BY <1>4, StartPassStep, PumpStep, ControlStep, DispatchStep DEF LoopStep
<1>5. CASE IoBecomesReady \/ WaitInterrupted \/ WaitFails
  BY <1>5, ControlStep
<1> QED
  BY <1>1, <1>2, <1>3, <1>4, <1>5 DEF Next

-----------------------------------------------------------------------------
\* Every reachable state satisfies the inductive invariant.
THEOREM EventLoopInvariant == Spec => []Inv
BY InvInit, InvNext, PTL DEF Spec

\* The event loop keeps its types: threads, queues, flags and positions.
THEOREM EventLoopTypeCorrect == Spec => []TypeOK
BY EventLoopInvariant, InvImpliesTypeOK, PTL

\* EventLoop::run() never blocks for good on queued work or on a requested
\* stop(): NoLostWakeup for any number of posting, waking and stopping threads,
\* any queue bounds and any pass budget.
THEOREM EventLoopNoLostWakeup == Spec => []NoLostWakeup
<1>1. Inv => NoLostWakeup
  <2> SUFFICES ASSUME Inv, Blocked
               PROVE  /\ ~LocalWork
                      /\ writeFailures = 0 /\ (Backlog > 0 \/ stopRequested) => WakeComing
    BY DEF NoLostWakeup
  <2>1. ~LocalWork /\ remoteSeen = 0 /\ loopPc = "wait" /\ passPc = "idle"
    BY DEF Inv, LoopInvariant, Blocked, OwnTypeOK
  <2>2. Backlog \in Nat
    BY BacklogNat DEF Inv, SchedInv
  <2>3. ~WillTake /\ ~WillCheckStop
    BY <2>1 DEF WillTake, WillCheckStop
  <2>4. writeFailures = 0 /\ Backlog > 0 => WakeComing
    BY <2>1, <2>2, <2>3 DEF Inv, LoopInvariant
  <2>5. writeFailures = 0 /\ stopRequested => WakeComing
    BY <2>3 DEF Inv, LoopInvariant
  <2> QED
    BY <2>1, <2>4, <2>5
<1> QED
  BY <1>1, EventLoopInvariant, PTL

\* The coalescing flag of EventNotifier never wedges, through failed writes too.
THEOREM EventLoopPendingIsServed == Spec => []PendingIsServed
BY EventLoopInvariant, PTL DEF Inv

\* isRunning() is honest: "not running" after run() started means stopped.
THEOREM EventLoopNotRunningMeansStopped == Spec => []NotRunningMeansStopped
<1>1. Inv => NotRunningMeansStopped
  BY DEF Inv, LoopInvariant, NotRunningMeansStopped, OwnTypeOK
<1> QED
  BY <1>1, EventLoopInvariant, PTL

\* Inside the whole event loop too, with its I/O handlers posting locally, the
\* scheduler loses, repeats and reorders nothing.
THEOREM EventLoopRefinement == Spec => ImplementsReadyQueues
<1>1. Init => Owed!Init
  BY DEF Init, SchedulerInit, Owed!Init
<1>2. Inv /\ Inv' /\ [Next]_vars => [Owed!Next]_(Owed!vars)
  <2> SUFFICES ASSUME Inv, Inv', [Next]_vars PROVE [Owed!Next]_(Owed!vars)
    OBVIOUS
  <2>1. CASE [SchedulerNext]_schedulerVars
    BY <2>1, StepRefines DEF Inv
  <2>2. CASE DispatchIo
    <3>1. localQueue \in Seq(Handles) /\ localCallables \in Seq(Callables)
      BY DEF Inv, SchedInv, SchedulerTypeOK
    <3>2. Owed!PostsFrom(localQueue, localCallables)
      BY <2>2, <3>1, UserCodePosts DEF DispatchIo
    <3> QED
      BY <2>2, <3>2 DEF DispatchIo, remoteVars, passVars, Owed!PostLocally, Owed!Next
  <2>3. CASE ScheduleBeforeRun
    <3>1. passPc = "idle"
      BY <2>3 DEF Inv, LoopInvariant, ScheduleBeforeRun
    <3> QED
      BY <2>1, <2>3, <3>1 DEF ScheduleBeforeRun, SchedulerNext
  <2>4. ASSUME NEW t \in Threads,
               \/ \E h \in Handles : scheduleRemote(t, h)
               \/ \E c \in Callables : tryPostRemote(t, c)
               \/ stop(t) \/ wake(t) \/ Notify(t)
        PROVE  [SchedulerNext]_schedulerVars
    BY <2>4 DEF scheduleRemote, tryPostRemote, stop, wake, Notify, SchedulerNext
  <2>5. CASE IoBecomesReady \/ WaitFails \/ PassReturns \/ CheckStop \/ ChooseTimeout
             \/ WaitReturns \/ WaitInterrupted \/ DispatchWakeup \/ Drain
    BY <2>1, <2>5 DEF IoBecomesReady, WaitFails, WaitInterrupted, PassReturns, CheckStop, ChooseTimeout, WaitReturns,
       DispatchWakeup, Drain
  <2>6. CASE Run \/ DispatchDone \/ NextRound \/ Pump
    BY <2>1, <2>6 DEF Run, DispatchDone, NextRound, StartPass, Pump, SchedulerNext
  <2>7. CASE UNCHANGED vars
    BY <2>1, <2>7 DEF vars
  <2> QED
    BY <2>1, <2>2, <2>3, <2>4, <2>5, <2>6, <2>7 DEF Next, LoopStep
<1> QED
  BY <1>1, <1>2, EventLoopInvariant, PTL DEF Spec, ImplementsReadyQueues, Owed!Spec
=============================================================================
