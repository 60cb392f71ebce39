-------------------------- MODULE IoWatcherProofs --------------------------
(***************************************************************************)
(* Proofs about IoWatcher for any number of waits, of watchers built at    *)
(* one address and of failures.                                            *)
(*                                                                         *)
(* InOnePlace is not inductive.  That a coroutine leaves the one place it  *)
(* is in rests on what the loop's queues can look like (Hands): the writer *)
(* is taken before the reader, so nothing is left in the loop's hands      *)
(* while the reader, who may destroy the writer, runs; and the queue of a  *)
(* dead watcher is empty before the next one is built.  That a             *)
(* cancellation ends only its own wait rests on generations (OwnCancels).  *)
(* QuietUntilHangUp says how often a direction was reported in vain, and   *)
(* Quiet what that means for the mask: one that is still watched, or in a  *)
(* report under way, has been reported no more often than arming failed.   *)
(***************************************************************************)
EXTENDS IoWatcher, SequenceTheorems, TLAPS

Hands ==
    /\ taken \in {<< >>, <<"read">>, <<"write">>, <<"write", "read">>}
    /\ running = "read" => taken = << >>
    /\ running = "write" => taken \in {<< >>, <<"read">>}
    /\ running # "none" => frame[running] = "free"
    /\ localQueue \in {<< >>, <<"read">>, <<"write">>, <<"read", "write">>}
    /\ isRegistered => localQueue = << >>

OwnCancels ==
    /\ \A d \in Directions : slot[d] <= generation /\ callback[d] <= generation
    /\ \A c \in cancels :
          /\ c.generation <= generation
          /\ slot[c.dir] = c.generation => c.dir \in stopped

Reportable(d) == d \in mask \cup About(reported)

Quiet ==
    HangUp \notin level =>
        \A d \in Directions :
            /\ idleReports[d] <= 1 + modFailures
            /\ Reportable(d) => idleReports[d] <= modFailures

Inv ==
    /\ TypeOK
    /\ Hands
    /\ InOnePlace
    /\ AttachedWhileInSlot
    /\ WaiterIsWatched
    /\ OwnCancels
    /\ EndsForItsReason
    /\ Quiet

-----------------------------------------------------------------------------
(* The queues that occur                                                   *)

\* Who is in a queue of at most two.
LEMMA SmallQueues ==
    /\ \A d : ~Contains(<< >>, d)
    /\ \A x, d : Contains(<<x>>, d) <=> d = x
    /\ \A x, y, d : Contains(<<x, y>>, d) <=> d = x \/ d = y
  <1>1. \A d : ~Contains(<< >>, d)
    BY DEF Contains
  <1>2. \A x, d : Contains(<<x>>, d) <=> d = x
    BY DEF Contains
  <1>3. \A x, y, d : Contains(<<x, y>>, d) <=> d = x \/ d = y
    <2> TAKE x, y, d
    <2>1. Len(<<x, y>>) = 2 /\ 1 .. 2 = {1, 2}
      OBVIOUS
    <2> QED
      BY <2>1 DEF Contains
  <1> QED
    BY <1>1, <1>2, <1>3

\* Their heads and tails.
LEMMA SmallTails ==
    /\ \A x : Head(<<x>>) = x /\ Tail(<<x>>) = << >>
    /\ \A x, y : Head(<<x, y>>) = x /\ Tail(<<x, y>>) = <<y>>
  OBVIOUS

\* One handle and then another, each of them only if its coroutine waited.
LEMMA TwoOf ==
    ASSUME NEW x \in Directions, NEW y \in Directions, x # y, NEW D \in SUBSET {x, y}
    PROVE  LET q == OneOf(x, D) \o OneOf(y, D)
           IN  /\ q \in {<< >>, <<x>>, <<y>>, <<x, y>>}
               /\ << >> \o q = q
               /\ \A d : Contains(q, d) <=> d \in D
  <1> DEFINE q == OneOf(x, D) \o OneOf(y, D)
  <1>1. <<x>> \in Seq(Directions) /\ <<y>> \in Seq(Directions) /\ << >> \in Seq(Directions)
        /\ <<x, y>> \in Seq(Directions)
    OBVIOUS
  <1>2. <<x>> \o <<y>> = <<x, y>>
    <2>1. <<x>> \o <<y>> \in Seq(Directions) /\ Len(<<x>> \o <<y>>) = 2
      BY <1>1
    <2>2. (<<x>> \o <<y>>)[1] = x /\ (<<x>> \o <<y>>)[2] = y
      BY <1>1
    <2>3. Len(<<x, y>>) = 2 /\ <<x, y>>[1] = x /\ <<x, y>>[2] = y
      OBVIOUS
    <2>4. \A i \in 1 .. 2 : i = 1 \/ i = 2
      OBVIOUS
    <2>5. \A i \in 1 .. 2 : (<<x>> \o <<y>>)[i] = <<x, y>>[i]
      BY <2>2, <2>3, <2>4
    <2> QED
      BY <1>1, <2>1, <2>3, <2>5, SeqEqual
  <1>3. \A s \in Seq(Directions) : s \o << >> = s /\ << >> \o s = s
    BY ConcatEmptySeq
  <1>4. CASE x \in D /\ y \in D
    <2>1. q = <<x, y>>
      BY <1>2, <1>4 DEF OneOf
    <2>2. << >> \o <<x, y>> = <<x, y>>
      BY <1>1, <1>3
    <2>3. D = {x, y}
      BY <1>4
    <2>4. \A d : Contains(<<x, y>>, d) <=> d \in D
      BY <2>3, SmallQueues
    <2> QED
      BY <2>1, <2>2, <2>4
  <1>5. CASE x \in D /\ y \notin D
    BY <1>1, <1>3, <1>5, SmallQueues DEF OneOf
  <1>6. CASE x \notin D /\ y \in D
    BY <1>1, <1>3, <1>6, SmallQueues DEF OneOf
  <1>7. CASE x \notin D /\ y \notin D
    BY <1>1, <1>3, <1>7, SmallQueues DEF OneOf
  <1> QED
    BY <1>4, <1>5, <1>6, <1>7

\* What handleEvents() and a cancellation take into the loop's hands.
LEMMA ResumeOrderOf ==
    ASSUME NEW D \in SUBSET Directions
    PROVE  /\ ResumeOrder(D) \in {<< >>, <<"read">>, <<"write">>, <<"write", "read">>}
           /\ \A d : Contains(ResumeOrder(D), d) <=> d \in D
  <1>1. "write" \in Directions /\ "read" \in Directions /\ "write" # "read"
        /\ D \in SUBSET {"write", "read"}
    BY DEF Directions
  <1> QED
    BY <1>1, TwoOf DEF ResumeOrder

\* What ~IoWatcher() schedules.
LEMMA ScheduleOrderOf ==
    ASSUME NEW D \in SUBSET Directions
    PROVE  /\ ScheduleOrder(D) \in {<< >>, <<"read">>, <<"write">>, <<"read", "write">>}
           /\ << >> \o ScheduleOrder(D) = ScheduleOrder(D)
           /\ \A d : Contains(ScheduleOrder(D), d) <=> d \in D
  <1>1. "write" \in Directions /\ "read" \in Directions /\ "write" # "read"
        /\ D \in SUBSET {"read", "write"}
    BY DEF Directions
  <1> QED
    BY <1>1, TwoOf DEF ScheduleOrder

\* Removing the head of a queue removes that coroutine and no other.
LEMMA HeadLeaves ==
    ASSUME NEW q \in {<<"read">>, <<"write">>, <<"write", "read">>, <<"read", "write">>}
    PROVE  /\ Head(q) \in Directions /\ Contains(q, Head(q))
           /\ \A e \in Directions : Contains(Tail(q), e) <=> Contains(q, e) /\ e # Head(q)
  <1>1. CASE q = <<"read">>
    BY <1>1, SmallQueues, SmallTails DEF Directions
  <1>2. CASE q = <<"write">>
    BY <1>2, SmallQueues, SmallTails DEF Directions
  <1>3. CASE q = <<"write", "read">>
    BY <1>3, SmallQueues, SmallTails DEF Directions
  <1>4. CASE q = <<"read", "write">>
    BY <1>4, SmallQueues, SmallTails DEF Directions
  <1> QED
    BY <1>1, <1>2, <1>3, <1>4

\* The queues that occur are sequences of directions.
LEMMA QueueTypes ==
    {<< >>, <<"read">>, <<"write">>, <<"write", "read">>, <<"read", "write">>} \subseteq Seq(Directions)
  BY DEF Directions

-----------------------------------------------------------------------------
(* The inductive invariant                                                 *)

\* The first watcher, before anybody waits.
LEMMA InvInit == Init => Inv
  <1> SUFFICES ASSUME Init PROVE Inv
    OBVIOUS
  <1> USE WatcherAssumption DEF Init, Directions, Probe, Nobody, Unknown, HangUp, Waiting
  <1>1. TypeOK
    BY QueueTypes DEF TypeOK, ReportLimit
  <1>2. Hands
    BY DEF Hands
  <1>3. InOnePlace
    BY SmallQueues DEF InOnePlace
  <1>4. AttachedWhileInSlot /\ WaiterIsWatched /\ OwnCancels /\ EndsForItsReason
    BY DEF AttachedWhileInSlot, WaiterIsWatched, OwnCancels, EndsForItsReason
  <1>5. Quiet
    BY WatcherAssumption DEF Quiet
  <1> QED
    BY <1>1, <1>2, <1>3, <1>4, <1>5 DEF Inv

\* The bounds, one by one.
LEMMA Bounds ==
    MaxWaits \in Nat /\ MaxReopens \in Nat /\ MaxModFailures \in Nat /\ PostMayFail \in BOOLEAN
  BY WatcherAssumption

\* What armEvents() does to the mask and the books.
LEMMA ArmedTypes ==
    ASSUME TypeOK, NEW E \in SUBSET Directions, Armed(E) \/ ArmingFailed(E)
    PROVE  /\ mask' \subseteq Directions
           /\ armedEvents' \in (SUBSET Directions) \cup {Unknown}
           /\ modFailures' \in 0 .. MaxModFailures
           /\ modFailures' >= modFailures
           /\ ArmingFailed(E) => modFailures' > 0
  <1>1. CASE Armed(E)
    <2>1. /\ mask' \subseteq Directions
          /\ armedEvents' \in (SUBSET Directions) \cup {Unknown}
          /\ modFailures' = modFailures
      BY <1>1 DEF TypeOK, Armed
    <2>2. ArmingFailed(E) => FALSE
      BY <1>1, Bounds DEF TypeOK, Armed, ArmingFailed
    <2> QED
      BY <2>1, <2>2, Bounds DEF TypeOK
  <1>2. CASE ArmingFailed(E)
    <2>1. mask' \subseteq Directions
      BY <1>2 DEF TypeOK, ArmingFailed
    <2>3. armedEvents' \in (SUBSET Directions) \cup {Unknown}
      BY <1>2 DEF ArmingFailed
    <2>2. modFailures' \in 0 .. MaxModFailures /\ modFailures' >= modFailures /\ modFailures' > 0
      BY <1>2, Bounds DEF TypeOK, ArmingFailed
    <2> QED
      BY <2>1, <2>2, <2>3
  <1> QED
    BY <1>1, <1>2

\* What takeWaiter() does to slots, awaiters and the loop's hands.
LEMMA TakeTypes ==
    ASSUME TypeOK, NEW T \in SUBSET Directions, TakeWaiters(T)
    PROVE  /\ slot' \in [Directions -> 0 .. MaxWaits]
           /\ isAttached' \subseteq Directions
           /\ taken' \in Seq(Directions)
  <1>1. slot' \in [Directions -> 0 .. MaxWaits]
    BY Bounds DEF TypeOK, TakeWaiters, Vacated
  <1>2. isAttached' \subseteq Directions
    BY DEF TypeOK, TakeWaiters, TellDetached
  <1>3. taken' \in Seq(Directions)
    BY ResumeOrderOf, QueueTypes DEF TakeWaiters
  <1> QED
    BY <1>1, <1>2, <1>3

\* Types are kept.
LEMMA TypeStep == Inv /\ [Next]_vars => TypeOK'
  <1> SUFFICES ASSUME Inv, [Next]_vars PROVE TypeOK'
    OBVIOUS
  <1> USE Bounds DEF TypeOK, kernelVars, ownVars, loopVars, awaiterVars
  <1>0. TypeOK
    BY DEF Inv
  <1>w. Waiting \subseteq Directions
    BY DEF Waiting
  <1>1. ASSUME NEW d \in Directions, Await(d) PROVE TypeOK'
    <2>1. CASE WaitReady(d)
      BY <1>0, <2>1 DEF WaitReady
    <2>2. CASE WaitStopped(d)
      BY <1>0, <2>2 DEF WaitStopped
    <2>n. Needed(d) \in SUBSET Directions
      BY <1>w DEF Needed
    <2>3. CASE WaitSuspends(d)
      <3>1. /\ mask' \subseteq Directions
            /\ armedEvents' \in (SUBSET Directions) \cup {Unknown}
            /\ modFailures' \in 0 .. MaxModFailures
        BY <1>0, <2>3, <2>n, ArmedTypes DEF WaitSuspends
      <3>2. generation' \in 0 .. MaxWaits
        BY <1>0, <2>3 DEF WaitSuspends
      <3>4. slot' \in [Directions -> 0 .. MaxWaits]
        BY <1>0, <2>3, <3>2 DEF WaitSuspends
      <3>5. callback' \in [Directions -> 0 .. MaxWaits]
        <4>1. PICK g \in {0, generation'} : callback' = [callback EXCEPT ![d] = g]
          BY <2>3 DEF WaitSuspends
        <4>2. callback \in [Directions -> 0 .. MaxWaits] /\ g \in 0 .. MaxWaits
          BY <1>0, <3>2
        <4> QED
          BY <4>1, <4>2
      <3>3. idleReports' \in [Directions -> 0 .. ReportLimit]
        BY <1>0, <2>3 DEF WaitSuspends, ReportLimit
      <3> QED
        BY <1>0, <2>3, <3>1, <3>2, <3>3, <3>4, <3>5 DEF WaitSuspends
    <2>4. CASE WaitFails(d)
      <3>1. /\ mask' \subseteq Directions
            /\ armedEvents' \in (SUBSET Directions) \cup {Unknown}
            /\ modFailures' \in 0 .. MaxModFailures
        BY <1>0, <2>4, <2>n, ArmedTypes DEF WaitFails
      <3>2. generation' \in 0 .. MaxWaits
        BY <1>0, <2>4 DEF WaitFails
      <3> QED
        BY <1>0, <2>4, <3>1, <3>2 DEF WaitFails
    <2> QED
      BY <1>1, <2>1, <2>2, <2>3, <2>4 DEF Await
  <1>2. ASSUME NEW d \in Directions, RunElsewhere(d) PROVE TypeOK'
    BY <1>0, <1>2 DEF RunElsewhere
  <1>3. ASSUME NEW d \in Directions, RequestStop(d) PROVE TypeOK'
    <2>1. cancels' \subseteq [dir : Directions, generation : 1 .. MaxWaits]
      <3>1. callback[d] \in 1 .. MaxWaits
        BY <1>0, <1>3 DEF RequestStop
      <3> QED
        BY <1>0, <1>3, <3>1 DEF RequestStop
    <2>2. callback' \in [Directions -> 0 .. MaxWaits]
      BY <1>0, <1>3 DEF RequestStop
    <2> QED
      BY <1>0, <1>3, <2>1, <2>2 DEF RequestStop
  <1>4. CASE Return
    BY <1>0, <1>4 DEF Return
  <1>5. CASE DestroyWriter
    <2>1. slot' \in [Directions -> 0 .. MaxWaits]
      BY <1>0, <1>5 DEF DestroyWriter, detachWaiter, Vacated
    <2>2. frame' \in [Directions -> {"free", "suspended", "gone"}]
      BY <1>0, <1>5 DEF DestroyWriter
    <2>3. callback' \in [Directions -> 0 .. MaxWaits]
      <3>1. callback \in [Directions -> 0 .. MaxWaits] /\ 0 \in 0 .. MaxWaits
        BY <1>0
      <3>2. callback' = [callback EXCEPT !["write"] = 0]
        BY <1>5 DEF DestroyWriter
      <3> QED
        BY <3>1, <3>2
    <2> QED
      BY <1>0, <1>5, <2>1, <2>2, <2>3 DEF DestroyWriter
  <1>6. CASE Destroy
    <2>1. localQueue' \in Seq(Directions)
      <3>1. ScheduleOrder(Waiting) \in Seq(Directions)
        BY <1>w, ScheduleOrderOf, QueueTypes
      <3> QED
        BY <1>0, <1>6, <3>1, ConcatProperties DEF Destroy
    <2>2. slot' \in [Directions -> 0 .. MaxWaits]
      BY <1>6 DEF Destroy, Nobody
    <2>3. outcome' \in [Directions -> {"none", "ready", "closed", "cancelled"}]
      BY <1>0, <1>6 DEF Destroy, Outcome
    <2> QED
      BY <1>0, <1>6, <2>1, <2>2, <2>3 DEF Destroy, TellDetached
  <1>7. CASE Reopen
    <2>1. /\ slot' \in [Directions -> 0 .. MaxWaits]
          /\ idleReports' \in [Directions -> 0 .. ReportLimit]
      BY <1>7 DEF Reopen, Nobody, ReportLimit
    <2>2. Probe \subseteq Directions
      BY DEF Probe, Directions
    <2> QED
      BY <1>0, <1>7, <2>1, <2>2 DEF Reopen
  <1>8. CASE LevelChanges \/ Poll
    BY <1>0, <1>8 DEF LevelChanges, Poll
  <1>9. CASE HandleEvents
    <2> DEFINE D == About(reported)
    <2>1. D \subseteq Directions
      BY <1>0 DEF About
    <2>2. /\ mask' \subseteq Directions
          /\ armedEvents' \in (SUBSET Directions) \cup {Unknown}
          /\ modFailures' \in 0 .. MaxModFailures
      BY <1>0, <1>9, <1>w, ArmedTypes DEF HandleEvents, Wanted
    <2>4. /\ slot' \in [Directions -> 0 .. MaxWaits]
          /\ isAttached' \subseteq Directions
          /\ taken' \in Seq(Directions)
      <3>1. TakeWaiters(D \cap Waiting) \/ TakeWaiters(Waiting)
        BY <1>9 DEF HandleEvents
      <3> QED
        BY <1>0, <1>w, <3>1, TakeTypes
    <2>5. outcome' \in [Directions -> {"none", "ready", "closed", "cancelled"}]
      BY <1>0, <1>9 DEF HandleEvents, Outcome
    <2>6. idleReports' \in [Directions -> 0 .. ReportLimit]
      BY <1>0, <1>9 DEF HandleEvents, ReportIdle, ReportLimit
    <2>7. readyEvents' \subseteq Directions
      BY <1>0, <1>9, <2>1 DEF HandleEvents
    <2> QED
      BY <1>0, <1>9, <2>2, <2>4, <2>5, <2>6, <2>7 DEF HandleEvents
  <1>10. CASE EventDropped
    BY <1>0, <1>10 DEF EventDropped
  <1>11. ASSUME NEW c \in cancels, RunCancel(c) PROVE TypeOK'
    <2>1. {c.dir} \in SUBSET Directions
      BY <1>0
    <2>2. /\ slot' \in [Directions -> 0 .. MaxWaits]
          /\ isAttached' \subseteq Directions
          /\ taken' \in Seq(Directions)
          /\ outcome' \in [Directions -> {"none", "ready", "closed", "cancelled"}]
      <3>1. CASE TakeWaiters({c.dir}) /\ outcome' = Outcome({c.dir}, "cancelled")
        <4>1. outcome' \in [Directions -> {"none", "ready", "closed", "cancelled"}]
          BY <1>0, <3>1 DEF Outcome
        <4> QED
          BY <1>0, <2>1, <3>1, <4>1, TakeTypes
      <3>2. CASE UNCHANGED <<slot, isAttached, taken, outcome>>
        BY <1>0, <3>2
      <3> QED
        BY <1>11, <3>1, <3>2 DEF RunCancel
    <2> QED
      BY <1>0, <1>11, <2>2 DEF RunCancel
  <1>12. CASE ResumeTaken
    <2>1. Head(taken) \in Directions /\ taken' \in Seq(Directions)
      BY <1>0, <1>12 DEF ResumeTaken
    <2> QED
      BY <1>0, <1>12, <2>1 DEF ResumeTaken, Resume
  <1>13. CASE RunLocal
    <2>1. Head(localQueue) \in Directions /\ localQueue' \in Seq(Directions)
      BY <1>0, <1>13 DEF RunLocal
    <2> QED
      <3>1. /\ callback' \in [Directions -> 0 .. MaxWaits]
            /\ frame' \in [Directions -> {"free", "suspended", "gone"}]
        BY <1>0, <1>13, <2>1 DEF RunLocal, Resume
      <3> QED
        BY <1>0, <1>13, <2>1, <3>1 DEF RunLocal, Resume
  <1>14. CASE UNCHANGED vars
    BY <1>0, <1>14 DEF vars
  <1> QED
    BY <1>1, <1>2, <1>3, <1>4, <1>5, <1>6, <1>7, <1>8, <1>9, <1>10, <1>11, <1>12, <1>13, <1>14 DEF Next

\* The hands of the loop and the queue of a dead watcher look as they can.
LEMMA HandsStep == Inv /\ [Next]_vars => Hands'
  <1> SUFFICES ASSUME Inv, [Next]_vars PROVE Hands'
    OBVIOUS
  <1> USE DEF Inv, Hands, kernelVars, ownVars, loopVars, awaiterVars, LoopIsFree
  <1>w. Waiting \subseteq Directions
    BY DEF Waiting
  <1>1. ASSUME NEW d \in Directions, Await(d) PROVE Hands'
    BY <1>1 DEF Await, WaitReady, WaitStopped, WaitSuspends, WaitFails
  <1>2. ASSUME NEW d \in Directions, RunElsewhere(d) PROVE Hands'
    BY <1>2 DEF RunElsewhere, Directions
  <1>3. ASSUME NEW d \in Directions, RequestStop(d) PROVE Hands'
    BY <1>3 DEF RequestStop
  <1>4. CASE Return
    BY <1>4 DEF Return
  <1>5. CASE DestroyWriter
    BY <1>5 DEF DestroyWriter, TypeOK, Directions
  <1>6. CASE Destroy
    <2>1. localQueue' = ScheduleOrder(Waiting)
      BY <1>6, <1>w, ScheduleOrderOf DEF Destroy
    <2>2. localQueue' \in {<< >>, <<"read">>, <<"write">>, <<"read", "write">>}
      BY <1>w, <2>1, ScheduleOrderOf
    <2> QED
      BY <1>6, <2>2 DEF Destroy
  <1>7. CASE Reopen
    <2>1. \A d \in Directions : ~Contains(localQueue, d)
      BY <1>7 DEF Reopen, InOnePlace
    <2>2. localQueue = << >>
      BY <2>1, SmallQueues DEF Directions
    <2> QED
      BY <1>7, <2>2 DEF Reopen
  <1>8. CASE LevelChanges \/ Poll \/ EventDropped
    BY <1>8 DEF LevelChanges, Poll, EventDropped
  <1>9. CASE HandleEvents
    <2>1. taken' = ResumeOrder(About(reported) \cap Waiting) \/ taken' = ResumeOrder(Waiting)
      BY <1>9 DEF HandleEvents, TakeWaiters
    <2>2. taken' \in {<< >>, <<"read">>, <<"write">>, <<"write", "read">>}
      BY <1>w, <2>1, ResumeOrderOf
    <2> QED
      BY <1>9, <2>2 DEF HandleEvents
  <1>10. ASSUME NEW c \in cancels, RunCancel(c) PROVE Hands'
    <2>1. {c.dir} \in SUBSET Directions
      BY DEF TypeOK
    <2>2. taken' = ResumeOrder({c.dir}) \/ taken' = taken
      BY <1>10 DEF RunCancel, TakeWaiters
    <2>3. taken' \in {<< >>, <<"read">>, <<"write">>, <<"write", "read">>}
      BY <2>1, <2>2, ResumeOrderOf
    <2> QED
      BY <1>10, <2>3 DEF RunCancel
  <1>11. CASE ResumeTaken
    <2>1. CASE taken = <<"read">>
      BY <1>11, <2>1, SmallTails DEF ResumeTaken, Resume, TypeOK, Directions
    <2>2. CASE taken = <<"write">>
      BY <1>11, <2>2, SmallTails DEF ResumeTaken, Resume, TypeOK, Directions
    <2>3. CASE taken = <<"write", "read">>
      BY <1>11, <2>3, SmallTails DEF ResumeTaken, Resume, TypeOK, Directions
    <2> QED
      BY <1>11, <2>1, <2>2, <2>3 DEF ResumeTaken
  <1>12. CASE RunLocal
    <2>1. CASE localQueue = <<"read">>
      BY <1>12, <2>1, SmallTails DEF RunLocal, Resume, TypeOK, Directions
    <2>2. CASE localQueue = <<"write">>
      BY <1>12, <2>2, SmallTails DEF RunLocal, Resume, TypeOK, Directions
    <2>3. CASE localQueue = <<"read", "write">>
      BY <1>12, <2>3, SmallTails DEF RunLocal, Resume, TypeOK, Directions
    <2> QED
      BY <1>12, <2>1, <2>2, <2>3 DEF RunLocal
  <1>13. CASE UNCHANGED vars
    BY <1>13 DEF vars
  <1> QED
    BY <1>1, <1>2, <1>3, <1>4, <1>5, <1>6, <1>7, <1>8, <1>9, <1>10, <1>11, <1>12, <1>13 DEF Next

\* The coroutine that runs is in none of the places.
LEMMA RunningIsNowhere ==
    ASSUME Inv, NEW d \in Directions, running = d
    PROVE  slot[d] = 0 /\ ~Contains(taken, d) /\ ~Contains(localQueue, d) /\ frame[d] = "free"
  <1>1. frame[d] = "free"
    BY DEF Inv, Hands, Directions
  <1> QED
    BY <1>1 DEF Inv, InOnePlace

\* Taking waiters out of their slots moves them into the loop's hands and touches
\* nobody else.
LEMMA TakeMoves ==
    ASSUME Inv, LoopIsFree, NEW T \in SUBSET Waiting, TakeWaiters(T), UNCHANGED <<frame, localQueue, isRegistered>>
    PROVE  InOnePlace' /\ AttachedWhileInSlot'
  <1>w. T \in SUBSET Directions
    BY DEF Waiting
  <1>1. \A d \in Directions : Contains(taken', d) <=> d \in T
    BY <1>w, ResumeOrderOf DEF TakeWaiters
  <1>2. \A d \in Directions : slot'[d] = (IF d \in T THEN 0 ELSE slot[d])
    BY DEF TakeWaiters, Vacated
  <1>3. \A d \in Directions : ~Contains(taken, d)
    BY SmallQueues DEF LoopIsFree
  <1>4. InOnePlace'
    BY <1>1, <1>2, <1>3 DEF Inv, InOnePlace, Waiting
  <1>5. AttachedWhileInSlot'
    BY <1>2 DEF Inv, AttachedWhileInSlot, TakeWaiters, TellDetached, Waiting
  <1> QED
    BY <1>4, <1>5

\* A coroutine moves from place to place and is never in two, or lost between them.
LEMMA PlaceStep == Inv /\ [Next]_vars => InOnePlace' /\ AttachedWhileInSlot'
  <1> SUFFICES ASSUME Inv, [Next]_vars PROVE InOnePlace' /\ AttachedWhileInSlot'
    OBVIOUS
  <1> DEFINE Goal == InOnePlace' /\ AttachedWhileInSlot'
  <1> USE DEF kernelVars, ownVars, loopVars, awaiterVars
  <1>0. TypeOK /\ InOnePlace /\ AttachedWhileInSlot
    BY DEF Inv
  <1>w. Waiting \subseteq Directions
    BY DEF Waiting
  <1>u. ASSUME UNCHANGED <<slot, taken, localQueue, frame, isRegistered, isAttached>> PROVE Goal
    BY <1>0, <1>u DEF InOnePlace, AttachedWhileInSlot, Waiting
  <1>1. ASSUME NEW d \in Directions, WaitSuspends(d) PROVE Goal
    <2>1. slot[d] = 0 /\ ~Contains(taken, d) /\ ~Contains(localQueue, d)
      BY <1>1, RunningIsNowhere DEF WaitSuspends
    <2>2. /\ slot'[d] # 0 /\ frame'[d] = "suspended"
          /\ \A e \in Directions \ {d} : slot'[e] = slot[e] /\ frame'[e] = frame[e]
      BY <1>0, <1>1 DEF WaitSuspends, TypeOK
    <2>3. InOnePlace'
      BY <1>0, <1>1, <2>1, <2>2 DEF WaitSuspends, InOnePlace
    <2>4. AttachedWhileInSlot'
      BY <1>0, <1>1, <2>2 DEF WaitSuspends, AttachedWhileInSlot, Waiting
    <2> QED
      BY <2>3, <2>4
  <1>2. ASSUME NEW d \in Directions, WaitReady(d) \/ WaitStopped(d) \/ WaitFails(d) PROVE Goal
    BY <1>2, <1>u DEF WaitReady, WaitStopped, WaitFails
  <1>3. ASSUME NEW d \in Directions, RunElsewhere(d) \/ RequestStop(d) PROVE Goal
    BY <1>3, <1>u DEF RunElsewhere, RequestStop
  <1>4. CASE Return \/ LevelChanges \/ Poll \/ EventDropped
    BY <1>4, <1>u DEF Return, LevelChanges, Poll, EventDropped
  <1>5. CASE DestroyWriter
    <2>1. "read" \in Directions /\ "write" \in Directions
      BY DEF Directions
    <2>2. ~Contains(taken, "write") /\ ~Contains(localQueue, "write")
      BY <1>5, SmallQueues DEF DestroyWriter, Inv, Hands
    <2>3. "write" \in Waiting /\ "write" \in isAttached
      BY <1>0, <1>5, <2>1, <2>2 DEF DestroyWriter, InOnePlace, AttachedWhileInSlot, Waiting
    <2>4. /\ slot'["write"] = 0 /\ frame'["write"] = "gone"
          /\ \A e \in Directions \ {"write"} : slot'[e] = slot[e] /\ frame'[e] = frame[e]
      BY <1>0, <1>5, <2>1, <2>3 DEF DestroyWriter, detachWaiter, Vacated, TypeOK
    <2>5. InOnePlace'
      BY <1>0, <1>5, <2>2, <2>4 DEF DestroyWriter, InOnePlace
    <2>6. AttachedWhileInSlot'
      BY <1>0, <1>5, <2>1, <2>4 DEF DestroyWriter, AttachedWhileInSlot, Waiting
    <2> QED
      BY <2>5, <2>6
  <1>6. CASE Destroy
    <2>1. localQueue = << >> /\ localQueue' = ScheduleOrder(Waiting)
      BY <1>6, <1>w, ScheduleOrderOf DEF Destroy, Inv, Hands
    <2>2. \A d \in Directions : ~Contains(localQueue, d) /\ (Contains(localQueue', d) <=> slot[d] # 0)
      BY <1>w, <2>1, ScheduleOrderOf, SmallQueues DEF Waiting
    <2>3. \A d \in Directions : slot'[d] = 0
      BY <1>6 DEF Destroy, Nobody
    <2>4. InOnePlace'
      BY <1>0, <1>6, <2>2, <2>3 DEF Destroy, InOnePlace
    <2>5. AttachedWhileInSlot'
      BY <1>0, <1>6, <2>3 DEF Destroy, TellDetached, AttachedWhileInSlot, Waiting
    <2> QED
      BY <2>4, <2>5
  <1>7. CASE Reopen
    <2>1. \A d \in Directions : slot[d] = 0 /\ ~Contains(taken, d) /\ ~Contains(localQueue, d)
      BY <1>0, <1>7 DEF Reopen, InOnePlace
    <2>2. \A d \in Directions : slot'[d] = 0 /\ frame'[d] = "free"
      BY <1>7 DEF Reopen, Nobody
    <2>3. InOnePlace'
      BY <1>7, <2>1, <2>2 DEF Reopen, InOnePlace
    <2>4. AttachedWhileInSlot'
      BY <1>0, <1>7, <2>1, <2>2 DEF Reopen, AttachedWhileInSlot, Waiting
    <2> QED
      BY <2>3, <2>4
  <1>8. CASE HandleEvents
    <2>1. TakeWaiters(About(reported) \cap Waiting) \/ TakeWaiters(Waiting)
      BY <1>8 DEF HandleEvents
    <2> QED
      BY <1>8, <2>1, TakeMoves DEF HandleEvents
  <1>9. ASSUME NEW c \in cancels, RunCancel(c) PROVE Goal
    <2>1. CASE isRegistered /\ SameWait(c)
      <3>1. {c.dir} \in SUBSET Waiting /\ TakeWaiters({c.dir})
        BY <1>0, <1>9, <2>1 DEF RunCancel, SameWait, Waiting, TypeOK
      <3> QED
        BY <1>9, <3>1, TakeMoves DEF RunCancel
    <2>2. CASE ~(isRegistered /\ SameWait(c))
      BY <1>9, <2>2, <1>u DEF RunCancel
    <2> QED
      BY <2>1, <2>2
  <1>10. CASE ResumeTaken
    <2> DEFINE d == Head(taken)
    <2>1. /\ d \in Directions /\ Contains(taken, d)
          /\ \A e \in Directions : Contains(taken', e) <=> Contains(taken, e) /\ e # d
      BY <1>10, HeadLeaves DEF ResumeTaken, Inv, Hands
    <2>2. /\ frame'[d] = "free"
          /\ \A e \in Directions \ {d} : frame'[e] = frame[e]
      BY <1>0, <1>10, <2>1 DEF ResumeTaken, Resume, TypeOK
    <2> HIDE DEF d
    <2>3. InOnePlace'
      BY <1>0, <1>10, <2>1, <2>2 DEF ResumeTaken, Resume, InOnePlace
    <2>4. AttachedWhileInSlot'
      BY <1>0, <1>10 DEF ResumeTaken, Resume, AttachedWhileInSlot, Waiting
    <2> QED
      BY <2>3, <2>4
  <1>11. CASE RunLocal
    <2> DEFINE d == Head(localQueue)
    <2>1. /\ d \in Directions /\ Contains(localQueue, d)
          /\ \A e \in Directions : Contains(localQueue', e) <=> Contains(localQueue, e) /\ e # d
      BY <1>11, HeadLeaves DEF RunLocal, Inv, Hands
    <2>2. /\ frame'[d] = "free"
          /\ \A e \in Directions \ {d} : frame'[e] = frame[e]
      BY <1>0, <1>11, <2>1 DEF RunLocal, Resume, TypeOK
    <2> HIDE DEF d
    <2>3. InOnePlace'
      BY <1>0, <1>11, <2>1, <2>2 DEF RunLocal, Resume, InOnePlace
    <2>4. AttachedWhileInSlot'
      BY <1>0, <1>11 DEF RunLocal, Resume, AttachedWhileInSlot, Waiting
    <2> QED
      BY <2>3, <2>4
  <1>12. CASE UNCHANGED vars
    BY <1>12, <1>u DEF vars
  <1> QED
    BY <1>1, <1>2, <1>3, <1>4, <1>5, <1>6, <1>7, <1>8, <1>9, <1>10, <1>11, <1>12 DEF Next, Await

\* Once armEvents(E) has succeeded the kernel watches E and the books say so.
LEMMA ArmedWatches ==
    ASSUME TypeOK, WaiterIsWatched, isRegistered, NEW E \in SUBSET Directions, Armed(E)
    PROVE  mask' = E /\ armedEvents' = mask'
  <1>1. E # Unknown
    BY DEF Unknown, Directions
  <1> QED
    BY <1>1 DEF WaiterIsWatched, Armed

\* Whoever waits stays watched.
LEMMA WatchedStep == Inv /\ [Next]_vars => WaiterIsWatched'
  <1> SUFFICES ASSUME Inv, [Next]_vars PROVE WaiterIsWatched'
    OBVIOUS
  <1> USE DEF kernelVars, ownVars, loopVars, awaiterVars
  <1>0. TypeOK /\ InOnePlace /\ WaiterIsWatched
    BY DEF Inv
  <1>w. Waiting \subseteq Directions
    BY DEF Waiting
  <1>u. ASSUME UNCHANGED <<mask, armedEvents, isRegistered>>, Waiting' \subseteq Waiting
        PROVE  WaiterIsWatched'
    BY <1>0, <1>u DEF WaiterIsWatched
  <1>s. UNCHANGED slot => Waiting' = Waiting
    BY DEF Waiting
  <1>t. \A T : TakeWaiters(T) => Waiting' = Waiting \ T
    BY DEF TakeWaiters, Vacated, Waiting
  <1>1. ASSUME NEW d \in Directions, Await(d) PROVE WaiterIsWatched'
    <2>1. CASE WaitReady(d) \/ WaitStopped(d)
      BY <2>1, <1>u, <1>s DEF WaitReady, WaitStopped
    <2>2. CASE WaitSuspends(d)
      <3>1. Needed(d) \in SUBSET Directions
        BY <1>w DEF Needed
      <3>2. mask' = Needed(d) /\ armedEvents' = mask'
        BY <1>0, <2>2, <3>1, ArmedWatches DEF WaitSuspends
      <3>3. Waiting' \subseteq Waiting \cup {d}
        BY <1>0, <2>2 DEF WaitSuspends, Waiting, TypeOK
      <3> QED
        BY <3>2, <3>3 DEF Needed, WaiterIsWatched
    <2>3. CASE WaitFails(d)
      <3>1. mask' = mask /\ armedEvents' = Unknown /\ Waiting' = Waiting
        BY <2>3, <1>s DEF WaitFails, ArmingFailed
      <3> QED
        BY <1>0, <2>3, <3>1 DEF WaitFails, WaiterIsWatched
    <2> QED
      BY <1>1, <2>1, <2>2, <2>3 DEF Await
  <1>2. ASSUME NEW d \in Directions, RunElsewhere(d) \/ RequestStop(d) PROVE WaiterIsWatched'
    BY <1>2, <1>u, <1>s DEF RunElsewhere, RequestStop
  <1>3. CASE Return \/ LevelChanges \/ Poll \/ EventDropped
    BY <1>3, <1>u, <1>s DEF Return, LevelChanges, Poll, EventDropped
  <1>4. CASE DestroyWriter
    <2>1. Waiting' \subseteq Waiting
      BY <1>4 DEF DestroyWriter, detachWaiter, Vacated, Waiting
    <2> QED
      BY <1>4, <2>1, <1>u DEF DestroyWriter
  <1>5. CASE Destroy
    BY <1>5 DEF Destroy, WaiterIsWatched
  <1>6. CASE Reopen
    <2>1. Waiting' = {}
      BY <1>6 DEF Reopen, Nobody, Waiting
    <2> QED
      BY <1>6, <2>1 DEF Reopen, WaiterIsWatched
  <1>7. CASE HandleEvents
    <2>1. CASE Armed(Wanted) /\ TakeWaiters(About(reported) \cap Waiting)
      <3>1. mask' = Waiting /\ armedEvents' = mask'
        BY <1>0, <1>7, <1>w, <2>1, ArmedWatches DEF HandleEvents, Wanted
      <3>2. Waiting' \subseteq Waiting
        BY <1>t, <2>1
      <3> QED
        BY <3>1, <3>2 DEF WaiterIsWatched
    <2>2. CASE ArmingFailed(Wanted) /\ TakeWaiters(Waiting)
      <3>1. Waiting' = {} /\ armedEvents' = Unknown
        BY <1>t, <2>2 DEF ArmingFailed
      <3> QED
        BY <3>1 DEF WaiterIsWatched
    <2> QED
      BY <1>7, <2>1, <2>2 DEF HandleEvents
  <1>8. ASSUME NEW c \in cancels, RunCancel(c) PROVE WaiterIsWatched'
    <2>1. Waiting' \subseteq Waiting
      BY <1>8, <1>t, <1>s DEF RunCancel
    <2> QED
      BY <1>8, <2>1, <1>u DEF RunCancel
  <1>9. CASE ResumeTaken \/ RunLocal
    BY <1>9, <1>u, <1>s DEF ResumeTaken, RunLocal, Resume
  <1>10. CASE UNCHANGED vars
    BY <1>10, <1>u, <1>s DEF vars
  <1> QED
    BY <1>1, <1>2, <1>3, <1>4, <1>5, <1>6, <1>7, <1>8, <1>9, <1>10 DEF Next

\* A posted cancellation carries the generation of a wait whose token was stopped.
LEMMA CancelsStep == Inv /\ [Next]_vars => OwnCancels'
  <1> SUFFICES ASSUME Inv, [Next]_vars PROVE OwnCancels'
    OBVIOUS
  <1> USE DEF kernelVars, ownVars, loopVars, awaiterVars
  <1>0. TypeOK /\ OwnCancels
    BY DEF Inv
  <1>n. generation \in Nat /\ (\A c \in cancels : c.dir \in Directions /\ c.generation \in Nat /\ c.generation > 0)
    BY <1>0, Bounds DEF TypeOK
  <1>u. ASSUME /\ UNCHANGED generation /\ cancels' \subseteq cancels /\ stopped \subseteq stopped'
               /\ \A d \in Directions : /\ slot'[d] = 0 \/ slot'[d] = slot[d]
                                        /\ callback'[d] = 0 \/ callback'[d] = callback[d]
        PROVE  OwnCancels'
    BY <1>0, <1>n, <1>u DEF OwnCancels
  <1>t. \A T : TakeWaiters(T) => \A d \in Directions : slot'[d] = 0 \/ slot'[d] = slot[d]
    BY DEF TakeWaiters, Vacated
  <1>1. ASSUME NEW d \in Directions, Await(d) PROVE OwnCancels'
    <2>1. CASE WaitReady(d) \/ WaitStopped(d)
      BY <2>1, <1>u DEF WaitReady, WaitStopped
    <2>r. running = d => slot[d] = 0
      BY RunningIsNowhere
    <2>2. CASE WaitSuspends(d)
      <3>1. /\ generation' = generation + 1 /\ cancels' = cancels
            /\ slot'[d] = generation' /\ callback'[d] \in {0, generation'}
            /\ \A e \in Directions \ {d} :
                  slot'[e] = slot[e] /\ callback'[e] = callback[e] /\ (e \in stopped => e \in stopped')
        BY <1>0, <2>2 DEF WaitSuspends, TypeOK
      <3>2. \A e \in Directions : slot[e] \in Nat /\ callback[e] \in Nat
        BY <1>0, Bounds DEF TypeOK
      <3>3. \A e \in Directions : slot'[e] <= generation' /\ callback'[e] <= generation'
        BY <1>0, <1>n, <3>1, <3>2 DEF OwnCancels
      <3>4. ASSUME NEW c \in cancels
            PROVE  c.generation <= generation' /\ (slot'[c.dir] = c.generation => c.dir \in stopped')
        <4>1. c.generation <= generation /\ (slot[c.dir] = c.generation => c.dir \in stopped)
          BY <1>0 DEF OwnCancels
        <4> QED
          BY <1>n, <3>1, <4>1
      <3> QED
        BY <3>1, <3>3, <3>4 DEF OwnCancels
    <2>3. CASE WaitFails(d)
      <3>1. /\ generation' = generation + 1 /\ cancels' = cancels /\ slot' = slot /\ callback' = callback
            /\ stopped' = stopped \ {d} /\ slot[d] = 0
        BY <2>3, <2>r DEF WaitFails
      <3> QED
        BY <1>0, <1>n, <3>1 DEF OwnCancels, TypeOK
    <2> QED
      BY <1>1, <2>1, <2>2, <2>3 DEF Await
  <1>2. ASSUME NEW d \in Directions, RunElsewhere(d) PROVE OwnCancels'
    BY <1>2, <1>u DEF RunElsewhere
  <1>3. ASSUME NEW d \in Directions, RequestStop(d) PROVE OwnCancels'
    <2>1. /\ UNCHANGED <<generation, slot>> /\ stopped' = stopped \cup {d}
          /\ cancels' \subseteq cancels \cup {[dir |-> d, generation |-> callback[d]]}
          /\ \A e \in Directions : callback'[e] = 0 \/ callback'[e] = callback[e]
      BY <1>0, <1>3 DEF RequestStop, TypeOK
    <2> QED
      BY <1>0, <1>n, <2>1 DEF OwnCancels
  <1>4. CASE Return
    <2>1. running \in Directions /\ slot[running] = 0
      BY <1>0, <1>4, RunningIsNowhere DEF Return, TypeOK
    <2>2. UNCHANGED <<generation, slot, callback, cancels>> /\ stopped' = stopped \ {running}
      BY <1>4 DEF Return
    <2> QED
      BY <1>0, <1>n, <2>1, <2>2 DEF OwnCancels
  <1>5. CASE LevelChanges \/ Poll \/ EventDropped
    BY <1>5, <1>u DEF LevelChanges, Poll, EventDropped
  <1>6. CASE DestroyWriter
    <2>1. \A d \in Directions : slot'[d] = 0 \/ slot'[d] = slot[d]
      BY <1>6 DEF DestroyWriter, detachWaiter, Vacated
    <2>2. \A d \in Directions : callback'[d] = 0 \/ callback'[d] = callback[d]
      BY <1>0, <1>6 DEF DestroyWriter, TypeOK
    <2> QED
      BY <1>6, <2>1, <2>2, <1>u DEF DestroyWriter
  <1>7. CASE Destroy
    BY <1>7, <1>u DEF Destroy, Nobody
  <1>8. CASE Reopen
    <2>1. /\ \A d \in Directions : slot'[d] = 0
          /\ UNCHANGED <<generation, callback, cancels>>
      BY <1>8 DEF Reopen, Nobody
    <2> QED
      BY <1>0, <1>n, <2>1 DEF OwnCancels
  <1>9. CASE HandleEvents
    <2>1. \A d \in Directions : slot'[d] = 0 \/ slot'[d] = slot[d]
      BY <1>9, <1>t DEF HandleEvents
    <2> QED
      BY <1>9, <2>1, <1>u DEF HandleEvents
  <1>10. ASSUME NEW c \in cancels, RunCancel(c) PROVE OwnCancels'
    <2>1. \A d \in Directions : slot'[d] = 0 \/ slot'[d] = slot[d]
      BY <1>10, <1>t DEF RunCancel
    <2> QED
      BY <1>10, <2>1, <1>u DEF RunCancel
  <1>11. CASE ResumeTaken \/ RunLocal
    <2>1. \A d \in Directions : callback'[d] = 0 \/ callback'[d] = callback[d]
      BY <1>0, <1>11 DEF ResumeTaken, RunLocal, Resume, TypeOK
    <2> QED
      BY <1>11, <2>1, <1>u DEF ResumeTaken, RunLocal, Resume
  <1>12. CASE UNCHANGED vars
    BY <1>12, <1>u DEF vars
  <1> QED
    BY <1>1, <1>2, <1>3, <1>4, <1>5, <1>6, <1>7, <1>8, <1>9, <1>10, <1>11, <1>12 DEF Next

\* A wait ends for its own reason.
LEMMA EndsStep == Inv /\ [Next]_vars => EndsForItsReason'
  <1> SUFFICES ASSUME Inv, [Next]_vars PROVE EndsForItsReason'
    OBVIOUS
  <1> USE DEF kernelVars, ownVars, loopVars, awaiterVars
  <1>0. TypeOK /\ EndsForItsReason /\ OwnCancels
    BY DEF Inv
  <1>w. Waiting \subseteq Directions
    BY DEF Waiting
  <1>n. modFailures \in Nat
    BY <1>0, Bounds DEF TypeOK
  <1>u. ASSUME stopped \subseteq stopped', UNCHANGED <<isRegistered, outcome, modFailures>>
        PROVE  EndsForItsReason'
    BY <1>0, <1>u DEF EndsForItsReason
  <1>1. ASSUME NEW d \in Directions, Await(d) PROVE EndsForItsReason'
    <2>n. Needed(d) \in SUBSET Directions
      BY <1>w DEF Needed
    <2>1. CASE WaitReady(d) \/ WaitStopped(d)
      BY <1>0, <2>1 DEF WaitReady, WaitStopped, EndsForItsReason, TypeOK
    <2>2. CASE WaitSuspends(d)
      <3>1. modFailures' >= modFailures /\ modFailures' \in Nat
        BY <1>0, <2>2, <2>n, ArmedTypes, Bounds DEF WaitSuspends
      <3> QED
        BY <1>0, <1>n, <2>2, <3>1 DEF WaitSuspends, EndsForItsReason, TypeOK
    <2>3. CASE WaitFails(d)
      <3>1. modFailures' > 0
        BY <1>0, <2>3, <2>n, ArmedTypes DEF WaitFails
      <3> QED
        BY <1>0, <2>3, <3>1 DEF WaitFails, EndsForItsReason, TypeOK
    <2> QED
      BY <1>1, <2>1, <2>2, <2>3 DEF Await
  <1>2. ASSUME NEW d \in Directions, RunElsewhere(d) \/ RequestStop(d) PROVE EndsForItsReason'
    BY <1>2, <1>u DEF RunElsewhere, RequestStop
  <1>3. CASE Return
    BY <1>0, <1>3 DEF Return, EndsForItsReason, TypeOK
  <1>4. CASE LevelChanges \/ Poll \/ EventDropped \/ DestroyWriter
    BY <1>4, <1>u DEF LevelChanges, Poll, EventDropped, DestroyWriter
  <1>5. CASE Destroy
    BY <1>0, <1>5 DEF Destroy, Outcome, EndsForItsReason
  <1>6. CASE Reopen
    BY <1>6 DEF Reopen, EndsForItsReason
  <1>7. CASE HandleEvents
    <2>1. CASE Armed(Wanted) /\ outcome' = Outcome(About(reported) \cap Waiting, "ready")
      <3>1. modFailures' = modFailures
        BY <2>1 DEF Armed
      <3> QED
        BY <1>0, <1>7, <2>1, <3>1 DEF HandleEvents, Outcome, EndsForItsReason
    <2>2. CASE /\ ArmingFailed(Wanted)
               /\ outcome' = [d \in Directions |->
                     IF d \notin Waiting THEN outcome[d]
                     ELSE IF d \in About(reported) THEN "ready" ELSE "closed"]
      <3>1. modFailures' > 0
        BY <1>n, <2>2 DEF ArmingFailed
      <3> QED
        BY <1>0, <1>7, <2>2, <3>1 DEF HandleEvents, EndsForItsReason
    <2> QED
      BY <1>7, <2>1, <2>2 DEF HandleEvents
  <1>8. ASSUME NEW c \in cancels, RunCancel(c) PROVE EndsForItsReason'
    <2>1. CASE isRegistered /\ SameWait(c)
      <3>1. c.dir \in stopped /\ outcome' = Outcome({c.dir}, "cancelled")
        BY <1>0, <1>8, <2>1 DEF RunCancel, SameWait, OwnCancels
      <3> QED
        BY <1>0, <1>8, <3>1 DEF RunCancel, Outcome, EndsForItsReason
    <2>2. CASE ~(isRegistered /\ SameWait(c))
      BY <1>8, <2>2, <1>u DEF RunCancel
    <2> QED
      BY <2>1, <2>2
  <1>9. CASE ResumeTaken \/ RunLocal
    BY <1>9, <1>u DEF ResumeTaken, RunLocal, Resume
  <1>10. CASE UNCHANGED vars
    BY <1>10, <1>u DEF vars
  <1> QED
    BY <1>1, <1>2, <1>3, <1>4, <1>5, <1>6, <1>7, <1>8, <1>9, <1>10 DEF Next

-----------------------------------------------------------------------------
(* Reports nobody waits for                                                *)

\* A report in vain is followed by the kernel being told, or by a failure that counts.
LEMMA QuietStep == Inv /\ [Next]_vars => Quiet'
  <1> SUFFICES ASSUME Inv, [Next]_vars PROVE Quiet'
    OBVIOUS
  <1> USE DEF kernelVars, ownVars, loopVars, awaiterVars
  <1>0. TypeOK /\ WaiterIsWatched /\ Quiet
    BY DEF Inv
  <1>b. /\ modFailures \in Nat
        /\ \A d \in Directions : idleReports[d] \in Nat
        /\ HangUp \notin Directions
    BY <1>0, WatcherAssumption DEF TypeOK, ReportLimit, HangUp, Directions
  <1>w. Waiting \subseteq Directions /\ mask \subseteq Directions
    BY <1>0 DEF Waiting, TypeOK
  <1>u. ASSUME HangUp \in level => HangUp \in level',
               UNCHANGED <<modFailures, idleReports>>,
               \A d \in Directions : Reportable(d)' => Reportable(d) \/ idleReports[d] = 0
        PROVE  Quiet'
    BY <1>0, <1>b, <1>u DEF Quiet
  <1>r. UNCHANGED <<mask, reported>> => \A d \in Directions : Reportable(d)' = Reportable(d)
    BY DEF Reportable, About
  <1>1. ASSUME NEW d \in Directions, Await(d) PROVE Quiet'
    <2>1. CASE WaitReady(d) \/ WaitStopped(d)
      BY <2>1, <1>u, <1>r DEF WaitReady, WaitStopped
    <2>2. CASE WaitSuspends(d)
      <3>1. mask' = Waiting \cup {d} /\ Waiting \subseteq mask
        <4>1. Needed(d) \in SUBSET Directions
          BY <1>w DEF Needed
        <4> QED
          BY <1>0, <2>2, <4>1, ArmedWatches DEF WaitSuspends, Needed, WaiterIsWatched
      <3>2. /\ reported' = reported /\ level' = level
            /\ idleReports' = [idleReports EXCEPT ![d] = 0]
        BY <2>2 DEF WaitSuspends
      <3>3. modFailures' = modFailures
        BY <2>2 DEF WaitSuspends, Armed
      <3>4. \A e \in Directions : idleReports'[e] = IF e = d THEN 0 ELSE idleReports[e]
        BY <1>0, <3>2 DEF TypeOK
      <3>5. \A e \in Directions : Reportable(e)' => Reportable(e) \/ e = d
        BY <3>1, <3>2 DEF Reportable, About
      <3> QED
        BY <1>0, <1>b, <3>2, <3>3, <3>4, <3>5 DEF Quiet
    <2>3. CASE WaitFails(d)
      <3>1. /\ UNCHANGED <<mask, reported, level, idleReports>>
            /\ modFailures' = modFailures + 1
        BY <2>3 DEF WaitFails, ArmingFailed
      <3> QED
        BY <1>0, <1>b, <1>r, <3>1 DEF Quiet
    <2> QED
      BY <1>1, <2>1, <2>2, <2>3 DEF Await
  <1>2. ASSUME NEW d \in Directions, RunElsewhere(d) \/ RequestStop(d) PROVE Quiet'
    BY <1>2, <1>u, <1>r DEF RunElsewhere, RequestStop
  <1>3. CASE Return \/ DestroyWriter
    BY <1>3, <1>u, <1>r DEF Return, DestroyWriter
  <1>4. CASE LevelChanges
    BY <1>4, <1>b, <1>u, <1>r DEF LevelChanges
  <1>5. CASE Poll
    <2>1. CASE HangUp \in level
      BY <1>5, <2>1 DEF Poll, Quiet
    <2>2. CASE HangUp \notin level
      <3>1. /\ reported' \subseteq mask /\ HangUp \notin reported'
            /\ UNCHANGED <<mask, level, modFailures, idleReports>>
        BY <1>5, <1>b, <1>w, <2>2 DEF Poll
      <3>2. \A d \in Directions : Reportable(d)' => Reportable(d)
        BY <3>1 DEF Reportable, About
      <3> QED
        BY <1>u, <3>1, <3>2
    <2> QED
      BY <2>1, <2>2
  <1>6. CASE EventDropped
    <2>1. reported' = {} /\ UNCHANGED <<mask, level, modFailures, idleReports>>
      BY <1>6 DEF EventDropped
    <2>2. \A d \in Directions : Reportable(d)' => Reportable(d)
      BY <2>1 DEF Reportable, About
    <2> QED
      BY <1>u, <2>1, <2>2
  <1>7. CASE Destroy
    <2>1. mask' = {} /\ UNCHANGED <<reported, level, modFailures, idleReports>>
      BY <1>7 DEF Destroy
    <2>2. \A d \in Directions : Reportable(d)' => Reportable(d)
      BY <2>1 DEF Reportable, About
    <2> QED
      BY <1>u, <2>1, <2>2
  <1>8. CASE Reopen
    <2>1. idleReports' = [d \in Directions |-> 0] /\ modFailures' = modFailures
      BY <1>8 DEF Reopen, Nobody
    <2> QED
      BY <1>b, <2>1 DEF Quiet
  <1>9. CASE HandleEvents
    <2> DEFINE D == About(reported)
    <2>1. /\ reported' = {} /\ level' = level
          /\ ReportIdle(D)
      BY <1>9 DEF HandleEvents
    <2>2. \A d \in Directions : Reportable(d)' => d \in mask'
      BY <1>b, <2>1 DEF Reportable, About
    <2>3. \A d \in Directions :
             /\ idleReports'[d] <= idleReports[d] + 1
             /\ d \notin D \/ d \in Waiting => idleReports'[d] = idleReports[d]
      BY <1>b, <2>1 DEF ReportIdle
    <2>4. \A d \in Directions : idleReports'[d] \in Nat
      BY <1>b, <2>1 DEF ReportIdle
    <2>5. \A d \in D : Reportable(d)
      BY DEF Reportable
    <2>6. CASE Armed(Wanted)
      <3>1. mask' = Waiting /\ Waiting \subseteq mask /\ modFailures' = modFailures
        BY <1>0, <1>9, <1>w, <2>6, ArmedWatches
           DEF HandleEvents, Wanted, WaiterIsWatched, Armed
      <3>2. \A d \in Waiting : Reportable(d)
        BY <3>1 DEF Reportable
      <3> HIDE DEF D
      <3> QED
        BY <1>0, <1>b, <2>1, <2>2, <2>3, <2>4, <2>5, <3>1, <3>2 DEF Quiet
    <2>7. CASE ArmingFailed(Wanted)
      <3>1. mask' = mask /\ modFailures' = modFailures + 1
        BY <2>7 DEF ArmingFailed
      <3>2. \A d \in mask : Reportable(d)
        BY DEF Reportable
      <3> HIDE DEF D
      <3> QED
        BY <1>0, <1>b, <2>1, <2>2, <2>3, <2>4, <2>5, <3>1, <3>2 DEF Quiet
    <2> QED
      BY <1>9, <2>6, <2>7 DEF HandleEvents
  <1>10. ASSUME NEW c \in cancels, RunCancel(c) PROVE Quiet'
    BY <1>10, <1>u, <1>r DEF RunCancel
  <1>11. CASE ResumeTaken \/ RunLocal
    BY <1>11, <1>u, <1>r DEF ResumeTaken, RunLocal, Resume
  <1>12. CASE UNCHANGED vars
    BY <1>12, <1>u, <1>r DEF vars
  <1> QED
    BY <1>1, <1>2, <1>3, <1>4, <1>5, <1>6, <1>7, <1>8, <1>9, <1>10, <1>11, <1>12 DEF Next

-----------------------------------------------------------------------------
(* The theorems                                                            *)

\* The inductive invariant holds, however many waits, watchers at the same address and
\* failures there are.
THEOREM IoWatcherInvariant == Spec => []Inv
  <1>1. Init => Inv
    BY InvInit
  <1>2. Inv /\ [Next]_vars => Inv'
    BY TypeStep, HandsStep, PlaceStep, WatchedStep, CancelsStep, EndsStep,
       QuietStep DEF Inv
  <1> QED
    BY <1>1, <1>2, PTL DEF Spec

\* Types are correct.
THEOREM IoWatcherTypeCorrect == Spec => []TypeOK
  <1>1. Inv => TypeOK
    BY DEF Inv
  <1> QED
    BY <1>1, IoWatcherInvariant, PTL

\* Every suspended coroutine is in one place, and no freed frame is in any: nobody is
\* lost, resumed twice or resumed after its death (IoWatcher.cpp:219, :318).
THEOREM IoWatcherOnePlace == Spec => []InOnePlace
  <1>1. Inv => InOnePlace
    BY DEF Inv
  <1> QED
    BY <1>1, IoWatcherInvariant, PTL

\* An awaiter's destructor calls only a watcher that lives and has it in its slot
\* (IoWatcher.cpp:198).
THEOREM IoWatcherAttached == Spec => []AttachedWhileInSlot
  <1>1. Inv => AttachedWhileInSlot
    BY DEF Inv
  <1> QED
    BY <1>1, IoWatcherInvariant, PTL

\* The kernel watches every direction somebody waits for (IoWatcher.cpp:464).
THEOREM IoWatcherWatches == Spec => []WaiterIsWatched
  <1>1. Inv => WaiterIsWatched
    BY DEF Inv
  <1> QED
    BY <1>1, IoWatcherInvariant, PTL

\* No cancellation hits a wait other than its own, and none ends as closed for nothing
\* (IoWatcher.cpp:374).
THEOREM IoWatcherEndsForItsReason == Spec => []EndsForItsReason
  <1>1. Inv => EndsForItsReason
    BY DEF Inv
  <1> QED
    BY <1>1, IoWatcherInvariant, PTL

\* While the peer has not hung up, a direction nobody waits for is reported once, and once
\* more for every failed epoll_ctl(): the loop does not spin on it (IoWatcher.cpp:460).
THEOREM IoWatcherQuiet == Spec => []QuietUntilHangUp
  <1>1. Inv => QuietUntilHangUp
    BY DEF Inv, Quiet, QuietUntilHangUp
  <1> QED
    BY <1>1, IoWatcherInvariant, PTL
=============================================================================
