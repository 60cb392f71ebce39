-------------------------- MODULE TimerQueueProofs --------------------------
(***************************************************************************)
(* Proofs about TimerQueue for any set of waits and any durations, and at  *)
(* the end about TimerHeap, which shows that the heap is the set TimerQueue *)
(* takes it for.                                                           *)
(*                                                                         *)
(* The inductive invariant Inv.  That a resumption comes in order of       *)
(* deadlines is a fact about the table that dispatchExpired fills, so      *)
(* Ordered says it of the table, and adds that whatever is still in the    *)
(* heap is due later: the next round appends to a table that is still in   *)
(* use.  That the table is in order needs each awaiter to be in one place  *)
(* and once (NoDanglingAwaiter).  That arming again is not skipped by      *)
(* mistake needs an armed descriptor to be one that fires or has fired     *)
(* (Pending), and the nearest deadline exists because the heap is finite.  *)
(*                                                                         *)
(* The heap.  A sifting loop is a repetition of its turn (UpRule and       *)
(* DownRule), a turn keeps all awaiters in order but the one that moves    *)
(* (Rising, Sinking), and a turn that changes nothing leaves a heap in     *)
(* order; each loop comes to such a turn because places are bounded.       *)
(***************************************************************************)
EXTENDS TimerQueue, TimerHeap, SubsequencesProofs

-----------------------------------------------------------------------------
(* Arithmetic                                                              *)

\* Division rounds down.
LEMMA DivisionBounds ==
    ASSUME NEW a \in Int, NEW b \in Nat \ {0}
    PROVE  /\ a \div b \in Int
           /\ b * (a \div b) <= a
  OBVIOUS

\* A product grows with its factor.
LEMMA ProductGrows ==
    ASSUME NEW a \in Int, NEW b \in Int, NEW c \in Nat, a <= b
    PROVE  a * c <= b * c /\ a * c = c * a /\ b * c = c * b
  OBVIOUS

\* Products of naturals are naturals.
LEMMA ProductType ==
    ASSUME NEW a \in Int, NEW b \in Int
    PROVE  a * b \in Int /\ (a >= 0 /\ b >= 0 => a * b >= 0)
  OBVIOUS

\* A deadline is not in the past and not after the end of time.
LEMMA DeadlineBounds ==
    ASSUME now \in 0 .. MaxNow, NEW d \in Durations
    PROVE  computeDeadline(d) \in now .. Horizon
<1> DEFINE q == (Horizon - now) \div TicksPerMs
<1>1. /\ now \in Nat /\ Horizon \in Nat /\ now < Horizon /\ d \in Nat
      /\ TicksPerMs \in Nat \ {0}
  BY TimerAssumption
<1>2. q \in Int /\ TicksPerMs * q <= Horizon - now
  BY <1>1, DivisionBounds
<1> HIDE DEF q
<1>3. CASE d >= q
  BY <1>1, <1>3 DEF computeDeadline, q
<1>4. CASE ~ (d >= q)
  <2>1. d <= q
    BY <1>1, <1>2, <1>4
  <2>2. d * TicksPerMs <= q * TicksPerMs /\ q * TicksPerMs = TicksPerMs * q
    BY <1>1, <1>2, <2>1, ProductGrows
  <2>3. d * TicksPerMs \in Int /\ d * TicksPerMs >= 0 /\ q * TicksPerMs \in Int
    BY <1>1, <1>2, ProductType
  <2>4. computeDeadline(d) = now + d * TicksPerMs
    BY <1>4 DEF computeDeadline, q
  <2> QED
    BY <1>1, <1>2, <2>2, <2>3, <2>4
<1> QED
  BY <1>3, <1>4

\* The descriptor fires after now, and at most a millisecond after the end of time.
LEMMA FiringBounds ==
    ASSUME now \in 0 .. MaxNow, NEW n \in 0 .. Horizon
    PROVE  now + TicksPerMs * armedDurationFor(n) \in Moments
<1> DEFINE a == n - now + TicksPerMs - 1
           q == a \div TicksPerMs
<1>1. /\ now \in Nat /\ Horizon \in Nat /\ now < Horizon /\ n \in Nat /\ n <= Horizon
      /\ TicksPerMs \in Nat \ {0}
  BY TimerAssumption
<1>2. a \in Int
  BY <1>1
<1>3. q \in Int /\ TicksPerMs * q <= a
  <2> HIDE DEF a
  <2> QED
    BY <1>1, <1>2, DivisionBounds
<1>4. armedDurationFor(n) = IF q > 0 THEN q ELSE 1
  BY DEF armedDurationFor
<1>5. 2 * TicksPerMs = TicksPerMs + TicksPerMs
  BY <1>1
<1> HIDE DEF q
<1>6. CASE q > 0
  <2>1. TicksPerMs * q \in Int /\ TicksPerMs * q >= 0
    BY <1>1, <1>3, <1>6, ProductType
  <2> QED
    BY <1>1, <1>3, <1>4, <1>5, <1>6, <2>1 DEF Moments
<1>7. CASE ~ (q > 0)
  <2>1. TicksPerMs * armedDurationFor(n) = TicksPerMs
    BY <1>1, <1>4, <1>7
  <2> QED
    BY <1>1, <1>5, <2>1 DEF Moments
<1> QED
  BY <1>6, <1>7

-----------------------------------------------------------------------------
(* The descriptor                                                          *)

Descriptors ==
    [armed : {None} \cup 0 .. Horizon, fireAt : {None} \cup Moments,
     readable : BOOLEAN, failures : 0 .. MaxArmFailures]

\* A descriptor that the books have armed will fire, or has fired.
Pending(f) == f.armed # None => f.fireAt # None \/ f.readable

Sound(f) == f \in Descriptors /\ Pending(f)

\* A call of timerfd_settime(): either it fails, which is counted, or it does what it is for.
LEMMA SettimeKeeps ==
    ASSUME NEW f \in Descriptors,
           NEW armed \in {None} \cup 0 .. Horizon, NEW fireAt \in {None} \cup Moments,
           armed # None => fireAt # None,
           NEW g \in Settime(f, armed, fireAt)
    PROVE  /\ Sound(g)
           /\ f.failures <= g.failures
           /\ g.failures = f.failures => g.armed = armed
<1>0. /\ f.failures \in 0 .. MaxArmFailures /\ MaxArmFailures \in Nat
      /\ f.readable \in BOOLEAN
      /\ f.armed \in {None} \cup 0 .. Horizon /\ f.fireAt \in {None} \cup Moments
      /\ f = [armed |-> f.armed, fireAt |-> f.fireAt, readable |-> f.readable,
              failures |-> f.failures]
  BY TimerAssumption DEF Descriptors
<1>1. CASE g = [f EXCEPT !.armed = armed, !.fireAt = fireAt, !.readable = FALSE]
  <2>1. g = [armed |-> armed, fireAt |-> fireAt, readable |-> FALSE, failures |-> f.failures]
    BY <1>1 DEF Descriptors
  <2> QED
    BY <1>0, <2>1 DEF Sound, Pending, Descriptors
<1>2. CASE /\ g = [f EXCEPT !.armed = None, !.failures = @ + 1]
           /\ f.failures < MaxArmFailures
  <2>1. g = [armed |-> None, fireAt |-> f.fireAt, readable |-> f.readable,
             failures |-> f.failures + 1]
    BY <1>2 DEF Descriptors
  <2>2. f.failures + 1 \in 0 .. MaxArmFailures
    BY <1>0, <1>2
  <2>3. g \in Descriptors
    BY <1>0, <2>1, <2>2 DEF Descriptors
  <2>4. Pending(g)
    BY <2>1 DEF Pending
  <2>5. g.failures = f.failures + 1
    BY <2>1
  <2> QED
    BY <1>0, <2>3, <2>4, <2>5 DEF Sound
<1> QED
  BY <1>1, <1>2 DEF Settime

\* rearm() leaves a descriptor that will fire; and, unless a call failed, the nearest wait's.
LEMMA RearmKeeps ==
    ASSUME now \in 0 .. MaxNow,
           NEW f, Sound(f),
           NEW h \in SUBSET Timers, NEW dl \in [Timers -> 0 .. Horizon],
           NEW g \in rearm(h, dl, f)
    PROVE  /\ Sound(g)
           /\ f.failures <= g.failures
           /\ g.failures = f.failures /\ h # {} => g.armed \in Nearest(h, dl)
<1>0. f \in Descriptors /\ f.failures \in Int
  BY DEF Sound, Descriptors
<1>1. CASE h = {}
  <2>1. CASE f.armed = None
    BY <1>0, <1>1, <2>1 DEF rearm
  <2>2. CASE f.armed # None
    <3>1. g \in Settime(f, None, None)
      BY <1>1, <2>2 DEF rearm
    <3> QED
      BY <1>0, <1>1, <3>1, SettimeKeeps
  <2> QED
    BY <2>1, <2>2
<1>2. CASE h # {}
  <2>1. PICK n \in Nearest(h, dl) :
            g \in IF ArmedFor(f, n) THEN {f}
                  ELSE Settime(f, n, now + TicksPerMs * armedDurationFor(n))
    BY <1>2 DEF rearm
  <2>2. n \in 0 .. Horizon
    BY DEF Nearest
  <2>3. CASE ArmedFor(f, n)
    BY <1>0, <2>1, <2>3 DEF ArmedFor
  <2>4. CASE ~ArmedFor(f, n)
    <3> DEFINE fires == now + TicksPerMs * armedDurationFor(n)
    <3>1. fires \in Moments
      BY <2>2, FiringBounds
    <3>2. fires # None
      BY <3>1 DEF Moments, None
    <3>3. g \in Settime(f, n, fires)
      BY <2>1, <2>4
    <3> HIDE DEF fires
    <3>4. Sound(g) /\ f.failures <= g.failures /\ (g.failures = f.failures => g.armed = n)
      BY <1>0, <2>2, <3>1, <3>2, <3>3, SettimeKeeps
    <3> QED
      BY <2>1, <3>4
  <2> QED
    BY <2>3, <2>4
<1> QED
  BY <1>1, <1>2

\* The two rearm() calls of one round of the driver.
LEMMA RearmedTwiceKeeps ==
    ASSUME now \in 0 .. MaxNow, deadline \in [Timers -> 0 .. Horizon],
           NEW f, Sound(f), NEW h \in SUBSET Timers, NEW g \in RearmedTwice(h, f)
    PROVE  /\ Sound(g)
           /\ f.failures <= g.failures
           /\ g.failures = f.failures /\ h # {} => g.armed \in Nearest(h, deadline)
<1>1. PICK e \in rearm(h, deadline, f) : g \in rearm(h, deadline, e)
  BY DEF RearmedTwice
<1>2. Sound(e) /\ f.failures <= e.failures
  BY <1>1, RearmKeeps
<1>3. /\ Sound(g) /\ e.failures <= g.failures
      /\ g.failures = e.failures /\ h # {} => g.armed \in Nearest(h, deadline)
  BY <1>1, <1>2, RearmKeeps
<1>4. f.failures \in Int /\ e.failures \in Int /\ g.failures \in Int
  BY <1>2, <1>3 DEF Sound, Descriptors
<1> QED
  BY <1>2, <1>3, <1>4

\* A descriptor that was read is not armed.
LEMMA DrainedKeeps ==
    ASSUME NEW f, Sound(f)
    PROVE  Sound(Drained(f)) /\ Drained(f).failures = f.failures
<1>1. /\ f \in Descriptors
      /\ f.failures \in 0 .. MaxArmFailures /\ f.fireAt \in {None} \cup Moments
  BY DEF Sound, Descriptors
<1>2. Drained(f) = [f EXCEPT !.armed = None, !.readable = FALSE]
  BY DEF Drained
<1>3. Drained(f) = [armed |-> None, fireAt |-> f.fireAt, readable |-> FALSE,
                    failures |-> f.failures]
  BY <1>1, <1>2 DEF Descriptors
<1>4. Drained(f) \in Descriptors
  <2> DEFINE g == [armed |-> None, fireAt |-> f.fireAt, readable |-> FALSE,
                   failures |-> f.failures]
  <2>1. g \in Descriptors
    BY <1>1 DEF Descriptors
  <2> QED
    BY <1>3, <2>1
<1>5. Drained(f).armed = None /\ Drained(f).failures = f.failures
  BY <1>3
<1> QED
  BY <1>4, <1>5 DEF Sound, Pending

\* What is nearest depends on the deadlines of the members of the heap only.
LEMMA NearestLocal ==
    ASSUME NEW h, NEW dl, NEW el, \A t \in h : dl[t] = el[t]
    PROVE  Nearest(h, dl) = Nearest(h, el)
<1>1. {dl[t] : t \in h} = {el[t] : t \in h}
  OBVIOUS
<1>2. \A x : (\A t \in h : x <= dl[t]) <=> (\A t \in h : x <= el[t])
  OBVIOUS
<1> QED
  BY <1>1, <1>2 DEF Nearest

-----------------------------------------------------------------------------
(* Lists in the order of deadlines                                         *)

\* The entries of s have ascending deadlines dl.
InOrder(s, dl) == \A i, j \in DOMAIN s : i <= j => dl[s[i]] <= dl[s[j]]

\* Taking entries out keeps the order.
LEMMA WithoutInOrder ==
    ASSUME NEW s \in Seq(Timers), NEW K, NEW dl, InOrder(s, dl)
    PROVE  InOrder(Without(s, K), dl)
<1> DEFINE L == ToSet(s) \ K
           o == Only(s, L)
<1>1. PICK m \in [1 .. Len(o) -> Kept(s, L)] :
          /\ \A k \in 1 .. Len(o) : o[k] = s[m[k]]
          /\ \A k, l \in 1 .. Len(o) : k < l => m[k] < m[l]
  BY OnlyEmbeds
<1>2. o \in Seq(Timers) /\ DOMAIN o = 1 .. Len(o) /\ Len(o) \in Nat
  <2>1. o \in Seq(Timers)
    BY OnlyProperties
  <2> QED
    BY <2>1
<1>3. \A i \in Kept(s, L) : i \in DOMAIN s /\ i \in Int
  BY DEF Kept
<1> HIDE DEF o, L
<1>4. ASSUME NEW k \in 1 .. Len(o), NEW l \in 1 .. Len(o), k <= l
      PROVE  dl[o[k]] <= dl[o[l]]
  <2>1. m[k] \in DOMAIN s /\ m[l] \in DOMAIN s /\ m[k] \in Int /\ m[l] \in Int
    BY <1>1, <1>3
  <2>2. m[k] <= m[l]
    BY <1>1, <1>2, <1>4, <2>1
  <2> QED
    BY <1>1, <1>4, <2>1, <2>2 DEF InOrder
<1>5. InOrder(o, dl)
  BY <1>2, <1>4 DEF InOrder
<1> QED
  BY <1>5 DEF o, L, Without

\* So does taking the head.
LEMMA TailInOrder ==
    ASSUME NEW s \in Seq(Timers), s # << >>, NEW dl, InOrder(s, dl)
    PROVE  InOrder(Tail(s), dl)
<1> DEFINE u == Tail(s)
<1>1. /\ DOMAIN s = 1 .. Len(s) /\ Len(s) \in Nat
      /\ u \in Seq(Timers) /\ Len(u) = Len(s) - 1
      /\ \A i \in 1 .. Len(u) : u[i] = s[i + 1]
  BY HeadTailProperties, LenProperties
<1>2. DOMAIN u = 1 .. Len(u)
  BY <1>1, LenProperties
<1> HIDE DEF u
<1>3. ASSUME NEW i \in 1 .. Len(u), NEW j \in 1 .. Len(u), i <= j
      PROVE  dl[u[i]] <= dl[u[j]]
  <2>1. i + 1 \in 1 .. Len(s) /\ j + 1 \in 1 .. Len(s) /\ i + 1 <= j + 1
    BY <1>1, <1>3
  <2>2. dl[s[i + 1]] <= dl[s[j + 1]]
    BY <1>1, <2>1 DEF InOrder
  <2> QED
    BY <1>1, <2>2
<1>4. InOrder(u, dl)
  BY <1>2, <1>3 DEF InOrder
<1> QED
  BY <1>4 DEF u

\* So does joining a list whose deadlines are all later.
LEMMA ConcatInOrder ==
    ASSUME NEW s \in Seq(Timers), NEW t \in Seq(Timers), NEW dl,
           InOrder(s, dl), InOrder(t, dl),
           \A x \in ToSet(s), y \in ToSet(t) : dl[x] <= dl[y]
    PROVE  InOrder(s \o t, dl)
<1> DEFINE u == s \o t
           m == Len(s)
           n == Len(t)
<1>1. /\ DOMAIN u = 1 .. m + n /\ DOMAIN s = 1 .. m /\ DOMAIN t = 1 .. n
      /\ m \in Nat /\ n \in Nat
      /\ \A i \in 1 .. m + n : u[i] = IF i <= m THEN s[i] ELSE t[i - m]
  BY ConcatProperties
<1> HIDE DEF u, m, n
<1>2. /\ \A i \in 1 .. m : s[i] \in ToSet(s)
      /\ \A i \in 1 .. n : t[i] \in ToSet(t)
  BY <1>1 DEF ToSet
<1>3. ASSUME NEW i \in 1 .. m + n, NEW j \in 1 .. m + n, i <= j
      PROVE  dl[u[i]] <= dl[u[j]]
  <2>1. CASE j <= m
    <3>1. i \in 1 .. m /\ j \in 1 .. m
      BY <1>1, <1>3, <2>1
    <3> QED
      BY <1>1, <1>3, <3>1 DEF InOrder
  <2>2. CASE i <= m /\ ~ (j <= m)
    <3>1. i \in 1 .. m /\ j - m \in 1 .. n
      BY <1>1, <2>2
    <3>2. u[i] = s[i] /\ u[j] = t[j - m]
      BY <1>1, <2>2
    <3> QED
      BY <1>2, <3>1, <3>2
  <2>3. CASE ~ (i <= m)
    <3>1. i - m \in 1 .. n /\ j - m \in 1 .. n /\ i - m <= j - m
      BY <1>1, <1>3, <2>3
    <3>2. u[i] = t[i - m] /\ u[j] = t[j - m]
      BY <1>1, <1>3, <2>3
    <3> QED
      BY <1>1, <3>1, <3>2 DEF InOrder
  <2> QED
    BY <1>1, <2>1, <2>2, <2>3
<1>4. InOrder(u, dl)
  BY <1>1, <1>3 DEF InOrder
<1> QED
  BY <1>4 DEF u

\* A list of as many entries as the set has members, without repetition, is the whole set.
LEMMA DeadlineOrderOfSet ==
    ASSUME NEW D \in SUBSET Timers, IsFiniteSet(D), deadline \in [Timers -> 0 .. Horizon],
           NEW s \in InDeadlineOrder(D)
    PROVE  /\ s \in Seq(Timers)
           /\ ToSet(s) = D
           /\ IsInjective(s)
           /\ InOrder(s, deadline)
<1> DEFINE n == Cardinality(D)
<1>1. n \in Nat
  BY FS_CardinalityType
<1>2. /\ s \in [1 .. n -> D] /\ IsInjective(s)
      /\ \A i, j \in DOMAIN s : i < j => deadline[s[i]] <= deadline[s[j]]
  BY DEF InDeadlineOrder
<1>3. s \in Seq(Timers)
  BY <1>1, <1>2
<1>4. ToSet(s) = D
  <2>1. s \in Injection(1 .. n, D)
    BY <1>2 DEF Injection
  <2>2. Cardinality(1 .. n) = n /\ IsFiniteSet(1 .. n)
    BY <1>1, FS_Interval
  <2>3. s \in Surjection(1 .. n, D)
    <3> HIDE DEF n
    <3>1. Cardinality(1 .. n) = Cardinality(D)
      BY <2>2 DEF n
    <3> QED
      BY <2>1, <3>1, FS_Injection
  <2>4. \A y \in D : \E i \in 1 .. n : s[i] = y
    BY <2>3 DEF Surjection
  <2> HIDE DEF n
  <2>5. \A y : y \in ToSet(s) <=> \E i \in 1 .. n : y = s[i]
    BY <1>2 DEF ToSet
  <2>6. \A y \in ToSet(s) : y \in D
    BY <1>2, <2>5
  <2>7. \A y \in D : y \in ToSet(s)
    BY <2>4, <2>5
  <2> QED
    BY <2>6, <2>7
<1>5. InOrder(s, deadline)
  <2> HIDE DEF n
  <2>1. ASSUME NEW i \in 1 .. n, NEW j \in 1 .. n, i <= j
        PROVE  deadline[s[i]] <= deadline[s[j]]
    <3>1. s[i] \in Timers /\ s[j] \in Timers
      BY <1>2
    <3>2. deadline[s[i]] \in Int /\ deadline[s[j]] \in Int
      BY <3>1
    <3>3. CASE i = j
      BY <3>2, <3>3
    <3>4. CASE i # j
      BY <1>1, <1>2, <2>1, <3>4
    <3> QED
      BY <3>3, <3>4
  <2> QED
    BY <1>2, <2>1 DEF InOrder
<1> QED
  BY <1>2, <1>3, <1>4, <1>5

-----------------------------------------------------------------------------
(* The inductive invariant                                                 *)

\* The table is in order, holds what is due only, and all of it was due before what is in
\* the heap.
Ordered ==
    /\ InOrder(expiredAwaiters, deadline)
    /\ \A e \in ToSet(expiredAwaiters) :
          deadline[e] <= now /\ \A t \in heap : deadline[e] <= deadline[t]

Inv ==
    /\ TypeOK
    /\ IsFiniteSet(heap)
    /\ NoDanglingAwaiter
    /\ NobodyIsForgotten
    /\ Ordered
    /\ Pending(fd)

\* What TypeOK says, one variable at a time.
LEMMA TypeParts ==
    ASSUME TypeOK
    PROVE  /\ now \in 0 .. MaxNow /\ now \in Nat
           /\ suspended \in SUBSET Timers /\ isQueued \in SUBSET Timers
           /\ isPendingResume \in SUBSET Timers /\ heap \in SUBSET Timers
           /\ deadline \in [Timers -> 0 .. Horizon]
           /\ expiredAwaiters \in Seq(Timers)
           /\ fd \in Descriptors
           /\ driver \in {"Idle", "Scheduled", "Waiting", "Dead", "Gone"}
           /\ ready \in BOOLEAN /\ interest \in BOOLEAN
           /\ reported \in BOOLEAN /\ resuming \in BOOLEAN
           /\ posted \in 0 .. MaxPosted /\ MaxPosted \in Nat
<1>1. now \in 0 .. MaxNow /\ MaxNow \in Nat /\ MaxPosted \in Nat
  BY TimerAssumption DEF TypeOK
<1> QED
  BY <1>1 DEF TypeOK, Descriptors

\* The table is empty when it has no members.
LEMMA EmptyTable ==
    ASSUME NEW s \in Seq(Timers)
    PROVE  /\ s = << >> <=> ToSet(s) = {}
           /\ ToSet(s) \subseteq Timers
<1>1. DOMAIN s = 1 .. Len(s) /\ Len(s) \in Nat /\ (s # << >> => Len(s) \in Nat \ {0})
  BY EmptySeq, LenProperties
<1>2. ToSet(s) = {s[i] : i \in DOMAIN s}
  BY DEF ToSet
<1>3. ASSUME s # << >> PROVE ToSet(s) # {}
  <2>1. 1 \in DOMAIN s
    BY <1>1, <1>3
  <2> QED
    BY <1>2, <2>1
<1>4. ToSet(<< >>) = {}
  BY DEF ToSet
<1>5. \A i \in DOMAIN s : s[i] \in Timers
  BY <1>1, ElementOfSeq
<1> QED
  BY <1>2, <1>3, <1>4, <1>5

\* The program starts with an empty queue.
LEMMA InitInv == Init => Inv
<1> SUFFICES ASSUME Init PROVE Inv
  OBVIOUS
<1>1. ToSet(<< >>) = {} /\ << >> \in Seq(Timers) /\ DOMAIN << >> = {}
  BY DEF ToSet
<1>2. IsInjective(<< >>) /\ InOrder(<< >>, deadline)
  BY <1>1 DEF IsInjective, InOrder
<1>3. TypeOK
  <2>1. /\ 0 \in 0 .. MaxNow /\ 0 \in 0 .. Horizon
        /\ 0 \in 0 .. MaxArmFailures /\ 0 \in 0 .. MaxPosted
    BY TimerAssumption
  <2>2. fd \in [armed : {None} \cup 0 .. Horizon, fireAt : {None} \cup Moments,
                readable : BOOLEAN, failures : 0 .. MaxArmFailures]
    BY <2>1 DEF Init
  <2>3. deadline \in [Timers -> 0 .. Horizon]
    BY <2>1 DEF Init
  <2> QED
    BY <1>1, <2>1, <2>2, <2>3 DEF Init, TypeOK
<1>4. IsFiniteSet(heap) /\ NoDanglingAwaiter
  BY <1>1, <1>2, FS_EmptySet DEF Init, NoDanglingAwaiter
<1>5. NobodyIsForgotten
  BY <1>1 DEF Init, NobodyIsForgotten
<1>6. Ordered
  BY <1>1, <1>2 DEF Init, Ordered
<1>7. Pending(fd)
  BY DEF Init, Pending
<1> QED
  BY <1>3, <1>4, <1>5, <1>6, <1>7 DEF Inv

-----------------------------------------------------------------------------
(* Waits that begin and end                                                *)

\* A wait begins.
LEMMA WaitKeeps ==
    ASSUME Inv, NEW t \in Timers, NEW d \in Durations, Wait(t, d)
    PROVE  Inv'
<1>0. TypeOK
  BY DEF Inv
<1>1. /\ now \in 0 .. MaxNow /\ now \in Nat /\ now' = now
      /\ suspended \in SUBSET Timers /\ heap \in SUBSET Timers
      /\ deadline \in [Timers -> 0 .. Horizon]
      /\ expiredAwaiters \in Seq(Timers) /\ Sound(fd)
  BY <1>0, TypeParts DEF Wait, Inv, Sound
<1>2. computeDeadline(d) \in now .. Horizon /\ computeDeadline(d) \in 0 .. Horizon
  <2>1. computeDeadline(d) \in now .. Horizon
    BY <1>1, DeadlineBounds
  <2> QED
    BY <1>1, <2>1
<1>3. /\ heap' \in SUBSET Timers
      /\ deadline' \in [Timers -> 0 .. Horizon]
      /\ deadline'[t] = computeDeadline(d)
      /\ \A u \in Timers \ {t} : deadline'[u] = deadline[u]
  BY <1>1, <1>2 DEF Wait
<1>4. Sound(fd')
  <2>1. fd' \in rearm(heap', deadline', fd)
    BY DEF Wait
  <2> QED
    BY <1>1, <1>3, <2>1, RearmKeeps
<1>5. /\ t \notin ToSet(expiredAwaiters) /\ t \notin isPendingResume /\ t \notin heap
      /\ ToSet(expiredAwaiters) \subseteq Timers
  BY <1>1, EmptyTable DEF Inv, NoDanglingAwaiter, Wait
<1>6. TypeOK'
  BY <1>0, <1>3, <1>4 DEF TypeOK, Wait, Sound, Descriptors, watcherVars, resumeVars
<1>7. IsFiniteSet(heap') /\ NoDanglingAwaiter'
  BY <1>5, FS_AddElement DEF Inv, NoDanglingAwaiter, Wait
<1>8. NobodyIsForgotten'
  BY DEF Inv, NobodyIsForgotten, Wait, resumeVars
<1>9. Ordered'
  <2>1. expiredAwaiters' = expiredAwaiters /\ heap' = heap \cup {t}
    BY DEF Wait
  <2>2. \A e \in ToSet(expiredAwaiters) : deadline'[e] = deadline[e]
    BY <1>3, <1>5
  <2>3. \A i \in DOMAIN expiredAwaiters : expiredAwaiters[i] \in ToSet(expiredAwaiters)
    BY DEF ToSet
  <2>4. InOrder(expiredAwaiters, deadline')
    BY <2>2, <2>3 DEF InOrder, Inv, Ordered
  <2>5. \A u \in heap : deadline'[u] = deadline[u]
    BY <1>1, <1>3, <1>5
  <2>6. ASSUME NEW e \in ToSet(expiredAwaiters)
        PROVE  deadline'[e] <= now' /\ \A u \in heap' : deadline'[e] <= deadline'[u]
    <3>1. deadline'[e] = deadline[e] /\ deadline[e] <= now /\ deadline[e] \in Int
          /\ \A u \in heap : deadline[e] <= deadline[u]
      BY <1>1, <1>5, <2>2 DEF Inv, Ordered
    <3>2. deadline'[e] <= deadline'[t]
      BY <1>1, <1>2, <1>3, <3>1
    <3> QED
      BY <1>1, <2>1, <2>5, <3>1, <3>2
  <2> QED
    BY <2>1, <2>4, <2>6 DEF Ordered
<1> QED
  BY <1>4, <1>6, <1>7, <1>8, <1>9 DEF Inv, Sound

\* A frame is destroyed while it waits.
LEMMA DestroyKeeps ==
    ASSUME Inv, NEW t \in Timers, Destroy(t)
    PROVE  Inv'
<1>0. TypeOK
  BY DEF Inv
<1>1. /\ now \in 0 .. MaxNow /\ now' = now
      /\ suspended \in SUBSET Timers /\ heap \in SUBSET Timers
      /\ deadline \in [Timers -> 0 .. Horizon]
      /\ expiredAwaiters \in Seq(Timers) /\ Sound(fd)
  BY <1>0, TypeParts DEF Destroy, Inv, Sound
<1>2. heap = isQueued /\ ToSet(expiredAwaiters) = isPendingResume
      /\ IsInjective(expiredAwaiters)
  BY DEF Inv, NoDanglingAwaiter
<1>3. heap' = heap \ {t} /\ heap' \in SUBSET Timers
  BY <1>1, <1>2 DEF Destroy, Removed
<1>4. Sound(fd')
  <2>1. CASE t \in isQueued /\ t \in heap
    <3>1. fd' \in rearm(heap', deadline, fd)
      BY <2>1 DEF Destroy, Removed
    <3> QED
      BY <1>1, <1>3, <3>1, RearmKeeps
  <2>2. CASE ~ (t \in isQueued /\ t \in heap)
    BY <1>1, <2>2 DEF Destroy
  <2> QED
    BY <2>1, <2>2
<1>5. /\ expiredAwaiters' \in Seq(Timers)
      /\ ToSet(expiredAwaiters') = ToSet(expiredAwaiters) \ {t}
      /\ IsInjective(expiredAwaiters')
      /\ InOrder(expiredAwaiters', deadline)
  <2>1. CASE t \in isPendingResume
    <3>1. expiredAwaiters' = Without(expiredAwaiters, {t})
      BY <2>1 DEF Destroy, cancelPendingResume
    <3>2. InOrder(expiredAwaiters, deadline)
      BY DEF Inv, Ordered
    <3> QED
      BY <1>1, <1>2, <3>1, <3>2, WithoutProperties, WithoutInOrder
  <2>2. CASE t \notin isPendingResume
    <3>1. expiredAwaiters' = expiredAwaiters
      BY <2>2 DEF Destroy
    <3> QED
      BY <1>1, <1>2, <2>2, <3>1 DEF Inv, Ordered
  <2> QED
    BY <2>1, <2>2
<1>6. /\ deadline' \in [Timers -> 0 .. Horizon]
      /\ \A u \in Timers \ {t} : deadline'[u] = deadline[u]
      /\ suspended' = suspended \ {t}
  <2>1. 0 \in 0 .. Horizon
    BY TimerAssumption
  <2> QED
    BY <1>1, <2>1 DEF Destroy, Ended
<1>7. TypeOK'
  BY <1>0, <1>3, <1>4, <1>5, <1>6
     DEF TypeOK, Destroy, Sound, Descriptors, watcherVars, resumeVars
<1>8. IsFiniteSet(heap') /\ NoDanglingAwaiter'
  <2>1. IsFiniteSet(heap')
    BY <1>3, FS_RemoveElement DEF Inv
  <2>2. isQueued' = isQueued \ {t} /\ isPendingResume' = isPendingResume \ {t}
    BY DEF Destroy
  <2> QED
    BY <1>2, <1>3, <1>5, <1>6, <2>1, <2>2 DEF Inv, NoDanglingAwaiter
<1>9. NobodyIsForgotten'
  <2>1. driver' = driver /\ posted' = posted /\ resuming' = resuming
    BY DEF Destroy, resumeVars
  <2>2. expiredAwaiters' # << >> => expiredAwaiters # << >>
    BY <1>1, <1>5, EmptyTable
  <2> QED
    BY <1>3, <1>5, <1>6, <2>1, <2>2 DEF Inv, NobodyIsForgotten
<1>10. Ordered'
  <2>1. \A e \in ToSet(expiredAwaiters') : deadline'[e] = deadline[e]
    BY <1>5, <1>6, EmptyTable
  <2>2. \A i \in DOMAIN expiredAwaiters' : expiredAwaiters'[i] \in ToSet(expiredAwaiters')
    BY DEF ToSet
  <2>3. InOrder(expiredAwaiters', deadline')
    BY <1>5, <2>1, <2>2 DEF InOrder
  <2>4. \A u \in heap' : deadline'[u] = deadline[u]
    BY <1>3, <1>6
  <2> QED
    BY <1>1, <1>3, <1>5, <2>1, <2>3, <2>4 DEF Inv, Ordered
<1> QED
  BY <1>4, <1>7, <1>8, <1>9, <1>10 DEF Inv, Sound

-----------------------------------------------------------------------------
(* The driver collects                                                     *)

\* What one round of the driver leaves: the due waits move from the heap into the table,
\* behind those it holds, and a callable is posted for them.
LEMMA Dispatched ==
    ASSUME Inv, NEW f, Sound(f), dispatchExpired(f),
           now' = now, suspended' = suspended, deadline' = deadline, posted < MaxPosted
    PROVE  /\ heap' \in SUBSET Timers /\ isQueued' \in SUBSET Timers
           /\ isPendingResume' \in SUBSET Timers
           /\ expiredAwaiters' \in Seq(Timers)
           /\ posted' \in 0 .. MaxPosted
           /\ Sound(fd')
           /\ IsFiniteSet(heap')
           /\ NoDanglingAwaiter'
           /\ heap \cup ToSet(expiredAwaiters) = heap' \cup ToSet(expiredAwaiters')
           /\ expiredAwaiters' # << >> => posted' > 0
           /\ Ordered'
<1>1. /\ now \in 0 .. MaxNow /\ now \in Nat
      /\ suspended \in SUBSET Timers /\ heap \in SUBSET Timers
      /\ isPendingResume \in SUBSET Timers
      /\ deadline \in [Timers -> 0 .. Horizon]
      /\ expiredAwaiters \in Seq(Timers)
      /\ posted \in 0 .. MaxPosted /\ MaxPosted \in Nat
  BY TypeParts DEF Inv
<1>2. /\ heap = isQueued /\ ToSet(expiredAwaiters) = isPendingResume
      /\ IsInjective(expiredAwaiters) /\ isQueued \cap isPendingResume = {}
      /\ isQueued \cup isPendingResume \subseteq suspended
  BY DEF Inv, NoDanglingAwaiter
<1>3. Due \in SUBSET heap /\ Due \in SUBSET Timers /\ IsFiniteSet(Due)
  <2>1. Due \in SUBSET heap
    BY DEF Due
  <2> QED
    BY <1>1, <2>1, FS_Subset DEF Inv
<1>4. PICK s \in InDeadlineOrder(Due) : expiredAwaiters' = expiredAwaiters \o s
  BY DEF dispatchExpired
<1>5. /\ s \in Seq(Timers) /\ ToSet(s) = Due /\ IsInjective(s) /\ InOrder(s, deadline)
  BY <1>1, <1>3, <1>4, DeadlineOrderOfSet
<1>6. /\ heap' = heap \ Due /\ isQueued' = isQueued \ Due
      /\ isPendingResume' = isPendingResume \cup Due
      /\ heap' \in SUBSET Timers
  BY <1>1 DEF dispatchExpired, MarkPending
<1>7. /\ expiredAwaiters' \in Seq(Timers)
      /\ ToSet(expiredAwaiters') = ToSet(expiredAwaiters) \cup Due
      /\ IsInjective(expiredAwaiters')
  <2>1. ToSet(expiredAwaiters) \cap ToSet(s) = {}
    BY <1>2, <1>3, <1>5
  <2> QED
    BY <1>1, <1>2, <1>4, <1>5, <2>1, ConcatenatedList
<1>8. posted' \in 0 .. MaxPosted /\ (expiredAwaiters' # << >> => posted' > 0)
  BY <1>1 DEF dispatchExpired, PostForAny
<1>9. Sound(fd')
  BY <1>1, <1>6, RearmedTwiceKeeps DEF dispatchExpired
<1>10. IsFiniteSet(heap')
  <2>1. heap \ Due \in SUBSET heap
    OBVIOUS
  <2> QED
    BY <1>6, <2>1, FS_Subset DEF Inv
<1>11. NoDanglingAwaiter'
  BY <1>2, <1>3, <1>6, <1>7 DEF NoDanglingAwaiter
<1>12. Ordered'
  <2>1. /\ InOrder(expiredAwaiters, deadline)
        /\ \A e \in ToSet(expiredAwaiters) :
              deadline[e] <= now /\ \A t \in heap : deadline[e] <= deadline[t]
    BY DEF Inv, Ordered
  <2>2. \A x \in ToSet(expiredAwaiters), y \in ToSet(s) : deadline[x] <= deadline[y]
    BY <1>3, <1>5, <2>1
  <2>3. InOrder(expiredAwaiters', deadline)
    BY <1>1, <1>4, <1>5, <2>1, <2>2, ConcatInOrder
  <2>4. ASSUME NEW e \in Due
        PROVE  deadline[e] <= now /\ \A t \in heap' : deadline[e] <= deadline[t]
    <3>1. deadline[e] <= now /\ deadline[e] \in Int
      BY <1>1, <1>3 DEF Due
    <3>2. ASSUME NEW t \in heap' PROVE deadline[e] <= deadline[t]
      <4>1. t \in heap /\ ~ (deadline[t] <= now) /\ deadline[t] \in Int
        BY <1>1, <1>6, <3>2 DEF Due
      <4> QED
        BY <1>1, <3>1, <4>1
    <3> QED
      BY <3>1, <3>2
  <2> QED
    BY <1>6, <1>7, <2>1, <2>3, <2>4 DEF Ordered
<1>13. heap \cup ToSet(expiredAwaiters) = heap' \cup ToSet(expiredAwaiters')
  BY <1>3, <1>6, <1>7
<1> QED
  BY <1>1, <1>2, <1>6, <1>7, <1>8, <1>9, <1>10, <1>11, <1>12, <1>13

\* The event of the descriptor wakes the driver.
LEMMA EventWakesDriverKeeps ==
    ASSUME Inv, EventWakesDriver
    PROVE  Inv'
<1>0. TypeOK
  BY DEF Inv
<1>1. Sound(fd)
  BY <1>0, TypeParts DEF Inv, Sound
<1>2. Sound(Drained(fd))
  BY <1>1, DrainedKeeps
<1>3. /\ dispatchExpired(Drained(fd)) /\ posted < MaxPosted
      /\ now' = now /\ suspended' = suspended /\ deadline' = deadline
      /\ driver' = driver /\ ready' = ready /\ interest' = interest
      /\ resuming' = resuming /\ reported' = FALSE
  BY DEF EventWakesDriver
<1>4. /\ heap' \in SUBSET Timers /\ isQueued' \in SUBSET Timers
      /\ isPendingResume' \in SUBSET Timers
      /\ expiredAwaiters' \in Seq(Timers)
      /\ posted' \in 0 .. MaxPosted
      /\ Sound(fd')
      /\ IsFiniteSet(heap')
      /\ NoDanglingAwaiter'
      /\ heap \cup ToSet(expiredAwaiters) = heap' \cup ToSet(expiredAwaiters')
      /\ expiredAwaiters' # << >> => posted' > 0
      /\ Ordered'
  BY <1>2, <1>3, Dispatched
<1>5. TypeOK'
  BY <1>0, <1>3, <1>4 DEF TypeOK, Sound, Descriptors
<1>6. NobodyIsForgotten'
  BY <1>3, <1>4 DEF Inv, NobodyIsForgotten
<1> QED
  BY <1>4, <1>5, <1>6 DEF Inv, Sound

\* The driver's first run, with the readiness kept.
LEMMA DriverStartsReadyKeeps ==
    ASSUME Inv, DriverStartsReady
    PROVE  Inv'
<1>0. TypeOK
  BY DEF Inv
<1>1. /\ Sound(fd) /\ now \in 0 .. MaxNow /\ heap \in SUBSET Timers
      /\ deadline \in [Timers -> 0 .. Horizon]
  BY <1>0, TypeParts DEF Inv, Sound
<1>2. PICK f \in rearm(heap, deadline, fd) : dispatchExpired(Drained(f))
  BY DEF DriverStartsReady
<1>3. Sound(Drained(f))
  BY <1>1, <1>2, RearmKeeps, DrainedKeeps
<1>4. /\ posted < MaxPosted /\ driver = "Scheduled"
      /\ now' = now /\ suspended' = suspended /\ deadline' = deadline
      /\ driver' = "Waiting" /\ ready' = FALSE /\ interest' = TRUE
      /\ resuming' = resuming /\ reported' = reported
  BY DEF DriverStartsReady
<1>5. /\ heap' \in SUBSET Timers /\ isQueued' \in SUBSET Timers
      /\ isPendingResume' \in SUBSET Timers
      /\ expiredAwaiters' \in Seq(Timers)
      /\ posted' \in 0 .. MaxPosted
      /\ Sound(fd')
      /\ IsFiniteSet(heap')
      /\ NoDanglingAwaiter'
      /\ heap \cup ToSet(expiredAwaiters) = heap' \cup ToSet(expiredAwaiters')
      /\ expiredAwaiters' # << >> => posted' > 0
      /\ Ordered'
  BY <1>2, <1>3, <1>4, Dispatched
<1>6. TypeOK'
  BY <1>0, <1>4, <1>5 DEF TypeOK, Sound, Descriptors
<1>7. NobodyIsForgotten'
  BY <1>4, <1>5 DEF Inv, NobodyIsForgotten
<1> QED
  BY <1>5, <1>6, <1>7 DEF Inv, Sound

-----------------------------------------------------------------------------
(* The queue dies                                                          *)

\* A queue whose waits were abandoned points to nobody.
LEMMA Abandoned ==
    ASSUME Inv, abandonPendingTimers
    PROVE  /\ IsFiniteSet(heap') /\ NoDanglingAwaiter' /\ Ordered'
           /\ expiredAwaiters' = << >> /\ expiredAwaiters' \in Seq(Timers)
<1>1. ToSet(<< >>) = {} /\ << >> \in Seq(Timers) /\ DOMAIN << >> = {}
  BY DEF ToSet
<1>2. IsInjective(<< >>) /\ InOrder(<< >>, deadline')
  BY <1>1 DEF IsInjective, InOrder
<1>3. /\ heap' = {} /\ expiredAwaiters' = << >> /\ isQueued' = {} /\ isPendingResume' = {}
  BY DEF abandonPendingTimers
<1> QED
  BY <1>1, <1>2, <1>3, FS_EmptySet DEF NoDanglingAwaiter, Ordered

\* Watching the descriptor again fails.
LEMMA DriverStartsAndDiesKeeps ==
    ASSUME Inv, DriverStartsAndDies
    PROVE  Inv'
<1>0. TypeOK
  BY DEF Inv
<1>1. /\ Sound(fd) /\ now \in 0 .. MaxNow /\ heap \in SUBSET Timers
      /\ deadline \in [Timers -> 0 .. Horizon]
      /\ posted \in 0 .. MaxPosted /\ MaxPosted \in Nat
  BY <1>0, TypeParts DEF Inv, Sound
<1>2. PICK f \in rearm(heap, deadline, fd) :
          fd' \in {[g EXCEPT !.armed = None] : g \in RearmedTwice(heap \ Due, Drained(f))}
  BY DEF DriverStartsAndDies
<1>3. PICK g \in RearmedTwice(heap \ Due, Drained(f)) : fd' = [g EXCEPT !.armed = None]
  BY <1>2
<1>4. Sound(g)
  <2>1. Sound(Drained(f)) /\ heap \ Due \in SUBSET Timers
    BY <1>1, <1>2, RearmKeeps, DrainedKeeps
  <2> QED
    BY <1>1, <1>3, <2>1, RearmedTwiceKeeps
<1>5. Sound(fd')
  <2>1. g \in Descriptors
    BY <1>4 DEF Sound
  <2>2. fd' \in Descriptors /\ fd'.armed = None
    <3>1. fd' = [armed |-> None, fireAt |-> g.fireAt, readable |-> g.readable,
                 failures |-> g.failures]
      BY <1>3, <2>1 DEF Descriptors
    <3>2. /\ g.fireAt \in {None} \cup Moments /\ g.readable \in BOOLEAN
          /\ g.failures \in 0 .. MaxArmFailures
      BY <2>1 DEF Descriptors
    <3> QED
      BY <3>1, <3>2 DEF Descriptors
  <2> QED
    BY <2>2 DEF Sound, Pending
<1>6. /\ abandonPendingTimers /\ posted < MaxPosted
      /\ now' = now /\ suspended' = suspended /\ deadline' = deadline
      /\ driver' = "Dead" /\ ready' = FALSE /\ interest' = interest
      /\ resuming' = resuming /\ reported' = reported
  BY DEF DriverStartsAndDies
<1>7. posted' \in 0 .. MaxPosted
  BY <1>1, <1>6 DEF DriverStartsAndDies
<1>8. /\ IsFiniteSet(heap') /\ NoDanglingAwaiter' /\ Ordered'
      /\ expiredAwaiters' = << >> /\ expiredAwaiters' \in Seq(Timers)
  BY <1>6, Abandoned
<1>9. TypeOK'
  BY <1>0, <1>5, <1>6, <1>7, <1>8
     DEF TypeOK, Sound, Descriptors, abandonPendingTimers
<1>10. NobodyIsForgotten'
  BY <1>6, <1>8 DEF NobodyIsForgotten
<1> QED
  BY <1>5, <1>8, <1>9, <1>10 DEF Inv, Sound

\* The queue is destroyed.
LEMMA QueueDiesKeeps ==
    ASSUME Inv, QueueDies
    PROVE  Inv'
<1>0. TypeOK
  BY DEF Inv
<1>1. fd \in Descriptors /\ MaxPosted \in Nat
  BY <1>0, TypeParts
<1>2. fd' = [fd EXCEPT !.armed = None, !.fireAt = None, !.readable = FALSE]
  BY DEF QueueDies
<1>3. fd' \in Descriptors /\ fd'.armed = None
  <2>1. fd' = [armed |-> None, fireAt |-> None, readable |-> FALSE,
               failures |-> fd.failures]
    BY <1>1, <1>2 DEF Descriptors
  <2>2. fd.failures \in 0 .. MaxArmFailures
    BY <1>1 DEF Descriptors
  <2> QED
    BY <2>1, <2>2 DEF Descriptors
<1>4. /\ abandonPendingTimers
      /\ now' = now /\ suspended' = suspended /\ deadline' = deadline
      /\ driver' = "Gone" /\ ready' = ready /\ interest' = interest
      /\ resuming' = resuming /\ reported' = FALSE /\ posted' = 0
  BY DEF QueueDies
<1>5. /\ IsFiniteSet(heap') /\ NoDanglingAwaiter' /\ Ordered'
      /\ expiredAwaiters' = << >> /\ expiredAwaiters' \in Seq(Timers)
  BY <1>4, Abandoned
<1>6. TypeOK'
  <2>1. posted' \in 0 .. MaxPosted
    BY <1>1, <1>4
  <2>2. heap' = {} /\ isQueued' = {} /\ isPendingResume' = {}
    BY <1>4 DEF abandonPendingTimers
  <2> QED
    BY <1>0, <1>3, <1>4, <1>5, <2>1, <2>2 DEF TypeOK, Descriptors
<1>7. NobodyIsForgotten'
  BY <1>4, <1>5 DEF NobodyIsForgotten
<1> QED
  BY <1>3, <1>5, <1>6, <1>7 DEF Inv, Pending

-----------------------------------------------------------------------------
(* The other steps of the loop                                             *)

\* The clock advances, and the descriptor fires.
LEMMA TickKeeps ==
    ASSUME Inv, Tick
    PROVE  Inv'
<1>0. TypeOK
  BY DEF Inv
<1>1. /\ fd \in Descriptors /\ now \in Nat /\ heap \in SUBSET Timers
      /\ deadline \in [Timers -> 0 .. Horizon]
      /\ expiredAwaiters \in Seq(Timers) /\ ToSet(expiredAwaiters) \subseteq Timers
  BY <1>0, TypeParts, EmptyTable
<1>2. /\ now < MaxNow /\ now' = now + 1 /\ now' \in 0 .. MaxNow
  BY <1>1, TimerAssumption DEF Tick
<1>3. fd' \in Descriptors /\ Pending(fd')
  <2>1. CASE fd.fireAt = now'
    <3>1. fd' = [fd EXCEPT !.fireAt = None, !.readable = TRUE]
      BY <2>1 DEF Tick
    <3>2. fd' = [armed |-> fd.armed, fireAt |-> None, readable |-> TRUE,
                 failures |-> fd.failures]
      BY <1>1, <3>1 DEF Descriptors
    <3>3. /\ fd.failures \in 0 .. MaxArmFailures
          /\ fd.armed \in {None} \cup 0 .. Horizon
      BY <1>1 DEF Descriptors
    <3> QED
      BY <3>2, <3>3 DEF Descriptors, Pending
  <2>2. CASE fd.fireAt # now'
    <3>1. fd' = fd
      BY <2>2 DEF Tick
    <3> QED
      BY <1>1, <3>1 DEF Inv, Pending
  <2> QED
    BY <2>1, <2>2
<1>4. /\ suspended' = suspended /\ deadline' = deadline /\ isQueued' = isQueued
      /\ isPendingResume' = isPendingResume /\ heap' = heap
      /\ expiredAwaiters' = expiredAwaiters /\ driver' = driver /\ ready' = ready
      /\ interest' = interest /\ reported' = reported /\ posted' = posted
      /\ resuming' = resuming
  BY DEF Tick, awaiterVars, watcherVars, resumeVars
<1>5. TypeOK'
  BY <1>0, <1>2, <1>3, <1>4 DEF TypeOK, Descriptors
<1>6. IsFiniteSet(heap') /\ NoDanglingAwaiter' /\ NobodyIsForgotten'
  BY <1>4 DEF Inv, NoDanglingAwaiter, NobodyIsForgotten
<1>7. Ordered'
  <2>1. \A e \in ToSet(expiredAwaiters) : deadline[e] \in Int /\ deadline[e] <= now
    BY <1>1 DEF Inv, Ordered
  <2>2. \A e \in ToSet(expiredAwaiters) : deadline[e] <= now'
    BY <1>1, <1>2, <2>1
  <2> QED
    BY <1>4, <2>2 DEF Inv, Ordered
<1> QED
  BY <1>3, <1>5, <1>6, <1>7 DEF Inv

\* The driver's first run: it arms the descriptor and waits.
LEMMA DriverStartsKeeps ==
    ASSUME Inv, DriverStarts
    PROVE  Inv'
<1>0. TypeOK
  BY DEF Inv
<1>1. /\ Sound(fd) /\ now \in 0 .. MaxNow /\ heap \in SUBSET Timers
      /\ deadline \in [Timers -> 0 .. Horizon]
  BY <1>0, TypeParts DEF Inv, Sound
<1>2. Sound(fd')
  BY <1>1, RearmKeeps DEF DriverStarts
<1>3. /\ suspended' = suspended /\ deadline' = deadline /\ isQueued' = isQueued
      /\ isPendingResume' = isPendingResume /\ heap' = heap /\ now' = now
      /\ expiredAwaiters' = expiredAwaiters /\ ready' = ready
      /\ interest' = interest /\ reported' = reported /\ posted' = posted
      /\ resuming' = resuming
      /\ driver = "Scheduled" /\ driver' = "Waiting"
  BY DEF DriverStarts, awaiterVars, watcherVars, resumeVars
<1>4. TypeOK'
  BY <1>0, <1>2, <1>3 DEF TypeOK, Sound, Descriptors
<1>5. IsFiniteSet(heap') /\ NoDanglingAwaiter' /\ NobodyIsForgotten' /\ Ordered'
  BY <1>3 DEF Inv, NoDanglingAwaiter, NobodyIsForgotten, Ordered
<1> QED
  BY <1>2, <1>4, <1>5 DEF Inv, Sound

\* The backend and the watcher pass the event on: no wait is touched.
LEMMA WatcherKeeps ==
    ASSUME Inv, Poll \/ EventKept
    PROVE  Inv'
<1>0. TypeOK
  BY DEF Inv
<1>1. /\ suspended' = suspended /\ deadline' = deadline /\ isQueued' = isQueued
      /\ isPendingResume' = isPendingResume /\ heap' = heap /\ now' = now
      /\ expiredAwaiters' = expiredAwaiters /\ posted' = posted
      /\ resuming' = resuming /\ driver' = driver /\ fd' = fd
  BY DEF Poll, EventKept, awaiterVars, queueVars, resumeVars
<1>2. ready' \in BOOLEAN /\ interest' \in BOOLEAN /\ reported' \in BOOLEAN
  <2>1. CASE Poll
    BY <1>0, <2>1, TypeParts DEF Poll
  <2>2. CASE EventKept
    BY <1>0, <2>2, TypeParts DEF EventKept
  <2> QED
    BY <2>1, <2>2
<1>3. TypeOK'
  BY <1>0, <1>1, <1>2 DEF TypeOK
<1> QED
  BY <1>1, <1>3 DEF Inv, NoDanglingAwaiter, NobodyIsForgotten, Ordered, Pending

\* resumeExpired() begins.
LEMMA ResumeExpiredCallKeeps ==
    ASSUME Inv, ResumeExpiredCall
    PROVE  Inv'
<1>0. TypeOK
  BY DEF Inv
<1>1. /\ suspended' = suspended /\ deadline' = deadline /\ isQueued' = isQueued
      /\ isPendingResume' = isPendingResume /\ heap' = heap /\ now' = now
      /\ expiredAwaiters' = expiredAwaiters /\ driver' = driver /\ fd' = fd
      /\ ready' = ready /\ interest' = interest /\ reported' = reported
      /\ resuming' = TRUE
  BY DEF ResumeExpiredCall, awaiterVars, queueVars, watcherVars
<1>2. posted' \in 0 .. MaxPosted
  <2>1. posted \in 0 .. MaxPosted /\ MaxPosted \in Nat
    BY <1>0, TypeParts
  <2> QED
    BY <2>1 DEF ResumeExpiredCall
<1>3. TypeOK'
  BY <1>0, <1>1, <1>2 DEF TypeOK
<1> QED
  BY <1>1, <1>3 DEF Inv, NoDanglingAwaiter, NobodyIsForgotten, Ordered, Pending

\* The head of the table is resumed.
LEMMA ResumeHeadKeeps ==
    ASSUME Inv, ResumeHead
    PROVE  Inv'
<1> DEFINE t == Head(expiredAwaiters)
<1>0. TypeOK
  BY DEF Inv
<1>1. /\ now \in Nat /\ heap \in SUBSET Timers
      /\ suspended \in SUBSET Timers /\ isPendingResume \in SUBSET Timers
      /\ deadline \in [Timers -> 0 .. Horizon]
      /\ expiredAwaiters \in Seq(Timers)
  BY <1>0, TypeParts
<1>2. /\ heap = isQueued /\ ToSet(expiredAwaiters) = isPendingResume
      /\ IsInjective(expiredAwaiters) /\ isQueued \cap isPendingResume = {}
      /\ isQueued \cup isPendingResume \subseteq suspended
  BY DEF Inv, NoDanglingAwaiter
<1>3. /\ expiredAwaiters # << >> /\ resuming
      /\ expiredAwaiters' = Tail(expiredAwaiters)
      /\ isPendingResume' = isPendingResume \ {t}
      /\ suspended' = suspended \ {t}
      /\ deadline' = [deadline EXCEPT ![t] = 0]
      /\ now' = now /\ isQueued' = isQueued /\ heap' = heap /\ fd' = fd
      /\ driver' = driver /\ ready' = ready /\ interest' = interest
      /\ reported' = reported /\ posted' = posted /\ resuming' = resuming
  BY DEF ResumeHead, Ended, watcherVars, resumeVars
<1>4. /\ t \in Timers /\ t \in ToSet(expiredAwaiters)
      /\ expiredAwaiters' \in Seq(Timers)
      /\ ToSet(expiredAwaiters') = ToSet(expiredAwaiters) \ {t}
      /\ IsInjective(expiredAwaiters')
  <2> HIDE DEF t
  <2>1. /\ t \in Timers /\ t \in ToSet(expiredAwaiters)
        /\ expiredAwaiters' \in Seq(Timers)
        /\ ToSet(expiredAwaiters) = ToSet(expiredAwaiters') \cup {t}
        /\ IsInjective(expiredAwaiters') /\ t \notin ToSet(expiredAwaiters')
    BY <1>1, <1>2, <1>3, HeadTaken DEF t
  <2> QED
    BY <2>1
<1>5. InOrder(expiredAwaiters', deadline)
  <2>1. InOrder(expiredAwaiters, deadline)
    BY DEF Inv, Ordered
  <2> QED
    BY <1>1, <1>3, <2>1, TailInOrder
<1> HIDE DEF t
<1>6. /\ deadline' \in [Timers -> 0 .. Horizon]
      /\ \A u \in Timers \ {t} : deadline'[u] = deadline[u]
  <2>1. 0 \in 0 .. Horizon
    BY TimerAssumption
  <2> QED
    BY <1>1, <1>3, <2>1
<1>7. TypeOK'
  BY <1>0, <1>3, <1>4, <1>6 DEF TypeOK
<1>8. IsFiniteSet(heap') /\ NoDanglingAwaiter'
  BY <1>2, <1>3, <1>4 DEF Inv, NoDanglingAwaiter
<1>9. NobodyIsForgotten'
  BY <1>3, <1>4 DEF Inv, NobodyIsForgotten
<1>10. Ordered'
  <2>1. \A e \in ToSet(expiredAwaiters') : deadline'[e] = deadline[e]
    BY <1>1, <1>4, <1>6, EmptyTable
  <2>2. \A i \in DOMAIN expiredAwaiters' : expiredAwaiters'[i] \in ToSet(expiredAwaiters')
    BY DEF ToSet
  <2>3. InOrder(expiredAwaiters', deadline')
    BY <1>5, <2>1, <2>2 DEF InOrder
  <2>4. \A u \in heap' : deadline'[u] = deadline[u]
    BY <1>1, <1>2, <1>3, <1>4, <1>6
  <2> QED
    BY <1>3, <1>4, <2>1, <2>3, <2>4 DEF Inv, Ordered
<1> QED
  BY <1>3, <1>7, <1>8, <1>9, <1>10 DEF Inv

\* resumeExpired() ends with an empty table.
LEMMA ResumeReturnKeeps ==
    ASSUME Inv, ResumeReturn
    PROVE  Inv'
<1>1. /\ suspended' = suspended /\ deadline' = deadline /\ isQueued' = isQueued
      /\ isPendingResume' = isPendingResume /\ heap' = heap /\ now' = now
      /\ expiredAwaiters' = expiredAwaiters /\ driver' = driver /\ fd' = fd
      /\ ready' = ready /\ interest' = interest /\ reported' = reported
      /\ posted' = posted /\ resuming' = FALSE /\ expiredAwaiters = << >>
  BY DEF ResumeReturn, awaiterVars, queueVars, watcherVars
<1>2. TypeOK'
  BY <1>1 DEF Inv, TypeOK
<1> QED
  BY <1>1, <1>2 DEF Inv, NoDanglingAwaiter, NobodyIsForgotten, Ordered, Pending

-----------------------------------------------------------------------------
(* The theorems                                                            *)

\* Every step keeps the invariant.
LEMMA StepKeepsInv ==
    ASSUME Inv, [Next]_vars
    PROVE  Inv'
<1>1. CASE \E t \in Timers, d \in Durations : Wait(t, d)
  BY <1>1, WaitKeeps
<1>2. CASE \E t \in Timers : WaitRefused(t)
  <2>1. UNCHANGED vars
    BY <1>2 DEF WaitRefused
  <2> QED
    BY <2>1 DEF Inv, TypeOK, NoDanglingAwaiter, NobodyIsForgotten, Ordered, Pending,
                vars, awaiterVars, queueVars, watcherVars, resumeVars
<1>3. CASE \E t \in Timers : Destroy(t)
  BY <1>3, DestroyKeeps
<1>4. CASE LoopStep
  BY <1>4, EventWakesDriverKeeps, DriverStartsKeeps, DriverStartsReadyKeeps,
     DriverStartsAndDiesKeeps, WatcherKeeps, ResumeExpiredCallKeeps, ResumeHeadKeeps,
     ResumeReturnKeeps DEF LoopStep
<1>5. CASE Tick
  BY <1>5, TickKeeps
<1>6. CASE QueueDies
  BY <1>6, QueueDiesKeeps
<1>7. CASE UNCHANGED vars
  BY <1>7 DEF Inv, TypeOK, NoDanglingAwaiter, NobodyIsForgotten, Ordered, Pending,
              vars, awaiterVars, queueVars, watcherVars, resumeVars
<1> QED
  BY <1>1, <1>2, <1>3, <1>4, <1>5, <1>6, <1>7 DEF Next

\* The inductive invariant holds in every reachable state.
THEOREM TimerInvariant == Spec => []Inv
<1>1. Inv /\ [Next]_vars => Inv'
  BY StepKeepsInv
<1> QED
  BY InitInv, <1>1, PTL DEF Spec

\* Every variable keeps its type; the clock, the deadlines and the firing time stay within
\* the bounds that saturation gives them (computeDeadline, TimerQueue.cpp:123).
THEOREM TimerTypeCorrect == Spec => []TypeOK
<1>1. Inv => TypeOK
  BY DEF Inv
<1> QED
  BY <1>1, TimerInvariant, PTL

\* What the heap and the table point to are awaiters of frames that live, each once and
\* marked with the place it is in: no freed frame is resumed (TimerQueue.h:88).
THEOREM TimerNoDanglingAwaiter == Spec => []NoDanglingAwaiter
<1>1. Inv => NoDanglingAwaiter
  BY DEF Inv
<1> QED
  BY <1>1, TimerInvariant, PTL

\* A suspended wait is in the heap, or in the table with a resumeExpired() to come, unless
\* the queue is dead (TimerQueue.cpp:217).
THEOREM TimerNobodyIsForgotten == Spec => []NobodyIsForgotten
<1>1. Inv => NobodyIsForgotten
  BY DEF Inv
<1> QED
  BY <1>1, TimerInvariant, PTL

\* Waits are resumed in the order of their deadlines, also those that several rounds of
\* the driver collected, and none before its deadline (TimerQueue.cpp:310).
THEOREM TimerResumedInDeadlineOrder == Spec => []ResumedInDeadlineOrder
<1>1. Inv => ResumedInDeadlineOrder
  <2> SUFFICES ASSUME Inv, NEW i \in DOMAIN expiredAwaiters
               PROVE  /\ deadline[expiredAwaiters[i]] <= now
                      /\ \A j \in 1 .. i :
                            deadline[expiredAwaiters[j]] <= deadline[expiredAwaiters[i]]
    BY DEF ResumedInDeadlineOrder
  <2>1. DOMAIN expiredAwaiters = 1 .. Len(expiredAwaiters) /\ Len(expiredAwaiters) \in Nat
    BY TypeParts, LenProperties DEF Inv
  <2>2. expiredAwaiters[i] \in ToSet(expiredAwaiters)
    BY DEF ToSet
  <2>3. \A j \in 1 .. i : j \in DOMAIN expiredAwaiters /\ j <= i
    BY <2>1
  <2> QED
    BY <2>2, <2>3 DEF Inv, Ordered, InOrder
<1> QED
  BY <1>1, TimerInvariant, PTL

\* A step that changes the heap and at which no arming fails leaves the descriptor armed
\* for the nearest wait.
LEMMA StepHeals ==
    ASSUME Inv, [Next]_vars, heap' # heap, heap' # {}, fd'.failures = fd.failures
    PROVE  fd'.armed \in Nearest(heap', deadline')
<1>1. /\ now \in 0 .. MaxNow /\ heap \in SUBSET Timers /\ Sound(fd)
      /\ deadline \in [Timers -> 0 .. Horizon]
      /\ expiredAwaiters \in Seq(Timers)
  BY TypeParts DEF Inv, Sound
<1>2. Inv'
  BY StepKeepsInv
<1>3. /\ heap' \in SUBSET Timers /\ deadline' \in [Timers -> 0 .. Horizon]
      /\ fd.failures \in Int /\ fd'.failures \in Int
  BY <1>1, <1>2 DEF Inv, TypeOK, Sound, Descriptors
<1>4. CASE \E t \in Timers, d \in Durations : Wait(t, d)
  <2>1. fd' \in rearm(heap', deadline', fd)
    BY <1>4 DEF Wait
  <2> QED
    BY <1>1, <1>3, <2>1, RearmKeeps
<1>5. CASE \E t \in Timers : Destroy(t)
  <2>1. PICK t \in Timers : Destroy(t)
    BY <1>5
  <2>2. heap' = heap \ {t} /\ fd' \in rearm(heap', deadline, fd)
    BY <2>1 DEF Destroy, Removed
  <2>3. fd'.armed \in Nearest(heap', deadline)
    BY <1>1, <1>3, <2>2, RearmKeeps
  <2>4. deadline' = [deadline EXCEPT ![t] = 0]
    BY <2>1 DEF Destroy, Ended
  <2>5. \A u \in heap' : deadline[u] = deadline'[u]
    BY <1>1, <2>2, <2>4
  <2>6. Nearest(heap', deadline) = Nearest(heap', deadline')
    BY <2>5, NearestLocal
  <2> QED
    BY <2>3, <2>6
<1>6. CASE EventWakesDriver
  <2>1. fd' \in RearmedTwice(heap', Drained(fd)) /\ deadline' = deadline
    BY <1>6 DEF EventWakesDriver, dispatchExpired
  <2>2. Sound(Drained(fd)) /\ Drained(fd).failures = fd.failures
    BY <1>1, DrainedKeeps
  <2>3. fd'.failures = Drained(fd).failures
    BY <2>2
  <2>4. fd'.armed \in Nearest(heap', deadline)
    BY <1>1, <1>3, <2>1, <2>2, <2>3, RearmedTwiceKeeps
  <2> QED
    BY <2>1, <2>4
<1>7. CASE DriverStartsReady
  <2>1. PICK f \in rearm(heap, deadline, fd) : dispatchExpired(Drained(f))
    BY <1>7 DEF DriverStartsReady
  <2>2. Sound(f) /\ fd.failures <= f.failures
    BY <1>1, <2>1, RearmKeeps
  <2>3. Sound(Drained(f)) /\ Drained(f).failures = f.failures /\ f.failures \in Int
    BY <2>2, DrainedKeeps DEF Sound, Descriptors
  <2>4. fd' \in RearmedTwice(heap', Drained(f)) /\ deadline' = deadline
    BY <1>7, <2>1 DEF DriverStartsReady, dispatchExpired
  <2>5. /\ Drained(f).failures <= fd'.failures
        /\ fd'.failures = Drained(f).failures => fd'.armed \in Nearest(heap', deadline)
    BY <1>1, <1>3, <2>3, <2>4, RearmedTwiceKeeps
  <2> QED
    BY <1>3, <2>2, <2>3, <2>4, <2>5
<1>8. CASE DriverStartsAndDies \/ QueueDies
  BY <1>8 DEF DriverStartsAndDies, QueueDies, abandonPendingTimers
<1>9. CASE \/ \E t \in Timers : WaitRefused(t)
           \/ Poll \/ EventKept \/ DriverStarts
           \/ ResumeExpiredCall \/ ResumeHead \/ ResumeReturn \/ Tick
           \/ UNCHANGED vars
  BY <1>9 DEF WaitRefused, Poll, EventKept, DriverStarts, ResumeExpiredCall, ResumeHead,
              ResumeReturn, Tick, vars, queueVars
<1> QED
  BY <1>4, <1>5, <1>6, <1>7, <1>8, <1>9 DEF Next, LoopStep

\* A failure to arm is made up for by the next change of the queue that does not fail: it
\* leaves the descriptor armed for the nearest wait, and not only in the books
\* (TimerQueue.cpp:294).
THEOREM TimerArmingHeals == Spec => ArmingHeals
<1>1. ASSUME Inv, [Next]_vars, heap' # heap, heap' # {}, fd'.failures = fd.failures
      PROVE  fd'.armed \in Nearest(heap', deadline') /\ (fd'.fireAt # None \/ fd'.readable)
  <2>1. fd'.armed \in Nearest(heap', deadline')
    BY <1>1, StepHeals
  <2>2. Inv'
    BY <1>1, StepKeepsInv
  <2>3. heap' \in SUBSET Timers /\ deadline' \in [Timers -> 0 .. Horizon]
    BY <2>2 DEF Inv, TypeOK
  <2>4. fd'.armed \in 0 .. Horizon
    BY <2>1, <2>3 DEF Nearest
  <2>5. fd'.armed # None
    BY <2>4 DEF None
  <2>6. Pending(fd')
    BY <2>2 DEF Inv
  <2> QED
    BY <2>1, <2>5, <2>6 DEF Pending
<1>2. Inv /\ [Next]_vars =>
          [heap' # heap /\ heap' # {} /\ fd'.failures = fd.failures =>
               fd'.armed \in Nearest(heap', deadline')
               /\ (fd'.fireAt # None \/ fd'.readable)]_vars
  BY <1>1
<1> QED
  BY <1>2, TimerInvariant, PTL DEF Spec, ArmingHeals

-----------------------------------------------------------------------------
(* The heap: what it is, and what its loops return                         *)

\* A step repeated any number of times.
Repeats(f, x, G) == f[0] = x /\ \A n \in Nat : f[n + 1] = G[f[n]]

LEMMA Repeated ==
    ASSUME NEW X, NEW x \in X, NEW G \in [X -> X]
    PROVE  \E f \in [Nat -> X] : Repeats(f, x, G)
<1> DEFINE Begins(f, n) == f[0] = x /\ \A k \in 0 .. (n - 1) : f[k + 1] = G[f[k]]
           T == {n \in Nat : \E f \in [Nat -> X] : Begins(f, n)}
<1>1. 0 \in T
  <2> DEFINE f == [n \in Nat |-> x]
  <2>1. f \in [Nat -> X] /\ Begins(f, 0)
    OBVIOUS
  <2> QED
    BY <2>1
<1>2. ASSUME NEW n \in Nat, n \in T PROVE n + 1 \in T
  <2>1. PICK f \in [Nat -> X] : Begins(f, n)
    BY <1>2
  <2> DEFINE g == [k \in Nat |-> IF k = n + 1 THEN G[f[n]] ELSE f[k]]
  <2>2. g \in [Nat -> X]
    OBVIOUS
  <2>3. g[0] = x
    BY <2>1
  <2>4. \A k \in 0 .. n : g[k + 1] = G[g[k]]
    BY <2>1
  <2>5. n + 1 \in Nat /\ (n + 1) - 1 = n
    OBVIOUS
  <2> HIDE DEF g
  <2>6. Begins(g, n + 1)
    BY <2>3, <2>4, <2>5
  <2> QED
    BY <2>2, <2>5, <2>6
<1>3. Nat \subseteq T
  <2> HIDE DEF T
  <2> QED
    BY <1>1, <1>2, SetInduction
<1> DEFINE first == [n \in Nat |-> CHOOSE f \in [Nat -> X] : Begins(f, n)]
<1>4. \A n \in Nat : first[n] \in [Nat -> X] /\ Begins(first[n], n)
  BY <1>3
<1> HIDE DEF first
\* Two of them agree as far as both go.
<1>5. ASSUME NEW n \in Nat PROVE \A k \in 0 .. n : first[n][k] = first[k][k]
  <2> DEFINE S == {k \in Nat : \A m \in Nat, j \in 0 .. k : k <= m => first[m][j] = first[k][j]}
  <2>1. 0 \in S
    BY <1>4
  <2>2. ASSUME NEW k \in Nat, k \in S PROVE k + 1 \in S
    <3>1. ASSUME NEW m \in Nat, k + 1 <= m, NEW j \in 0 .. k + 1
          PROVE  first[m][j] = first[k + 1][j]
      <4>1. \A i \in 0 .. k : first[m][i] = first[k][i] /\ first[k + 1][i] = first[k][i]
        BY <2>2, <3>1
      <4>2. CASE j \in 0 .. k
        BY <4>1, <4>2
      <4>3. CASE j = k + 1
        <5>1. first[m][k + 1] = G[first[m][k]] /\ first[k + 1][k + 1] = G[first[k + 1][k]]
          BY <1>4, <3>1
        <5>2. first[m][k] = first[k + 1][k]
          BY <4>1
        <5> QED
          BY <4>3, <5>1, <5>2
      <4> QED
        BY <4>2, <4>3
    <3> QED
      BY <3>1
  <2>3. Nat \subseteq S
    <3> HIDE DEF S
    <3> QED
      BY <2>1, <2>2, SetInduction
  <2> QED
    BY <2>3
<1> DEFINE h == [n \in Nat |-> first[n][n]]
<1>6. h \in [Nat -> X] /\ h[0] = x
  BY <1>4
<1>7. ASSUME NEW n \in Nat PROVE h[n + 1] = G[h[n]]
  <2>1. first[n + 1][n + 1] = G[first[n + 1][n]]
    BY <1>4
  <2>2. first[n + 1][n] = first[n][n]
    BY <1>5
  <2> QED
    BY <2>1, <2>2
<1> QED
  BY <1>6, <1>7 DEF Repeats

\* The heaps of n awaiters, those of E: each remembers its place.
Heaps(n, E) ==
    {h \in [array : [1 .. n -> Awaiters], place : [Awaiters -> Nat]] :
        /\ \A k \in 1 .. n : h.place[h.array[k]] = k
        /\ {h.array[k] : k \in 1 .. n} = E}

\* A heap and a place in it.
Spots(n, E) == [h : Heaps(n, E), at : 1 .. n]

\* The deadline at place k.
DueIn(dl, h, k) == dl[h.array[k]]

\* Nobody is due before its parent.
InHeapOrder(dl, h, n) == \A k \in 2 .. n : DueIn(dl, h, k \div 2) <= DueIn(dl, h, k)

\* Exchanging two awaiters.
LEMMA Swapped ==
    ASSUME NEW n \in Nat, NEW E, NEW h \in Heaps(n, E), NEW i \in 1 .. n, NEW j \in 1 .. n
    PROVE  /\ swapHeapAt(h, i, j) \in Heaps(n, E)
           /\ swapHeapAt(h, i, j).array[i] = h.array[j]
           /\ swapHeapAt(h, i, j).array[j] = h.array[i]
           /\ \A k \in 1 .. n : k # i /\ k # j => swapHeapAt(h, i, j).array[k] = h.array[k]
<1> DEFINE g == swapHeapAt(h, i, j)
<1>1. /\ h.array \in [1 .. n -> Awaiters] /\ h.place \in [Awaiters -> Nat]
      /\ \A k \in 1 .. n : h.place[h.array[k]] = k
      /\ {h.array[k] : k \in 1 .. n} = E
  BY DEF Heaps
<1>2. /\ g = [array |-> g.array, place |-> g.place]
      /\ g.array = [h.array EXCEPT ![i] = h.array[j], ![j] = h.array[i]]
      /\ g.place = [h.place EXCEPT ![h.array[i]] = j, ![h.array[j]] = i]
  BY DEF swapHeapAt
<1> HIDE DEF g
<1>3. g.array \in [1 .. n -> Awaiters] /\ g.place \in [Awaiters -> Nat]
  <2>1. h.array[i] \in Awaiters /\ h.array[j] \in Awaiters
    BY <1>1
  <2>2. i \in Nat /\ j \in Nat
    OBVIOUS
  <2>3. g.array \in [1 .. n -> Awaiters]
    <3>1. \A f \in [1 .. n -> Awaiters], t \in Awaiters, k \in 1 .. n :
            [f EXCEPT ![k] = t] \in [1 .. n -> Awaiters]
      OBVIOUS
    <3> DEFINE f == [h.array EXCEPT ![i] = h.array[j]]
    <3>2. f \in [1 .. n -> Awaiters]
      BY <1>1, <2>1, <3>1
    <3>3. g.array = [f EXCEPT ![j] = h.array[i]]
      BY <1>2
    <3> HIDE DEF f
    <3> QED
      BY <2>1, <3>1, <3>2, <3>3
  <2>4. g.place \in [Awaiters -> Nat]
    <3>1. \A f \in [Awaiters -> Nat], t \in Awaiters, k \in Nat :
            [f EXCEPT ![t] = k] \in [Awaiters -> Nat]
      OBVIOUS
    <3> QED
      BY <1>1, <1>2, <2>1, <2>2, <3>1
  <2> QED
    BY <2>3, <2>4
<1>4. /\ g.array[i] = h.array[j] /\ g.array[j] = h.array[i]
      /\ \A k \in 1 .. n : k # i /\ k # j => g.array[k] = h.array[k]
  BY <1>1, <1>2
<1>5. \A k, m \in 1 .. n : h.array[k] = h.array[m] => k = m
  BY <1>1
<1>6. /\ g.place[h.array[i]] = j /\ g.place[h.array[j]] = i
      /\ \A t \in Awaiters : t # h.array[i] /\ t # h.array[j] => g.place[t] = h.place[t]
  <2>1. h.array[i] \in Awaiters /\ h.array[j] \in Awaiters
    BY <1>1
  <2>2. h.array[i] = h.array[j] => i = j
    BY <1>5
  <2> QED
    BY <1>1, <1>2, <2>1, <2>2
<1>7. \A k \in 1 .. n : g.place[g.array[k]] = k
  <2> TAKE k \in 1 .. n
  <2>1. CASE k = i
    BY <1>4, <1>6, <2>1
  <2>2. CASE k = j
    BY <1>4, <1>6, <2>2
  <2>3. CASE k # i /\ k # j
    <3>1. g.array[k] = h.array[k] /\ h.array[k] \in Awaiters
      BY <1>1, <1>4, <2>3
    <3>2. h.array[k] # h.array[i] /\ h.array[k] # h.array[j]
      BY <1>5, <2>3
    <3> QED
      BY <1>1, <1>6, <3>1, <3>2
  <2> QED
    BY <2>1, <2>2, <2>3
<1>8. {g.array[k] : k \in 1 .. n} = E
  <2>1. \A k \in 1 .. n : \E m \in 1 .. n : g.array[k] = h.array[m]
    BY <1>4
  <2>2. \A k \in 1 .. n : \E m \in 1 .. n : h.array[k] = g.array[m]
    BY <1>4
  <2>3. {g.array[k] : k \in 1 .. n} = {h.array[k] : k \in 1 .. n}
    <3>1. {g.array[k] : k \in 1 .. n} \subseteq {h.array[k] : k \in 1 .. n}
      BY <2>1
    <3>2. {h.array[k] : k \in 1 .. n} \subseteq {g.array[k] : k \in 1 .. n}
      BY <2>2
    <3> QED
      BY <3>1, <3>2
  <2> QED
    BY <1>1, <2>3
<1> QED
  BY <1>2, <1>3, <1>4, <1>6, <1>7, <1>8 DEF g, Heaps

\* The functions of the loops are repetitions of their turns.
Rises(f, dl, x) == f[0] = x /\ \A n \in Nat : f[n + 1] = RiseOnce(dl, f[n])

LEMMA UpRule ==
    ASSUME NEW X, NEW dl, NEW h, NEW i \in Nat, [h |-> h, at |-> i] \in X,
           \A x \in X : RiseOnce(dl, x) \in X
    PROVE  \E f \in [Nat -> X] : siftAwaiterUp(h, dl, i) = f[i] /\ Rises(f, dl, [h |-> h, at |-> i])
<1> DEFINE x == [h |-> h, at |-> i]
           G == [y \in X |-> RiseOnce(dl, y)]
           Unfolds(f) == f = [n \in Nat |-> IF n = 0 THEN x ELSE RiseOnce(dl, f[n - 1])]
           after == CHOOSE f : Unfolds(f)
<1>1. siftAwaiterUp(h, dl, i) = after[i]
  BY DEF siftAwaiterUp
<1> HIDE DEF x
<1>2. G \in [X -> X]
  OBVIOUS
<1>3. PICK f \in [Nat -> X] : Repeats(f, x, G)
  <2>1. x \in X
    BY DEF x
  <2> HIDE DEF G
  <2> QED
    BY <1>2, <2>1, Repeated, Zenon
<1>4. f[0] = x /\ \A n \in Nat : f[n + 1] = RiseOnce(dl, f[n])
  BY <1>3 DEF Repeats
<1>5. Unfolds(f)
  <2>1. \A n \in Nat : f[n] = IF n = 0 THEN x ELSE RiseOnce(dl, f[n - 1])
    <3> TAKE n \in Nat
    <3>1. CASE n = 0
      BY <1>4, <3>1
    <3>2. CASE n # 0
      <4>1. n - 1 \in Nat /\ (n - 1) + 1 = n
        BY <3>2
      <4> QED
        BY <1>4, <3>2, <4>1
    <3> QED
      BY <3>1, <3>2
  <2> QED
    BY <2>1
<1>6. Unfolds(after)
  <2> HIDE DEF Unfolds
  <2> QED
    BY <1>5, Zenon
<1> HIDE DEF after
<1>7. \A n \in Nat : after[n] = IF n = 0 THEN x ELSE RiseOnce(dl, after[n - 1])
  BY <1>6
<1>8. \A n \in Nat : after[n] \in X
  <2> DEFINE T == {n \in Nat : after[n] \in X}
  <2>1. 0 \in T
    BY <1>7 DEF x
  <2>2. ASSUME NEW n \in Nat, n \in T PROVE n + 1 \in T
    BY <1>7, <2>2
  <2>3. Nat \subseteq T
    <3> HIDE DEF T
    <3> QED
      BY <2>1, <2>2, SetInduction
  <2> QED
    BY <2>3
<1>9. after \in [Nat -> X]
  BY <1>6, <1>8
<1>10. Rises(after, dl, x)
  <2>1. \A n \in Nat : n + 1 \in Nat /\ n + 1 # 0 /\ (n + 1) - 1 = n
    OBVIOUS
  <2>2. \A n \in Nat : after[n + 1] = RiseOnce(dl, after[n])
    BY <1>7, <2>1
  <2> QED
    BY <1>7, <2>2 DEF Rises
<1> QED
  BY <1>1, <1>9, <1>10 DEF x

Sinks(f, dl, x) == f[0] = x /\ \A n \in Nat : f[n + 1] = SinkOnce(dl, f[n])

LEMMA DownRule ==
    ASSUME NEW X, NEW dl, NEW h, NEW i \in Nat, [h |-> h, at |-> i] \in X,
           NEW n \in Nat, Len(h.array) = n,
           \A x \in X : SinkOnce(dl, x) \in X
    PROVE  \E f \in [Nat -> X] : siftAwaiterDown(h, dl, i) = f[n] /\ Sinks(f, dl, [h |-> h, at |-> i])
<1> DEFINE x == [h |-> h, at |-> i]
           G == [y \in X |-> SinkOnce(dl, y)]
           Unfolds(f) == f = [m \in Nat |-> IF m = 0 THEN x ELSE SinkOnce(dl, f[m - 1])]
           after == CHOOSE f : Unfolds(f)
<1>1. siftAwaiterDown(h, dl, i) = after[Len(h.array)]
  BY DEF siftAwaiterDown
<1> HIDE DEF x
<1>2. G \in [X -> X]
  OBVIOUS
<1>3. PICK f \in [Nat -> X] : Repeats(f, x, G)
  <2>1. x \in X
    BY DEF x
  <2> HIDE DEF G
  <2> QED
    BY <1>2, <2>1, Repeated, Zenon
<1>4. f[0] = x /\ \A m \in Nat : f[m + 1] = SinkOnce(dl, f[m])
  BY <1>3 DEF Repeats
<1>5. Unfolds(f)
  <2>1. \A m \in Nat : f[m] = IF m = 0 THEN x ELSE SinkOnce(dl, f[m - 1])
    <3> TAKE m \in Nat
    <3>1. CASE m = 0
      BY <1>4, <3>1
    <3>2. CASE m # 0
      <4>1. m - 1 \in Nat /\ (m - 1) + 1 = m
        BY <3>2
      <4> QED
        BY <1>4, <3>2, <4>1
    <3> QED
      BY <3>1, <3>2
  <2> QED
    BY <2>1
<1>6. Unfolds(after)
  <2> HIDE DEF Unfolds
  <2> QED
    BY <1>5, Zenon
<1> HIDE DEF after
<1>7. \A m \in Nat : after[m] = IF m = 0 THEN x ELSE SinkOnce(dl, after[m - 1])
  BY <1>6
<1>8. \A m \in Nat : after[m] \in X
  <2> DEFINE T == {m \in Nat : after[m] \in X}
  <2>1. 0 \in T
    BY <1>7 DEF x
  <2>2. ASSUME NEW m \in Nat, m \in T PROVE m + 1 \in T
    BY <1>7, <2>2
  <2>3. Nat \subseteq T
    <3> HIDE DEF T
    <3> QED
      BY <2>1, <2>2, SetInduction
  <2> QED
    BY <2>3
<1>9. after \in [Nat -> X]
  BY <1>6, <1>8
<1>10. Sinks(after, dl, x)
  <2>1. \A m \in Nat : m + 1 \in Nat /\ m + 1 # 0 /\ (m + 1) - 1 = m
    OBVIOUS
  <2>2. \A m \in Nat : after[m + 1] = SinkOnce(dl, after[m])
    BY <1>7, <2>1
  <2> QED
    BY <1>7, <2>2 DEF Sinks
<1> QED
  BY <1>1, <1>9, <1>10 DEF x

\* The parent's place.
LEMMA Parents ==
    ASSUME NEW k \in Nat, k >= 2
    PROVE  /\ k \div 2 \in Nat /\ 1 <= k \div 2 /\ k \div 2 < k
           /\ k = 2 * (k \div 2) \/ k = 2 * (k \div 2) + 1
OBVIOUS

\* The children of place x.at are not due before its parent.
OverGap(dl, x, n) ==
    x.at > 1 => \A k \in 2 .. n :
                    k \div 2 = x.at => DueIn(dl, x.h, x.at \div 2) <= DueIn(dl, x.h, k)

\* Every awaiter but the one at x.at is in order with its parent, or with its children.
Rising(dl, n, E) ==
    {x \in Spots(n, E) :
        /\ OverGap(dl, x, n)
        /\ \A k \in 2 .. n : k # x.at => DueIn(dl, x.h, k \div 2) <= DueIn(dl, x.h, k)}
Sinking(dl, n, E) ==
    {x \in Spots(n, E) :
        /\ OverGap(dl, x, n)
        /\ \A k \in 2 .. n : k \div 2 # x.at => DueIn(dl, x.h, k \div 2) <= DueIn(dl, x.h, k)}

\* The deadlines before and after an exchange.
LEMMA DueSwapped ==
    ASSUME NEW dl \in [Awaiters -> Nat], NEW n \in Nat, NEW E, NEW h \in Heaps(n, E),
           NEW i \in 1 .. n, NEW j \in 1 .. n
    PROVE  /\ \A k \in 1 .. n : DueIn(dl, h, k) \in Nat
           /\ DueIn(dl, swapHeapAt(h, i, j), i) = DueIn(dl, h, j)
           /\ DueIn(dl, swapHeapAt(h, i, j), j) = DueIn(dl, h, i)
           /\ \A k \in 1 .. n : k # i /\ k # j =>
                DueIn(dl, swapHeapAt(h, i, j), k) = DueIn(dl, h, k)
<1>1. \A k \in 1 .. n : DueIn(dl, h, k) \in Nat
  BY DEF DueIn, Heaps
<1> DEFINE g == swapHeapAt(h, i, j)
<1>2. /\ g.array[i] = h.array[j] /\ g.array[j] = h.array[i]
      /\ \A k \in 1 .. n : k # i /\ k # j => g.array[k] = h.array[k]
  BY Swapped
<1> HIDE DEF g
<1>3. /\ DueIn(dl, g, i) = DueIn(dl, h, j) /\ DueIn(dl, g, j) = DueIn(dl, h, i)
      /\ \A k \in 1 .. n : k # i /\ k # j => DueIn(dl, g, k) = DueIn(dl, h, k)
  BY <1>2 DEF DueIn
<1> QED
  BY <1>1, <1>3 DEF g

\* A turn of siftAwaiterUp().
LEMMA RiseTurn ==
    ASSUME NEW dl \in [Awaiters -> Nat], NEW n \in Nat, NEW E, NEW x \in Rising(dl, n, E)
    PROVE  /\ RiseOnce(dl, x) \in Rising(dl, n, E)
           /\ RiseOnce(dl, x) = x => InHeapOrder(dl, x.h, n)
           /\ RiseOnce(dl, x) # x => RiseOnce(dl, x).at < x.at
<1> DEFINE h == x.h
           i == x.at
           p == i \div 2
           g == swapHeapAt(h, i, p)
           y == [h |-> g, at |-> p]
           rises == i > 1 /\ DueIn(dl, h, p) > DueIn(dl, h, i)
<1>1. h \in Heaps(n, E) /\ i \in 1 .. n /\ x = [h |-> h, at |-> i]
  BY DEF Rising, Spots
<1>2. RiseOnce(dl, x) = IF rises THEN y ELSE x
  BY DEF RiseOnce, isLaterThan, DueIn
<1>3. /\ i > 1 => \A k \in 2 .. n : k \div 2 = i => DueIn(dl, h, p) <= DueIn(dl, h, k)
      /\ \A k \in 2 .. n : k # i => DueIn(dl, h, k \div 2) <= DueIn(dl, h, k)
  BY DEF Rising, OverGap
<1>4. \A k \in 1 .. n : DueIn(dl, h, k) \in Nat
  BY <1>1, DueSwapped
<1>5. CASE rises
  <2>1. p \in 1 .. n /\ p < i /\ p # i
    BY <1>1, <1>5, Parents
  <2>2. g \in Heaps(n, E)
    BY <1>1, <2>1, Swapped
  <2>3. /\ DueIn(dl, g, i) = DueIn(dl, h, p) /\ DueIn(dl, g, p) = DueIn(dl, h, i)
        /\ \A k \in 1 .. n : k # i /\ k # p => DueIn(dl, g, k) = DueIn(dl, h, k)
    BY <1>1, <2>1, DueSwapped
  <2>4. DueIn(dl, h, i) < DueIn(dl, h, p) /\ DueIn(dl, h, i) \in Nat /\ DueIn(dl, h, p) \in Nat
    BY <1>1, <1>4, <1>5, <2>1
  <2>5. i \in 2 .. n
    BY <1>1, <1>5
  <2> HIDE DEF g, h, rises
  <2>6. ASSUME NEW k \in 2 .. n, k # p
        PROVE  DueIn(dl, g, k \div 2) <= DueIn(dl, g, k)
    <3>1. k \div 2 \in 1 .. n /\ k \div 2 # k /\ k \in 1 .. n
      BY Parents
    <3>2. CASE k = i
      BY <2>3, <2>4, <3>2
    <3>3. CASE k # i /\ k \div 2 = i
      <4>1. DueIn(dl, h, p) <= DueIn(dl, h, k)
        BY <1>3, <2>5, <3>3
      <4> QED
        BY <2>3, <2>6, <3>1, <3>3, <4>1
    <3>4. CASE k # i /\ k \div 2 = p
      <4>1. DueIn(dl, h, p) <= DueIn(dl, h, k) /\ DueIn(dl, h, k) \in Nat
        BY <1>3, <1>4, <3>1, <3>4
      <4>2. DueIn(dl, g, k) = DueIn(dl, h, k)
        BY <2>3, <2>6, <3>1, <3>4
      <4> HIDE DEF p
      <4> QED
        BY <2>3, <2>4, <3>4, <4>1, <4>2
    <3>5. CASE k # i /\ k \div 2 # i /\ k \div 2 # p
      BY <1>3, <2>3, <2>6, <3>1, <3>5
    <3> QED
      BY <3>2, <3>3, <3>4, <3>5
  <2>7. ASSUME p > 1, NEW k \in 2 .. n, k \div 2 = p
        PROVE  DueIn(dl, g, p \div 2) <= DueIn(dl, g, k)
    <3> DEFINE q == p \div 2
    <3>1. q \in 1 .. n /\ q # p /\ q # i /\ k \in 1 .. n /\ k # p /\ p \in 2 .. n
      BY <2>1, <2>7, Parents
    <3>2. DueIn(dl, h, q) <= DueIn(dl, h, p) /\ DueIn(dl, g, q) = DueIn(dl, h, q)
      BY <1>3, <2>1, <2>3, <3>1
    <3>3. DueIn(dl, h, q) \in Nat /\ DueIn(dl, h, k) \in Nat
      BY <1>4, <3>1
    <3>4. CASE k = i
      BY <2>3, <3>2, <3>4
    <3>5. CASE k # i
      <4>1. DueIn(dl, h, p) <= DueIn(dl, h, k)
        BY <1>3, <2>7, <3>5
      <4>2. DueIn(dl, g, k) = DueIn(dl, h, k)
        BY <2>3, <3>1, <3>5
      <4> HIDE DEF p
      <4> QED
        BY <2>4, <3>2, <3>3, <4>1, <4>2
    <3> QED
      BY <3>4, <3>5
  <2>8. y.h = g /\ y.at = p /\ y \in Spots(n, E)
    BY <2>1, <2>2 DEF Spots
  <2> HIDE DEF y, p
  <2>9. y \in Rising(dl, n, E)
    BY <2>6, <2>7, <2>8 DEF Rising, OverGap
  <2>10. y # x
    BY <2>1, <2>8
  <2> QED
    BY <1>2, <1>5, <2>1, <2>8, <2>9, <2>10
<1>6. CASE ~rises
  <2>1. RiseOnce(dl, x) = x
    BY <1>2, <1>6
  <2>2. InHeapOrder(dl, h, n)
    <3> SUFFICES ASSUME NEW k \in 2 .. n PROVE DueIn(dl, h, k \div 2) <= DueIn(dl, h, k)
      BY DEF InHeapOrder
    <3>1. CASE k # i
      BY <1>3, <3>1
    <3>2. CASE k = i
      <4>1. p \in 1 .. n /\ i > 1 /\ i \in 1 .. n
        BY <1>1, <3>2, Parents
      <4>2. DueIn(dl, h, p) \in Nat /\ DueIn(dl, h, i) \in Nat
        BY <1>4, <4>1
      <4> QED
        BY <1>6, <3>2, <4>1, <4>2
    <3> QED
      BY <3>1, <3>2
  <2> QED
    BY <2>1, <2>2
<1> QED
  BY <1>5, <1>6

\* A turn of siftAwaiterDown().
LEMMA SinkTurn ==
    ASSUME NEW dl \in [Awaiters -> Nat], NEW n \in Nat, NEW E, NEW x \in Sinking(dl, n, E)
    PROVE  /\ SinkOnce(dl, x) \in Sinking(dl, n, E)
           /\ SinkOnce(dl, x) = x => InHeapOrder(dl, x.h, n)
           /\ SinkOnce(dl, x) # x => SinkOnce(dl, x).at > x.at
<1> DEFINE h == x.h
           i == x.at
           c == Child(h, dl, i)
           g == swapHeapAt(h, i, c)
           y == [h |-> g, at |-> c]
           sinks == 2 * i <= n /\ DueIn(dl, h, i) > DueIn(dl, h, c)
<1>1. h \in Heaps(n, E) /\ i \in 1 .. n /\ x = [h |-> h, at |-> i] /\ Len(h.array) = n
  <2>1. h \in Heaps(n, E) /\ i \in 1 .. n /\ x = [h |-> h, at |-> i]
    BY DEF Sinking, Spots
  <2>2. h.array \in [1 .. n -> Awaiters]
    BY <2>1 DEF Heaps
  <2> QED
    BY <2>1, <2>2
<1>2. SinkOnce(dl, x) = IF sinks THEN y ELSE x
  BY <1>1 DEF SinkOnce, isLaterThan, DueIn
<1>3. /\ i > 1 => \A k \in 2 .. n : k \div 2 = i => DueIn(dl, h, i \div 2) <= DueIn(dl, h, k)
      /\ \A k \in 2 .. n : k \div 2 # i => DueIn(dl, h, k \div 2) <= DueIn(dl, h, k)
  BY DEF Sinking, OverGap
<1>4. \A k \in 1 .. n : DueIn(dl, h, k) \in Nat
  BY <1>1, DueSwapped
\* Of the children c is one that the others are not due before.
<1>5. ASSUME 2 * i <= n
      PROVE  /\ c \in 2 .. n /\ c \div 2 = i
             /\ \A k \in 2 .. n : k \div 2 = i => DueIn(dl, h, c) <= DueIn(dl, h, k)
  <2>1. c = IF 2 * i + 1 <= n /\ DueIn(dl, h, 2 * i) > DueIn(dl, h, 2 * i + 1)
            THEN 2 * i + 1 ELSE 2 * i
    BY <1>1 DEF Child, isLaterThan, DueIn
  <2>2. i \in Nat /\ i >= 1
    BY <1>1
  <2> HIDE DEF c, h
  <2>3. c \in 2 .. n /\ c \div 2 = i
    BY <1>5, <2>1, <2>2
  <2>4. ASSUME NEW k \in 2 .. n, k \div 2 = i
        PROVE  DueIn(dl, h, c) <= DueIn(dl, h, k)
    <3>1. k = 2 * i \/ k = 2 * i + 1
      BY <2>4, Parents
    <3> DEFINE m == 2 * i
    <3>2. m \in 1 .. n /\ m \in Nat /\ DueIn(dl, h, m) \in Nat /\ DueIn(dl, h, k) \in Nat
      BY <1>4, <1>5, <2>2
    <3>3. m + 1 <= n => DueIn(dl, h, m + 1) \in Nat
      BY <1>4, <3>2
    <3>4. c = IF m + 1 <= n /\ DueIn(dl, h, m) > DueIn(dl, h, m + 1) THEN m + 1 ELSE m
      BY <2>1
    <3>5. k = m \/ (k = m + 1 /\ m + 1 <= n)
      BY <3>1
    <3> HIDE DEF m
    <3> QED
      BY <3>2, <3>3, <3>4, <3>5
  <2> QED
    BY <2>3, <2>4
<1> HIDE DEF c
<1>6. CASE sinks
  <2>1. c \in 1 .. n /\ i < c /\ c \in 2 .. n /\ c \div 2 = i
    BY <1>1, <1>5, <1>6, Parents
  <2>2. g \in Heaps(n, E)
    BY <1>1, <2>1, Swapped
  <2>3. /\ DueIn(dl, g, i) = DueIn(dl, h, c) /\ DueIn(dl, g, c) = DueIn(dl, h, i)
        /\ \A k \in 1 .. n : k # i /\ k # c => DueIn(dl, g, k) = DueIn(dl, h, k)
    BY <1>1, <2>1, DueSwapped
  <2>4. DueIn(dl, h, c) < DueIn(dl, h, i) /\ DueIn(dl, h, i) \in Nat /\ DueIn(dl, h, c) \in Nat
    BY <1>1, <1>4, <1>6, <2>1
  <2>5. \A k \in 2 .. n : k \div 2 = i => DueIn(dl, h, c) <= DueIn(dl, h, k)
    BY <1>5, <1>6
  <2> HIDE DEF g, h, sinks
  <2>6. ASSUME NEW k \in 2 .. n, k \div 2 # c
        PROVE  DueIn(dl, g, k \div 2) <= DueIn(dl, g, k)
    <3>1. k \div 2 \in 1 .. n /\ k \div 2 # k /\ k \in 1 .. n
      BY Parents
    <3>2. CASE k = c
      BY <2>1, <2>3, <2>4, <3>2
    <3>3. CASE k # c /\ k \div 2 = i
      <4>1. DueIn(dl, g, k) = DueIn(dl, h, k)
        BY <2>3, <3>1, <3>3
      <4> QED
        BY <2>3, <2>5, <3>3, <4>1
    <3>4. CASE k = i
      <4>1. DueIn(dl, h, k \div 2) <= DueIn(dl, h, c)
        BY <1>3, <2>1, <3>4
      <4>2. DueIn(dl, g, k \div 2) = DueIn(dl, h, k \div 2)
        BY <2>3, <2>6, <3>1, <3>4
      <4> QED
        BY <2>3, <3>4, <4>1, <4>2
    <3>5. CASE k # c /\ k # i /\ k \div 2 # i
      BY <1>3, <2>3, <2>6, <3>1, <3>5
    <3> QED
      BY <3>2, <3>3, <3>4, <3>5
  <2>7. ASSUME NEW k \in 2 .. n, k \div 2 = c
        PROVE  DueIn(dl, g, c \div 2) <= DueIn(dl, g, k)
    <3>1. k \in 1 .. n /\ k # c /\ k # i /\ c # i
      BY <2>1, <2>7, Parents
    <3>2. DueIn(dl, h, c) <= DueIn(dl, h, k)
      BY <1>3, <2>7, <3>1
    <3>3. DueIn(dl, g, k) = DueIn(dl, h, k) /\ DueIn(dl, g, c \div 2) = DueIn(dl, h, c)
      BY <2>1, <2>3, <3>1
    <3> QED
      BY <3>2, <3>3
  <2>8. y.h = g /\ y.at = c /\ y \in Spots(n, E)
    BY <2>1, <2>2 DEF Spots
  <2> HIDE DEF y
  <2>9. y \in Sinking(dl, n, E)
    BY <2>6, <2>7, <2>8 DEF Sinking, OverGap
  <2>10. y # x
    BY <1>1, <2>1, <2>8
  <2> QED
    BY <1>2, <1>6, <2>1, <2>8, <2>9, <2>10
<1>7. CASE ~sinks
  <2>1. SinkOnce(dl, x) = x
    BY <1>2, <1>7
  <2>2. InHeapOrder(dl, h, n)
    <3> SUFFICES ASSUME NEW k \in 2 .. n PROVE DueIn(dl, h, k \div 2) <= DueIn(dl, h, k)
      BY DEF InHeapOrder
    <3>1. CASE k \div 2 # i
      BY <1>3, <3>1
    <3>2. CASE k \div 2 = i
      <4>1. 2 * i <= n /\ i \in Nat
        BY <1>1, <3>2, Parents
      <4>2. c \in 1 .. n /\ DueIn(dl, h, c) <= DueIn(dl, h, k)
        BY <1>5, <3>2, <4>1
      <4>3. DueIn(dl, h, c) \in Nat /\ DueIn(dl, h, i) \in Nat /\ DueIn(dl, h, k) \in Nat
        BY <1>1, <1>4, <4>2
      <4> HIDE DEF h, i
      <4>4. DueIn(dl, h, i) <= DueIn(dl, h, c)
        BY <1>7, <4>1, <4>3
      <4> QED
        BY <3>2, <4>2, <4>3, <4>4
    <3> QED
      BY <3>1, <3>2
  <2> QED
    BY <2>1, <2>2
<1> QED
  BY <1>6, <1>7

\* siftAwaiterUp(): after the turns counted for it the loop has ended, with a heap in
\* order, and whoever moved has moved towards the top.
LEMMA SiftedUp ==
    ASSUME NEW dl \in [Awaiters -> Nat], NEW n \in Nat, NEW E, NEW h \in Heaps(n, E), NEW i \in 1 .. n,
           [h |-> h, at |-> i] \in Rising(dl, n, E)
    PROVE  /\ siftAwaiterUp(h, dl, i).h \in Heaps(n, E)
           /\ InHeapOrder(dl, siftAwaiterUp(h, dl, i).h, n)
           /\ RiseOnce(dl, [h |-> h, at |-> i]) # [h |-> h, at |-> i] =>
                siftAwaiterUp(h, dl, i).at < i
<1> DEFINE X == Rising(dl, n, E)
           x == [h |-> h, at |-> i]
<1>1. PICK f \in [Nat -> X] : siftAwaiterUp(h, dl, i) = f[i] /\ Rises(f, dl, x)
  <2>1. \A y \in X : RiseOnce(dl, y) \in X
    BY RiseTurn
  <2>2. i \in Nat /\ x \in X
    OBVIOUS
  <2> HIDE DEF X
  <2> QED
    BY <2>1, <2>2, UpRule, Zenon
<1>2. f[0] = x /\ \A m \in Nat : f[m + 1] = RiseOnce(dl, f[m])
  BY <1>1 DEF Rises
<1>3. \A m \in Nat : f[m] \in X /\ f[m].at \in 1 .. n
  BY DEF Rising, Spots
<1>4. \A m \in Nat : f[m + 1] # f[m] => f[m + 1].at < f[m].at
  BY <1>1, <1>2, <1>3, RiseTurn
<1> DEFINE T == {m \in Nat : f[m + 1] = f[m] \/ f[m].at + m <= i}
           U == {m \in Nat : f[1] # f[0] => f[m + 1].at < i}
<1>5. f[0].at = i
  BY <1>1, <1>2
<1> HIDE DEF X, x
<1>6. i \in T
  <2>1. 0 \in T
    BY <1>5
  <2>2. ASSUME NEW m \in Nat, m \in T PROVE m + 1 \in T
    <3>1. CASE f[m + 1] = f[m]
      <4>1. f[m + 2] = f[m + 1]
        BY <1>1, <1>2, <3>1
      <4> QED
        BY <4>1
    <3>2. CASE f[m + 1] # f[m]
      <4>1. f[m + 1].at < f[m].at /\ f[m].at + m <= i
        BY <1>4, <2>2, <3>2
      <4> QED
        BY <1>3, <4>1
    <3> QED
      BY <3>1, <3>2
  <2>3. Nat \subseteq T
    <3> HIDE DEF T
    <3> QED
      BY <2>1, <2>2, SetInduction
  <2> QED
    BY <2>3
<1>7. RiseOnce(dl, f[i]) = f[i]
  <2>1. f[i].at \in 1 .. n /\ i \in Nat
    BY <1>3
  <2>2. f[i + 1] = f[i]
    BY <1>6, <2>1
  <2> QED
    BY <1>1, <1>2, <2>1, <2>2
<1>8. f[1] # f[0] => f[i].at < i
  <2>1. 0 \in U
    BY <1>4, <1>5
  <2>2. ASSUME NEW m \in Nat, m \in U PROVE m + 1 \in U
    <3>1. f[m + 2] = f[m + 1] \/ f[m + 2].at < f[m + 1].at
      <4>1. m + 1 \in Nat /\ (m + 1) + 1 = m + 2
        OBVIOUS
      <4> QED
        BY <1>4, <4>1
    <3>2. f[m + 2].at \in Nat /\ f[m + 1].at \in Nat
      BY <1>3
    <3>3. (m + 1) + 1 = m + 2
      OBVIOUS
    <3> QED
      BY <2>2, <3>1, <3>2, <3>3
  <2>3. Nat \subseteq U
    <3> HIDE DEF U
    <3> QED
      BY <2>1, <2>2, SetInduction
  <2>4. i - 1 \in Nat /\ (i - 1) + 1 = i
    OBVIOUS
  <2>5. i - 1 \in U
    BY <2>3, <2>4
  <2> QED
    BY <2>4, <2>5
<1>9. f[i].h \in Heaps(n, E)
  <2>1. f[i] \in X
    BY <1>3
  <2> QED
    BY <2>1 DEF X, Rising, Spots
<1>10. InHeapOrder(dl, f[i].h, n)
  <2>1. f[i] \in X
    BY <1>3
  <2> QED
    BY <1>7, <2>1, RiseTurn DEF X
<1>11. f[1] = RiseOnce(dl, x)
  <2>1. 0 \in Nat /\ 0 + 1 = 1
    OBVIOUS
  <2> QED
    BY <1>1, <1>2, <2>1
<1> QED
  BY <1>1, <1>2, <1>8, <1>9, <1>10, <1>11 DEF x

\* siftAwaiterDown(): likewise.
LEMMA SiftedDown ==
    ASSUME NEW dl \in [Awaiters -> Nat], NEW n \in Nat, NEW E, NEW h \in Heaps(n, E), NEW i \in 1 .. n,
           [h |-> h, at |-> i] \in Sinking(dl, n, E)
    PROVE  /\ siftAwaiterDown(h, dl, i).h \in Heaps(n, E)
           /\ InHeapOrder(dl, siftAwaiterDown(h, dl, i).h, n)
<1> DEFINE X == Sinking(dl, n, E)
           x == [h |-> h, at |-> i]
<1>1. Len(h.array) = n
  <2>1. h.array \in [1 .. n -> Awaiters]
    BY DEF Heaps
  <2> QED
    BY <2>1
<1>2. PICK f \in [Nat -> X] : siftAwaiterDown(h, dl, i) = f[n] /\ Sinks(f, dl, x)
  <2>1. \A y \in X : SinkOnce(dl, y) \in X
    BY SinkTurn
  <2>2. i \in Nat /\ x \in X
    OBVIOUS
  <2> HIDE DEF X
  <2> QED
    BY <1>1, <2>1, <2>2, DownRule, Zenon
<1>3. f[0] = x /\ \A m \in Nat : f[m + 1] = SinkOnce(dl, f[m])
  BY <1>2 DEF Sinks
<1>4. \A m \in Nat : f[m] \in X /\ f[m].at \in 1 .. n
  BY DEF Sinking, Spots
<1>5. \A m \in Nat : f[m + 1] # f[m] => f[m + 1].at > f[m].at
  BY <1>2, <1>3, <1>4, SinkTurn
<1> DEFINE T == {m \in Nat : f[m + 1] = f[m] \/ f[m].at > m}
<1>6. f[0].at = i
  BY <1>2, <1>3
<1> HIDE DEF X, x
<1>7. n \in T
  <2>1. 0 \in T
    BY <1>6
  <2>2. ASSUME NEW m \in Nat, m \in T PROVE m + 1 \in T
    <3>1. CASE f[m + 1] = f[m]
      <4>1. f[m + 2] = f[m + 1]
        BY <1>2, <1>3, <3>1
      <4> QED
        BY <4>1
    <3>2. CASE f[m + 1] # f[m]
      <4>1. f[m + 1].at > f[m].at /\ f[m].at > m
        BY <1>5, <2>2, <3>2
      <4> QED
        BY <1>4, <4>1
    <3> QED
      BY <3>1, <3>2
  <2>3. Nat \subseteq T
    <3> HIDE DEF T
    <3> QED
      BY <2>1, <2>2, SetInduction
  <2> QED
    BY <2>3
<1>8. SinkOnce(dl, f[n]) = f[n]
  <2>1. f[n].at \in 1 .. n
    BY <1>4
  <2>2. f[n + 1] = f[n]
    BY <1>7, <2>1
  <2> QED
    BY <1>2, <1>3, <2>2
<1>9. f[n] \in X
  BY <1>4
<1>10. f[n].h \in Heaps(n, E)
  BY <1>9 DEF X, Sinking, Spots
<1>11. InHeapOrder(dl, f[n].h, n)
  BY <1>8, <1>9, SinkTurn DEF X
<1> QED
  BY <1>2, <1>3, <1>10, <1>11

\* An awaiter is popped, and the last one fills its place: whoever it is, only its own order
\* with its parent and its children is open.
LEMMA Popped ==
    ASSUME NEW dl \in [Awaiters -> Nat], NEW n \in Nat, NEW E, NEW h \in Heaps(n, E), NEW i \in 1 .. n,
           InHeapOrder(dl, h, n)
    PROVE  LET g == PopAt(h, i)
               x == [h |-> g, at |-> i]
           IN  /\ g \in Heaps(n - 1, E \ {h.array[i]})
               /\ i = n => InHeapOrder(dl, g, n - 1)
               /\ i # n => /\ i \in 1 .. (n - 1)
                           /\ OverGap(dl, x, n - 1)
                           /\ \A k \in 2 .. (n - 1) : k # i /\ k \div 2 # i =>
                                DueIn(dl, g, k \div 2) <= DueIn(dl, g, k)
<1> DEFINE s == swapHeapAt(h, i, n)
           t == h.array[i]
           g == PopAt(h, i)
           x == [h |-> g, at |-> i]
<1>1. /\ h.array \in [1 .. n -> Awaiters] /\ Len(h.array) = n /\ t \in Awaiters
      /\ n \in 1 .. n /\ n - 1 \in Nat
  BY DEF Heaps
<1>2. /\ s \in Heaps(n, E) /\ s.array[i] = h.array[n] /\ s.array[n] = t
      /\ \A k \in 1 .. n : k # i /\ k # n => s.array[k] = h.array[k]
  <2>1. \A j \in 1 .. n :
          /\ swapHeapAt(h, i, j) \in Heaps(n, E)
          /\ swapHeapAt(h, i, j).array[i] = h.array[j] /\ swapHeapAt(h, i, j).array[j] = h.array[i]
          /\ \A k \in 1 .. n : k # i /\ k # j => swapHeapAt(h, i, j).array[k] = h.array[k]
    BY Swapped
  <2> QED
    BY <1>1, <2>1
<1>3. g = [array |-> Front(s.array), place |-> [s.place EXCEPT ![t] = 0]]
  BY <1>1 DEF PopAt
<1> HIDE DEF s, t, g
<1>4. /\ s.array \in [1 .. n -> Awaiters] /\ s.place \in [Awaiters -> Nat]
      /\ \A k \in 1 .. n : s.place[s.array[k]] = k
      /\ {s.array[k] : k \in 1 .. n} = E
  BY <1>2 DEF Heaps
<1>5. g.array \in [1 .. (n - 1) -> Awaiters] /\ \A k \in 1 .. (n - 1) : g.array[k] = s.array[k]
  <2>1. s.array \in Seq(Awaiters) /\ Len(s.array) = n
    BY <1>4
  <2>2. g.array = SubSeq(s.array, 1, n - 1)
    BY <1>3, <2>1 DEF Front
  <2>3. g.array \in Seq(Awaiters) /\ Len(g.array) = n - 1
    BY <1>1, <2>1, <2>2, SubSeqProperties
  <2>4. \A k \in 1 .. (n - 1) : g.array[k] = s.array[k]
    BY <1>1, <2>1, <2>2, SubSeqProperties
  <2> QED
    BY <2>3, <2>4
<1>6. /\ g.place \in [Awaiters -> Nat]
      /\ \A u \in Awaiters : u # t => g.place[u] = s.place[u]
  <2>1. g.place = [s.place EXCEPT ![t] = 0]
    BY <1>3
  <2>2. 0 \in Nat
    OBVIOUS
  <2> QED
    BY <1>1, <1>4, <2>1, <2>2
<1>7. \A k \in 1 .. (n - 1) : k \in 1 .. n /\ k # n /\ s.array[k] # t
  <2> TAKE k \in 1 .. (n - 1)
  <2>1. k \in 1 .. n /\ k # n
    BY <1>1
  <2>2. s.place[s.array[k]] = k /\ s.place[s.array[n]] = n
    BY <1>1, <1>4, <2>1
  <2> QED
    BY <1>2, <2>1, <2>2
<1>8. g \in Heaps(n - 1, E \ {t})
  <2>1. g \in [array : [1 .. (n - 1) -> Awaiters], place : [Awaiters -> Nat]]
    BY <1>3, <1>5, <1>6
  <2>2. \A k \in 1 .. (n - 1) : g.place[g.array[k]] = k
    <3> TAKE k \in 1 .. (n - 1)
    <3>1. g.array[k] = s.array[k] /\ g.array[k] \in Awaiters
      BY <1>5
    <3>2. k \in 1 .. n /\ s.array[k] # t
      BY <1>7
    <3> QED
      BY <1>4, <1>6, <3>1, <3>2
  <2>3. {g.array[k] : k \in 1 .. (n - 1)} = E \ {t}
    <3>1. \A k \in 1 .. (n - 1) : g.array[k] \in E \ {t}
      BY <1>4, <1>5, <1>7
    <3>2. ASSUME NEW u \in E \ {t} PROVE \E k \in 1 .. (n - 1) : g.array[k] = u
      <4>1. PICK k \in 1 .. n : s.array[k] = u
        BY <1>4, <3>2
      <4>2. k # n
        BY <1>2, <3>2, <4>1
      <4>3. k \in 1 .. (n - 1)
        BY <1>1, <4>2
      <4> QED
        BY <1>5, <4>1, <4>3
    <3> QED
      BY <3>1, <3>2
  <2> QED
    BY <2>1, <2>2, <2>3 DEF Heaps
<1>9. \A k \in 1 .. (n - 1) : k # i => DueIn(dl, g, k) = DueIn(dl, h, k)
  BY <1>2, <1>5, <1>7 DEF DueIn
<1>10. \A k \in 2 .. n : DueIn(dl, h, k \div 2) <= DueIn(dl, h, k)
  BY DEF InHeapOrder
<1>11. \A k \in 2 .. (n - 1) : k \in 2 .. n /\ k \in 1 .. (n - 1) /\ k \div 2 \in 1 .. (n - 1)
  BY <1>1, Parents
<1>12. \A k \in 2 .. (n - 1) : k # i /\ k \div 2 # i =>
           DueIn(dl, g, k \div 2) <= DueIn(dl, g, k)
  BY <1>9, <1>10, <1>11
<1>13. ASSUME i = n PROVE InHeapOrder(dl, g, n - 1)
  <2>1. \A k \in 2 .. (n - 1) : k # i /\ k \div 2 # i
    BY <1>1, <1>11, <1>13
  <2> QED
    BY <1>12, <2>1 DEF InHeapOrder
<1>14. ASSUME i # n PROVE i \in 1 .. (n - 1) /\ OverGap(dl, x, n - 1)
  <2>1. i \in 1 .. (n - 1)
    BY <1>1, <1>14
  <2>2. ASSUME i > 1, NEW k \in 2 .. (n - 1), k \div 2 = i
        PROVE  DueIn(dl, g, i \div 2) <= DueIn(dl, g, k)
    <3> DEFINE p == i \div 2
    <3>1. k \in 1 .. (n - 1) /\ k # i /\ p \in 1 .. (n - 1) /\ p # i /\ p \in 1 .. n
          /\ i \in 2 .. n /\ k \in 2 .. n
      BY <1>1, <2>1, <2>2, Parents
    <3>2. DueIn(dl, h, p) <= DueIn(dl, h, i) /\ DueIn(dl, h, i) <= DueIn(dl, h, k)
      BY <1>10, <2>2, <3>1
    <3>3. /\ DueIn(dl, h, p) \in Nat /\ DueIn(dl, h, i) \in Nat /\ DueIn(dl, h, k) \in Nat
      <4>1. \A m \in 1 .. n : DueIn(dl, h, m) \in Nat
        BY <1>1 DEF DueIn
      <4> QED
        BY <3>1, <4>1
    <3>4. DueIn(dl, g, p) = DueIn(dl, h, p) /\ DueIn(dl, g, k) = DueIn(dl, h, k)
      BY <1>9, <3>1
    <3> QED
      BY <3>2, <3>3, <3>4
  <2> QED
    BY <2>1, <2>2 DEF OverGap
<1> QED
  BY <1>8, <1>12, <1>13, <1>14 DEF g, t

\* Whoever fills a place can rise, or sink, but not both.
LEMMA Refilled ==
    ASSUME NEW dl \in [Awaiters -> Nat], NEW n \in Nat, NEW E, NEW g \in Heaps(n, E), NEW i \in 1 .. n,
           OverGap(dl, [h |-> g, at |-> i], n),
           \A k \in 2 .. n : k # i /\ k \div 2 # i => DueIn(dl, g, k \div 2) <= DueIn(dl, g, k)
    PROVE  LET x == [h |-> g, at |-> i]
           IN  IF RiseOnce(dl, x) = x THEN x \in Sinking(dl, n, E) ELSE x \in Rising(dl, n, E)
<1> DEFINE x == [h |-> g, at |-> i]
           p == i \div 2
           rises == i > 1 /\ DueIn(dl, g, p) > DueIn(dl, g, i)
<1>1. x \in Spots(n, E) /\ x.h = g /\ x.at = i
  BY DEF Spots
<1>2. \A k \in 1 .. n : DueIn(dl, g, k) \in Nat
  BY DueSwapped
<1>3. RiseOnce(dl, x) # x => rises
  BY DEF RiseOnce, isLaterThan, DueIn
<1>4. RiseOnce(dl, x) = x => ~rises
  <2> SUFFICES ASSUME rises PROVE RiseOnce(dl, x) # x
    OBVIOUS
  <2>1. RiseOnce(dl, x).at = p
    BY DEF RiseOnce, isLaterThan, DueIn
  <2>2. p # i
    BY Parents
  <2> QED
    BY <1>1, <2>1, <2>2
<1>5. ASSUME rises PROVE x \in Rising(dl, n, E)
  <2>1. ASSUME NEW k \in 2 .. n, k # i PROVE DueIn(dl, g, k \div 2) <= DueIn(dl, g, k)
    <3>1. CASE k \div 2 # i
      BY <2>1, <3>1
    <3>2. CASE k \div 2 = i
      <4>1. DueIn(dl, g, p) <= DueIn(dl, g, k)
        BY <1>1, <1>5, <3>2 DEF OverGap
      <4>2. p \in 1 .. n /\ k \in 1 .. n
        BY <1>5, Parents
      <4>3. DueIn(dl, g, p) \in Nat /\ DueIn(dl, g, k) \in Nat /\ DueIn(dl, g, i) \in Nat
        BY <1>2, <4>2
      <4>4. DueIn(dl, g, p) > DueIn(dl, g, i)
        BY <1>5
      <4> HIDE DEF p
      <4> QED
        BY <3>2, <4>1, <4>3, <4>4
    <3> QED
      BY <3>1, <3>2
  <2> QED
    BY <1>1, <2>1 DEF Rising
<1>6. ASSUME ~rises PROVE x \in Sinking(dl, n, E)
  <2>1. ASSUME NEW k \in 2 .. n, k \div 2 # i PROVE DueIn(dl, g, k \div 2) <= DueIn(dl, g, k)
    <3>1. CASE k # i
      BY <2>1, <3>1
    <3>2. CASE k = i
      <4>1. p \in 1 .. n /\ i > 1
        BY <3>2, Parents
      <4>2. DueIn(dl, g, p) \in Nat /\ DueIn(dl, g, i) \in Nat
        BY <1>2, <4>1
      <4> QED
        BY <1>6, <3>2, <4>1, <4>2
    <3> QED
      BY <3>1, <3>2
  <2> QED
    BY <1>1, <2>1 DEF Sinking
<1> QED
  BY <1>3, <1>4, <1>5, <1>6

\* Arrays are lists.
LEMMA ArrayIsList ==
    ASSUME NEW n \in Nat, NEW s \in [1 .. n -> Awaiters]
    PROVE  s \in Seq(Awaiters) /\ Len(s) = n /\ ToSet(s) = {s[k] : k \in 1 .. n}
  BY DEF ToSet

\* The inductive invariant of the heap: whose places are remembered and who is due when.
HeapInv ==
    /\ entries \in Seq(Awaiters)
    /\ dueAt \in [Awaiters -> Nat]
    /\ top \in Awaiters
    /\ Now \in Heaps(Len(entries), ToSet(entries))
    /\ InHeapOrder(dueAt, Now, Len(entries))

\* A heap in order, put in place of the one there was.
LEMMA HeapReplaced ==
    ASSUME NEW n \in Nat, NEW E, NEW h \in Heaps(n, E), InHeapOrder(dueAt', h, n), Becomes(h),
           dueAt' \in [Awaiters -> Nat], top' \in Awaiters
    PROVE  HeapInv' /\ ToSet(entries') = E
<1>1. /\ h.array \in [1 .. n -> Awaiters] /\ {h.array[k] : k \in 1 .. n} = E
      /\ h = [array |-> h.array, place |-> h.place]
  BY DEF Heaps
<1>2. entries' = h.array /\ Now' = h
  BY <1>1 DEF Becomes, Now
<1>3. entries' \in Seq(Awaiters) /\ Len(entries') = n /\ ToSet(entries') = E
  BY <1>1, <1>2, ArrayIsList
<1> QED
  BY <1>2, <1>3 DEF HeapInv

\* There is an earliest deadline.
LEMMA EarliestIs == Earliest \in Deadlines /\ Earliest \in Nat
<1>1. \E d \in Deadlines : \A e \in Deadlines : d <= e
  BY HeapAssumption, LeastNumber
<1>2. Earliest \in Deadlines
  BY <1>1 DEF Earliest
<1> QED
  BY <1>2, HeapAssumption

LEMMA HeapInitInv == HeapInit => HeapInv
<1> SUFFICES ASSUME HeapInit PROVE HeapInv
  OBVIOUS
<1>1. entries = << >> /\ heapIndex = [t \in Awaiters |-> 0] /\ dueAt = [t \in Awaiters |-> Earliest]
  BY DEF HeapInit
<1>2. top \in Awaiters
  BY HeapAssumption DEF HeapInit
<1>3. entries \in Seq(Awaiters) /\ Len(entries) = 0 /\ ToSet(entries) = {}
  BY <1>1 DEF ToSet
<1>4. Now \in Heaps(0, {})
  <2>1. entries \in [1 .. 0 -> Awaiters] /\ {entries[k] : k \in 1 .. 0} = {}
    BY <1>3
  <2>2. heapIndex \in [Awaiters -> Nat]
    BY <1>1
  <2> QED
    BY <2>1, <2>2 DEF Now, Heaps
<1>5. dueAt \in [Awaiters -> Nat]
  BY <1>1, EarliestIs
<1>6. InHeapOrder(dueAt, Now, 0)
  BY DEF InHeapOrder
<1> QED
  BY <1>2, <1>3, <1>4, <1>5, <1>6 DEF HeapInv

\* What the invariant says of the heap.
LEMMA HeapIs ==
    ASSUME HeapInv
    PROVE  /\ Len(entries) \in Nat /\ entries \in [1 .. Len(entries) -> Awaiters]
           /\ Now.array = entries /\ Now.place = heapIndex
           /\ heapIndex \in [Awaiters -> Nat]
           /\ \A k \in 1 .. Len(entries) : heapIndex[entries[k]] = k
           /\ \A t : t \in ToSet(entries) <=> \E k \in 1 .. Len(entries) : entries[k] = t
           /\ ToSet(entries) \subseteq Awaiters
<1>1. /\ Len(entries) \in Nat /\ entries \in [1 .. Len(entries) -> Awaiters]
      /\ ToSet(entries) = {entries[k] : k \in 1 .. Len(entries)}
  BY ArrayIsList DEF HeapInv, ToSet
<1>2. Now.array = entries /\ Now.place = heapIndex
  BY DEF Now
<1>3. /\ Now.place \in [Awaiters -> Nat]
      /\ \A k \in 1 .. Len(entries) : Now.place[Now.array[k]] = k
  BY DEF HeapInv, Heaps
<1> QED
  BY <1>1, <1>2, <1>3

\* A wait is registered.
LEMMA InsertPreserves ==
    ASSUME HeapInv, NEW t \in Awaiters, NEW d \in Deadlines, insert(t, d)
    PROVE  /\ HeapInv' /\ ToSet(entries') = ToSet(entries) \cup {t}
           /\ t \notin ToSet(entries) /\ dueAt' = [dueAt EXCEPT ![t] = d]
<1> DEFINE n == Len(entries) + 1
           E == ToSet(entries) \cup {t}
           h == [array |-> Append(entries, t), place |-> [heapIndex EXCEPT ![t] = n]]
           x == [h |-> h, at |-> n]
<1>1. t \notin ToSet(entries) /\ dueAt' = [dueAt EXCEPT ![t] = d] /\ top' = top
  BY HeapIs DEF insert, Contains
<1>2. Becomes(siftAwaiterUp(h, dueAt', n).h)
  BY DEF insert
<1>3. /\ n \in Nat /\ n \in 1 .. n /\ h.array = Append(entries, t)
      /\ h.array \in [1 .. n -> Awaiters] /\ h.array[n] = t
      /\ \A k \in 1 .. (n - 1) : h.array[k] = entries[k] /\ k \in 1 .. Len(entries)
  <2> DEFINE s == Append(entries, t)
  <2>1. /\ s \in Seq(Awaiters) /\ Len(s) = n /\ s[n] = t
        /\ \A k \in 1 .. Len(entries) : s[k] = entries[k]
    BY AppendProperties DEF HeapInv
  <2>2. Len(entries) \in Nat /\ n - 1 = Len(entries)
    BY HeapIs
  <2>3. h.array = s
    OBVIOUS
  <2> HIDE DEF s, h
  <2> QED
    BY <2>1, <2>2, <2>3
<1>4. dueAt' \in [Awaiters -> Nat]
  BY <1>1, HeapAssumption DEF HeapInv
<1>5. h \in Heaps(n, E)
  <2>1. h.place \in [Awaiters -> Nat] /\ h.place[t] = n
        /\ \A u \in Awaiters : u # t => h.place[u] = heapIndex[u]
    BY <1>3, HeapIs
  <2>2. \A k \in 1 .. n : h.place[h.array[k]] = k
    <3> TAKE k \in 1 .. n
    <3>1. CASE k = n
      BY <1>3, <2>1, <3>1
    <3>2. CASE k # n
      <4>1. k \in 1 .. (n - 1) /\ h.array[k] = entries[k] /\ k \in 1 .. Len(entries)
        BY <1>3, <3>2
      <4>2. entries[k] \in Awaiters /\ entries[k] # t /\ heapIndex[entries[k]] = k
        BY <1>1, <4>1, HeapIs
      <4> QED
        BY <2>1, <4>1, <4>2
    <3> QED
      BY <3>1, <3>2
  <2>3. {h.array[k] : k \in 1 .. n} = E
    <3>1. ASSUME NEW k \in 1 .. n PROVE h.array[k] \in E
      <4>1. CASE k = n
        BY <1>3, <4>1
      <4>2. CASE k # n
        <5>1. k \in 1 .. (n - 1)
          BY <1>3, <4>2
        <5> QED
          BY <1>3, <5>1, HeapIs
      <4> QED
        BY <4>1, <4>2
    <3>2. ASSUME NEW u \in ToSet(entries) PROVE \E k \in 1 .. n : h.array[k] = u
      <4>1. PICK k \in 1 .. Len(entries) : entries[k] = u
        BY HeapIs
      <4>2. k \in 1 .. (n - 1) /\ k \in 1 .. n
        BY <1>3, HeapIs
      <4> QED
        BY <1>3, <4>1, <4>2
    <3> HIDE DEF h
    <3>3. t \in {h.array[k] : k \in 1 .. n}
      BY <1>3
    <3>4. ToSet(entries) \subseteq {h.array[k] : k \in 1 .. n}
      BY <3>2
    <3>5. {h.array[k] : k \in 1 .. n} \subseteq E
      BY <3>1
    <3> QED
      BY <3>3, <3>4, <3>5
  <2>4. h = [array |-> h.array, place |-> h.place]
    OBVIOUS
  <2> HIDE DEF h, E
  <2> QED
    BY <1>3, <2>1, <2>2, <2>3, <2>4 DEF Heaps
<1>6. x \in Rising(dueAt', n, E)
  <2>1. x \in Spots(n, E) /\ x.h = h /\ x.at = n
    BY <1>3, <1>5 DEF Spots
  <2>2. OverGap(dueAt', x, n)
    <3>1. \A k \in 2 .. n : k \div 2 # n
      BY <1>3, Parents
    <3> QED
      BY <2>1, <3>1 DEF OverGap
  <2>3. ASSUME NEW k \in 2 .. n, k # n
        PROVE  DueIn(dueAt', h, k \div 2) <= DueIn(dueAt', h, k)
    <3>1. \A m \in 1 .. (n - 1) : DueIn(dueAt', h, m) = DueIn(dueAt, Now, m)
      <4> TAKE m \in 1 .. (n - 1)
      <4>1. h.array[m] = entries[m] /\ m \in 1 .. Len(entries)
        BY <1>3
      <4>2. entries[m] \in Awaiters /\ entries[m] # t
        BY <1>1, <4>1, HeapIs
      <4>3. dueAt'[entries[m]] = dueAt[entries[m]]
        BY <1>1, <4>2 DEF HeapInv
      <4> QED
        BY <4>1, <4>3, HeapIs DEF DueIn
    <3>2. k \in 2 .. Len(entries) /\ k \in 1 .. (n - 1) /\ k \div 2 \in 1 .. (n - 1)
      BY <1>3, <2>3, HeapIs, Parents
    <3>3. DueIn(dueAt, Now, k \div 2) <= DueIn(dueAt, Now, k)
      BY <3>2 DEF HeapInv, InHeapOrder
    <3> QED
      BY <3>1, <3>2, <3>3
  <2> HIDE DEF x, h
  <2> QED
    BY <2>1, <2>2, <2>3 DEF Rising
<1> HIDE DEF h, n, E
<1>7. /\ siftAwaiterUp(h, dueAt', n).h \in Heaps(n, E)
      /\ InHeapOrder(dueAt', siftAwaiterUp(h, dueAt', n).h, n)
  BY <1>3, <1>4, <1>5, <1>6, SiftedUp
<1>8. HeapInv' /\ ToSet(entries') = E
  BY <1>1, <1>2, <1>3, <1>4, <1>7, HeapReplaced DEF HeapInv
<1> QED
  BY <1>1, <1>8 DEF E

\* The deadlines of those that are not in a heap do not matter to it.
LEMMA OthersLeft ==
    ASSUME NEW n \in Nat, NEW E, NEW t, NEW h \in Heaps(n, E \ {t}), InHeapOrder(dueAt, h, n),
           \A u \in Awaiters : u # t => dueAt'[u] = dueAt[u]
    PROVE  InHeapOrder(dueAt', h, n)
<1>1. \A k \in 1 .. n : h.array[k] \in Awaiters /\ h.array[k] # t
  <2>1. h.array \in [1 .. n -> Awaiters] /\ {h.array[k] : k \in 1 .. n} = E \ {t}
    BY DEF Heaps
  <2>2. \A k \in 1 .. n : h.array[k] \in {h.array[m] : m \in 1 .. n}
    OBVIOUS
  <2> QED
    BY <2>1, <2>2
<1>2. \A k \in 1 .. n : DueIn(dueAt', h, k) = DueIn(dueAt, h, k)
  BY <1>1 DEF DueIn
<1>3. \A k \in 2 .. n : k \in 1 .. n /\ k \div 2 \in 1 .. n
  BY Parents
<1> QED
  BY <1>2, <1>3 DEF InHeapOrder

\* Who does not rise in the first turn stays where it is.
LEMMA NobodyRises ==
    ASSUME NEW h, NEW dl, NEW i \in Nat,
           RiseOnce(dl, [h |-> h, at |-> i]) = [h |-> h, at |-> i]
    PROVE  siftAwaiterUp(h, dl, i) = [h |-> h, at |-> i]
<1> DEFINE X == {[h |-> h, at |-> i]}
<1>1. [h |-> h, at |-> i] \in X
  OBVIOUS
<1>2. \A x \in X : RiseOnce(dl, x) \in X
  OBVIOUS
<1> HIDE DEF X
<1>3. PICK f \in [Nat -> X] : siftAwaiterUp(h, dl, i) = f[i] /\ Rises(f, dl, [h |-> h, at |-> i])
  BY <1>1, <1>2, UpRule, Zenon
<1> QED
  BY <1>3 DEF X

\* The heap after one awaiter was popped and the gap filled, in the ways of remove() and of
\* takeHeapTop().
LEMMA PoppedHeap ==
    ASSUME HeapInv, NEW i \in 1 .. Len(entries)
    PROVE  LET g == PopAt(Now, i)
               E == ToSet(entries) \ {entries[i]}
               n == Len(entries) - 1
           IN  /\ g \in Heaps(n, E) /\ Len(g.array) = n /\ n \in Nat
               /\ i > n => InHeapOrder(dueAt, g, n)
               /\ i <= n =>
                    IF siftAwaiterUp(g, dueAt, i).at # i
                    THEN /\ siftAwaiterUp(g, dueAt, i).h \in Heaps(n, E)
                         /\ InHeapOrder(dueAt, siftAwaiterUp(g, dueAt, i).h, n)
                    ELSE /\ siftAwaiterUp(g, dueAt, i).h = g
                         /\ siftAwaiterDown(g, dueAt, i).h \in Heaps(n, E)
                         /\ InHeapOrder(dueAt, siftAwaiterDown(g, dueAt, i).h, n)
<1> DEFINE g == PopAt(Now, i)
           E == ToSet(entries) \ {entries[i]}
           n == Len(entries) - 1
           x == [h |-> g, at |-> i]
<1>1. /\ Len(entries) \in Nat /\ n \in Nat /\ Now.array = entries
      /\ Now \in Heaps(Len(entries), ToSet(entries)) /\ dueAt \in [Awaiters -> Nat]
      /\ InHeapOrder(dueAt, Now, Len(entries))
  BY HeapIs DEF HeapInv
<1>2. /\ g \in Heaps(n, E)
      /\ i = Len(entries) => InHeapOrder(dueAt, g, n)
      /\ i # Len(entries) =>
            /\ i \in 1 .. n
            /\ OverGap(dueAt, x, n)
            /\ \A k \in 2 .. n : k # i /\ k \div 2 # i =>
                 DueIn(dueAt, g, k \div 2) <= DueIn(dueAt, g, k)
  BY <1>1, Popped
<1> HIDE DEF g, E
<1>3. Len(g.array) = n
  <2>1. g.array \in [1 .. n -> Awaiters]
    BY <1>2 DEF Heaps
  <2> QED
    BY <1>1, <2>1
<1>4. i > n => InHeapOrder(dueAt, g, n)
  BY <1>1, <1>2
<1>5. ASSUME i <= n
      PROVE  IF siftAwaiterUp(g, dueAt, i).at # i
             THEN /\ siftAwaiterUp(g, dueAt, i).h \in Heaps(n, E)
                  /\ InHeapOrder(dueAt, siftAwaiterUp(g, dueAt, i).h, n)
             ELSE /\ siftAwaiterUp(g, dueAt, i).h = g
                  /\ siftAwaiterDown(g, dueAt, i).h \in Heaps(n, E)
                  /\ InHeapOrder(dueAt, siftAwaiterDown(g, dueAt, i).h, n)
  <2>1. /\ i \in 1 .. n /\ OverGap(dueAt, x, n)
        /\ \A k \in 2 .. n : k # i /\ k \div 2 # i =>
             DueIn(dueAt, g, k \div 2) <= DueIn(dueAt, g, k)
    BY <1>1, <1>2, <1>5
  <2>2. IF RiseOnce(dueAt, x) = x THEN x \in Sinking(dueAt, n, E) ELSE x \in Rising(dueAt, n, E)
    BY <1>1, <1>2, <2>1, Refilled
  <2> HIDE DEF n
  <2>3. CASE RiseOnce(dueAt, x) = x
    <3>1. siftAwaiterUp(g, dueAt, i) = x
      BY <2>1, <2>3, NobodyRises
    <3>2. /\ siftAwaiterDown(g, dueAt, i).h \in Heaps(n, E)
          /\ InHeapOrder(dueAt, siftAwaiterDown(g, dueAt, i).h, n)
      BY <1>1, <1>2, <2>1, <2>2, <2>3, SiftedDown
    <3> QED
      BY <3>1, <3>2
  <2>4. CASE RiseOnce(dueAt, x) # x
    <3>1. /\ siftAwaiterUp(g, dueAt, i).h \in Heaps(n, E)
          /\ InHeapOrder(dueAt, siftAwaiterUp(g, dueAt, i).h, n)
          /\ siftAwaiterUp(g, dueAt, i).at < i
      BY <1>1, <1>2, <2>1, <2>2, <2>4, SiftedUp
    <3> QED
      BY <2>1, <3>1
  <2> QED
    BY <2>3, <2>4
<1> QED
  BY <1>1, <1>2, <1>3, <1>4, <1>5 DEF g, E

\* A wait is withdrawn.
LEMMA RemovePreserves ==
    ASSUME HeapInv, NEW t \in Awaiters, remove(t)
    PROVE  /\ HeapInv' /\ ToSet(entries') = ToSet(entries) \ {t}
           /\ t \in ToSet(entries) /\ Leaves(t) /\ top' = top
<1> DEFINE i == heapIndex[t]
           g == PopAt(Now, i)
           n == Len(entries) - 1
           E == ToSet(entries) \ {t}
           risen == siftAwaiterUp(g, dueAt, i)
           sunk == siftAwaiterDown(risen.h, dueAt, i)
<1>1. t \in ToSet(entries) /\ Leaves(t) /\ top' = top
  BY HeapIs DEF remove, Contains
<1>2. i \in 1 .. Len(entries) /\ entries[i] = t /\ i \in DOMAIN entries
  BY <1>1, HeapIs
<1>3. Becomes(IF i > Len(g.array) THEN g ELSE IF risen.at # i THEN risen.h ELSE sunk.h)
  BY <1>2 DEF remove
<1>4. /\ g \in Heaps(n, E) /\ Len(g.array) = n /\ n \in Nat
      /\ i > n => InHeapOrder(dueAt, g, n)
      /\ i <= n => IF risen.at # i
                   THEN risen.h \in Heaps(n, E) /\ InHeapOrder(dueAt, risen.h, n)
                   ELSE /\ risen.h = g
                        /\ siftAwaiterDown(g, dueAt, i).h \in Heaps(n, E)
                        /\ InHeapOrder(dueAt, siftAwaiterDown(g, dueAt, i).h, n)
  BY <1>2, PoppedHeap
<1> DEFINE h == IF i > n THEN g ELSE IF risen.at # i THEN risen.h ELSE sunk.h
<1>5. h \in Heaps(n, E) /\ InHeapOrder(dueAt, h, n) /\ Becomes(h)
  <2> HIDE DEF g, risen, n, E
  <2>1. i \in Nat
    BY <1>2
  <2> HIDE DEF i
  <2> QED
    BY <1>3, <1>4, <2>1
<1>6. i \in Nat
  BY <1>2
<1> HIDE DEF h, n
<1>7. /\ dueAt' \in [Awaiters -> Nat]
      /\ \A u \in Awaiters : u # t => dueAt'[u] = dueAt[u]
  BY <1>1, EarliestIs DEF Leaves, HeapInv
<1>8. InHeapOrder(dueAt', h, n)
  BY <1>4, <1>5, <1>7, OthersLeft
<1>9. HeapInv' /\ ToSet(entries') = E
  BY <1>1, <1>4, <1>5, <1>7, <1>8, HeapReplaced DEF HeapInv
<1> QED
  BY <1>1, <1>9

\* In a heap in order nobody is due before who is on top.
LEMMA TopIsFirst ==
    ASSUME HeapInv, NEW k \in 1 .. Len(entries)
    PROVE  dueAt[entries[1]] <= dueAt[entries[k]]
<1>1. Len(entries) \in Nat /\ \A m \in 1 .. Len(entries) : entries[m] \in Awaiters
  BY HeapIs
<1> DEFINE n == Len(entries)
           Early == {m \in 1 .. n : ~(dueAt[entries[1]] <= dueAt[entries[m]])}
<1>2. ASSUME Early # {} PROVE FALSE
  <2>1. Early \in SUBSET Nat
    OBVIOUS
  <2>2. PICK m \in Early : \A j \in Early : m <= j
    <3> HIDE DEF Early
    <3> QED
      BY <1>2, <2>1, LeastNumber
  <2>3. m \in 1 .. n /\ ~(dueAt[entries[1]] <= dueAt[entries[m]])
    OBVIOUS
  <2>4. \A j \in 1 .. n : dueAt[entries[j]] \in Nat
    BY <1>1 DEF HeapInv
  <2>5. 1 \in 1 .. n /\ m \in 2 .. n
    <3>1. 1 \in 1 .. n
      BY <1>1
    <3>2. m # 1
      BY <2>3, <2>4, <3>1
    <3> QED
      BY <1>1, <2>3, <3>1, <3>2
  <2> DEFINE p == m \div 2
  <2>6. p \in 1 .. n /\ p < m
    BY <2>5, Parents
  <2>7. dueAt[entries[p]] <= dueAt[entries[m]]
    BY <2>5, HeapIs DEF HeapInv, InHeapOrder, DueIn
  <2> HIDE DEF p, n, Early
  <2>8. p \notin Early
    BY <1>1, <2>2, <2>3, <2>6 DEF n
  <2>9. dueAt[entries[1]] <= dueAt[entries[p]]
    BY <2>6, <2>8 DEF Early
  <2> QED
    BY <2>3, <2>4, <2>5, <2>6, <2>7, <2>9
<1> QED
  BY <1>2

\* The first wait is taken.
LEMMA TakePreserves ==
    ASSUME HeapInv, takeHeapTop
    PROVE  /\ HeapInv' /\ ToSet(entries') = ToSet(entries) \ {top'}
           /\ top' \in ToSet(entries) /\ Leaves(top')
           /\ \A u \in ToSet(entries) : dueAt[top'] <= dueAt[u]
<1> DEFINE g == PopAt(Now, 1)
           n == Len(entries) - 1
           t == entries[1]
           E == ToSet(entries) \ {t}
<1>1. Len(entries) \in Nat /\ 1 \in 1 .. Len(entries) /\ top' = t /\ t \in Awaiters /\ t \in ToSet(entries)
  <2>1. entries # << >> /\ entries \in Seq(Awaiters)
    BY DEF takeHeapTop, HeapInv
  <2>2. Len(entries) \in Nat /\ 1 \in 1 .. Len(entries)
    BY <2>1
  <2>3. top' = t
    BY <2>1 DEF takeHeapTop
  <2> QED
    BY <2>2, <2>3, HeapIs
<1>2. /\ Becomes(IF g.array = << >> THEN g ELSE siftAwaiterDown(g, dueAt, 1).h)
      /\ Leaves(t)
  BY <1>1 DEF takeHeapTop
<1>3. /\ g \in Heaps(n, E) /\ Len(g.array) = n /\ n \in Nat
      /\ 1 > n => InHeapOrder(dueAt, g, n)
      /\ 1 <= n => /\ siftAwaiterDown(g, dueAt, 1).h \in Heaps(n, E)
                   /\ InHeapOrder(dueAt, siftAwaiterDown(g, dueAt, 1).h, n)
  <2>1. siftAwaiterUp(g, dueAt, 1).at = 1
    <3>1. RiseOnce(dueAt, [h |-> g, at |-> 1]) = [h |-> g, at |-> 1]
      BY DEF RiseOnce
    <3>2. 1 \in Nat
      OBVIOUS
    <3>3. siftAwaiterUp(g, dueAt, 1) = [h |-> g, at |-> 1]
      BY <3>1, <3>2, NobodyRises, Zenon
    <3> HIDE DEF g
    <3> QED
      BY <3>3
  <2>2. LET i == 1
        IN  /\ g \in Heaps(n, E) /\ Len(g.array) = n /\ n \in Nat
            /\ i > n => InHeapOrder(dueAt, g, n)
            /\ i <= n =>
                 IF siftAwaiterUp(g, dueAt, i).at # i
                 THEN /\ siftAwaiterUp(g, dueAt, i).h \in Heaps(n, E)
                      /\ InHeapOrder(dueAt, siftAwaiterUp(g, dueAt, i).h, n)
                 ELSE /\ siftAwaiterUp(g, dueAt, i).h = g
                      /\ siftAwaiterDown(g, dueAt, i).h \in Heaps(n, E)
                      /\ InHeapOrder(dueAt, siftAwaiterDown(g, dueAt, i).h, n)
    BY <1>1, PoppedHeap, Zenon
  <2> HIDE DEF g, n, E
  <2> QED
    BY <2>1, <2>2
<1> DEFINE h == IF g.array = << >> THEN g ELSE siftAwaiterDown(g, dueAt, 1).h
<1>4. h \in Heaps(n, E) /\ InHeapOrder(dueAt, h, n) /\ Becomes(h)
  <2>1. g.array = << >> <=> n = 0
    <3>1. g.array \in [1 .. n -> Awaiters]
      BY <1>3 DEF Heaps
    <3> HIDE DEF g
    <3>2. g.array \in Seq(Awaiters) /\ n \in Nat
      BY <1>3, <3>1, ArrayIsList
    <3>3. \A s \in Seq(Awaiters) : s = << >> <=> Len(s) = 0
      BY EmptySeq
    <3> QED
      BY <1>3, <3>2, <3>3
  <2> HIDE DEF g, n, E, t
  <2> QED
    BY <1>2, <1>3, <2>1
<1> HIDE DEF h, n, t
<1>5. /\ dueAt' \in [Awaiters -> Nat]
      /\ \A u \in Awaiters : u # t => dueAt'[u] = dueAt[u]
  BY <1>1, <1>2, EarliestIs DEF Leaves, HeapInv
<1>6. InHeapOrder(dueAt', h, n)
  BY <1>3, <1>4, <1>5, OthersLeft
<1>7. HeapInv' /\ ToSet(entries') = E
  BY <1>1, <1>3, <1>4, <1>5, <1>6, HeapReplaced
<1>8. \A u \in ToSet(entries) : dueAt[top'] <= dueAt[u]
  <2> TAKE u \in ToSet(entries)
  <2>1. PICK k \in 1 .. Len(entries) : entries[k] = u
    BY HeapIs
  <2> QED
    BY <1>1, <2>1, TopIsFirst DEF t
<1> QED
  BY <1>1, <1>2, <1>7, <1>8

(***************************************************************************)
(* Every awaiter remembers its place, and nobody is due before its parent, *)
(* after any insertions and withdrawals from anywhere (TimerQueue.cpp:19   *)
(* and :264).                                                              *)
(***************************************************************************)
THEOREM HeapInvariant == HeapSpec => []HeapInv
<1>1. HeapInv /\ [HeapNext]_heapVars => HeapInv'
  <2> SUFFICES ASSUME HeapInv, [HeapNext]_heapVars PROVE HeapInv'
    OBVIOUS
  <2>1. CASE UNCHANGED heapVars
    BY <2>1 DEF heapVars, HeapInv, Now
  <2> QED
    BY <2>1, InsertPreserves, RemovePreserves, TakePreserves DEF HeapNext
<1> QED
  BY <1>1, HeapInitInv, PTL DEF HeapSpec

(***************************************************************************)
(* The heap is the set of waits that DeadlineQueue describes: each is in   *)
(* it once from its insertion until it is withdrawn or taken, and the one  *)
(* taken is one that no other precedes.                                    *)
(***************************************************************************)
THEOREM HeapRefinement == HeapSpec => ImplementsDeadlineQueue
<1> DEFINE Waits == ToSet(entries)
           due == [t \in Waits |-> dueAt[t]]
<1>1. HeapInit => Queue!Init
  <2> SUFFICES ASSUME HeapInit PROVE Queue!Init
    OBVIOUS
  <2>1. ToSet(entries) = {}
    BY DEF HeapInit, ToSet
  <2>2. [t \in ToSet(entries) |-> dueAt[t]] = << >>
    BY <2>1
  <2>3. top \in Awaiters
    BY HeapAssumption DEF HeapInit
  <2> QED
    BY <2>2, <2>3 DEF Queue!Init
<1>2. HeapInv /\ HeapInv' /\ [HeapNext]_heapVars => [Queue!Next]_(Queue!vars)
  <2> SUFFICES ASSUME HeapInv, HeapInv', [HeapNext]_heapVars PROVE [Queue!Next]_(Queue!vars)
    OBVIOUS
  <2>1. Waits \subseteq Awaiters /\ Waits' \subseteq Awaiters
    <3>1. \A s \in Seq(Awaiters) : ToSet(s) \subseteq Awaiters
      BY DEF ToSet
    <3>2. entries \in Seq(Awaiters) /\ entries' \in Seq(Awaiters)
      BY DEF HeapInv
    <3> QED
      BY <3>1, <3>2
  <2>2. ASSUME NEW t \in Awaiters, NEW d \in Deadlines, insert(t, d) PROVE Queue!Insert
    <3>1. Waits' = Waits \cup {t} /\ t \notin Waits /\ dueAt' = [dueAt EXCEPT ![t] = d] /\ top' = top
      BY <2>2, InsertPreserves DEF insert
    <3>2. \A u \in Waits' : dueAt'[u] = IF u = t THEN d ELSE dueAt[u]
      BY <2>1, <3>1 DEF HeapInv
    <3>3. due' = [u \in Waits \cup {t} |-> IF u = t THEN d ELSE due[u]]
      BY <3>1, <3>2
    <3>4. t \in Awaiters \ DOMAIN due /\ DOMAIN due = Waits
      BY <3>1
    <3> HIDE DEF Waits
    <3> QED
      BY <3>1, <3>3, <3>4 DEF Queue!Insert, Waits
  <2>3. ASSUME NEW t \in Waits, Waits' = Waits \ {t}, Leaves(t)
        PROVE  due' = Queue!Without(t)
    <3>1. \A u \in Waits' : dueAt'[u] = dueAt[u]
      BY <2>1, <2>3 DEF HeapInv, Leaves
    <3>2. due' = [u \in Waits \ {t} |-> due[u]]
      BY <2>3, <3>1
    <3>3. DOMAIN due = Waits
      OBVIOUS
    <3> QED
      BY <3>2, <3>3 DEF Queue!Without
  <2>4. ASSUME NEW t \in Awaiters, remove(t) PROVE Queue!Remove
    <3>1. Waits' = Waits \ {t} /\ t \in Waits /\ Leaves(t) /\ top' = top
      BY <2>4, RemovePreserves
    <3>2. due' = Queue!Without(t)
      BY <2>3, <3>1
    <3>3. t \in DOMAIN due
      BY <3>1
    <3> QED
      BY <3>1, <3>2, <3>3 DEF Queue!Remove
  <2>5. ASSUME takeHeapTop PROVE Queue!TakeTop
    <3>1. /\ Waits' = Waits \ {top'} /\ top' \in Waits /\ Leaves(top')
          /\ \A u \in Waits : dueAt[top'] <= dueAt[u]
      BY <2>5, TakePreserves
    <3>2. due' = Queue!Without(top')
      BY <2>3, <3>1
    <3>3. top' \in DOMAIN due /\ \A u \in DOMAIN due : due[top'] <= due[u]
      BY <3>1
    <3> QED
      BY <3>2, <3>3 DEF Queue!TakeTop
  <2>6. CASE UNCHANGED heapVars
    BY <2>6 DEF heapVars, Queue!vars
  <2> QED
    BY <2>2, <2>4, <2>5, <2>6 DEF HeapNext, Queue!Next
<1> QED
  BY <1>1, <1>2, HeapInvariant, PTL DEF HeapSpec, ImplementsDeadlineQueue, Queue!Spec
=============================================================================
