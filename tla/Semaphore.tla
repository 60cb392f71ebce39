----------------------------- MODULE Semaphore -----------------------------
(***************************************************************************)
(* The counting semaphore coroutines of one event loop wait on             *)
(* (Core/Coroutine/Semaphore; Mutex is the instance with one permit).      *)
(*                                                                         *)
(* Everything happens on the loop thread, so an operation is one step; the *)
(* interleaving is between a grant, which charges the waiters at once, and *)
(* the wake-ups it leaves with the scheduler for a later pass.  In between *)
(* other code of the loop acquires, returns permits, destroys waiting      *)
(* frames or the semaphore itself.                                         *)
(*                                                                         *)
(* A coroutine here is a frame that may await acquire() again and again.   *)
(* Its resume ticket is written as its name in "posted"; revoking the      *)
(* ticket blanks that entry, which stays in the scheduler's queue.         *)
(***************************************************************************)
EXTENDS Naturals, Sequences, FiniteSets, SequencesExt, FiniteSetsExt, Functions, Subsequences

CONSTANTS
    Coroutines,
    Capacity,           \* m_capacity: initialPermitCount
    Requests,           \* the permit counts that callers ask for and give back
    Uses,               \* which entry points the callers use besides co_await acquire()
    MaxReleased,        \* bound: how many permits release() adds in all
    MaxRevoked,         \* bound: revoked tickets left with the scheduler at one time
    MaxPostFailures,    \* bound: how many times postLocal() throws
    Revoked             \* an entry of "posted" whose ticket was revoked

ASSUME SemaphoreAssumption ==
    /\ Capacity \in Nat
    /\ Requests \subseteq Nat \ {0}
    /\ Uses \subseteq {"tryAcquire", "release", "cancel", "destroy"}
    /\ {MaxReleased, MaxRevoked, MaxPostFailures} \subseteq Nat
    /\ Revoked \notin Coroutines

VARIABLES
    alive,              \* the Semaphore object exists
    available,          \* m_availablePermitCount
    queue,              \* the linked list of Awaiters, head first
    suspended,          \* the coroutines suspended in acquire()
    want,               \* m_permitCount of the awaiter of each coroutine
    granted,            \* m_grantedCount of that awaiter
    posted,             \* the tickets left with Scheduler::postLocal(), in order
    permits,            \* permits[n]: how many Permit objects of n permits exist
    released,           \* how many permits release() added that no Permit carried
    postFailures        \* how many grants could not be posted

vars == <<alive, available, queue, suspended, want, granted, posted, permits,
          released, postFailures>>

Init ==
    /\ alive = TRUE
    /\ available = Capacity
    /\ queue = << >>
    /\ suspended = {}
    /\ want = [c \in Coroutines |-> 0]
    /\ granted = [c \in Coroutines |-> 0]
    /\ posted = << >>
    /\ permits = [n \in Requests |-> 0]
    /\ released = 0
    /\ postFailures = 0

\* The permits that f gives to the members of S, one by one; and how many they are.
Units(f, S) == UNION {{x} \X (1 .. f[x]) : x \in S}
Total(f, S) == Cardinality(Units(f, S))

TicketRevoked(c) ==
    [i \in DOMAIN posted |-> IF posted[i] = c THEN Revoked ELSE posted[i]]

NewPermit(n) == permits' = [permits EXCEPT ![n] = @ + 1]

\* Mutant: a head that cannot be satisfied is passed over instead of ending the walk.
ChargedPastTheHead(avail, q, g) ==
    LET fits == {i \in DOMAIN q : g[q[i]] = 0 /\ want[q[i]] <= avail}
    IN  IF fits = {} THEN {} ELSE {q[Min(fits)]}

(***************************************************************************)
(* grantFromHead() on the waiters q with the accounts g: walk from the     *)
(* head, pass over those already charged, stop at the first one that wants *)
(* more than is left.  So the walk charges the waiters i for whom what the *)
(* uncharged ones up to i want together fits.                              *)
(***************************************************************************)
Uncharged(q, g, i) == {q[j] : j \in {k \in 1 .. i : g[q[k]] = 0}}

Charged(avail, q, g) ==
    {q[i] : i \in {j \in DOMAIN q :
                       g[q[j]] = 0 /\ Total(want, Uncharged(q, g, j)) <= avail}}

\* Mutant: returned permits are counted but nobody is let in.
grantToNobody(avail, q, g, tickets) ==
    /\ available' = avail
    /\ granted' = g
    /\ queue' = q
    /\ posted' = tickets
    /\ UNCHANGED postFailures

\* The charged waiters' tickets go to postLocal() as one callable.  When it throws,
\* the charges stay and no ticket is posted.
grantFromHead(avail, q, g, tickets) ==
    LET charged == Charged(avail, q, g)
    IN  /\ available' = avail - Total(want, charged)
        /\ granted' = [c \in Coroutines |-> IF c \in charged THEN want[c] ELSE g[c]]
        /\ queue' = q
        /\ \/ /\ posted' = tickets \o Only(q, charged)
              /\ UNCHANGED postFailures
           \/ /\ charged # {}
              /\ postFailures < MaxPostFailures
              /\ posted' = tickets
              /\ postFailures' = postFailures + 1

\* returnPermits() for a Permit: more than the capacity is clamped, never thrown.
returnPermits(n, q, g, tickets) ==
    LET room == Capacity - available
    IN  grantFromHead(available + (IF n > room THEN room ELSE n), q, g, tickets)

-----------------------------------------------------------------------------
\* co_await acquire(n) that is ready at once: nobody is queued and n permits are there.
AcquireNow(c, n) ==
    /\ alive
    /\ c \notin suspended
    /\ queue = << >>
    /\ available >= n
    /\ available' = available - n
    /\ NewPermit(n)
    /\ UNCHANGED <<alive, queue, suspended, want, granted, posted, released, postFailures>>

\* co_await acquire(n) that is not: the awaiter is linked at the tail.
AcquireWait(c, n) ==
    /\ alive
    /\ c \notin suspended
    /\ queue # << >> \/ available < n
    /\ queue' = Append(queue, c)
    /\ suspended' = suspended \cup {c}
    /\ want' = [want EXCEPT ![c] = n]
    /\ UNCHANGED <<alive, available, granted, posted, permits, released, postFailures>>

\* tryAcquire(n) does not look at the queue; when it fails nothing changes.
tryAcquire(n) ==
    /\ "tryAcquire" \in Uses
    /\ alive
    /\ n <= available
    /\ available' = available - n
    /\ NewPermit(n)
    /\ UNCHANGED <<alive, queue, suspended, want, granted, posted, released, postFailures>>

\* ~Permit(), or a Permit assigned over.
DropPermit(n) ==
    /\ permits[n] > 0
    /\ permits' = [permits EXCEPT ![n] = @ - 1]
    /\ returnPermits(n, queue, granted, posted)
    /\ UNCHANGED <<alive, suspended, want, released>>

\* release(n); it throws, and nothing changes, when n does not fit below the capacity.
release(n) ==
    /\ "release" \in Uses
    /\ alive
    /\ n <= Capacity - available
    /\ released + n <= MaxReleased
    /\ released' = released + n
    /\ grantFromHead(available + n, queue, granted, posted)
    /\ UNCHANGED <<alive, suspended, want, permits>>

\* resumeOnce() of the next ticket.  The coroutine comes back in await_resume(): with
\* what it was charged for, or with nothing when the semaphore died meanwhile.
resumeOnce ==
    /\ posted # << >>
    /\ LET c == Head(posted)
       IN  IF c = Revoked
           THEN /\ posted' = Tail(posted)
                /\ UNCHANGED <<queue, suspended, granted, permits>>
           ELSE /\ posted' = Tail(TicketRevoked(c))
                /\ suspended' = suspended \ {c}
                /\ queue' = Without(queue, {c})
                /\ IF alive /\ granted[c] > 0
                   THEN /\ NewPermit(granted[c])
                        /\ granted' = [granted EXCEPT ![c] = 0]
                   ELSE UNCHANGED <<permits, granted>>
    /\ UNCHANGED <<alive, available, want, released, postFailures>>

\* Mutant: the dying awaiter leaves its ticket in force.
AwaiterDiesTicketKept(c) ==
    /\ "cancel" \in Uses
    /\ c \in suspended
    /\ suspended' = suspended \ {c}
    /\ LET q == Without(queue, {c})
           g == [granted EXCEPT ![c] = 0]
       IN  returnPermits(granted[c], q, g, posted)
    /\ UNCHANGED <<alive, want, permits, released>>

\* Mutant: the dying awaiter keeps what it was charged for.
AwaiterDiesCharged(c) ==
    /\ "cancel" \in Uses
    /\ c \in suspended
    /\ suspended' = suspended \ {c}
    /\ granted' = [granted EXCEPT ![c] = 0]
    /\ posted' = TicketRevoked(c)
    /\ queue' = Without(queue, {c})
    /\ UNCHANGED <<alive, available, want, permits, released, postFailures>>

TicketMayBeRevoked(c) ==
    Contains(posted, c) =>
        Cardinality({i \in DOMAIN posted : posted[i] = Revoked}) < MaxRevoked

\* ~Awaiter() of a frame destroyed while it waits: the ticket is revoked, the node
\* unlinked, and what it was charged for goes back, which lets others in.
AwaiterDies(c) ==
    /\ "cancel" \in Uses
    /\ c \in suspended
    /\ TicketMayBeRevoked(c)
    /\ suspended' = suspended \ {c}
    /\ LET q == Without(queue, {c})
           g == [granted EXCEPT ![c] = 0]
       IN  IF alive /\ granted[c] > 0
           THEN returnPermits(granted[c], q, g, TicketRevoked(c))
           ELSE /\ queue' = q
                /\ posted' = TicketRevoked(c)
                /\ UNCHANGED <<available, granted, postFailures>>
    /\ UNCHANGED <<alive, want, permits, released>>

\* ~Semaphore(): every waiter is detached and discharged, nobody is woken.  A Permit
\* must not outlive the semaphore (Semaphore.h: its destructor has no way to tell).
SemaphoreDies ==
    /\ "destroy" \in Uses
    /\ alive
    /\ \A n \in Requests : permits[n] = 0
    /\ alive' = FALSE
    /\ queue' = << >>
    /\ granted' = [c \in Coroutines |-> 0]
    /\ UNCHANGED <<available, suspended, want, posted, permits, released, postFailures>>

Next ==
    \/ \E c \in Coroutines, n \in Requests : AcquireNow(c, n) \/ AcquireWait(c, n)
    \/ \E n \in Requests : tryAcquire(n) \/ DropPermit(n) \/ release(n)
    \/ resumeOnce
    \/ \E c \in Coroutines : AwaiterDies(c)
    \/ SemaphoreDies

Spec == Init /\ [][Next]_vars

(***************************************************************************)
(* The loop runs its local callables (the EventLoop module: every pass     *)
(* does), and whoever holds a Permit gives it back some day.  Nothing else *)
(* is promised: callers need not acquire, cancel or release.               *)
(***************************************************************************)
Fairness ==
    /\ WF_vars(resumeOnce)
    /\ \A n \in Requests : WF_vars(DropPermit(n))

FairSpec == Spec /\ Fairness

-----------------------------------------------------------------------------
PermitsOut == Total([n \in Requests |-> n * permits[n]], Requests)
PermitsCharged == Total(granted, Coroutines)
Occurrences(c) == Cardinality({i \in DOMAIN posted : posted[i] = c})

\* Types: the count of free permits stays within the capacity, the queue links each
\* suspended coroutine at most once, accounts never exceed requests.
TypeOK ==
    /\ alive \in BOOLEAN
    /\ released \in 0 .. MaxReleased
    /\ available \in 0 .. Capacity
    /\ queue \in Seq(suspended) /\ IsInjective(queue)
    /\ suspended \subseteq Coroutines
    /\ want \in [Coroutines -> Requests \cup {0}]
    /\ \A c \in Coroutines : granted[c] \in {0, want[c]}
    /\ posted \in Seq(Coroutines \cup {Revoked})
    /\ permits \in [Requests -> Nat]
    /\ postFailures \in 0 .. MaxPostFailures

\* The books balance (Semaphore.cpp:210): what is free, what waiters are charged with
\* and what Permit objects carry add up to the capacity, whatever dies in which order.
\* What release() adds may be on top of it, until a clamped return takes it out again.
BooksBalance ==
    alive => /\ available + PermitsCharged + PermitsOut <= Capacity + released
             /\ available + PermitsCharged + PermitsOut >= Capacity

\* Strict request order (Semaphore.h:76-78): charged waiters form a prefix of the
\* queue, so nobody is let in ahead of an earlier and larger request.
ChargedInRequestOrder ==
    \A i, j \in DOMAIN queue : i < j /\ granted[queue[j]] > 0 => granted[queue[i]] > 0

\* A ticket in force belongs to a frame that is still suspended and is there once, so
\* no frame is resumed twice or after its death; a linked coroutine with a ticket in
\* force is charged, so nobody alive wakes up to nothing.  As long as postLocal() never
\* threw, a charged waiter has its ticket: grantFromHead() never looks at it again.
TicketsBelongToWaiters ==
    \A c \in Coroutines :
        /\ Occurrences(c) <= (IF c \in suspended THEN 1 ELSE 0)
        /\ Contains(queue, c) /\ Occurrences(c) = 1 => granted[c] > 0
        /\ Contains(queue, c) /\ granted[c] > 0 /\ postFailures = 0 => Occurrences(c) = 1

\* With requests within the capacity, permits that are given back and a loop that runs,
\* no request waits for ever, even when others are cancelled at any moment; unless a
\* post failed, the semaphore died, or tryAcquire(), which does not look at the queue,
\* overtakes it again and again (Semaphore.h:76).
WaiterLeavesQueue ==
    \/ []<><<\E n \in Requests : tryAcquire(n)>>_vars
    \/ \A c \in Coroutines : c \in suspended ~> c \notin suspended \/ ~alive \/ postFailures > 0

=============================================================================
