--------------------------- MODULE EventNotifier ---------------------------
(***************************************************************************)
(* The cross-thread wakeup of an event loop (Platform/IO/EventNotifier):   *)
(* any thread may call notify(), one thread (the loop) calls drain().      *)
(*                                                                         *)
(* The descriptor is an eventfd registered level-triggered, of which only  *)
(* "readable or not" matters: a read takes the whole count.  notify() and  *)
(* drain() are split at every atomic access, because the races between the *)
(* coalescing flag and the descriptor are what the code is careful about.  *)
(* The notifier is a valid one: EventLoop's constructor throws otherwise.  *)
(***************************************************************************)
EXTENDS Naturals

CONSTANTS
    Threads,           \* the threads that call notify()
    MaxWriteFailures   \* bound: how many descriptor writes may fail

ASSUME NotifierAssumption == MaxWriteFailures \in Nat

VARIABLES
    wakeupPending,     \* m_wakeupPending, the coalescing flag
    readable,          \* the descriptor holds an unread wakeup
    notifyPc,          \* where each thread is inside notify()
    drainPc,           \* where the loop is inside drain()
    writeFailures      \* how many writes have failed so far

notifierVars == <<wakeupPending, readable, notifyPc, drainPc, writeFailures>>

NotifyPcs == {"idle", "exchange", "write", "retry"}
DrainPcs == {"idle", "flush", "clear"}

\* Types of the notifier's state.
NotifierTypeOK ==
    /\ wakeupPending \in BOOLEAN
    /\ readable \in BOOLEAN
    /\ notifyPc \in [Threads -> NotifyPcs]
    /\ drainPc \in DrainPcs
    /\ writeFailures \in 0..MaxWriteFailures

NotifierInit ==
    /\ wakeupPending = FALSE
    /\ readable = FALSE
    /\ notifyPc = [t \in Threads |-> "idle"]
    /\ drainPc = "idle"
    /\ writeFailures = 0

-----------------------------------------------------------------------------
(* notify(), called by thread t                                            *)

NotifyCall(t) ==
    /\ notifyPc[t] = "idle"
    /\ notifyPc' = [notifyPc EXCEPT ![t] = "exchange"]
    /\ UNCHANGED <<wakeupPending, readable, drainPc, writeFailures>>

\* m_wakeupPending.exchange(true): only the thread that raises the flag goes
\* on to write the descriptor, the others are coalesced with it.
NotifyExchange(t) ==
    /\ notifyPc[t] = "exchange"
    /\ wakeupPending' = TRUE
    /\ notifyPc' = [notifyPc EXCEPT ![t] = IF wakeupPending THEN "idle" ELSE "write"]
    /\ UNCHANGED <<readable, drainPc, writeFailures>>

NotifyWrite(t) ==
    /\ notifyPc[t] \in {"write", "retry"}
    /\ readable' = TRUE
    /\ notifyPc' = [notifyPc EXCEPT ![t] = "idle"]
    /\ UNCHANGED <<wakeupPending, drainPc, writeFailures>>

\* The first write is interrupted by a signal: it is tried once more.
NotifyInterrupted(t) ==
    /\ notifyPc[t] = "write"
    /\ notifyPc' = [notifyPc EXCEPT ![t] = "retry"]
    /\ UNCHANGED <<wakeupPending, readable, drainPc, writeFailures>>

\* Mutant: the flag stays up after a failed write.
NotifyWriteFailsKeepingFlag(t) ==
    /\ notifyPc[t] \in {"write", "retry"}
    /\ writeFailures < MaxWriteFailures
    /\ writeFailures' = writeFailures + 1
    /\ notifyPc' = [notifyPc EXCEPT ![t] = "idle"]
    /\ UNCHANGED <<wakeupPending, readable, drainPc>>

\* The write fails for good: the flag is lowered so that the next notify()
\* writes again, and notify() returns false (the caller only logs it).
NotifyWriteFails(t) ==
    /\ notifyPc[t] \in {"write", "retry"}
    /\ writeFailures < MaxWriteFailures
    /\ writeFailures' = writeFailures + 1
    /\ wakeupPending' = FALSE
    /\ notifyPc' = [notifyPc EXCEPT ![t] = "idle"]
    /\ UNCHANGED <<readable, drainPc>>

-----------------------------------------------------------------------------
(* drain(), called by the loop thread on a readable descriptor             *)

DrainCall ==
    /\ drainPc = "idle"
    /\ drainPc' = "flush"
    /\ UNCHANGED <<wakeupPending, readable, notifyPc, writeFailures>>

DrainFlush ==
    /\ drainPc = "flush"
    /\ readable' = FALSE
    /\ drainPc' = "clear"
    /\ UNCHANGED <<wakeupPending, notifyPc, writeFailures>>

\* while (m_wakeupPending.exchange(false)): drain() returns only when the
\* flag was already down.
DrainClear ==
    /\ drainPc = "clear"
    /\ wakeupPending' = FALSE
    /\ drainPc' = IF wakeupPending THEN "flush" ELSE "idle"
    /\ UNCHANGED <<readable, notifyPc, writeFailures>>

-----------------------------------------------------------------------------
NotifyStep(t) ==
    \/ NotifyExchange(t)
    \/ NotifyWrite(t)
    \/ NotifyInterrupted(t)
    \/ NotifyWriteFails(t)

\* Mutant: the flag is lowered before the descriptor is read.
DrainStepFlagFirst ==
    /\ \/ /\ drainPc = "flush"
          /\ wakeupPending' = FALSE
          /\ drainPc' = "clear"
          /\ UNCHANGED readable
       \/ /\ drainPc = "clear"
          /\ readable' = FALSE
          /\ drainPc' = "idle"
          /\ UNCHANGED wakeupPending
    /\ UNCHANGED <<notifyPc, writeFailures>>

DrainStep == DrainFlush \/ DrainClear

NotifierNext ==
    \/ \E t \in Threads : NotifyCall(t) \/ NotifyStep(t)
    \/ readable /\ DrainCall
    \/ DrainStep

NotifierSpec == NotifierInit /\ [][NotifierNext]_notifierVars

-----------------------------------------------------------------------------
(* Properties                                                              *)

Writing(t) == notifyPc[t] \in {"write", "retry"}

\* A raised flag never wedges the notifier: while m_wakeupPending is set, the
\* descriptor is readable, or some thread is about to write it, or the loop is
\* inside drain() and will still look at the flag.  Otherwise every later
\* notify() would be coalesced with a wakeup that nobody sends.  It must hold
\* through failed writes too.
PendingIsServed ==
    wakeupPending =>
        \/ readable
        \/ \E t \in Threads : Writing(t)
        \/ drainPc # "idle"
=============================================================================
