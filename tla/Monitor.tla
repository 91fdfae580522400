------------------------------ MODULE Monitor ------------------------------
(***************************************************************************)
(* Lock and Condition, used by threads that follow the monitor convention:  *)
(* Release, Wait, Signal and Broadcast only inside the section that Acquire *)
(* opened.                                                                  *)
(*                                                                         *)
(* Both are built on semaphores, taken here as AbstractSemaphore promises   *)
(* them: P() is a step that is enabled while the value is positive, V() is  *)
(* a step.  Each ends in SetLevel(IntOn), where the thread can lose the     *)
(* processor, so a step is the code from one P() or V() to the next.  The   *)
(* operators without a control point are the effects that clients of the    *)
(* monitor (module SynchList) build their own steps from.                   *)
(***************************************************************************)
EXTENDS Naturals, Sequences, FiniteSets

CONSTANTS
    Threads,
    NoThread,    \* Lock::lockHolder = NULL
    Deleted      \* no semaphore is allocated for this thread's Wait

ASSUME MonitorConstants ==
    /\ IsFiniteSet(Threads)
    /\ NoThread \notin Threads
    /\ Deleted \notin Nat

VARIABLES
    lockValue,   \* value of Lock::semaphore
    lockHolder,  \* Lock::lockHolder
    waitQueue,   \* Condition::waitQueue, each semaphore named by its creator
    waiter,      \* value of the semaphore a thread allocated in Wait
    at           \* where each thread is

lockVars == <<lockValue, lockHolder>>
condVars == <<waitQueue, waiter>>
mvars    == <<lockVars, condVars, at>>

(***************************************************************************)
(* A thread is "out" of the monitor, "locked" when the lock's P() returned, *)
(* in its "body", in Wait at the waiter's P() ("waitP"), the lock's P()     *)
(* ("relockP") or behind it ("relocked"), or in the loop of Broadcast.      *)
(***************************************************************************)
MonitorInit ==
    /\ lockValue = 1
    /\ lockHolder = NoThread
    /\ waitQueue = <<>>
    /\ waiter = [t \in Threads |-> Deleted]
    /\ at = [t \in Threads |-> "out"]

-----------------------------------------------------------------------------
(* Effects                                                                  *)

Goes(t, from, to) == at[t] = from /\ at' = [at EXCEPT ![t] = to]

\* semaphore->P() of Acquire.
LockP == lockValue > 0 /\ lockValue' = lockValue - 1 /\ UNCHANGED lockHolder

\* Faulty variant: Release leaves lockHolder set.
ReleaseLockHolderKept == lockValue' = lockValue + 1 /\ UNCHANGED lockHolder

\* Release.
ReleaseLock == lockHolder' = NoThread /\ lockValue' = lockValue + 1

\* The start of Wait: new Semaphore("condition", 0), put on the queue.
EnqueueWaiter(t) ==
    /\ waiter' = [waiter EXCEPT ![t] = 0]
    /\ waitQueue' = Append(waitQueue, t)

\* waiter->P().
WaiterP(t) ==
    /\ waiter[t] \in Nat \ {0}
    /\ waiter' = [waiter EXCEPT ![t] = @ - 1]

\* Faulty variant: Front for RemoveFront.
SignalFrontKept ==
    IF waitQueue = <<>>
    THEN UNCHANGED condVars
    ELSE waiter' = [waiter EXCEPT ![Head(waitQueue)] = IF @ = 0 THEN 1 ELSE @]
         /\ UNCHANGED waitQueue

\* Signal.
SignalFront ==
    IF waitQueue = <<>>
    THEN UNCHANGED condVars
    ELSE /\ waitQueue' = Tail(waitQueue)
         /\ waiter' = [waiter EXCEPT ![Head(waitQueue)] = @ + 1]

-----------------------------------------------------------------------------
(* The operations of a client                                               *)

Acquire(t) ==
    /\ Goes(t, "out", "locked")
    /\ LockP
    /\ UNCHANGED condVars

\* lockHolder = currentThread, after P() has returned.
Acquired(t) ==
    /\ Goes(t, "locked", "body")
    /\ lockHolder' = t
    /\ UNCHANGED <<lockValue, condVars>>

Release(t) ==
    /\ Goes(t, "body", "out")
    /\ ReleaseLock
    /\ UNCHANGED condVars

\* Wait, to the end of Release.
Wait(t) ==
    /\ Goes(t, "body", "waitP")
    /\ EnqueueWaiter(t)
    /\ ReleaseLock

Woken(t) ==
    /\ Goes(t, "waitP", "relockP")
    /\ WaiterP(t)
    /\ UNCHANGED <<lockVars, waitQueue>>

\* Faulty variant: a woken thread goes on without the lock.
ReacquireNoP(t) ==
    /\ Goes(t, "relockP", "relocked")
    /\ UNCHANGED <<lockVars, condVars>>

Reacquire(t) ==
    /\ Goes(t, "relockP", "relocked")
    /\ LockP
    /\ UNCHANGED condVars

\* The end of Wait: lockHolder = currentThread, delete waiter.
WaitReturn(t) ==
    /\ Goes(t, "relocked", "body")
    /\ lockHolder' = t
    /\ waiter' = [waiter EXCEPT ![t] = Deleted]
    /\ UNCHANGED <<lockValue, waitQueue>>

Signal(t) ==
    /\ at[t] = "body"
    /\ SignalFront
    /\ UNCHANGED <<lockVars, at>>

\* An iteration of Broadcast, or its end.
Broadcast(t) ==
    /\ at[t] \in {"body", "broadcast"}
    /\ at' = [at EXCEPT ![t] = IF waitQueue = <<>> THEN "body" ELSE "broadcast"]
    /\ SignalFront
    /\ UNCHANGED lockVars

MonitorStep(t) ==
    \/ Acquire(t) \/ Acquired(t) \/ Release(t)
    \/ Wait(t) \/ Woken(t) \/ Reacquire(t) \/ WaitReturn(t)
    \/ Signal(t) \/ Broadcast(t)

MonitorNext == \E t \in Threads : MonitorStep(t)

MonitorSpec == MonitorInit /\ [][MonitorNext]_mvars

(***************************************************************************)
(* The FIFO ready list and the timer let every thread run: a thread in the  *)
(* loop of Broadcast goes on.  Nothing is assumed of the clients' own code. *)
(***************************************************************************)
MonitorFairness ==
    \A t \in Threads : WF_mvars(at[t] = "broadcast" /\ Broadcast(t))

MonitorFairSpec == MonitorSpec /\ MonitorFairness

-----------------------------------------------------------------------------
(* Properties                                                               *)

Inside == {t \in Threads : at[t] \in {"locked", "body", "relocked", "broadcast"}}

\* At most one thread is in the monitor, a returning waiter included, and the
\* semaphore of the lock counts exactly that.
MutualExclusion == Cardinality(Inside) + lockValue = 1

\* lockHolder is written outside the semaphore's atomic P() and V(), yet it
\* names the thread in the section wherever Release, Wait and Signal assert
\* IsHeldByCurrentThread(), and never a thread that has left.
HolderIsInside ==
    /\ \A t \in Threads : at[t] \in {"body", "broadcast"} => lockHolder = t
    /\ lockHolder # NoThread => lockHolder \in Inside

\* "There is no chance the waiter will miss the signal, even though the lock is
\* released before calling P()": a thread that waits is either still queued,
\* once, with its semaphore alive and at zero, or its signal is in the value of
\* that semaphore.  No queued semaphore has been deleted.
SignalNotMissed ==
    /\ \A i, j \in DOMAIN waitQueue : i # j => waitQueue[i] # waitQueue[j]
    /\ \A i \in DOMAIN waitQueue : at[waitQueue[i]] = "waitP" /\ waiter[waitQueue[i]] = 0
    /\ \A t \in Threads :
        /\ at[t] = "waitP" /\ waiter[t] = 0 => \E i \in DOMAIN waitQueue : waitQueue[i] = t
        /\ waiter[t] = Deleted <=> at[t] \notin {"waitP", "relockP", "relocked"}

\* Broadcast's loop ends, although each of its Signals can lose the processor
\* to a thread that would like to Wait.
BroadcastEnds == \A t \in Threads : at[t] = "broadcast" ~> at[t] = "body"
=============================================================================
