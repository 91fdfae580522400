------------------------- MODULE AbstractSemaphore -------------------------
(***************************************************************************)
(* What Semaphore promises its callers (threads/synch.h): P() waits until   *)
(* the value is positive, then decrements it in the same step; V()          *)
(* increments it.  Nothing is promised about the order in which waiters     *)
(* get through, only that some waiter does while the value stays positive.  *)
(***************************************************************************)
EXTENDS Naturals

CONSTANTS Threads, Sems

VARIABLES val, waiting   \* the value, and the threads inside P() of each semaphore

avars == <<val, waiting>>

AInit ==
    /\ val = [s \in Sems |-> 0]
    /\ waiting = [s \in Sems |-> {}]

\* P() finds the value positive at once.
Take(s) ==
    /\ val[s] > 0
    /\ val' = [val EXCEPT ![s] = @ - 1]
    /\ UNCHANGED waiting

\* P() has to wait.
Wait(t, s) ==
    /\ val[s] = 0
    /\ t \notin waiting[s]
    /\ waiting' = [waiting EXCEPT ![s] = @ \cup {t}]
    /\ UNCHANGED val

\* A waiter gets through.
Complete(t, s) ==
    /\ t \in waiting[s]
    /\ val[s] > 0
    /\ val' = [val EXCEPT ![s] = @ - 1]
    /\ waiting' = [waiting EXCEPT ![s] = @ \ {t}]

Signal(s) ==
    /\ val' = [val EXCEPT ![s] = @ + 1]
    /\ UNCHANGED waiting

ANext ==
    \E s \in Sems :
        \/ Take(s) \/ Signal(s)
        \/ \E t \in Threads : Wait(t, s) \/ Complete(t, s)

ASpec == AInit /\ [][ANext]_avars

ASpecLive ==
    ASpec /\ \A s \in Sems : WF_avars(\E t \in Threads : Complete(t, s))
=============================================================================
