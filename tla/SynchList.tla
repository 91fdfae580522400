----------------------------- MODULE SynchList -----------------------------
(***************************************************************************)
(* SynchList: a list shared by threads that append, remove and apply under  *)
(* a monitor (lock and listEmpty).  The steps are built from the effects of *)
(* Lock and Condition in module Monitor; a step is the code between two     *)
(* places where P() or V() can give up the processor.                       *)
(***************************************************************************)
EXTENDS Monitor

CONSTANTS
    Producers,   \* threads that call Append
    Consumers,   \* threads that call RemoveFront
    Appliers,    \* threads that call Apply
    Items,       \* what is put on the list
    MaxLen       \* bound: Append is called only below this length

ASSUME SynchListConstants ==
    /\ Threads = Producers \cup Consumers \cup Appliers
    /\ MaxLen \in Nat \ {0}

VARIABLES
    list,        \* SynchList::list
    op           \* the operation a thread is in

svars == <<mvars, list, op>>

ListInit ==
    /\ MonitorInit
    /\ list = <<>>
    /\ op = [t \in Threads |-> "none"]

-----------------------------------------------------------------------------
\* A thread calls an operation, which starts with lock->Acquire().
Call(t, o) ==
    /\ Goes(t, "out", "lockP")
    /\ op' = [op EXCEPT ![t] = o]
    /\ UNCHANGED <<lockVars, condVars, list>>

\* The lock's P(), in Acquire or at the end of Wait.
EnterList(t) ==
    /\ \/ Goes(t, "lockP", "locked")
       \/ Goes(t, "relockP", "relocked")
    /\ LockP
    /\ UNCHANGED <<condVars, list, op>>

\* Faulty variant: Append signals only when it makes the list non-empty.
AppendSignalFirst(t, x) ==
    /\ op[t] = "Append" /\ at[t] = "locked"
    /\ \A i \in DOMAIN list : list[i] # x
    /\ list' = Append(list, x)
    /\ IF list = <<>> THEN SignalFront ELSE UNCHANGED condVars
    /\ IF waitQueue = <<>> \/ list # <<>>
       THEN Goes(t, "locked", "out") /\ op' = [op EXCEPT ![t] = "none"] /\ ReleaseLock
       ELSE Goes(t, "locked", "body") /\ lockHolder' = t /\ UNCHANGED <<op, lockValue>>

\* Append with the lock.  If a thread waits, Signal's V() is a place to lose
\* the processor and Release is a step of its own.  List::Append asserts that
\* the item is not on the list (list.cc:79): clients append no item twice.
AppendItem(t, x) ==
    /\ op[t] = "Append" /\ at[t] = "locked"
    /\ \A i \in DOMAIN list : list[i] # x
    /\ list' = Append(list, x)
    /\ SignalFront
    /\ IF waitQueue = <<>>
       THEN Goes(t, "locked", "out") /\ op' = [op EXCEPT ![t] = "none"] /\ ReleaseLock
       ELSE Goes(t, "locked", "body") /\ lockHolder' = t /\ UNCHANGED <<op, lockValue>>

\* The Release of an Append that signalled.
AppendRelease(t) ==
    /\ Goes(t, "body", "out")
    /\ op' = [op EXCEPT ![t] = "none"]
    /\ ReleaseLock
    /\ UNCHANGED <<condVars, list>>

\* The while loop of RemoveFront with the lock: wait (again), or remove and
\* release.  Coming back from Wait, the old waiter is deleted first.
TestList(t) ==
    /\ op[t] = "RemoveFront" /\ at[t] \in {"locked", "relocked"}
    /\ ReleaseLock
    /\ IF list = <<>>
       THEN /\ EnqueueWaiter(t)
            /\ at' = [at EXCEPT ![t] = "waitP"]
            /\ UNCHANGED <<list, op>>
       ELSE /\ list' = Tail(list)
            /\ at' = [at EXCEPT ![t] = "out"]
            /\ op' = [op EXCEPT ![t] = "none"]
            /\ waiter' = [waiter EXCEPT ![t] = Deleted]
            /\ UNCHANGED waitQueue

\* waiter->P() of Wait.
WokenForItem(t) == Woken(t) /\ UNCHANGED <<list, op>>

ApplyItems(t) ==
    /\ op[t] = "Apply"
    /\ Goes(t, "locked", "out")
    /\ op' = [op EXCEPT ![t] = "none"]
    /\ ReleaseLock
    /\ UNCHANGED <<condVars, list>>

\* What a thread inside an operation does when it runs.
Proceed(t) ==
    \/ \E x \in Items : AppendItem(t, x)
    \/ AppendRelease(t)
    \/ TestList(t)
    \/ WokenForItem(t)
    \/ ApplyItems(t)

\* Threads that have called Append and not yet appended.
Appending == {t \in Threads : op[t] = "Append" /\ at[t] # "body"}

ListNext ==
    \E t \in Threads :
        \/ t \in Producers /\ Len(list) + Cardinality(Appending) < MaxLen /\ Call(t, "Append")
        \/ t \in Consumers /\ Call(t, "RemoveFront")
        \/ t \in Appliers /\ Call(t, "Apply")
        \/ EnterList(t)
        \/ Proceed(t)

ListSpec == ListInit /\ [][ListNext]_svars

(***************************************************************************)
(* Every thread that can run does (Scheduler!ReadyRuns), and while the lock *)
(* is free and wanted some thread gets it (AbstractSemaphore!ASpecLive):    *)
(* no thread in particular, since a newcomer may take it from a waiter.     *)
(***************************************************************************)
ListFairness ==
    /\ \A t \in Threads : WF_svars(Proceed(t))
    /\ WF_svars(\E t \in Threads : EnterList(t))

ListFairSpec == ListSpec /\ ListFairness

-----------------------------------------------------------------------------
(* Properties                                                               *)

\* Threads that were signalled and have not looked at the list again yet.
Signalled ==
    {t \in Threads : \/ at[t] = "waitP" /\ waiter[t] = 1
                     \/ at[t] \in {"relockP", "relocked"}}

\* No item is stranded: while a thread waits for an item, every item on the list
\* is matched by a thread that was signalled, although a newcomer may have
\* taken the item that an earlier signal was for.
ItemsNotStranded == waitQueue # <<>> => Len(list) <= Cardinality(Signalled)

\* RemoveFront makes progress: if from some time on there is an item and a
\* thread in RemoveFront, items keep being removed, unless threads in Apply
\* keep taking the lock (the semaphore under it is not fair).  Threads in Append
\* cannot keep taking it for ever, as MaxLen bounds the list.
RemoveProgress ==
    <>[](/\ list # <<>>
         /\ \E t \in Consumers : op[t] = "RemoveFront"
         /\ \A t \in Appliers : op[t] # "Apply")
      => []<><<\E t \in Consumers : TestList(t) /\ list # <<>>>>_svars
=============================================================================
