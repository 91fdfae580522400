----------------------------- MODULE Interrupt -----------------------------
(***************************************************************************)
(* The interrupt simulation with its clock: the SortedList of pending       *)
(* interrupts, OneTick, Idle, CheckIfDue and the timer.  Module Scheduler   *)
(* has the threads and leaves the times out; this module has the times and  *)
(* leaves the threads out.                                                  *)
(***************************************************************************)
EXTENDS Naturals, Sequences, FiniteSets

CONSTANTS
    Devices,      \* devices that interrupt on completion or poll
    Timer,        \* the timer device
    Delays,       \* Delays[d]: the values of fromNow that d passes to Schedule
    SystemTick,   \* ticks of OneTick in SystemMode
    UserTick,     \* ticks of OneTick in UserMode
    MaxTicks      \* bound: OneTick and Idle start only below this time

Sources == Devices \cup {Timer}

ASSUME InterruptConstants ==
    /\ Timer \notin Devices
    /\ SystemTick \in Nat \ {0}
    /\ UserTick \in Nat \ {0}
    /\ UserTick <= SystemTick
    /\ Delays \in [Sources -> (SUBSET (Nat \ {0})) \ {{}}]
    /\ MaxTicks \in Nat

VARIABLES
    totalTicks, idleTicks, systemTicks, userTicks,   \* Statistics
    pending,        \* Interrupt::pending, a SortedList of [from, when]
    status,         \* Interrupt::status
    inHandler,      \* Interrupt::inHandler
    yieldOnReturn,  \* Interrupt::yieldOnReturn
    halted          \* Interrupt::Halt was called by Idle

clockVars == <<totalTicks, idleTicks, systemTicks, userTicks>>
vars == <<clockVars, pending, status, inHandler, yieldOnReturn, halted>>

PendingInterrupt == [from : Sources, when : Nat]

\* Times, the list and the flags have their types.
TypeOK ==
    /\ totalTicks \in Nat /\ idleTicks \in Nat /\ systemTicks \in Nat /\ userTicks \in Nat
    /\ pending \in Seq(PendingInterrupt)
    /\ status \in {"IdleMode", "SystemMode", "UserMode"}
    /\ inHandler \in BOOLEAN /\ yieldOnReturn \in BOOLEAN /\ halted \in BOOLEAN

-----------------------------------------------------------------------------
(* SortedList                                                               *)

\* PendingCompare(x, y) < 0.
Before(x, y) == x.when < y.when

\* The position at which Insert puts an item: before the first bigger one.
InsertPosition(item, list) ==
    CHOOSE i \in 1 .. Len(list) + 1 :
        /\ \A j \in 1 .. i - 1 : ~Before(item, list[j])
        /\ i <= Len(list) => Before(item, list[i])

\* The list with item at position i.
InsertAtPosition(item, i, list) ==
    [j \in 1 .. Len(list) + 1 |->
        IF j < i THEN list[j] ELSE IF j = i THEN item ELSE list[j - 1]]

\* Faulty variant: Insert at the end, as List::Append does.
InsertLast(item, list) == Append(list, item)

\* SortedList::Insert.
Insert(item, list) == InsertAtPosition(item, InsertPosition(item, list), list)

\* Interrupt::Schedule by d, fromNow after time now.
Schedule(d, fromNow, now, list) == Insert([from |-> d, when |-> now + fromNow], list)

IsPending(d) == \E i \in DOMAIN pending : pending[i].from = d

\* The first pending interrupt is due at time now.
FrontDue(now) == pending # <<>> /\ Head(pending).when <= now

-----------------------------------------------------------------------------
\* Kernel::Initialize constructs Alarm, whose Timer schedules itself; the devices
\* that poll follow with StartDevice, before the first tick.
Init ==
    /\ totalTicks = 0 /\ idleTicks = 0 /\ systemTicks = 0 /\ userTicks = 0
    /\ \E n \in Delays[Timer] : pending = <<[from |-> Timer, when |-> n]>>
    /\ status = "SystemMode"
    /\ inHandler = FALSE /\ yieldOnReturn = FALSE /\ halted = FALSE

\* Kernel code starts device d.
StartDevice(d) ==
    /\ status = "SystemMode" /\ ~inHandler /\ ~yieldOnReturn /\ ~halted
    /\ ~IsPending(d)
    /\ \E n \in Delays[d] : pending' = Schedule(d, n, totalTicks, pending)
    /\ UNCHANGED <<clockVars, status, inHandler, yieldOnReturn, halted>>

\* Kernel and user code alternate (RaiseException, and its return).
ChangeMode ==
    /\ status \in {"SystemMode", "UserMode"} /\ ~inHandler /\ ~yieldOnReturn /\ ~halted
    /\ status' = IF status = "UserMode" THEN "SystemMode" ELSE "UserMode"
    /\ UNCHANGED <<clockVars, pending, inHandler, yieldOnReturn, halted>>

\* OneTick up to the loop of CheckIfDue(FALSE).
OneTick ==
    /\ status \in {"SystemMode", "UserMode"} /\ ~inHandler /\ ~yieldOnReturn /\ ~halted
    /\ totalTicks < MaxTicks
    /\ IF status = "SystemMode"
       THEN /\ totalTicks' = totalTicks + SystemTick
            /\ systemTicks' = systemTicks + SystemTick
            /\ UNCHANGED userTicks
       ELSE /\ totalTicks' = totalTicks + UserTick
            /\ userTicks' = userTicks + UserTick
            /\ UNCHANGED systemTicks
    /\ inHandler' = FrontDue(totalTicks')
    /\ UNCHANGED <<idleTicks, pending, status, yieldOnReturn, halted>>

\* Faulty variant: the idle time is subtracted the wrong way round.
IdleSwapped ==
    /\ status = "SystemMode" /\ ~inHandler /\ ~yieldOnReturn /\ ~halted
    /\ totalTicks < MaxTicks
    /\ status' = "IdleMode"
    /\ inHandler' = (pending # <<>>)
    /\ halted' = (pending = <<>>)
    /\ idleTicks' = idleTicks + (totalTicks - Head(pending).when)
    /\ totalTicks' = Head(pending).when
    /\ UNCHANGED <<systemTicks, userTicks, pending, yieldOnReturn>>

\* Idle, called with no thread ready: CheckIfDue(TRUE) moves the clock to the
\* first pending interrupt; without one, Halt.
Idle ==
    /\ status = "SystemMode" /\ ~inHandler /\ ~yieldOnReturn /\ ~halted
    /\ totalTicks < MaxTicks
    /\ status' = "IdleMode"
    /\ inHandler' = (pending # <<>>)
    /\ halted' = (pending = <<>>)
    /\ IF pending = <<>> \/ FrontDue(totalTicks)
       THEN UNCHANGED <<totalTicks, idleTicks>>
       ELSE /\ idleTicks' = idleTicks + (Head(pending).when - totalTicks)
            /\ totalTicks' = Head(pending).when
    /\ UNCHANGED <<systemTicks, userTicks, pending, yieldOnReturn>>

\* Faulty variants: the timer does not schedule itself again; the interrupt is
\* left on the list.
DeliverOneShot ==
    /\ inHandler
    /\ FrontDue(totalTicks)
    /\ pending' = Tail(pending)
    /\ UNCHANGED <<clockVars, status, inHandler, yieldOnReturn, halted>>

DeliverFront ==
    /\ inHandler
    /\ FrontDue(totalTicks)
    /\ UNCHANGED vars

\* One iteration of the do loop of CheckIfDue.  The timer asks for a yield
\* unless the machine idles and schedules itself again; a device may do so.
Deliver ==
    /\ inHandler
    /\ FrontDue(totalTicks)
    /\ LET d == Head(pending).from IN
        /\ \/ \E n \in Delays[d] : pending' = Schedule(d, n, totalTicks, Tail(pending))
           \/ d # Timer /\ pending' = Tail(pending)
        /\ yieldOnReturn' = (yieldOnReturn \/ (d = Timer /\ status # "IdleMode"))
    /\ UNCHANGED <<clockVars, status, inHandler, halted>>

\* Faulty variant: CheckIfDue fires one interrupt only ("if" for "while").
HandlersDoneEarly ==
    /\ inHandler
    /\ inHandler' = FALSE
    /\ status' = IF status = "IdleMode" THEN "SystemMode" ELSE status
    /\ UNCHANGED <<clockVars, pending, yieldOnReturn, halted>>

\* The loop ends and CheckIfDue returns to OneTick or Idle.
HandlersDone ==
    /\ inHandler
    /\ ~FrontDue(totalTicks)
    /\ inHandler' = FALSE
    /\ status' = IF status = "IdleMode" THEN "SystemMode" ELSE status
    /\ UNCHANGED <<clockVars, pending, yieldOnReturn, halted>>

\* OneTick calls Yield in SystemMode: the ticks of the thread that is switched
\* in are OneTicks of their own.
YieldNow ==
    /\ ~inHandler /\ yieldOnReturn
    /\ yieldOnReturn' = FALSE
    /\ status' = "SystemMode"
    /\ UNCHANGED <<clockVars, pending, inHandler, halted>>

Next ==
    \/ \E d \in Devices : StartDevice(d)
    \/ ChangeMode \/ OneTick \/ Idle \/ Deliver \/ HandlersDone \/ YieldNow

Spec == Init /\ [][Next]_vars

\* CheckIfDue's loop runs to its end: nothing else runs while a handler does.
FairSpec == Spec /\ WF_vars(Deliver \/ HandlersDone)

-----------------------------------------------------------------------------
(* Properties                                                               *)

\* A tick of the code that was interrupted.
TickOf(m) ==
    IF m = "IdleMode" THEN 1 ELSE IF m = "SystemMode" THEN SystemTick ELSE UserTick

\* No interrupt is late by a whole tick, and none is overdue while kernel or user
\* code runs: CheckIfDue delivers everything that is due, including what became
\* due in the same tick, and out of Idle exactly at its time.
InterruptsOnTime ==
    \A i \in DOMAIN pending :
        /\ ~inHandler => totalTicks < pending[i].when
        /\ inHandler => totalTicks < pending[i].when + TickOf(status)

\* The list is in the order of time, so looking at its front is enough.
PendingSorted ==
    \A i, j \in DOMAIN pending : i < j => pending[i].when <= pending[j].when

\* The time slice never gets lost: the timer is pending at every moment, and so
\* Idle never finds the list empty and halts the machine.
TimerPending == IsPending(Timer) /\ ~halted

\* Every tick is accounted to exactly one of idle, system and user time.
TicksAccounted == totalTicks = idleTicks + systemTicks + userTicks

\* The loop of CheckIfDue ends, although handlers schedule new interrupts.
HandlersEnd == inHandler ~> ~inHandler
=============================================================================
