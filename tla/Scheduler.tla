----------------------------- MODULE Scheduler -----------------------------
(***************************************************************************)
(* The thread core of the kernel: Thread, Scheduler, Semaphore, and the     *)
(* parts of Interrupt and Alarm that decide when threads are switched.      *)
(*                                                                         *)
(* The machine is a uniprocessor and code that runs with interrupts off is  *)
(* atomic, so a step is the code between two points at which control can    *)
(* leave the current thread: SetLevel(IntOn), which calls OneTick, and      *)
(* SWITCH.  Simulated time is abstracted to which pending interrupts are    *)
(* due at a tick; module Interrupt has the clock.                           *)
(***************************************************************************)
EXTENDS Naturals, Sequences, FiniteSets

CONSTANTS
    Threads,      \* Thread objects the heap can hold
    Main,         \* the thread Kernel::Initialize runs on; it halts, never finishes
    Worker,       \* the postal worker that Initialize forks; it loops for ever
    UserThreads,  \* threads with an address space (Thread::space # NULL)
    Sems,         \* semaphores
    Devices,      \* semaphores that an interrupt handler V()s on completion
    Pollers,      \* devices that poll the host and are pending from the start
    Timer,        \* the timer's pending interrupt
    NoThread,     \* a NULL Thread *
    NoSem,        \* not inside Semaphore::P
    MaxValue      \* bound: V() is called by threads only below this value

ASSUME ConstantsOK ==
    /\ IsFiniteSet(Threads)
    /\ Main \in Threads
    /\ Worker \in Threads \ {Main}
    /\ UserThreads \subseteq Threads
    /\ Devices \subseteq Sems
    /\ Pollers \subseteq Devices
    /\ Timer \notin Sems
    /\ NoThread \notin Threads
    /\ NoSem \notin Sems
    /\ MaxValue \in Nat

VARIABLES
    currentThread,  \* Kernel::currentThread
    readyList,      \* Scheduler::readyList
    toBeDestroyed,  \* Scheduler::toBeDestroyed
    status,         \* Thread::status
    pc,             \* where each thread is, or will go on after SWITCH
    sem,            \* the semaphore whose P() a thread is in
    value,          \* Semaphore::value
    queue,          \* Semaphore::queue
    level,          \* Interrupt::level
    mode,           \* Interrupt::status, the MachineStatus
    oldStatus,      \* OneTick's local oldStatus, outermost frame of a thread
    caller,         \* the code OneTick returns to: "kernel" or "user"
    inHandler,      \* Interrupt::inHandler
    yieldOnReturn,  \* Interrupt::yieldOnReturn
    pending,        \* Interrupt::pending, without the times
    due             \* what the CheckIfDue loop still has to deliver

threadVars == <<currentThread, readyList, toBeDestroyed, status, pc>>
semVars    == <<sem, value, queue>>
modeVars   == <<mode, oldStatus, caller>>
irqVars    == <<inHandler, yieldOnReturn, pending, due>>
vars       == <<threadVars, semVars, level, modeVars, irqVars>>

(***************************************************************************)
(* Control points.  A thread is at "begin" before ThreadRoot runs, "kernel" *)
(* in kernel code with interrupts on, "user" in MIPS code, "tick" inside    *)
(* OneTick, "yield" switched out by Yield, "P" inside the while loop of P,  *)
(* "finish" inside Finish; "free" is memory that holds no Thread.           *)
(***************************************************************************)
PCs          == {"free", "begin", "kernel", "user", "tick", "yield", "P", "finish"}
ThreadStatus == {"JUST_CREATED", "RUNNING", "READY", "BLOCKED"}
MachineStatus == {"IdleMode", "SystemMode", "UserMode"}

\* Pointers, lists and flags have their types; in particular no P() takes a
\* semaphore's value below zero.
TypeOK ==
    /\ currentThread \in Threads
    /\ readyList \in Seq(Threads)
    /\ toBeDestroyed \in Threads \cup {NoThread}
    /\ status \in [Threads -> ThreadStatus]
    /\ pc \in [Threads -> PCs]
    /\ sem \in [Threads -> Sems \cup {NoSem}]
    /\ value \in [Sems -> Nat]
    /\ queue \in [Sems -> Seq(Threads)]
    /\ level \in {"IntOff", "IntOn"}
    /\ mode \in MachineStatus
    /\ oldStatus \in [Threads -> MachineStatus \cup {"none"}]
    /\ caller \in [Threads -> {"kernel", "user"}]
    /\ inHandler \in BOOLEAN
    /\ yieldOnReturn \in BOOLEAN
    /\ pending \subseteq Devices \cup {Timer}
    /\ due \subseteq pending

(***************************************************************************)
(* Kernel::Initialize runs with interrupts off: PostOfficeInput forks the   *)
(* worker, the timer and the polling devices schedule their interrupts, and *)
(* the final Enable enters OneTick.                                         *)
(***************************************************************************)
Init ==
    /\ currentThread = Main
    /\ readyList = <<Worker>>
    /\ toBeDestroyed = NoThread
    /\ status = [[t \in Threads |-> "JUST_CREATED"]
                    EXCEPT ![Main] = "RUNNING", ![Worker] = "READY"]
    /\ pc = [[t \in Threads |-> "free"] EXCEPT ![Main] = "tick", ![Worker] = "begin"]
    /\ sem = [t \in Threads |-> NoSem]
    /\ value = [s \in Sems |-> 0]
    /\ queue = [s \in Sems |-> <<>>]
    /\ level = "IntOn"
    /\ mode = "SystemMode"
    /\ oldStatus = [t \in Threads |-> "none"]
    /\ caller = [t \in Threads |-> "kernel"]
    /\ inHandler = FALSE
    /\ yieldOnReturn = FALSE
    /\ pending = {Timer} \cup Pollers
    /\ due = {}

-----------------------------------------------------------------------------
\* The current thread is in Thread::Sleep and has not been switched in again.
Asleep == status[currentThread] # "RUNNING"

\* t executes kernel code with interrupts on.
InKernel(t) == t = currentThread /\ pc[t] = "kernel"

\* t has just come back from SWITCH (or was just started) at control point p.
Resumed(t, p) == t = currentThread /\ pc[t] = p /\ ~Asleep

\* SetLevel(IntOn) from IntOff: interrupts go on and OneTick starts.
EnableAndTick(t, base) ==
    /\ level' = "IntOn"
    /\ pc' = [base EXCEPT ![t] = "tick"]

\* CheckToBeDestroyed: delete the thread that finished before this one ran.
Reap(f, freed) ==
    IF toBeDestroyed = NoThread THEN f ELSE [f EXCEPT ![toBeDestroyed] = freed]

-----------------------------------------------------------------------------
(* Scheduler::Run, as called by Yield and by Sleep: the old thread's part.  *)

\* Scheduler::Run(nextThread, finishing) up to SWITCH, with st the statuses
\* that its caller leaves.
Run(next, finishing, st) ==
    /\ toBeDestroyed' = IF finishing THEN currentThread ELSE toBeDestroyed
    /\ currentThread' = next
    /\ status' = [st EXCEPT ![next] = "RUNNING"]
    /\ level' = "IntOff"

\* Thread::Yield by the current thread t, entered with interrupts on.
YieldBody(t) ==
    IF readyList = <<>>
    THEN /\ EnableAndTick(t, pc)
         /\ UNCHANGED <<currentThread, readyList, toBeDestroyed, status>>
    ELSE /\ readyList' = Append(Tail(readyList), t)
         /\ Run(Head(readyList), FALSE, [status EXCEPT ![t] = "READY"])
         /\ pc' = [pc EXCEPT ![t] = "yield"]

Yield(t) ==
    /\ InKernel(t)
    /\ YieldBody(t)
    /\ UNCHANGED <<semVars, modeVars, irqVars>>

\* The end of Yield, after SWITCH has come back to t.
YieldReturn(t) ==
    /\ Resumed(t, "yield")
    /\ EnableAndTick(t, Reap(pc, "free"))
    /\ status' = Reap(status, "JUST_CREATED")
    /\ toBeDestroyed' = NoThread
    /\ UNCHANGED <<currentThread, readyList, semVars, modeVars, irqVars>>

\* The while loop of Thread::Sleep when a thread is ready.
SleepRun(t) ==
    /\ t = currentThread /\ Asleep /\ ~inHandler
    /\ readyList # <<>>
    /\ readyList' = Tail(readyList)
    /\ Run(Head(readyList), pc[t] = "finish", status)
    /\ UNCHANGED <<pc, semVars, modeVars, irqVars>>

-----------------------------------------------------------------------------
(* Thread life cycle                                                        *)

\* new Thread, then Thread::Fork.
Fork(t, u) ==
    /\ InKernel(t)
    /\ pc[u] = "free"
    /\ status' = [status EXCEPT ![u] = "READY"]
    /\ readyList' = Append(readyList, u)
    /\ EnableAndTick(t, [pc EXCEPT ![u] = "begin"])
    /\ UNCHANGED <<currentThread, toBeDestroyed, semVars, modeVars, irqVars>>

\* Faulty variant: Begin without CheckToBeDestroyed.
BeginNoReap(t) ==
    /\ Resumed(t, "begin")
    /\ EnableAndTick(t, pc)
    /\ UNCHANGED <<currentThread, readyList, toBeDestroyed, status, semVars, modeVars, irqVars>>

\* ThreadRoot calls Thread::Begin in the new thread.
Begin(t) ==
    /\ Resumed(t, "begin")
    /\ EnableAndTick(t, Reap(pc, "free"))
    /\ status' = Reap(status, "JUST_CREATED")
    /\ toBeDestroyed' = NoThread
    /\ UNCHANGED <<currentThread, readyList, semVars, modeVars, irqVars>>

\* Thread::Finish, up to the loop of Sleep(TRUE).
Finish(t) ==
    /\ InKernel(t)
    /\ t \notin {Main, Worker}
    /\ pc' = [pc EXCEPT ![t] = "finish"]
    /\ status' = [status EXCEPT ![t] = "BLOCKED"]
    /\ level' = "IntOff"
    /\ UNCHANGED <<currentThread, readyList, toBeDestroyed, semVars, modeVars, irqVars>>

-----------------------------------------------------------------------------
(* Semaphores                                                               *)

\* One evaluation of P's while condition by t: sleep on s, or take it.  st and
\* p are the statuses and control points the test starts from.
TestValue(t, s, st, p) ==
    IF value[s] = 0
    THEN /\ queue' = [queue EXCEPT ![s] = Append(@, t)]
         /\ status' = [st EXCEPT ![t] = "BLOCKED"]
         /\ pc' = [p EXCEPT ![t] = "P"]
         /\ sem' = [sem EXCEPT ![t] = s]
         /\ level' = "IntOff"
         /\ UNCHANGED value
    ELSE /\ value' = [value EXCEPT ![s] = @ - 1]
         /\ status' = st
         /\ sem' = [sem EXCEPT ![t] = NoSem]
         /\ EnableAndTick(t, p)
         /\ UNCHANGED queue

P(t, s) ==
    /\ InKernel(t)
    /\ TestValue(t, s, status, pc)
    /\ UNCHANGED <<currentThread, readyList, toBeDestroyed, modeVars, irqVars>>

\* Faulty variant: P with "if" for "while", a sleeper does not test again.
PResumeNoTest(t) ==
    /\ Resumed(t, "P")
    /\ value' = [value EXCEPT ![sem[t]] = @ - 1]
    /\ status' = Reap(status, "JUST_CREATED")
    /\ sem' = [sem EXCEPT ![t] = NoSem]
    /\ EnableAndTick(t, Reap(pc, "free"))
    /\ toBeDestroyed' = NoThread
    /\ UNCHANGED <<currentThread, readyList, queue, modeVars, irqVars>>

\* A sleeper of P runs again and tests the value again.
PResume(t) ==
    /\ Resumed(t, "P")
    /\ TestValue(t, sem[t], Reap(status, "JUST_CREATED"), Reap(pc, "free"))
    /\ toBeDestroyed' = NoThread
    /\ UNCHANGED <<currentThread, readyList, modeVars, irqVars>>

\* Faulty variants of V: Front for RemoveFront; waking only when the value was
\* zero; never waking.
VBodyFront(s) ==
    /\ value' = [value EXCEPT ![s] = @ + 1]
    /\ IF queue[s] = <<>>
       THEN UNCHANGED <<queue, readyList, status>>
       ELSE /\ readyList' = Append(readyList, Head(queue[s]))
            /\ status' = [status EXCEPT ![Head(queue[s])] = "READY"]
            /\ UNCHANGED queue

VBodyWakeAtZero(s) ==
    /\ value' = [value EXCEPT ![s] = @ + 1]
    /\ IF queue[s] = <<>> \/ value[s] > 0
       THEN UNCHANGED <<queue, readyList, status>>
       ELSE /\ queue' = [queue EXCEPT ![s] = Tail(@)]
            /\ readyList' = Append(readyList, Head(queue[s]))
            /\ status' = [status EXCEPT ![Head(queue[s])] = "READY"]

VBodyNoWake(s) ==
    /\ value' = [value EXCEPT ![s] = @ + 1]
    /\ UNCHANGED <<queue, readyList, status>>

\* Semaphore::V between its two SetLevel calls.
VBody(s) ==
    /\ value' = [value EXCEPT ![s] = @ + 1]
    /\ IF queue[s] = <<>>
       THEN UNCHANGED <<queue, readyList, status>>
       ELSE /\ queue' = [queue EXCEPT ![s] = Tail(@)]
            /\ readyList' = Append(readyList, Head(queue[s]))
            /\ status' = [status EXCEPT ![Head(queue[s])] = "READY"]

V(t, s) ==
    /\ InKernel(t)
    /\ value[s] < MaxValue
    /\ VBody(s)
    /\ EnableAndTick(t, pc)
    /\ UNCHANGED <<currentThread, toBeDestroyed, sem, modeVars, irqVars>>

-----------------------------------------------------------------------------
(* Interrupts                                                               *)

\* A driver starts a device, which calls Interrupt::Schedule.
Schedule(t, d) ==
    /\ InKernel(t)
    /\ d \notin pending
    /\ value[d] < MaxValue
    /\ pending' = pending \cup {d}
    /\ UNCHANGED <<threadVars, semVars, level, modeVars, inHandler, yieldOnReturn, due>>

\* OneTick finds interrupts D due.
TickDue(t, D) ==
    /\ t = currentThread /\ pc[t] = "tick" /\ ~inHandler
    /\ D # {}
    /\ level' = "IntOff"
    /\ inHandler' = TRUE
    /\ due' = D
    /\ UNCHANGED <<threadVars, semVars, modeVars, yieldOnReturn, pending>>

\* Interrupt::Idle, from the loop of Sleep: CheckIfDue(TRUE) advances the clock
\* to the next interrupts D.
Idle(t, D) ==
    /\ t = currentThread /\ Asleep /\ ~inHandler
    /\ readyList = <<>>
    /\ D # {}
    /\ mode' = "IdleMode"
    /\ inHandler' = TRUE
    /\ due' = D
    /\ UNCHANGED <<threadVars, semVars, level, oldStatus, caller, yieldOnReturn, pending>>

\* Faulty variant: the alarm never asks for a yield.
TimerCallBackNoYield ==
    /\ Timer \in due
    /\ due' = due \ {Timer}
    /\ UNCHANGED <<threadVars, semVars, level, modeVars, inHandler, yieldOnReturn, pending>>

\* Timer::CallBack: Alarm::CallBack asks for a yield unless the machine idles,
\* then SetInterrupt schedules the next timer interrupt.
TimerCallBack ==
    /\ Timer \in due
    /\ due' = due \ {Timer}
    /\ yieldOnReturn' = (yieldOnReturn \/ mode # "IdleMode")
    /\ UNCHANGED <<threadVars, semVars, level, modeVars, inHandler, pending>>

\* A device's CallBack V()s the semaphore its driver sleeps on; one that polls
\* may find nothing, and may go on polling.
DeviceCallBack(d) ==
    /\ d \in due
    /\ due' = due \ {d}
    /\ \/ VBody(d) /\ pending' = pending \ {d}
       \/ d \in Pollers /\ value[d] < MaxValue /\ VBody(d) /\ UNCHANGED pending
       \/ d \in Pollers /\ UNCHANGED <<value, queue, readyList, status, pending>>
    /\ UNCHANGED <<currentThread, toBeDestroyed, pc, sem, level, modeVars, inHandler, yieldOnReturn>>

\* CheckIfDue(TRUE) returns to Idle, and Idle to Sleep.
IdleReturn(t) ==
    /\ t = currentThread /\ Asleep /\ inHandler
    /\ due = {}
    /\ inHandler' = FALSE
    /\ mode' = "SystemMode"
    /\ UNCHANGED <<threadVars, semVars, level, oldStatus, caller, yieldOnReturn, pending, due>>

\* Faulty variant: OneTick without "status = oldStatus" at its end.
TickReturnNoRestore(t) ==
    /\ t = currentThread /\ pc[t] = "tick"
    /\ due = {}
    /\ ~yieldOnReturn
    /\ pc' = [pc EXCEPT ![t] = caller[t]]
    /\ oldStatus' = [oldStatus EXCEPT ![t] = "none"]
    /\ inHandler' = FALSE
    /\ level' = "IntOn"
    /\ UNCHANGED <<currentThread, readyList, toBeDestroyed, status, semVars, yieldOnReturn, pending, due, caller, mode>>

\* The end of OneTick without a yield.  The frames of OneTick and Yield that
\* are nested on the stack unwind: only the outermost oldStatus lasts.
TickReturn(t) ==
    /\ t = currentThread /\ pc[t] = "tick"
    /\ due = {}
    /\ ~yieldOnReturn
    /\ mode' = IF oldStatus[t] = "none" THEN mode ELSE oldStatus[t]
    /\ pc' = [pc EXCEPT ![t] = caller[t]]
    /\ oldStatus' = [oldStatus EXCEPT ![t] = "none"]
    /\ inHandler' = FALSE
    /\ level' = "IntOn"
    /\ UNCHANGED <<currentThread, readyList, toBeDestroyed, status, semVars, yieldOnReturn, pending, due, caller>>

\* Faulty variant: OneTick without "yieldOnReturn = FALSE".
TickYieldNoClear(t) ==
    /\ t = currentThread /\ pc[t] = "tick"
    /\ due = {}
    /\ yieldOnReturn
    /\ inHandler' = FALSE
    /\ oldStatus' = [oldStatus EXCEPT ![t] = IF @ = "none" THEN mode ELSE @]
    /\ mode' = "SystemMode"
    /\ YieldBody(t)
    /\ UNCHANGED <<semVars, pending, due, caller, yieldOnReturn>>

\* The end of OneTick when the timer handler asked for a yield.
TickYield(t) ==
    /\ t = currentThread /\ pc[t] = "tick"
    /\ due = {}
    /\ yieldOnReturn
    /\ yieldOnReturn' = FALSE
    /\ inHandler' = FALSE
    /\ oldStatus' = [oldStatus EXCEPT ![t] = IF @ = "none" THEN mode ELSE @]
    /\ mode' = "SystemMode"
    /\ YieldBody(t)
    /\ UNCHANGED <<semVars, pending, due, caller>>

-----------------------------------------------------------------------------
(* User programs                                                            *)

\* One instruction, then OneTick (Machine::Run).
UserInstruction(t) ==
    /\ t = currentThread /\ pc[t] = "user"
    /\ pc' = [pc EXCEPT ![t] = "tick"]
    /\ UNCHANGED <<currentThread, readyList, toBeDestroyed, status, semVars, level, modeVars, irqVars>>

\* Machine::RaiseException up to the call of ExceptionHandler.
RaiseException(t) ==
    /\ t = currentThread /\ pc[t] = "user"
    /\ pc' = [pc EXCEPT ![t] = "kernel"]
    /\ mode' = "SystemMode"
    /\ caller' = [caller EXCEPT ![t] = "kernel"]
    /\ UNCHANGED <<currentThread, readyList, toBeDestroyed, status, semVars, level, oldStatus, irqVars>>

\* The handler returns (or Machine::Run starts the program) and the instruction
\* ends in OneTick.
ReturnToUser(t) ==
    /\ InKernel(t)
    /\ t \in UserThreads
    /\ mode' = "UserMode"
    /\ caller' = [caller EXCEPT ![t] = "user"]
    /\ pc' = [pc EXCEPT ![t] = "tick"]
    /\ UNCHANGED <<currentThread, readyList, toBeDestroyed, status, semVars, level, oldStatus, irqVars>>

-----------------------------------------------------------------------------
ThreadStep(t) ==
    \/ Yield(t) \/ YieldReturn(t) \/ SleepRun(t)
    \/ \E u \in Threads : Fork(t, u)
    \/ Begin(t) \/ Finish(t)
    \/ \E s \in Sems : P(t, s) \/ V(t, s)
    \/ PResume(t)
    \/ \E d \in Devices : Schedule(t, d)
    \/ UserInstruction(t) \/ RaiseException(t) \/ ReturnToUser(t)

InterruptStep ==
    \/ \E t \in Threads, D \in SUBSET pending : TickDue(t, D) \/ Idle(t, D)
    \/ TimerCallBack
    \/ \E d \in Devices : DeviceCallBack(d)
    \/ \E t \in Threads : IdleReturn(t) \/ TickReturn(t) \/ TickYield(t)

Next == (\E t \in Threads : ThreadStep(t)) \/ InterruptStep

Spec == Init /\ [][Next]_vars

(***************************************************************************)
(* The processor always executes something (a step is always possible, the  *)
(* runs check for deadlock, so this is WF_vars(Next)), the clock advances   *)
(* at every tick, and the timer and every device interrupt has a finite     *)
(* time, so none of them stays pending for ever while ticks happen.         *)
(***************************************************************************)
Delivered(d) ==
    \E D \in SUBSET pending :
        d \in D /\ (TickDue(currentThread, D) \/ Idle(currentThread, D))

Fairness ==
    /\ []<><<TRUE>>_vars
    /\ \A d \in Devices \cup {Timer} : SF_vars(Delivered(d))

FairSpec == Spec /\ Fairness

-----------------------------------------------------------------------------
(* Properties                                                               *)

On(t, list) == \E i \in DOMAIN list : list[i] = t

NoDuplicates(list) == \A i, j \in DOMAIN list : i # j => list[i] # list[j]

\* Every thread is in exactly the place its status says: on the ready list
\* when READY, on the queue of the semaphore it waits for when BLOCKED in P,
\* on no list when RUNNING, finishing or freed.  List::Append aborts on a
\* duplicate, so this also says ReadyToRun and P never trip that ASSERT.
ListsMatchStatus ==
    /\ NoDuplicates(readyList)
    /\ \A s \in Sems : NoDuplicates(queue[s])
    /\ \A t \in Threads :
        /\ status[t] = "READY" <=> On(t, readyList)
        /\ status[t] = "RUNNING" => t = currentThread
        /\ status[t] = "JUST_CREATED" <=> pc[t] = "free"
        /\ \A s \in Sems :
            On(t, queue[s]) <=> status[t] = "BLOCKED" /\ pc[t] = "P" /\ sem[t] = s

\* Threads that V() took off the queue of s and that have not tested the value
\* again yet.
Woken(s) == {t \in Threads : pc[t] = "P" /\ sem[t] = s /\ status[t] # "BLOCKED"}

\* No wake-up is lost, although V() wakes one thread whatever the value and P()
\* lets a thread that never slept take the value first: while a thread sleeps
\* on s, every unit of the value is matched by a thread that has been woken.
NoLostWakeup ==
    \A s \in Sems : queue[s] # <<>> => value[s] <= Cardinality(Woken(s))

\* A finished thread's stack is in use until SWITCH has left it, and it is
\* deleted by the next thread's first code (Scheduler::Run, Thread::Begin):
\* until then nothing else may refer to it, no second thread may finish (the
\* ASSERT in Run), and nobody deletes the stack it runs on (~Thread's ASSERT).
DestroyedByNextThread ==
    /\ toBeDestroyed # NoThread =>
        /\ toBeDestroyed # currentThread
        /\ pc[toBeDestroyed] = "finish"
        /\ ~On(toBeDestroyed, readyList)
        /\ \A s \in Sems : ~On(toBeDestroyed, queue[s])
        /\ pc[currentThread] \in {"begin", "yield", "P"} /\ ~Asleep
    /\ \A t \in Threads : pc[t] = "finish" => t \in {currentThread, toBeDestroyed}

\* Interrupts are off exactly while the current thread is between SetLevel and
\* SWITCH or in a handler, whichever thread turned them off; kernel and user
\* code runs with interrupts on, outside handlers, with no yield owed.
InterruptDiscipline ==
    /\ level = "IntOff" <=>
        Asleep \/ inHandler \/ pc[currentThread] \in {"begin", "yield", "P"}
    /\ pc[currentThread] \in {"kernel", "user"} => ~inHandler /\ ~yieldOnReturn
    /\ yieldOnReturn => inHandler /\ ~Asleep

\* The machine status follows the code that runs across every preemption:
\* user instructions run in UserMode, kernel code, switches and thread starts
\* in SystemMode, and only the handlers called from Idle see IdleMode.
ModeFollowsCode ==
    /\ pc[currentThread] = "user" => mode = "UserMode"
    /\ pc[currentThread] \in {"kernel", "begin", "yield"} => mode = "SystemMode"
    /\ mode = "UserMode" => currentThread \in UserThreads
    /\ mode = "IdleMode" <=> Asleep /\ inHandler

\* Time slicing and the FIFO ready list let every ready thread run.
ReadyRuns ==
    \A t \in Threads : status[t] = "READY" ~> status[t] = "RUNNING"

\* The queue, the ready list and the switches implement the semaphore that
\* callers of P() and V() may assume.
AbsSem == INSTANCE AbstractSemaphore
            WITH val <- value,
                 waiting <- [s \in Sems |-> {t \in Threads : pc[t] = "P" /\ sem[t] = s}]

ImplementsSemaphore == AbsSem!ASpec

\* ... including that some waiter gets through while the value is positive.
ImplementsLiveSemaphore == AbsSem!ASpecLive
=============================================================================
