-------------------------- MODULE SchedulerControl --------------------------
(***************************************************************************)
(* Proofs about Scheduler, for any number of threads and semaphores: the    *)
(* inductive invariant, and that every step preserves its conjuncts about   *)
(* types, statuses, control points, interrupts and the machine status.      *)
(* SchedulerProofs has the lists and the theorems.                          *)
(***************************************************************************)
EXTENDS Scheduler, TLAPS

-----------------------------------------------------------------------------
(* The inductive invariant.  Beside the properties of Scheduler it records  *)
(* which control points go with which thread status, where handlers can     *)
(* run, and what the frames of OneTick on each thread's stack hold.         *)

\* The control points of a thread of each status.
StatusMatchesPC ==
    /\ \A t \in Threads :
        /\ status[t] = "JUST_CREATED" <=> pc[t] = "free"
        /\ status[t] = "RUNNING" => pc[t] # "finish" /\ t = currentThread
        /\ status[t] = "READY" => pc[t] \in {"begin", "yield", "P"}
        /\ status[t] = "BLOCKED" => pc[t] \in {"P", "finish"}
        /\ pc[t] = "P" => sem[t] \in Sems
    /\ status[currentThread] # "JUST_CREATED"
    /\ status[currentThread] = "READY" => pc[currentThread] = "P"

\* A finished thread is current until it switches, then waits to be destroyed
\* by the thread that has just been switched in.
FinishedInv ==
    /\ toBeDestroyed # NoThread =>
        /\ toBeDestroyed # currentThread
        /\ pc[toBeDestroyed] = "finish"
        /\ pc[currentThread] \in {"begin", "yield", "P"}
        /\ ~Asleep
    /\ \A t \in Threads : pc[t] = "finish" => t \in {currentThread, toBeDestroyed}

\* Handlers run inside OneTick or Idle only.
HandlersInTickOrIdle ==
    /\ inHandler => Asleep \/ pc[currentThread] = "tick"
    /\ due # {} => inHandler

ModeOf(c) == IF c = "user" THEN "UserMode" ELSE "SystemMode"

\* What OneTick will restore is the mode of the code that called it.
ModeInv ==
    /\ mode = "UserMode" =>
        pc[currentThread] \in {"tick", "user"} /\ caller[currentThread] = "user"
                                               /\ oldStatus[currentThread] = "none"
    /\ pc[currentThread] = "user" => mode = "UserMode"
    /\ mode = "IdleMode" <=> Asleep /\ inHandler
    /\ pc[currentThread] = "tick" /\ oldStatus[currentThread] = "none"
         => mode = ModeOf(caller[currentThread])
    /\ \A t \in Threads :
        /\ oldStatus[t] # "none" =>
            pc[t] \in {"tick", "yield"} /\ oldStatus[t] = ModeOf(caller[t])
        /\ caller[t] = "user" => t \in UserThreads /\ pc[t] \in {"user", "tick", "yield"}
        /\ pc[t] = "user" => caller[t] = "user"
        /\ pc[t] = "yield" /\ oldStatus[t] = "none" => caller[t] = "kernel"

IInv ==
    /\ TypeOK
    /\ ListsMatchStatus
    /\ StatusMatchesPC
    /\ FinishedInv
    /\ InterruptDiscipline
    /\ HandlersInTickOrIdle
    /\ ModeInv

-----------------------------------------------------------------------------
(* Lists                                                                    *)

\* List::Append puts the item on the list and disturbs nothing else.
LEMMA OnAppend ==
    ASSUME NEW S, NEW q \in Seq(S), NEW x \in S, NEW y \in S
    PROVE  On(y, Append(q, x)) <=> On(y, q) \/ y = x
<1>1. /\ Append(q, x) \in Seq(S)
      /\ Len(Append(q, x)) = Len(q) + 1
      /\ \A i \in 1 .. Len(q) : Append(q, x)[i] = q[i]
      /\ Append(q, x)[Len(q) + 1] = x
  OBVIOUS
<1>2. DOMAIN q = 1 .. Len(q) /\ DOMAIN Append(q, x) = 1 .. (Len(q) + 1)
  BY <1>1
<1>3. Len(q) \in Nat
  OBVIOUS
<1>. QED  BY <1>1, <1>2, <1>3 DEF On

\* Appending an item that is not on the list keeps the list free of duplicates.
LEMMA NoDuplicatesAppend ==
    ASSUME NEW S, NEW q \in Seq(S), NEW x \in S, NoDuplicates(q), ~On(x, q)
    PROVE  NoDuplicates(Append(q, x))
<1>1. /\ Len(Append(q, x)) = Len(q) + 1
      /\ \A i \in 1 .. Len(q) : Append(q, x)[i] = q[i]
      /\ Append(q, x)[Len(q) + 1] = x
  OBVIOUS
<1>2. DOMAIN q = 1 .. Len(q) /\ DOMAIN Append(q, x) = 1 .. (Len(q) + 1)
  BY <1>1
<1>3. Len(q) \in Nat
  OBVIOUS
<1>. QED  BY <1>1, <1>2, <1>3 DEF On, NoDuplicates

\* List::RemoveFront takes exactly the front item off a duplicate-free list.
LEMMA OnTail ==
    ASSUME NEW S, NEW q \in Seq(S), q # <<>>, NoDuplicates(q), NEW y \in S
    PROVE  /\ Head(q) \in S
           /\ On(Head(q), q)
           /\ Tail(q) \in Seq(S)
           /\ NoDuplicates(Tail(q))
           /\ On(y, Tail(q)) <=> On(y, q) /\ y # Head(q)
<1>1. /\ Len(q) \in Nat \ {0}
      /\ Tail(q) \in Seq(S)
      /\ Len(Tail(q)) = Len(q) - 1
      /\ \A i \in 1 .. (Len(q) - 1) : Tail(q)[i] = q[i + 1]
      /\ Head(q) = q[1]
      /\ Head(q) \in S
  OBVIOUS
<1>2. DOMAIN q = 1 .. Len(q) /\ DOMAIN Tail(q) = 1 .. (Len(q) - 1)
  BY <1>1
<1>3. On(Head(q), q)
  BY <1>1, <1>2 DEF On
<1>4. NoDuplicates(Tail(q))
  BY <1>1, <1>2 DEF NoDuplicates
<1>5. On(y, q) /\ y # Head(q) => On(y, Tail(q))
  <2>1. SUFFICES ASSUME NEW i \in DOMAIN q, q[i] = y, y # Head(q)
                 PROVE  On(y, Tail(q))
    BY DEF On
  <2>2. i - 1 \in 1 .. (Len(q) - 1) /\ Tail(q)[i - 1] = q[i]
    BY <1>1, <1>2, <2>1
  <2>. QED  BY <1>2, <2>1, <2>2 DEF On
<1>6. On(y, Tail(q)) => On(y, q) /\ y # Head(q)
  <2>1. SUFFICES ASSUME NEW i \in DOMAIN Tail(q), Tail(q)[i] = y
                 PROVE  On(y, q) /\ y # Head(q)
    BY DEF On
  <2>2. i + 1 \in DOMAIN q /\ q[i + 1] = y /\ i + 1 # 1 /\ 1 \in DOMAIN q
    BY <1>1, <1>2, <2>1
  <2>. QED  BY <1>1, <2>2 DEF On, NoDuplicates
<1>. QED  BY <1>1, <1>3, <1>4, <1>5, <1>6

-----------------------------------------------------------------------------
(* Types                                                                    *)

\* The state Kernel::Initialize leaves has the types.
LEMMA TypeInit == Init => TypeOK
<1> SUFFICES ASSUME Init PROVE TypeOK
  OBVIOUS
<1> USE ConstantsOK DEF ConstantsOK, Init
<1>1. readyList \in Seq(Threads) /\ currentThread \in Threads
  OBVIOUS
<1>2. value \in [Sems -> Nat] /\ queue \in [Sems -> Seq(Threads)]
  OBVIOUS
<1>3. status \in [Threads -> ThreadStatus] /\ pc \in [Threads -> PCs]
  BY DEF PCs, ThreadStatus
<1>4. /\ toBeDestroyed \in Threads \cup {NoThread}
      /\ sem \in [Threads -> Sems \cup {NoSem}]
      /\ level \in {"IntOff", "IntOn"}
      /\ mode \in MachineStatus
      /\ oldStatus \in [Threads -> MachineStatus \cup {"none"}]
      /\ caller \in [Threads -> {"kernel", "user"}]
  BY DEF MachineStatus
<1>5. /\ inHandler \in BOOLEAN
      /\ yieldOnReturn \in BOOLEAN
      /\ pending \subseteq Devices \cup {Timer}
      /\ due \subseteq pending
  BY Zenon
<1>. QED  BY <1>1, <1>2, <1>3, <1>4, <1>5 DEF TypeOK

\* Yield keeps the types, whoever calls it.
LEMMA YieldBodyType ==
    ASSUME TypeOK, NEW t \in Threads, YieldBody(t)
    PROVE  /\ currentThread' \in Threads
           /\ readyList' \in Seq(Threads)
           /\ toBeDestroyed' \in Threads \cup {NoThread}
           /\ status' \in [Threads -> ThreadStatus]
           /\ pc' \in [Threads -> PCs]
           /\ level' \in {"IntOff", "IntOn"}
<1> USE DEF TypeOK, YieldBody, Run, EnableAndTick, ThreadStatus, PCs
<1>1. CASE readyList = <<>>
  BY <1>1, Zenon
<1>2. CASE readyList # <<>>
  <2>1. Head(readyList) \in Threads /\ Append(Tail(readyList), t) \in Seq(Threads)
    BY <1>2
  <2>. QED  BY <1>2, <2>1, Zenon
<1>. QED  BY <1>1, <1>2

\* Testing the value in P keeps the types.
LEMMA TestValueType ==
    ASSUME TypeOK, NEW t \in Threads, NEW s \in Sems,
           NEW st \in [Threads -> ThreadStatus], NEW p \in [Threads -> PCs],
           TestValue(t, s, st, p)
    PROVE  /\ status' \in [Threads -> ThreadStatus]
           /\ pc' \in [Threads -> PCs]
           /\ sem' \in [Threads -> Sems \cup {NoSem}]
           /\ value' \in [Sems -> Nat]
           /\ queue' \in [Sems -> Seq(Threads)]
           /\ level' \in {"IntOff", "IntOn"}
<1>1. CASE value[s] = 0
  <2>1. /\ queue' = [queue EXCEPT ![s] = Append(queue[s], t)]
        /\ status' = [st EXCEPT ![t] = "BLOCKED"]
        /\ pc' = [p EXCEPT ![t] = "P"]
        /\ sem' = [sem EXCEPT ![t] = s]
        /\ level' = "IntOff"
        /\ value' = value
    BY <1>1 DEF TestValue
  <2>2. Append(queue[s], t) \in Seq(Threads)
    BY DEF TypeOK
  <2>3. queue' \in [Sems -> Seq(Threads)]
    BY <2>1, <2>2 DEF TypeOK
  <2>. QED  BY <2>1, <2>3 DEF TypeOK, ThreadStatus, PCs
<1>2. CASE value[s] # 0
  <2>1. /\ value' = [value EXCEPT ![s] = value[s] - 1]
        /\ status' = st
        /\ sem' = [sem EXCEPT ![t] = NoSem]
        /\ level' = "IntOn"
        /\ pc' = [p EXCEPT ![t] = "tick"]
        /\ queue' = queue
    BY <1>2 DEF TestValue, EnableAndTick
  <2>2. value[s] - 1 \in Nat
    BY <1>2 DEF TypeOK
  <2>. QED  BY <2>1, <2>2 DEF TypeOK, ThreadStatus, PCs
<1>. QED  BY <1>1, <1>2

\* V keeps the types.
LEMMA VBodyType ==
    ASSUME TypeOK, NEW s \in Sems, VBody(s)
    PROVE  /\ status' \in [Threads -> ThreadStatus]
           /\ readyList' \in Seq(Threads)
           /\ value' \in [Sems -> Nat]
           /\ queue' \in [Sems -> Seq(Threads)]
<1> USE DEF TypeOK, VBody, ThreadStatus
<1>1. CASE queue[s] = <<>>
  BY <1>1
<1>2. CASE queue[s] # <<>>
  <2>1. Head(queue[s]) \in Threads /\ Tail(queue[s]) \in Seq(Threads)
    BY <1>2
  <2>2. Append(readyList, Head(queue[s])) \in Seq(Threads)
    BY <2>1
  <2>3. queue' = [queue EXCEPT ![s] = Tail(queue[s])]
    BY <1>2
  <2>4. queue' \in [Sems -> Seq(Threads)]
    BY <2>1, <2>3
  <2>5. value' \in [Sems -> Nat]
    OBVIOUS
  <2>. QED  BY <1>2, <2>1, <2>2, <2>4, <2>5, Zenon
<1>. QED  BY <1>1, <1>2

\* Every step of the kernel keeps the types.
LEMMA TypeNext == TypeOK /\ StatusMatchesPC /\ [Next]_vars => TypeOK'
<1> SUFFICES ASSUME TypeOK, StatusMatchesPC, [Next]_vars PROVE TypeOK'
  OBVIOUS
<1> USE DEF TypeOK, PCs, ThreadStatus, MachineStatus, InKernel, Resumed, EnableAndTick, Reap,
            semVars, modeVars, irqVars, threadVars
<1>0. CASE UNCHANGED vars
  BY <1>0 DEF vars
<1>1. ASSUME NEW t \in Threads, Yield(t) PROVE TypeOK'
  BY <1>1, YieldBodyType DEF Yield
<1>2. ASSUME NEW t \in Threads, YieldReturn(t) PROVE TypeOK'
  BY <1>2 DEF YieldReturn
<1>3. ASSUME NEW t \in Threads, SleepRun(t) PROVE TypeOK'
  BY <1>3 DEF SleepRun, Run
<1>4. ASSUME NEW t \in Threads, NEW u \in Threads, Fork(t, u) PROVE TypeOK'
  BY <1>4 DEF Fork
<1>5. ASSUME NEW t \in Threads, Begin(t) PROVE TypeOK'
  BY <1>5 DEF Begin
<1>6. ASSUME NEW t \in Threads, Finish(t) PROVE TypeOK'
  BY <1>6 DEF Finish
<1>7. ASSUME NEW t \in Threads, NEW s \in Sems, P(t, s) PROVE TypeOK'
  BY <1>7, TestValueType, Zenon DEF P
<1>8. ASSUME NEW t \in Threads, NEW s \in Sems, V(t, s) PROVE TypeOK'
  BY <1>8, VBodyType DEF V
<1>9. ASSUME NEW t \in Threads, PResume(t) PROVE TypeOK'
  <2>1. /\ Reap(status, "JUST_CREATED") \in [Threads -> ThreadStatus]
        /\ Reap(pc, "free") \in [Threads -> PCs]
    OBVIOUS
  <2>2. sem[t] \in Sems
    BY <1>9 DEF PResume, StatusMatchesPC
  <2>. QED  BY <1>9, <2>1, <2>2, TestValueType, Zenon DEF PResume
<1>10. ASSUME NEW t \in Threads, NEW d \in Devices, Schedule(t, d) PROVE TypeOK'
  BY <1>10 DEF Schedule
<1>11. ASSUME NEW t \in Threads, UserInstruction(t) PROVE TypeOK'
  BY <1>11 DEF UserInstruction
<1>12. ASSUME NEW t \in Threads, RaiseException(t) PROVE TypeOK'
  BY <1>12 DEF RaiseException
<1>13. ASSUME NEW t \in Threads, ReturnToUser(t) PROVE TypeOK'
  BY <1>13 DEF ReturnToUser
<1>14. ASSUME NEW t \in Threads, NEW D \in SUBSET pending, TickDue(t, D) PROVE TypeOK'
  BY <1>14 DEF TickDue
<1>15. ASSUME NEW t \in Threads, NEW D \in SUBSET pending, Idle(t, D) PROVE TypeOK'
  BY <1>15 DEF Idle
<1>16. ASSUME TimerCallBack PROVE TypeOK'
  BY <1>16 DEF TimerCallBack
<1>17. ASSUME NEW d \in Devices, DeviceCallBack(d) PROVE TypeOK'
  <2>1. CASE VBody(d)
    <3>1. /\ status' \in [Threads -> ThreadStatus]
          /\ readyList' \in Seq(Threads)
          /\ value' \in [Sems -> Nat]
          /\ queue' \in [Sems -> Seq(Threads)]
      BY <2>1, ConstantsOK, VBodyType DEF ConstantsOK
    <3>. QED  BY <1>17, <3>1 DEF DeviceCallBack
  <2>2. CASE UNCHANGED <<value, queue, readyList, status, pending>>
    BY <1>17, <2>2 DEF DeviceCallBack
  <2>. QED  BY <1>17, <2>1, <2>2, Zenon DEF DeviceCallBack
<1>18. ASSUME NEW t \in Threads, IdleReturn(t) PROVE TypeOK'
  BY <1>18, Zenon DEF IdleReturn
<1>19. ASSUME NEW t \in Threads, TickReturn(t) PROVE TypeOK'
  BY <1>19, Zenon DEF TickReturn
<1>20. ASSUME NEW t \in Threads, TickYield(t) PROVE TypeOK'
  BY <1>20, YieldBodyType, Zenon DEF TickYield
<1>. QED
  BY <1>0, <1>1, <1>2, <1>3, <1>4, <1>5, <1>6, <1>7, <1>8, <1>9, <1>10, <1>11, <1>12, <1>13,
     <1>14, <1>15, <1>16, <1>17, <1>18, <1>19, <1>20, ZenonT(60) DEF Next, ThreadStep, InterruptStep
-----------------------------------------------------------------------------
(* Control                                                                  *)

\* The thread at the front of the ready list is READY.
LEMMA HeadReady ==
    ASSUME IInv, readyList # <<>>
    PROVE  Head(readyList) \in Threads /\ status[Head(readyList)] = "READY"
BY OnTail DEF IInv, TypeOK, ListsMatchStatus

\* The thread at the front of a semaphore's queue is asleep in its P.
LEMMA HeadBlocked ==
    ASSUME IInv, NEW s \in Sems, queue[s] # <<>>
    PROVE  /\ Head(queue[s]) \in Threads
           /\ status[Head(queue[s])] = "BLOCKED"
           /\ pc[Head(queue[s])] = "P"
           /\ sem[Head(queue[s])] = s
<1>1. queue[s] \in Seq(Threads) /\ NoDuplicates(queue[s])
  BY DEF IInv, TypeOK, ListsMatchStatus
<1>2. Head(queue[s]) \in Threads /\ On(Head(queue[s]), queue[s])
  BY <1>1, OnTail
<1>. QED  BY <1>2 DEF IInv, ListsMatchStatus

\* Thread t gives the processor to the ready thread h and stays ready itself.
SwitchesTo(t, h) ==
    /\ h # t /\ status[h] = "READY"
    /\ currentThread' = h
    /\ status' = [status EXCEPT ![t] = "READY", ![h] = "RUNNING"]
    /\ pc' = [pc EXCEPT ![t] = "yield"]
    /\ toBeDestroyed' = toBeDestroyed
    /\ level' = "IntOff"

\* Yield switches to another thread when one is ready.
LEMMA YieldEffect ==
    ASSUME IInv, NEW t \in Threads, t = currentThread, status[t] = "RUNNING",
           YieldBody(t), readyList # <<>>
    PROVE  \E h \in Threads : SwitchesTo(t, h)
<1> DEFINE h == Head(readyList)
<1>1. h \in Threads /\ status[h] = "READY"
  BY HeadReady
<1>2. /\ currentThread' = h
      /\ status' = [status EXCEPT ![t] = "READY", ![h] = "RUNNING"]
      /\ pc' = [pc EXCEPT ![t] = "yield"]
      /\ toBeDestroyed' = toBeDestroyed
      /\ level' = "IntOff"
  BY DEF YieldBody, Run
<1> HIDE DEF h
<1>3. h # t
  BY <1>1
<1>. QED  BY <1>1, <1>2, <1>3, Zenon DEF SwitchesTo

\* The sleeping thread t gives the processor to the ready thread h.
SleepsAndRuns(t, h) ==
    /\ t = currentThread /\ Asleep
    /\ status[h] = "READY"
    /\ currentThread' = h
    /\ status' = [status EXCEPT ![h] = "RUNNING"]
    /\ toBeDestroyed' = IF pc[t] = "finish" THEN t ELSE toBeDestroyed
    /\ level' = "IntOff"
    /\ UNCHANGED <<pc, semVars, modeVars, irqVars>>

\* Sleep switches to a ready thread, which may be the sleeper itself.
LEMMA SleepRunEffect ==
    ASSUME IInv, NEW t \in Threads, SleepRun(t)
    PROVE  ~inHandler /\ \E h \in Threads : SleepsAndRuns(t, h)
<1> DEFINE h == Head(readyList)
<1>1. h \in Threads /\ status[h] = "READY"
  BY HeadReady DEF SleepRun
<1>2. /\ currentThread' = h
      /\ status' = [status EXCEPT ![h] = "RUNNING"]
      /\ toBeDestroyed' = IF pc[t] = "finish" THEN t ELSE toBeDestroyed
      /\ level' = "IntOff"
  BY DEF SleepRun, Run
<1>3. t = currentThread /\ Asleep /\ ~inHandler /\ UNCHANGED <<pc, semVars, modeVars, irqVars>>
  BY DEF SleepRun
<1> HIDE DEF h
<1>. QED  BY <1>1, <1>2, <1>3, Zenon DEF SleepsAndRuns

\* At most one thread changes its status, a sleeper of s.
WakesOne(s) ==
    \/ status' = status
    \/ \E h \in Threads :
         /\ status[h] = "BLOCKED" /\ pc[h] = "P" /\ sem[h] = s
         /\ status' = [status EXCEPT ![h] = "READY"]

\* V wakes at most one thread, a sleeper of the semaphore.
LEMMA VEffect ==
    ASSUME IInv, NEW s \in Sems, VBody(s)
    PROVE  WakesOne(s)
<1>1. CASE queue[s] = <<>>
  BY <1>1 DEF VBody, WakesOne
<1>2. CASE queue[s] # <<>>
  <2> DEFINE h == Head(queue[s])
  <2>1. h \in Threads /\ status[h] = "BLOCKED" /\ pc[h] = "P" /\ sem[h] = s
    BY <1>2, HeadBlocked
  <2>2. status' = [status EXCEPT ![h] = "READY"]
    BY <1>2 DEF VBody
  <2> HIDE DEF h
  <2>. QED  BY <2>1, <2>2, Zenon DEF WakesOne
<1>. QED  BY <1>1, <1>2

\* What a test of the value of s by t changes beside the semaphore.
Tests(t, s) ==
    /\ t = currentThread /\ status[t] = "RUNNING" /\ pc[t] \in {"kernel", "P"}
    /\ toBeDestroyed # t /\ toBeDestroyed' = NoThread
    /\ \A u \in Threads \ {t} :
         /\ status'[u] = IF u = toBeDestroyed THEN "JUST_CREATED" ELSE status[u]
         /\ pc'[u] = IF u = toBeDestroyed THEN "free" ELSE pc[u]
         /\ sem'[u] = sem[u]
    /\ \/ status'[t] = "BLOCKED" /\ pc'[t] = "P" /\ sem'[t] = s /\ level' = "IntOff"
       \/ status'[t] = "RUNNING" /\ pc'[t] = "tick" /\ level' = "IntOn"
    /\ UNCHANGED <<currentThread, readyList, modeVars, irqVars>>

\* A caller of P and a sleeper that resumes it make the same test; the sleeper
\* first destroys the thread that finished.
LEMMA TestEffect ==
    ASSUME IInv, NEW t \in Threads, NEW s \in Sems,
           \/ P(t, s)
           \/ PResume(t) /\ s = sem[t]
    PROVE  Tests(t, s)
<1> USE DEF IInv, TypeOK
<1>1. /\ t = currentThread /\ status[t] = "RUNNING" /\ pc[t] \in {"kernel", "P"}
      /\ UNCHANGED <<currentThread, readyList, modeVars, irqVars>>
  BY DEF P, PResume, StatusMatchesPC, PCs, ThreadStatus, InKernel, Resumed, Asleep
<1>2. toBeDestroyed # t
  BY <1>1, ConstantsOK DEF FinishedInv, ConstantsOK
<1>3. toBeDestroyed' = NoThread
  BY DEF P, PResume, FinishedInv, InKernel
<1>4. PICK st \in [Threads -> ThreadStatus], p \in [Threads -> PCs] :
        /\ TestValue(t, s, st, p)
        /\ \A u \in Threads :
             /\ st[u] = IF u = toBeDestroyed THEN "JUST_CREATED" ELSE status[u]
             /\ p[u] = IF u = toBeDestroyed THEN "free" ELSE pc[u]
  <2>1. CASE P(t, s)
    <3>1. toBeDestroyed = NoThread
      BY <2>1 DEF P, FinishedInv, InKernel
    <3>. QED  BY <2>1, <3>1, ConstantsOK, Zenon DEF P, ConstantsOK
  <2>2. CASE PResume(t) /\ s = sem[t]
    <3> DEFINE st == Reap(status, "JUST_CREATED")
               p  == Reap(pc, "free")
    <3>1. st \in [Threads -> ThreadStatus] /\ p \in [Threads -> PCs]
      BY DEF ThreadStatus, PCs, Reap
    <3>2. TestValue(t, s, st, p)
      BY <2>2 DEF PResume
    <3>3. \A u \in Threads :
             /\ st[u] = IF u = toBeDestroyed THEN "JUST_CREATED" ELSE status[u]
             /\ p[u] = IF u = toBeDestroyed THEN "free" ELSE pc[u]
      BY ConstantsOK DEF ConstantsOK, Reap
    <3> HIDE DEF st, p
    <3>. QED  BY <3>1, <3>2, <3>3, Zenon
  <2>. QED  BY <2>1, <2>2, Zenon
<1>5. CASE value[s] = 0
  <2>1. /\ status' = [st EXCEPT ![t] = "BLOCKED"]
        /\ pc' = [p EXCEPT ![t] = "P"]
        /\ sem' = [sem EXCEPT ![t] = s]
        /\ level' = "IntOff"
    BY <1>4, <1>5 DEF TestValue
  <2>. QED  BY <1>1, <1>2, <1>3, <1>4, <2>1 DEF Tests
<1>6. CASE value[s] # 0
  <2>1. /\ status' = st
        /\ pc' = [p EXCEPT ![t] = "tick"]
        /\ sem' = [sem EXCEPT ![t] = NoSem]
        /\ level' = "IntOn"
    BY <1>4, <1>6 DEF TestValue, EnableAndTick
  <2>. QED  BY <1>1, <1>2, <1>3, <1>4, <2>1 DEF Tests
<1>. QED  BY <1>5, <1>6


\* Statuses and control points change together.
LEMMA StatusNext == IInv /\ [Next]_vars => StatusMatchesPC'
<1> SUFFICES ASSUME IInv, [Next]_vars PROVE StatusMatchesPC'
  OBVIOUS
<1> USE DEF PCs, ThreadStatus, MachineStatus, InKernel, Resumed, EnableAndTick, Reap,
            semVars, modeVars, irqVars, threadVars
<1>0. CASE UNCHANGED vars
  BY <1>0 DEF IInv, TypeOK, StatusMatchesPC, HandlersInTickOrIdle, FinishedInv, Asleep, vars
<1>1. ASSUME NEW t \in Threads, Yield(t) PROVE StatusMatchesPC'
  <2>1. CASE readyList = <<>>
    BY <1>1, <2>1 DEF IInv, TypeOK, StatusMatchesPC, HandlersInTickOrIdle, FinishedInv, Asleep, Yield, YieldBody
  <2>2. CASE readyList # <<>>
    <3>1. t = currentThread /\ status[t] = "RUNNING" /\ YieldBody(t)
      BY <1>1, Zenon DEF Yield, IInv, TypeOK, StatusMatchesPC
    <3>2. PICK h \in Threads : SwitchesTo(t, h)
      BY <2>2, <3>1, YieldEffect
    <3>. QED  BY <1>1, <3>1, <3>2 DEF IInv, TypeOK, StatusMatchesPC, HandlersInTickOrIdle, FinishedInv, Asleep, Yield, SwitchesTo
  <2>. QED  BY <2>1, <2>2
<1>2. ASSUME NEW t \in Threads, YieldReturn(t) PROVE StatusMatchesPC'
  BY <1>2 DEF IInv, TypeOK, StatusMatchesPC, HandlersInTickOrIdle, FinishedInv, Asleep, YieldReturn
<1>3. ASSUME NEW t \in Threads, SleepRun(t) PROVE StatusMatchesPC'
  <2>1. PICK h \in Threads : ~inHandler /\ SleepsAndRuns(t, h)
    BY <1>3, SleepRunEffect
  <2>. QED  BY <2>1, ConstantsOK DEF IInv, TypeOK, StatusMatchesPC, HandlersInTickOrIdle, FinishedInv, Asleep, SleepsAndRuns, ConstantsOK
<1>4. ASSUME NEW t \in Threads, NEW u \in Threads, Fork(t, u) PROVE StatusMatchesPC'
  BY <1>4 DEF IInv, TypeOK, StatusMatchesPC, HandlersInTickOrIdle, FinishedInv, Asleep, Fork
<1>5. ASSUME NEW t \in Threads, Begin(t) PROVE StatusMatchesPC'
  BY <1>5 DEF IInv, TypeOK, StatusMatchesPC, HandlersInTickOrIdle, FinishedInv, Asleep, Begin
<1>6. ASSUME NEW t \in Threads, Finish(t) PROVE StatusMatchesPC'
  BY <1>6 DEF IInv, TypeOK, StatusMatchesPC, HandlersInTickOrIdle, FinishedInv, Asleep, Finish
<1>7. ASSUME NEW t \in Threads, NEW s \in Sems, P(t, s) PROVE StatusMatchesPC'
  <2>1. Tests(t, s)
    BY <1>7, TestEffect
  <2>. QED  BY <2>1, ConstantsOK DEF IInv, TypeOK, StatusMatchesPC, HandlersInTickOrIdle, FinishedInv, Asleep, Tests, ConstantsOK
<1>8. ASSUME NEW t \in Threads, NEW s \in Sems, V(t, s) PROVE StatusMatchesPC'
  <2>1. WakesOne(s)
    BY <1>8, VEffect DEF V
  <2>. QED  BY <1>8, <2>1 DEF IInv, TypeOK, StatusMatchesPC, HandlersInTickOrIdle, FinishedInv, Asleep, V, WakesOne
<1>9. ASSUME NEW t \in Threads, PResume(t) PROVE StatusMatchesPC'
  <2>1. sem[t] \in Sems
    BY <1>9 DEF PResume, IInv, StatusMatchesPC
  <2>2. Tests(t, sem[t])
    BY <1>9, <2>1, TestEffect
  <2>. QED  BY <2>1, <2>2, ConstantsOK DEF IInv, TypeOK, StatusMatchesPC, HandlersInTickOrIdle, FinishedInv, Asleep, Tests, ConstantsOK
<1>10. ASSUME NEW t \in Threads, NEW d \in Devices, Schedule(t, d) PROVE StatusMatchesPC'
  BY <1>10 DEF IInv, TypeOK, StatusMatchesPC, HandlersInTickOrIdle, FinishedInv, Asleep, Schedule
<1>11. ASSUME NEW t \in Threads, UserInstruction(t) PROVE StatusMatchesPC'
  BY <1>11 DEF IInv, TypeOK, StatusMatchesPC, HandlersInTickOrIdle, FinishedInv, Asleep, UserInstruction
<1>12. ASSUME NEW t \in Threads, RaiseException(t) PROVE StatusMatchesPC'
  BY <1>12 DEF IInv, TypeOK, StatusMatchesPC, HandlersInTickOrIdle, FinishedInv, Asleep, RaiseException
<1>13. ASSUME NEW t \in Threads, ReturnToUser(t) PROVE StatusMatchesPC'
  BY <1>13 DEF IInv, TypeOK, StatusMatchesPC, HandlersInTickOrIdle, FinishedInv, Asleep, ReturnToUser
<1>14. ASSUME NEW t \in Threads, NEW D \in SUBSET pending, TickDue(t, D) PROVE StatusMatchesPC'
  BY <1>14 DEF IInv, TypeOK, StatusMatchesPC, HandlersInTickOrIdle, FinishedInv, Asleep, TickDue
<1>15. ASSUME NEW t \in Threads, NEW D \in SUBSET pending, Idle(t, D) PROVE StatusMatchesPC'
  BY <1>15 DEF IInv, TypeOK, StatusMatchesPC, HandlersInTickOrIdle, FinishedInv, Asleep, Idle
<1>16. ASSUME TimerCallBack PROVE StatusMatchesPC'
  BY <1>16 DEF IInv, TypeOK, StatusMatchesPC, HandlersInTickOrIdle, FinishedInv, Asleep, TimerCallBack
<1>17. ASSUME NEW d \in Devices, DeviceCallBack(d) PROVE StatusMatchesPC'
  <2>1. d \in Sems /\ WakesOne(d)
    BY <1>17, VEffect, ConstantsOK, Zenon DEF DeviceCallBack, ConstantsOK, WakesOne
  <2>. QED  BY <1>17, <2>1 DEF IInv, TypeOK, StatusMatchesPC, HandlersInTickOrIdle, FinishedInv, Asleep, DeviceCallBack, WakesOne
<1>18. ASSUME NEW t \in Threads, IdleReturn(t) PROVE StatusMatchesPC'
  BY <1>18 DEF IInv, TypeOK, StatusMatchesPC, HandlersInTickOrIdle, FinishedInv, Asleep, IdleReturn
<1>19. ASSUME NEW t \in Threads, TickReturn(t) PROVE StatusMatchesPC'
  BY <1>19, ZenonT(60) DEF IInv, TypeOK, StatusMatchesPC, HandlersInTickOrIdle, FinishedInv, Asleep, TickReturn
<1>20. ASSUME NEW t \in Threads, TickYield(t) PROVE StatusMatchesPC'
  <2>1. CASE readyList = <<>>
    BY <1>20, <2>1 DEF IInv, TypeOK, StatusMatchesPC, HandlersInTickOrIdle, FinishedInv, Asleep, TickYield, YieldBody
  <2>2. CASE readyList # <<>>
    <3>1. t = currentThread /\ status[t] = "RUNNING" /\ YieldBody(t)
      BY <1>20, ZenonT(60) DEF TickYield, IInv, TypeOK, StatusMatchesPC
    <3>2. PICK h \in Threads : SwitchesTo(t, h)
      BY <2>2, <3>1, YieldEffect
    <3>. QED  BY <1>20, <3>1, <3>2 DEF IInv, TypeOK, StatusMatchesPC, HandlersInTickOrIdle, FinishedInv, Asleep, TickYield, SwitchesTo
  <2>. QED  BY <2>1, <2>2
<1>. QED
  BY <1>0, <1>1, <1>2, <1>3, <1>4, <1>5, <1>6, <1>7, <1>8, <1>9, <1>10,
     <1>11, <1>12, <1>13, <1>14, <1>15, <1>16, <1>17, <1>18, <1>19, <1>20
  DEF Next, ThreadStep, InterruptStep

\* The thread that finished is destroyed by the next one to run.
LEMMA FinishedNext == IInv /\ [Next]_vars => FinishedInv'
<1> SUFFICES ASSUME IInv, [Next]_vars PROVE FinishedInv'
  OBVIOUS
<1> USE DEF PCs, ThreadStatus, MachineStatus, InKernel, Resumed, EnableAndTick, Reap,
            semVars, modeVars, irqVars, threadVars
<1>0. CASE UNCHANGED vars
  BY <1>0 DEF IInv, TypeOK, StatusMatchesPC, HandlersInTickOrIdle, FinishedInv, Asleep, vars
<1>1. ASSUME NEW t \in Threads, Yield(t) PROVE FinishedInv'
  <2>1. CASE readyList = <<>>
    BY <1>1, <2>1 DEF IInv, TypeOK, StatusMatchesPC, HandlersInTickOrIdle, FinishedInv, Asleep, Yield, YieldBody
  <2>2. CASE readyList # <<>>
    <3>1. t = currentThread /\ status[t] = "RUNNING" /\ YieldBody(t)
      BY <1>1, Zenon DEF Yield, IInv, TypeOK, StatusMatchesPC
    <3>2. PICK h \in Threads : SwitchesTo(t, h)
      BY <2>2, <3>1, YieldEffect
    <3>. QED  BY <1>1, <3>1, <3>2 DEF IInv, TypeOK, StatusMatchesPC, HandlersInTickOrIdle, FinishedInv, Asleep, Yield, SwitchesTo
  <2>. QED  BY <2>1, <2>2
<1>2. ASSUME NEW t \in Threads, YieldReturn(t) PROVE FinishedInv'
  BY <1>2 DEF IInv, TypeOK, StatusMatchesPC, HandlersInTickOrIdle, FinishedInv, Asleep, YieldReturn
<1>3. ASSUME NEW t \in Threads, SleepRun(t) PROVE FinishedInv'
  <2>1. PICK h \in Threads : ~inHandler /\ SleepsAndRuns(t, h)
    BY <1>3, SleepRunEffect
  <2>. QED  BY <2>1, ConstantsOK DEF IInv, TypeOK, StatusMatchesPC, HandlersInTickOrIdle, FinishedInv, Asleep, SleepsAndRuns, ConstantsOK
<1>4. ASSUME NEW t \in Threads, NEW u \in Threads, Fork(t, u) PROVE FinishedInv'
  BY <1>4 DEF IInv, TypeOK, StatusMatchesPC, HandlersInTickOrIdle, FinishedInv, Asleep, Fork
<1>5. ASSUME NEW t \in Threads, Begin(t) PROVE FinishedInv'
  BY <1>5 DEF IInv, TypeOK, StatusMatchesPC, HandlersInTickOrIdle, FinishedInv, Asleep, Begin
<1>6. ASSUME NEW t \in Threads, Finish(t) PROVE FinishedInv'
  BY <1>6 DEF IInv, TypeOK, StatusMatchesPC, HandlersInTickOrIdle, FinishedInv, Asleep, Finish
<1>7. ASSUME NEW t \in Threads, NEW s \in Sems, P(t, s) PROVE FinishedInv'
  <2>1. Tests(t, s)
    BY <1>7, TestEffect
  <2>. QED  BY <2>1, ConstantsOK, ZenonT(60) DEF IInv, TypeOK, StatusMatchesPC, HandlersInTickOrIdle, FinishedInv, Asleep, Tests, ConstantsOK
<1>8. ASSUME NEW t \in Threads, NEW s \in Sems, V(t, s) PROVE FinishedInv'
  <2>1. WakesOne(s)
    BY <1>8, VEffect DEF V
  <2>. QED  BY <1>8, <2>1 DEF IInv, TypeOK, StatusMatchesPC, HandlersInTickOrIdle, FinishedInv, Asleep, V, WakesOne
<1>9. ASSUME NEW t \in Threads, PResume(t) PROVE FinishedInv'
  <2>1. sem[t] \in Sems
    BY <1>9 DEF PResume, IInv, StatusMatchesPC
  <2>2. Tests(t, sem[t])
    BY <1>9, <2>1, TestEffect
  <2>. QED  BY <2>1, <2>2, ConstantsOK DEF IInv, TypeOK, StatusMatchesPC, HandlersInTickOrIdle, FinishedInv, Asleep, Tests, ConstantsOK
<1>10. ASSUME NEW t \in Threads, NEW d \in Devices, Schedule(t, d) PROVE FinishedInv'
  BY <1>10 DEF IInv, TypeOK, StatusMatchesPC, HandlersInTickOrIdle, FinishedInv, Asleep, Schedule
<1>11. ASSUME NEW t \in Threads, UserInstruction(t) PROVE FinishedInv'
  BY <1>11 DEF IInv, TypeOK, StatusMatchesPC, HandlersInTickOrIdle, FinishedInv, Asleep, UserInstruction
<1>12. ASSUME NEW t \in Threads, RaiseException(t) PROVE FinishedInv'
  BY <1>12 DEF IInv, TypeOK, StatusMatchesPC, HandlersInTickOrIdle, FinishedInv, Asleep, RaiseException
<1>13. ASSUME NEW t \in Threads, ReturnToUser(t) PROVE FinishedInv'
  BY <1>13 DEF IInv, TypeOK, StatusMatchesPC, HandlersInTickOrIdle, FinishedInv, Asleep, ReturnToUser
<1>14. ASSUME NEW t \in Threads, NEW D \in SUBSET pending, TickDue(t, D) PROVE FinishedInv'
  BY <1>14 DEF IInv, TypeOK, StatusMatchesPC, HandlersInTickOrIdle, FinishedInv, Asleep, TickDue
<1>15. ASSUME NEW t \in Threads, NEW D \in SUBSET pending, Idle(t, D) PROVE FinishedInv'
  BY <1>15 DEF IInv, TypeOK, StatusMatchesPC, HandlersInTickOrIdle, FinishedInv, Asleep, Idle
<1>16. ASSUME TimerCallBack PROVE FinishedInv'
  BY <1>16 DEF IInv, TypeOK, StatusMatchesPC, HandlersInTickOrIdle, FinishedInv, Asleep, TimerCallBack
<1>17. ASSUME NEW d \in Devices, DeviceCallBack(d) PROVE FinishedInv'
  <2>1. d \in Sems /\ WakesOne(d)
    BY <1>17, VEffect, ConstantsOK, Zenon DEF DeviceCallBack, ConstantsOK, WakesOne
  <2>. QED  BY <1>17, <2>1 DEF IInv, TypeOK, StatusMatchesPC, HandlersInTickOrIdle, FinishedInv, Asleep, DeviceCallBack, WakesOne
<1>18. ASSUME NEW t \in Threads, IdleReturn(t) PROVE FinishedInv'
  BY <1>18 DEF IInv, TypeOK, StatusMatchesPC, HandlersInTickOrIdle, FinishedInv, Asleep, IdleReturn
<1>19. ASSUME NEW t \in Threads, TickReturn(t) PROVE FinishedInv'
  BY <1>19 DEF IInv, TypeOK, StatusMatchesPC, HandlersInTickOrIdle, FinishedInv, Asleep, TickReturn
<1>20. ASSUME NEW t \in Threads, TickYield(t) PROVE FinishedInv'
  <2>1. CASE readyList = <<>>
    BY <1>20, <2>1 DEF IInv, TypeOK, StatusMatchesPC, HandlersInTickOrIdle, FinishedInv, Asleep, TickYield, YieldBody
  <2>2. CASE readyList # <<>>
    <3>1. t = currentThread /\ status[t] = "RUNNING" /\ YieldBody(t)
      BY <1>20, Zenon DEF TickYield, IInv, TypeOK, StatusMatchesPC
    <3>2. PICK h \in Threads : SwitchesTo(t, h)
      BY <2>2, <3>1, YieldEffect
    <3>. QED  BY <1>20, <3>1, <3>2 DEF IInv, TypeOK, StatusMatchesPC, HandlersInTickOrIdle, FinishedInv, Asleep, TickYield, SwitchesTo
  <2>. QED  BY <2>1, <2>2
<1>. QED
  BY <1>0, <1>1, <1>2, <1>3, <1>4, <1>5, <1>6, <1>7, <1>8, <1>9, <1>10,
     <1>11, <1>12, <1>13, <1>14, <1>15, <1>16, <1>17, <1>18, <1>19, <1>20
  DEF Next, ThreadStep, InterruptStep

\* Interrupts are on or off as the running code requires.
LEMMA LevelNext == IInv /\ [Next]_vars => InterruptDiscipline'
<1> SUFFICES ASSUME IInv, [Next]_vars PROVE InterruptDiscipline'
  OBVIOUS
<1> USE DEF PCs, ThreadStatus, MachineStatus, InKernel, Resumed, EnableAndTick, Reap,
            semVars, modeVars, irqVars, threadVars
<1>0. CASE UNCHANGED vars
  BY <1>0 DEF IInv, TypeOK, StatusMatchesPC, FinishedInv, HandlersInTickOrIdle, InterruptDiscipline, ModeInv, Asleep, vars
<1>1. ASSUME NEW t \in Threads, Yield(t) PROVE InterruptDiscipline'
  <2>1. CASE readyList = <<>>
    <3>1. /\ t = currentThread /\ pc[t] = "kernel" /\ level' = "IntOn"
          /\ pc' = [pc EXCEPT ![t] = "tick"]
          /\ UNCHANGED <<currentThread, status, inHandler, yieldOnReturn>>
      BY <1>1, <2>1 DEF Yield, YieldBody
    <3>2. status[t] = "RUNNING" /\ ~inHandler /\ ~yieldOnReturn /\ pc'[t] = "tick"
      BY <3>1, Zenon DEF IInv, TypeOK, StatusMatchesPC, InterruptDiscipline
    <3>. QED  BY <3>1, <3>2 DEF InterruptDiscipline, Asleep
  <2>2. CASE readyList # <<>>
    <3>1. t = currentThread /\ status[t] = "RUNNING" /\ YieldBody(t)
      BY <1>1, Zenon DEF Yield, IInv, TypeOK, StatusMatchesPC
    <3>2. PICK h \in Threads : SwitchesTo(t, h)
      BY <2>2, <3>1, YieldEffect
    <3>. QED  BY <1>1, <3>1, <3>2, Zenon DEF IInv, TypeOK, StatusMatchesPC, FinishedInv, HandlersInTickOrIdle, InterruptDiscipline, ModeInv, Asleep, Yield, SwitchesTo
  <2>. QED  BY <2>1, <2>2
<1>2. ASSUME NEW t \in Threads, YieldReturn(t) PROVE InterruptDiscipline'
  BY <1>2, Zenon DEF IInv, TypeOK, StatusMatchesPC, FinishedInv, HandlersInTickOrIdle, InterruptDiscipline, ModeInv, Asleep, YieldReturn
<1>3. ASSUME NEW t \in Threads, SleepRun(t) PROVE InterruptDiscipline'
  <2>1. PICK h \in Threads : ~inHandler /\ SleepsAndRuns(t, h)
    BY <1>3, SleepRunEffect
  <2>. QED  BY <2>1, ConstantsOK, Zenon DEF IInv, TypeOK, StatusMatchesPC, FinishedInv, HandlersInTickOrIdle, InterruptDiscipline, ModeInv, Asleep, SleepsAndRuns, ConstantsOK
<1>4. ASSUME NEW t \in Threads, NEW u \in Threads, Fork(t, u) PROVE InterruptDiscipline'
  BY <1>4, ZenonT(60) DEF IInv, TypeOK, StatusMatchesPC, FinishedInv, HandlersInTickOrIdle, InterruptDiscipline, ModeInv, Asleep, Fork
<1>5. ASSUME NEW t \in Threads, Begin(t) PROVE InterruptDiscipline'
  BY <1>5, Zenon DEF IInv, TypeOK, StatusMatchesPC, FinishedInv, HandlersInTickOrIdle, InterruptDiscipline, ModeInv, Asleep, Begin
<1>6. ASSUME NEW t \in Threads, Finish(t) PROVE InterruptDiscipline'
  BY <1>6, Zenon DEF IInv, TypeOK, StatusMatchesPC, FinishedInv, HandlersInTickOrIdle, InterruptDiscipline, ModeInv, Asleep, Finish
<1>7. ASSUME NEW t \in Threads, NEW s \in Sems, P(t, s) PROVE InterruptDiscipline'
  <2>1. Tests(t, s)
    BY <1>7, TestEffect
  <2>. QED  BY <2>1, ConstantsOK, Zenon DEF IInv, TypeOK, StatusMatchesPC, FinishedInv, HandlersInTickOrIdle, InterruptDiscipline, ModeInv, Asleep, Tests, ConstantsOK
<1>8. ASSUME NEW t \in Threads, NEW s \in Sems, V(t, s) PROVE InterruptDiscipline'
  <2>1. WakesOne(s)
    BY <1>8, VEffect DEF V
  <2>. QED  BY <1>8, <2>1, ZenonT(60) DEF IInv, TypeOK, StatusMatchesPC, FinishedInv, HandlersInTickOrIdle, InterruptDiscipline, ModeInv, Asleep, V, WakesOne
<1>9. ASSUME NEW t \in Threads, PResume(t) PROVE InterruptDiscipline'
  <2>1. sem[t] \in Sems
    BY <1>9 DEF PResume, IInv, StatusMatchesPC
  <2>2. Tests(t, sem[t])
    BY <1>9, <2>1, TestEffect
  <2>. QED  BY <2>1, <2>2, ConstantsOK, Zenon DEF IInv, TypeOK, StatusMatchesPC, FinishedInv, HandlersInTickOrIdle, InterruptDiscipline, ModeInv, Asleep, Tests, ConstantsOK
<1>10. ASSUME NEW t \in Threads, NEW d \in Devices, Schedule(t, d) PROVE InterruptDiscipline'
  BY <1>10 DEF IInv, TypeOK, StatusMatchesPC, FinishedInv, HandlersInTickOrIdle, InterruptDiscipline, ModeInv, Asleep, Schedule
<1>11. ASSUME NEW t \in Threads, UserInstruction(t) PROVE InterruptDiscipline'
  BY <1>11 DEF IInv, TypeOK, StatusMatchesPC, FinishedInv, HandlersInTickOrIdle, InterruptDiscipline, ModeInv, Asleep, UserInstruction
<1>12. ASSUME NEW t \in Threads, RaiseException(t) PROVE InterruptDiscipline'
  BY <1>12, Zenon DEF IInv, TypeOK, StatusMatchesPC, FinishedInv, HandlersInTickOrIdle, InterruptDiscipline, ModeInv, Asleep, RaiseException
<1>13. ASSUME NEW t \in Threads, ReturnToUser(t) PROVE InterruptDiscipline'
  BY <1>13 DEF IInv, TypeOK, StatusMatchesPC, FinishedInv, HandlersInTickOrIdle, InterruptDiscipline, ModeInv, Asleep, ReturnToUser
<1>14. ASSUME NEW t \in Threads, NEW D \in SUBSET pending, TickDue(t, D) PROVE InterruptDiscipline'
  BY <1>14 DEF IInv, TypeOK, StatusMatchesPC, FinishedInv, HandlersInTickOrIdle, InterruptDiscipline, ModeInv, Asleep, TickDue
<1>15. ASSUME NEW t \in Threads, NEW D \in SUBSET pending, Idle(t, D) PROVE InterruptDiscipline'
  BY <1>15, Zenon DEF IInv, TypeOK, StatusMatchesPC, FinishedInv, HandlersInTickOrIdle, InterruptDiscipline, ModeInv, Asleep, Idle
<1>16. ASSUME TimerCallBack PROVE InterruptDiscipline'
  BY <1>16, Zenon DEF IInv, TypeOK, StatusMatchesPC, FinishedInv, HandlersInTickOrIdle, InterruptDiscipline, ModeInv, Asleep, TimerCallBack
<1>17. ASSUME NEW d \in Devices, DeviceCallBack(d) PROVE InterruptDiscipline'
  <2>1. d \in Sems /\ WakesOne(d)
    BY <1>17, VEffect, ConstantsOK, Zenon DEF DeviceCallBack, ConstantsOK, WakesOne
  <2>. QED  BY <1>17, <2>1, Zenon DEF IInv, TypeOK, StatusMatchesPC, FinishedInv, HandlersInTickOrIdle, InterruptDiscipline, ModeInv, Asleep, DeviceCallBack, WakesOne
<1>18. ASSUME NEW t \in Threads, IdleReturn(t) PROVE InterruptDiscipline'
  BY <1>18, Zenon DEF IInv, TypeOK, StatusMatchesPC, FinishedInv, HandlersInTickOrIdle, InterruptDiscipline, ModeInv, Asleep, IdleReturn
<1>19. ASSUME NEW t \in Threads, TickReturn(t) PROVE InterruptDiscipline'
  BY <1>19, ZenonT(60) DEF IInv, TypeOK, StatusMatchesPC, FinishedInv, HandlersInTickOrIdle, InterruptDiscipline, ModeInv, Asleep, TickReturn
<1>20. ASSUME NEW t \in Threads, TickYield(t) PROVE InterruptDiscipline'
  <2>1. CASE readyList = <<>>
    BY <1>20, <2>1, ZenonT(60) DEF IInv, TypeOK, StatusMatchesPC, FinishedInv, HandlersInTickOrIdle, InterruptDiscipline, ModeInv, Asleep, TickYield, YieldBody
  <2>2. CASE readyList # <<>>
    <3>1. t = currentThread /\ status[t] = "RUNNING" /\ YieldBody(t)
      BY <1>20, Zenon DEF TickYield, IInv, TypeOK, StatusMatchesPC
    <3>2. PICK h \in Threads : SwitchesTo(t, h)
      BY <2>2, <3>1, YieldEffect
    <3>. QED  BY <1>20, <3>1, <3>2, ZenonT(60) DEF IInv, TypeOK, StatusMatchesPC, FinishedInv, HandlersInTickOrIdle, InterruptDiscipline, ModeInv, Asleep, TickYield, SwitchesTo
  <2>. QED  BY <2>1, <2>2
<1>. QED
  BY <1>0, <1>1, <1>2, <1>3, <1>4, <1>5, <1>6, <1>7, <1>8, <1>9, <1>10,
     <1>11, <1>12, <1>13, <1>14, <1>15, <1>16, <1>17, <1>18, <1>19, <1>20
  DEF Next, ThreadStep, InterruptStep

\* Handlers stay inside OneTick and Idle.
LEMMA HandlersNext == IInv /\ [Next]_vars => HandlersInTickOrIdle'
<1> SUFFICES ASSUME IInv, [Next]_vars PROVE HandlersInTickOrIdle'
  OBVIOUS
<1> USE DEF PCs, ThreadStatus, MachineStatus, InKernel, Resumed, EnableAndTick, Reap,
            semVars, modeVars, irqVars, threadVars
<1>0. CASE UNCHANGED vars
  BY <1>0 DEF IInv, TypeOK, StatusMatchesPC, HandlersInTickOrIdle, Asleep, vars
<1>1. ASSUME NEW t \in Threads, Yield(t) PROVE HandlersInTickOrIdle'
  <2>1. CASE readyList = <<>>
    BY <1>1, <2>1 DEF IInv, TypeOK, StatusMatchesPC, HandlersInTickOrIdle, Asleep, Yield, YieldBody
  <2>2. CASE readyList # <<>>
    <3>1. t = currentThread /\ status[t] = "RUNNING" /\ YieldBody(t)
      BY <1>1, Zenon DEF Yield, IInv, TypeOK, StatusMatchesPC
    <3>2. PICK h \in Threads : SwitchesTo(t, h)
      BY <2>2, <3>1, YieldEffect
    <3>. QED  BY <1>1, <3>1, <3>2 DEF IInv, TypeOK, StatusMatchesPC, HandlersInTickOrIdle, Asleep, Yield, SwitchesTo
  <2>. QED  BY <2>1, <2>2
<1>2. ASSUME NEW t \in Threads, YieldReturn(t) PROVE HandlersInTickOrIdle'
  BY <1>2 DEF IInv, TypeOK, StatusMatchesPC, HandlersInTickOrIdle, Asleep, YieldReturn
<1>3. ASSUME NEW t \in Threads, SleepRun(t) PROVE HandlersInTickOrIdle'
  <2>1. PICK h \in Threads : ~inHandler /\ SleepsAndRuns(t, h)
    BY <1>3, SleepRunEffect
  <2>. QED  BY <2>1, ConstantsOK DEF IInv, TypeOK, StatusMatchesPC, HandlersInTickOrIdle, Asleep, SleepsAndRuns, ConstantsOK
<1>4. ASSUME NEW t \in Threads, NEW u \in Threads, Fork(t, u) PROVE HandlersInTickOrIdle'
  BY <1>4 DEF IInv, TypeOK, StatusMatchesPC, HandlersInTickOrIdle, Asleep, Fork
<1>5. ASSUME NEW t \in Threads, Begin(t) PROVE HandlersInTickOrIdle'
  BY <1>5 DEF IInv, TypeOK, StatusMatchesPC, HandlersInTickOrIdle, Asleep, Begin
<1>6. ASSUME NEW t \in Threads, Finish(t) PROVE HandlersInTickOrIdle'
  BY <1>6 DEF IInv, TypeOK, StatusMatchesPC, HandlersInTickOrIdle, Asleep, Finish
<1>7. ASSUME NEW t \in Threads, NEW s \in Sems, P(t, s) PROVE HandlersInTickOrIdle'
  <2>1. Tests(t, s)
    BY <1>7, TestEffect
  <2>. QED  BY <2>1, ConstantsOK, Zenon DEF IInv, TypeOK, StatusMatchesPC, HandlersInTickOrIdle, Asleep, Tests, ConstantsOK
<1>8. ASSUME NEW t \in Threads, NEW s \in Sems, V(t, s) PROVE HandlersInTickOrIdle'
  <2>1. WakesOne(s)
    BY <1>8, VEffect DEF V
  <2>. QED  BY <1>8, <2>1 DEF IInv, TypeOK, StatusMatchesPC, HandlersInTickOrIdle, Asleep, V, WakesOne
<1>9. ASSUME NEW t \in Threads, PResume(t) PROVE HandlersInTickOrIdle'
  <2>1. sem[t] \in Sems
    BY <1>9 DEF PResume, IInv, StatusMatchesPC
  <2>2. Tests(t, sem[t])
    BY <1>9, <2>1, TestEffect
  <2>. QED  BY <2>1, <2>2, ConstantsOK, Zenon DEF IInv, TypeOK, StatusMatchesPC, HandlersInTickOrIdle, Asleep, Tests, ConstantsOK
<1>10. ASSUME NEW t \in Threads, NEW d \in Devices, Schedule(t, d) PROVE HandlersInTickOrIdle'
  BY <1>10 DEF IInv, TypeOK, StatusMatchesPC, HandlersInTickOrIdle, Asleep, Schedule
<1>11. ASSUME NEW t \in Threads, UserInstruction(t) PROVE HandlersInTickOrIdle'
  BY <1>11 DEF IInv, TypeOK, StatusMatchesPC, HandlersInTickOrIdle, Asleep, UserInstruction
<1>12. ASSUME NEW t \in Threads, RaiseException(t) PROVE HandlersInTickOrIdle'
  BY <1>12 DEF IInv, TypeOK, StatusMatchesPC, HandlersInTickOrIdle, Asleep, RaiseException
<1>13. ASSUME NEW t \in Threads, ReturnToUser(t) PROVE HandlersInTickOrIdle'
  BY <1>13 DEF IInv, TypeOK, StatusMatchesPC, HandlersInTickOrIdle, Asleep, ReturnToUser
<1>14. ASSUME NEW t \in Threads, NEW D \in SUBSET pending, TickDue(t, D) PROVE HandlersInTickOrIdle'
  BY <1>14 DEF IInv, TypeOK, StatusMatchesPC, HandlersInTickOrIdle, Asleep, TickDue
<1>15. ASSUME NEW t \in Threads, NEW D \in SUBSET pending, Idle(t, D) PROVE HandlersInTickOrIdle'
  BY <1>15 DEF IInv, TypeOK, StatusMatchesPC, HandlersInTickOrIdle, Asleep, Idle
<1>16. ASSUME TimerCallBack PROVE HandlersInTickOrIdle'
  BY <1>16 DEF IInv, TypeOK, StatusMatchesPC, HandlersInTickOrIdle, Asleep, TimerCallBack
<1>17. ASSUME NEW d \in Devices, DeviceCallBack(d) PROVE HandlersInTickOrIdle'
  <2>1. d \in Sems /\ WakesOne(d)
    BY <1>17, VEffect, ConstantsOK, Zenon DEF DeviceCallBack, ConstantsOK, WakesOne
  <2>. QED  BY <1>17, <2>1 DEF IInv, TypeOK, StatusMatchesPC, HandlersInTickOrIdle, Asleep, DeviceCallBack, WakesOne
<1>18. ASSUME NEW t \in Threads, IdleReturn(t) PROVE HandlersInTickOrIdle'
  BY <1>18 DEF IInv, TypeOK, StatusMatchesPC, HandlersInTickOrIdle, Asleep, IdleReturn
<1>19. ASSUME NEW t \in Threads, TickReturn(t) PROVE HandlersInTickOrIdle'
  BY <1>19 DEF IInv, TypeOK, StatusMatchesPC, HandlersInTickOrIdle, Asleep, TickReturn
<1>20. ASSUME NEW t \in Threads, TickYield(t) PROVE HandlersInTickOrIdle'
  <2>1. CASE readyList = <<>>
    BY <1>20, <2>1, Zenon DEF IInv, TypeOK, StatusMatchesPC, HandlersInTickOrIdle, Asleep, TickYield, YieldBody
  <2>2. CASE readyList # <<>>
    <3>1. t = currentThread /\ status[t] = "RUNNING" /\ YieldBody(t)
      BY <1>20, Zenon DEF TickYield, IInv, TypeOK, StatusMatchesPC
    <3>2. PICK h \in Threads : SwitchesTo(t, h)
      BY <2>2, <3>1, YieldEffect
    <3>. QED  BY <1>20, <3>1, <3>2, Zenon DEF IInv, TypeOK, StatusMatchesPC, HandlersInTickOrIdle, Asleep, TickYield, SwitchesTo
  <2>. QED  BY <2>1, <2>2
<1>. QED
  BY <1>0, <1>1, <1>2, <1>3, <1>4, <1>5, <1>6, <1>7, <1>8, <1>9, <1>10,
     <1>11, <1>12, <1>13, <1>14, <1>15, <1>16, <1>17, <1>18, <1>19, <1>20
  DEF Next, ThreadStep, InterruptStep

\* What holds while t runs kernel code with interrupts on.
RunsKernel(t) ==
    /\ mode = "SystemMode" /\ ~inHandler /\ status[t] = "RUNNING"
    /\ oldStatus[t] = "none" /\ caller[t] = "kernel"

\* A thread at a control point outside OneTick, Yield and user code keeps no
\* machine status and was not called from user code.
LEMMA OutsideUserCode ==
    ASSUME IInv, NEW t \in Threads, pc[t] \notin {"user", "tick", "yield"}
    PROVE  oldStatus[t] = "none" /\ caller[t] = "kernel"
BY DEF IInv, TypeOK, ModeInv

\* Kernel code with interrupts on runs in SystemMode, outside any handler.
LEMMA KernelRuns ==
    ASSUME IInv, NEW t \in Threads, t = currentThread, pc[t] = "kernel"
    PROVE  RunsKernel(t)
<1>1. status[t] = "RUNNING" /\ ~inHandler
  BY Zenon DEF IInv, TypeOK, ThreadStatus, StatusMatchesPC, InterruptDiscipline
<1>2. mode = "SystemMode"
  BY <1>1 DEF IInv, TypeOK, MachineStatus, ModeInv
<1>. QED  BY <1>1, <1>2, OutsideUserCode DEF RunsKernel

\* What ModeInv says of the thread t, and of the current thread.
ThreadMode(t) ==
    /\ oldStatus[t] # "none" =>
        pc[t] \in {"tick", "yield"} /\ oldStatus[t] = ModeOf(caller[t])
    /\ caller[t] = "user" => t \in UserThreads /\ pc[t] \in {"user", "tick", "yield"}
    /\ pc[t] = "user" => caller[t] = "user"
    /\ pc[t] = "yield" /\ oldStatus[t] = "none" => caller[t] = "kernel"

CurrentMode ==
    /\ mode = "UserMode" =>
        pc[currentThread] \in {"tick", "user"} /\ caller[currentThread] = "user"
                                               /\ oldStatus[currentThread] = "none"
    /\ pc[currentThread] = "user" => mode = "UserMode"
    /\ mode = "IdleMode" <=> Asleep /\ inHandler
    /\ pc[currentThread] = "tick" /\ oldStatus[currentThread] = "none"
         => mode = ModeOf(caller[currentThread])

LEMMA ModeSplit ==
    /\ ModeInv <=> CurrentMode /\ \A t \in Threads : ThreadMode(t)
    /\ ModeInv' <=> CurrentMode' /\ \A t \in Threads : ThreadMode(t)'
BY Zenon DEF ModeInv, CurrentMode, ThreadMode

\* A step that moves no thread but t keeps what ModeInv says of the others.
LEMMA ModeMoved ==
    ASSUME IInv, NEW t \in Threads, CurrentMode', ThreadMode(t)',
           \A u \in Threads \ {t} :
               pc'[u] = pc[u] /\ caller'[u] = caller[u] /\ oldStatus'[u] = oldStatus[u]
    PROVE  ModeInv'
<1>1. ASSUME NEW u \in Threads, u # t PROVE ThreadMode(u)'
  <2>1. ThreadMode(u)
    BY ModeSplit DEF IInv
  <2>. QED  BY <1>1, <2>1, Zenon DEF ThreadMode
<1>. QED  BY <1>1, ModeSplit

\* A step that leaves SystemMode alone keeps ModeInv when the threads it moves
\* run no user code, or go on from Yield to OneTick.
LEMMA ModeKept ==
    ASSUME IInv, mode = "SystemMode", ~inHandler', UNCHANGED modeVars,
           currentThread' \in Threads,
           pc'[currentThread'] # "user",
           pc'[currentThread'] = "tick" /\ oldStatus[currentThread'] = "none"
             => caller[currentThread'] = "kernel",
           \A u \in Threads : pc'[u] # pc[u] =>
               \/ oldStatus[u] = "none" /\ caller[u] = "kernel" /\ pc'[u] # "user"
               \/ pc[u] = "yield" /\ pc'[u] = "tick"
    PROVE  ModeInv'
<1>1. UNCHANGED <<mode, oldStatus, caller>>
  BY DEF modeVars
<1>2. ASSUME NEW u \in Threads PROVE ThreadMode(u)'
  <2>1. ThreadMode(u)
    BY ModeSplit DEF IInv
  <2>2. CASE pc'[u] = pc[u]
    BY <1>1, <2>1, <2>2 DEF ThreadMode
  <2>3. CASE pc'[u] # pc[u]
    BY <1>1, <2>1, <2>3 DEF ThreadMode
  <2>. QED  BY <2>2, <2>3
<1>3. CurrentMode'
  BY <1>1, Zenon DEF CurrentMode, ModeOf
<1>. QED  BY <1>2, <1>3, ModeSplit, Zenon

\* A thread that finished has left user code before it is destroyed.
LEMMA FinishedKernel ==
    ASSUME IInv, NEW u \in Threads, u = toBeDestroyed
    PROVE  oldStatus[u] = "none" /\ caller[u] = "kernel"
<1>1. pc[u] = "finish"
  BY ConstantsOK DEF ConstantsOK, IInv, FinishedInv
<1>. QED  BY <1>1, OutsideUserCode

\* A thread that runs after a switch is in SystemMode, outside any handler.
LEMMA ResumedMode ==
    ASSUME IInv, ~Asleep, pc[currentThread] \in {"begin", "yield", "P"}
    PROVE  mode = "SystemMode" /\ ~inHandler
<1>1. ~inHandler
  BY DEF IInv, HandlersInTickOrIdle
<1>2. mode \in MachineStatus /\ mode # "UserMode" /\ mode # "IdleMode"
  BY <1>1, ModeSplit, Zenon DEF IInv, TypeOK, CurrentMode
<1>. QED  BY <1>1, <1>2 DEF MachineStatus

\* A test of a semaphore's value starts and ends in SystemMode.
LEMMA TestsMode ==
    ASSUME IInv, NEW t \in Threads, NEW s \in Sems, Tests(t, s)
    PROVE  ModeInv'
<1>1. /\ t = currentThread /\ status[t] = "RUNNING" /\ pc[t] \in {"kernel", "P"}
      /\ pc'[t] \in {"P", "tick"}
      /\ \A u \in Threads \ {t} : pc'[u] = IF u = toBeDestroyed THEN "free" ELSE pc[u]
      /\ UNCHANGED <<currentThread, inHandler, modeVars>>
  BY Zenon DEF Tests, irqVars
<1>2. oldStatus[t] = "none" /\ caller[t] = "kernel"
  BY <1>1, OutsideUserCode
<1>3. mode = "SystemMode" /\ ~inHandler
  <2>1. CASE pc[t] = "kernel"
    BY <1>1, <2>1, KernelRuns DEF RunsKernel
  <2>2. CASE pc[t] = "P"
    BY <1>1, <2>2, ResumedMode DEF Asleep
  <2>. QED  BY <1>1, <2>1, <2>2
<1>4. ASSUME NEW u \in Threads, pc'[u] # pc[u]
      PROVE  oldStatus[u] = "none" /\ caller[u] = "kernel" /\ pc'[u] # "user"
  <2>1. CASE u = t
    BY <1>1, <1>2, <2>1
  <2>2. CASE u # t
    <3>1. u = toBeDestroyed /\ pc'[u] = "free"
      BY <1>1, <1>4, <2>2
    <3>. QED  BY <3>1, FinishedKernel
  <2>. QED  BY <2>1, <2>2
<1>. QED  BY <1>1, <1>2, <1>3, <1>4, ModeKept, Zenon

\* The machine status follows the code that runs.
LEMMA ModeNext == IInv /\ [Next]_vars => ModeInv'
<1> SUFFICES ASSUME IInv, [Next]_vars PROVE ModeInv'
  OBVIOUS
<1> USE DEF PCs, ThreadStatus, MachineStatus, InKernel, Resumed, EnableAndTick, Reap,
            semVars, modeVars, irqVars, threadVars
<1>0. CASE UNCHANGED vars
  BY <1>0, Zenon DEF IInv, TypeOK, StatusMatchesPC, FinishedInv, HandlersInTickOrIdle, ModeInv, ModeOf, Asleep, vars
<1>1. ASSUME NEW t \in Threads, Yield(t) PROVE ModeInv'
  <2>1. CASE readyList = <<>>
    <3>1. /\ t = currentThread /\ pc[t] = "kernel" /\ pc' = [pc EXCEPT ![t] = "tick"]
          /\ UNCHANGED <<currentThread, inHandler, modeVars>>
      BY <1>1, <2>1 DEF Yield, YieldBody
    <3>2. RunsKernel(t)
      BY <3>1, KernelRuns
    <3>. QED  BY <3>1, <3>2, ModeKept, Zenon DEF IInv, TypeOK, RunsKernel
  <2>2. CASE readyList # <<>>
    <3>1. t = currentThread /\ status[t] = "RUNNING" /\ YieldBody(t)
      BY <1>1, Zenon DEF Yield, IInv, TypeOK, StatusMatchesPC
    <3>2. PICK h \in Threads : SwitchesTo(t, h)
      BY <2>2, <3>1, YieldEffect
    <3>3. RunsKernel(t) /\ UNCHANGED <<inHandler, modeVars>>
      BY <1>1, KernelRuns DEF Yield
    <3>4. pc[h] \in {"begin", "yield", "P"}
      BY <3>2 DEF SwitchesTo, IInv, StatusMatchesPC
    <3>. QED  BY <3>2, <3>3, <3>4, ModeKept, Zenon DEF IInv, TypeOK, RunsKernel, SwitchesTo
  <2>. QED  BY <2>1, <2>2
<1>2. ASSUME NEW t \in Threads, YieldReturn(t) PROVE ModeInv'
  <2>1. /\ t = currentThread /\ pc[t] = "yield" /\ ~Asleep
        /\ pc' = [Reap(pc, "free") EXCEPT ![t] = "tick"]
        /\ UNCHANGED <<currentThread, inHandler, modeVars>>
    BY <1>2 DEF YieldReturn
  <2>2. mode = "SystemMode" /\ ~inHandler
    BY <2>1, ResumedMode
  <2>3. oldStatus[t] = "none" => caller[t] = "kernel"
    BY <2>1, ModeSplit, Zenon DEF IInv, ThreadMode
  <2>4. ASSUME NEW u \in Threads, pc'[u] # pc[u], u # t
        PROVE  oldStatus[u] = "none" /\ caller[u] = "kernel" /\ pc'[u] # "user"
    <3>1. u = toBeDestroyed /\ pc'[u] = "free"
      BY <2>1, <2>4, ConstantsOK DEF IInv, TypeOK, ConstantsOK
    <3>. QED  BY <3>1, FinishedKernel
  <2>5. pc'[t] = "tick"
    BY <2>1 DEF IInv, TypeOK
  <2>. QED  BY <2>1, <2>2, <2>3, <2>4, <2>5, ModeKept, Zenon
<1>3. ASSUME NEW t \in Threads, SleepRun(t) PROVE ModeInv'
  <2>1. PICK h \in Threads : ~inHandler /\ SleepsAndRuns(t, h)
    BY <1>3, SleepRunEffect
  <2>. QED  BY <2>1, ConstantsOK, ZenonT(60) DEF IInv, TypeOK, StatusMatchesPC, FinishedInv, HandlersInTickOrIdle, ModeInv, ModeOf, Asleep, SleepsAndRuns, ConstantsOK
<1>4. ASSUME NEW t \in Threads, NEW u \in Threads, Fork(t, u) PROVE ModeInv'
  <2>1. /\ t = currentThread /\ pc[t] = "kernel" /\ pc[u] = "free"
        /\ pc' = [pc EXCEPT ![u] = "begin", ![t] = "tick"]
        /\ UNCHANGED <<currentThread, inHandler, modeVars>>
    BY <1>4 DEF Fork
  <2>2. RunsKernel(t)
    BY <2>1, KernelRuns
  <2>3. oldStatus[u] = "none" /\ caller[u] = "kernel"
    BY <2>1, OutsideUserCode
  <2>. QED  BY <2>1, <2>2, <2>3, ModeKept, Zenon DEF IInv, TypeOK, RunsKernel
<1>5. ASSUME NEW t \in Threads, Begin(t) PROVE ModeInv'
  <2>1. /\ t = currentThread /\ pc[t] = "begin" /\ ~Asleep
        /\ pc' = [Reap(pc, "free") EXCEPT ![t] = "tick"]
        /\ UNCHANGED <<currentThread, inHandler, modeVars>>
    BY <1>5 DEF Begin
  <2>2. oldStatus[t] = "none" /\ caller[t] = "kernel"
    BY <2>1, OutsideUserCode
  <2>3. mode = "SystemMode" /\ ~inHandler
    BY <2>1, ResumedMode
  <2>4. ASSUME NEW u \in Threads, pc'[u] # pc[u], u # t
        PROVE  oldStatus[u] = "none" /\ caller[u] = "kernel" /\ pc'[u] # "user"
    <3>1. u = toBeDestroyed /\ pc'[u] = "free"
      BY <2>1, <2>4, ConstantsOK DEF IInv, TypeOK, ConstantsOK
    <3>. QED  BY <3>1, FinishedKernel
  <2>5. pc'[t] = "tick"
    BY <2>1 DEF IInv, TypeOK
  <2>. QED  BY <2>1, <2>2, <2>3, <2>4, <2>5, ModeKept, ZenonT(60)
<1>6. ASSUME NEW t \in Threads, Finish(t) PROVE ModeInv'
  <2>1. /\ t = currentThread /\ pc[t] = "kernel" /\ pc' = [pc EXCEPT ![t] = "finish"]
        /\ UNCHANGED <<currentThread, inHandler, modeVars>>
    BY <1>6 DEF Finish
  <2>2. RunsKernel(t)
    BY <2>1, KernelRuns
  <2>. QED  BY <2>1, <2>2, ModeKept, Zenon DEF IInv, TypeOK, RunsKernel
<1>7. ASSUME NEW t \in Threads, NEW s \in Sems, P(t, s) PROVE ModeInv'
  <2>1. Tests(t, s)
    BY <1>7, TestEffect
  <2>. QED  BY <2>1, TestsMode
<1>8. ASSUME NEW t \in Threads, NEW s \in Sems, V(t, s) PROVE ModeInv'
  <2>1. /\ t = currentThread /\ pc[t] = "kernel" /\ pc' = [pc EXCEPT ![t] = "tick"]
        /\ UNCHANGED <<currentThread, inHandler, modeVars>>
    BY <1>8 DEF V
  <2>2. RunsKernel(t)
    BY <2>1, KernelRuns
  <2>. QED  BY <2>1, <2>2, ModeKept, Zenon DEF IInv, TypeOK, RunsKernel
<1>9. ASSUME NEW t \in Threads, PResume(t) PROVE ModeInv'
  <2>1. sem[t] \in Sems
    BY <1>9 DEF PResume, IInv, StatusMatchesPC
  <2>2. Tests(t, sem[t])
    BY <1>9, <2>1, TestEffect
  <2>. QED  BY <2>1, <2>2, TestsMode
<1>10. ASSUME NEW t \in Threads, NEW d \in Devices, Schedule(t, d) PROVE ModeInv'
  BY <1>10, Zenon DEF IInv, TypeOK, StatusMatchesPC, FinishedInv, HandlersInTickOrIdle, ModeInv, ModeOf, Asleep, Schedule
<1>11. ASSUME NEW t \in Threads, UserInstruction(t) PROVE ModeInv'
  BY <1>11, ZenonT(60) DEF IInv, TypeOK, StatusMatchesPC, FinishedInv, HandlersInTickOrIdle, ModeInv, ModeOf, Asleep, UserInstruction
<1>12. ASSUME NEW t \in Threads, RaiseException(t) PROVE ModeInv'
  <2>1. /\ t = currentThread /\ pc[t] = "user" /\ pc' = [pc EXCEPT ![t] = "kernel"]
        /\ mode' = "SystemMode" /\ caller' = [caller EXCEPT ![t] = "kernel"]
        /\ UNCHANGED <<currentThread, status, oldStatus, inHandler>>
    BY <1>12 DEF RaiseException
  <2>2. oldStatus[t] = "none" /\ ~inHandler
    BY <2>1, ModeSplit, Zenon DEF IInv, InterruptDiscipline, ThreadMode
  <2>3. CurrentMode' /\ ThreadMode(t)'
    BY <2>1, <2>2 DEF IInv, TypeOK, CurrentMode, ThreadMode
  <2>. QED  BY <2>1, <2>3, ModeMoved, Zenon DEF IInv, TypeOK
<1>13. ASSUME NEW t \in Threads, ReturnToUser(t) PROVE ModeInv'
  <2>1. /\ t = currentThread /\ pc[t] = "kernel" /\ t \in UserThreads
        /\ mode' = "UserMode" /\ caller' = [caller EXCEPT ![t] = "user"]
        /\ pc' = [pc EXCEPT ![t] = "tick"]
        /\ UNCHANGED <<currentThread, status, oldStatus, inHandler>>
    BY <1>13 DEF ReturnToUser
  <2>2. RunsKernel(t)
    BY <2>1, KernelRuns
  <2>3. CurrentMode' /\ ThreadMode(t)'
    BY <2>1, <2>2, Zenon DEF IInv, TypeOK, CurrentMode, ThreadMode, RunsKernel, ModeOf
  <2>. QED  BY <2>1, <2>3, ModeMoved, Zenon DEF IInv, TypeOK
<1>14. ASSUME NEW t \in Threads, NEW D \in SUBSET pending, TickDue(t, D) PROVE ModeInv'
  BY <1>14, ZenonT(60) DEF IInv, TypeOK, StatusMatchesPC, FinishedInv, HandlersInTickOrIdle, ModeInv, ModeOf, Asleep, TickDue
<1>15. ASSUME NEW t \in Threads, NEW D \in SUBSET pending, Idle(t, D) PROVE ModeInv'
  BY <1>15, Zenon DEF IInv, TypeOK, StatusMatchesPC, FinishedInv, HandlersInTickOrIdle, ModeInv, ModeOf, Asleep, Idle
<1>16. ASSUME TimerCallBack PROVE ModeInv'
  BY <1>16, Zenon DEF IInv, TypeOK, StatusMatchesPC, FinishedInv, HandlersInTickOrIdle, ModeInv, ModeOf, Asleep, TimerCallBack
<1>17. ASSUME NEW d \in Devices, DeviceCallBack(d) PROVE ModeInv'
  <2>1. d \in Sems /\ WakesOne(d)
    BY <1>17, VEffect, ConstantsOK DEF DeviceCallBack, ConstantsOK, WakesOne
  <2>. QED  BY <1>17, <2>1, ZenonT(60) DEF IInv, TypeOK, StatusMatchesPC, FinishedInv, HandlersInTickOrIdle, ModeInv, ModeOf, Asleep, DeviceCallBack, WakesOne
<1>18. ASSUME NEW t \in Threads, IdleReturn(t) PROVE ModeInv'
  BY <1>18, Zenon DEF IInv, TypeOK, StatusMatchesPC, FinishedInv, HandlersInTickOrIdle, ModeInv, ModeOf, Asleep, IdleReturn
<1>19. ASSUME NEW t \in Threads, TickReturn(t) PROVE ModeInv'
  <2>1. /\ t = currentThread /\ pc[t] = "tick" /\ pc' = [pc EXCEPT ![t] = caller[t]]
        /\ mode' = IF oldStatus[t] = "none" THEN mode ELSE oldStatus[t]
        /\ oldStatus' = [oldStatus EXCEPT ![t] = "none"] /\ ~inHandler'
        /\ UNCHANGED <<currentThread, caller>>
    BY <1>19, Zenon DEF TickReturn
  <2>2. CurrentMode /\ ThreadMode(t)
    BY ModeSplit DEF IInv
  <2>3. mode' = ModeOf(caller[t])
    BY <2>1, <2>2, Zenon DEF CurrentMode, ThreadMode
  <2>4. /\ pc'[t] = caller[t] /\ caller[t] \in {"kernel", "user"}
        /\ oldStatus'[t] = "none" /\ currentThread' = t /\ caller'[t] = caller[t]
    BY <2>1 DEF IInv, TypeOK
  <2>5. CurrentMode'
    BY <2>1, <2>3, <2>4, Zenon DEF CurrentMode, ModeOf
  <2>6. ThreadMode(t)'
    BY <2>1, <2>2, <2>4, Zenon DEF ThreadMode
  <2>. QED  BY <2>1, <2>5, <2>6, ModeMoved, Zenon DEF IInv, TypeOK
<1>20. ASSUME NEW t \in Threads, TickYield(t) PROVE ModeInv'
  <2>1. /\ t = currentThread /\ pc[t] = "tick" /\ mode' = "SystemMode" /\ ~inHandler'
        /\ oldStatus' = [oldStatus EXCEPT ![t] = IF @ = "none" THEN mode ELSE @]
        /\ YieldBody(t) /\ caller' = caller
    BY <1>20 DEF TickYield
  <2>2. CurrentMode /\ ThreadMode(t)
    BY ModeSplit DEF IInv
  <2>3. oldStatus'[t] = ModeOf(caller[t]) /\ oldStatus'[t] # "none"
    BY <2>1, <2>2, Zenon DEF IInv, TypeOK, CurrentMode, ThreadMode, ModeOf
  <2>4. CASE readyList = <<>>
    <3>1. pc' = [pc EXCEPT ![t] = "tick"] /\ currentThread' = t
      BY <2>1, <2>4 DEF YieldBody
    <3>2. pc'[t] = "tick"
      BY <3>1 DEF IInv, TypeOK
    <3>3. CurrentMode' /\ ThreadMode(t)'
      BY <2>1, <2>2, <2>3, <3>1, <3>2, Zenon DEF CurrentMode, ThreadMode
    <3>. QED  BY <2>1, <3>1, <3>3, ModeMoved, Zenon DEF IInv, TypeOK
  <2>5. CASE readyList # <<>>
    <3>1. status[t] = "RUNNING"
      BY <1>20, Zenon DEF TickYield, IInv, TypeOK, StatusMatchesPC
    <3>2. PICK h \in Threads : SwitchesTo(t, h)
      BY <2>1, <2>5, <3>1, YieldEffect, Zenon
    <3>3. /\ h # t /\ currentThread' = h /\ pc' = [pc EXCEPT ![t] = "yield"]
          /\ pc[h] \in {"begin", "yield", "P"}
      BY <3>2 DEF SwitchesTo, IInv, StatusMatchesPC
    <3>4. pc'[t] = "yield" /\ pc'[h] = pc[h]
      BY <3>3 DEF IInv, TypeOK
    <3>5. CurrentMode' /\ ThreadMode(t)'
      BY <2>1, <2>2, <2>3, <3>3, <3>4, Zenon DEF CurrentMode, ThreadMode
    <3>. QED  BY <2>1, <3>3, <3>5, ModeMoved, Zenon DEF IInv, TypeOK
  <2>. QED  BY <2>4, <2>5
<1>. QED
  BY <1>0, <1>1, <1>2, <1>3, <1>4, <1>5, <1>6, <1>7, <1>8, <1>9, <1>10,
     <1>11, <1>12, <1>13, <1>14, <1>15, <1>16, <1>17, <1>18, <1>19, <1>20
  DEF Next, ThreadStep, InterruptStep

=============================================================================
