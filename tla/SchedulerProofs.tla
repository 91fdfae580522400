-------------------------- MODULE SchedulerProofs ---------------------------
(***************************************************************************)
(* Proofs about Scheduler, continued: every thread is on the list its       *)
(* status says, the inductive invariant holds, and the theorems that follow *)
(* from it; no wake-up is lost, by an induction of its own that counts      *)
(* woken threads; and the scheduler implements AbstractSemaphore.           *)
(***************************************************************************)
EXTENDS SchedulerControl, FiniteSetTheorems

-----------------------------------------------------------------------------
(* Places                                                                   *)

\* Thread t sleeps on semaphore s.
SleepsOn(t, s) == status[t] = "BLOCKED" /\ pc[t] = "P" /\ sem[t] = s

\* The part of ListsMatchStatus that is about the lists.
Places ==
    /\ NoDuplicates(readyList)
    /\ \A s \in Sems : NoDuplicates(queue[s])
    /\ \A t \in Threads :
        /\ status[t] = "READY" <=> On(t, readyList)
        /\ \A s \in Sems : On(t, queue[s]) <=> SleepsOn(t, s)

\* The invariant says where every thread is.
LEMMA IInvPlaces == IInv => Places
BY DEF IInv, ListsMatchStatus, Places, SleepsOn

\* Steps that leave the lists alone, and leave every thread ready or asleep
\* that was so before.
LEMMA PlacesFrame ==
    ASSUME IInv, UNCHANGED <<readyList, queue>>,
           \A u \in Threads : /\ status'[u] = "READY" <=> status[u] = "READY"
                              /\ \A s \in Sems : SleepsOn(u, s)' <=> SleepsOn(u, s)
    PROVE  Places'
BY IInvPlaces DEF Places

\* Yield moves the front of the ready list to the processor and its caller to
\* the end of the list.
LEMMA YieldPlaces ==
    ASSUME IInv, NEW t \in Threads, t = currentThread, status[t] = "RUNNING", YieldBody(t),
           UNCHANGED semVars
    PROVE  Places'
<1> USE DEF IInv, TypeOK
<1>1. CASE readyList = <<>>
  <2>1. /\ UNCHANGED <<readyList, queue, status, sem>>
        /\ pc' = [pc EXCEPT ![t] = "tick"]
    BY <1>1 DEF YieldBody, EnableAndTick, semVars
  <2>2. \A u \in Threads, s \in Sems : SleepsOn(u, s)' <=> SleepsOn(u, s)
    BY <2>1 DEF SleepsOn
  <2>. QED  BY <2>1, <2>2, PlacesFrame
<1>2. CASE readyList # <<>>
  <2> DEFINE h == Head(readyList)
  <2>1. /\ readyList' = Append(Tail(readyList), t)
        /\ status' = [status EXCEPT ![t] = "READY", ![h] = "RUNNING"]
        /\ pc' = [pc EXCEPT ![t] = "yield"]
        /\ UNCHANGED <<queue, sem>>
    BY <1>2 DEF YieldBody, Run, semVars
  <2>2. h \in Threads /\ status[h] = "READY" /\ h # t
    BY <1>2, HeadReady
  <2>3. /\ Tail(readyList) \in Seq(Threads)
        /\ NoDuplicates(Tail(readyList))
        /\ \A u \in Threads : On(u, Tail(readyList)) <=> On(u, readyList) /\ u # h
    BY <1>2, IInvPlaces, OnTail DEF Places
  <2>4. ~On(t, Tail(readyList))
    BY <2>3, IInvPlaces DEF Places
  <2>5. /\ NoDuplicates(readyList')
        /\ \A u \in Threads : On(u, readyList') <=> (On(u, readyList) /\ u # h) \/ u = t
    BY <2>1, <2>3, <2>4, OnAppend, NoDuplicatesAppend, Zenon
  <2> HIDE DEF h
  <2>6. \A u \in Threads : status'[u] = "READY" <=> On(u, readyList')
    BY <2>1, <2>2, <2>5, IInvPlaces, Zenon DEF Places
  <2>7. \A u \in Threads, s \in Sems : SleepsOn(u, s)' <=> SleepsOn(u, s)
    BY <2>1, <2>2 DEF SleepsOn
  <2>. QED  BY <2>1, <2>5, <2>6, <2>7, IInvPlaces DEF Places
<1>. QED  BY <1>1, <1>2

\* V moves the front of the queue to the end of the ready list.
LEMMA VPlaces ==
    ASSUME IInv, NEW s \in Sems, VBody(s), UNCHANGED sem,
           \/ UNCHANGED pc
           \/ status[currentThread] = "RUNNING" /\ pc' = [pc EXCEPT ![currentThread] = "tick"]
    PROVE  Places'
<1> USE DEF IInv, TypeOK
<1>1. CASE queue[s] = <<>>
  <2>1. UNCHANGED <<readyList, queue, status>>
    BY <1>1 DEF VBody
  <2>2. \A u \in Threads, r \in Sems : SleepsOn(u, r)' <=> SleepsOn(u, r)
    BY <2>1 DEF SleepsOn
  <2>. QED  BY <2>1, <2>2, PlacesFrame
<1>2. CASE queue[s] # <<>>
  <2> DEFINE h == Head(queue[s])
  <2>1. /\ queue' = [queue EXCEPT ![s] = Tail(queue[s])]
        /\ readyList' = Append(readyList, h)
        /\ status' = [status EXCEPT ![h] = "READY"]
    BY <1>2 DEF VBody
  <2>2. h \in Threads /\ SleepsOn(h, s)
    BY <1>2, HeadBlocked DEF SleepsOn
  <2>3. ~On(h, readyList)
    BY <2>2, IInvPlaces DEF Places, SleepsOn
  <2>4. /\ Tail(queue[s]) \in Seq(Threads)
        /\ NoDuplicates(Tail(queue[s]))
        /\ \A u \in Threads : On(u, Tail(queue[s])) <=> On(u, queue[s]) /\ u # h
    BY <1>2, IInvPlaces, OnTail DEF Places
  <2>5. /\ NoDuplicates(readyList')
        /\ \A u \in Threads : On(u, readyList') <=> On(u, readyList) \/ u = h
    BY <2>1, <2>2, <2>3, OnAppend, NoDuplicatesAppend, IInvPlaces DEF Places
  <2> HIDE DEF h
  <2>6. \A u \in Threads : status'[u] = "READY" <=> On(u, readyList')
    BY <2>1, <2>2, <2>5, IInvPlaces DEF Places
  <2>7. \A u \in Threads, r \in Sems :
           SleepsOn(u, r)' <=> SleepsOn(u, r) /\ ~(u = h /\ r = s)
    BY <2>1, <2>2 DEF SleepsOn
  <2>8. \A r \in Sems : queue'[r] = IF r = s THEN Tail(queue[s]) ELSE queue[r]
    BY <2>1
  <2>9. \A u \in Threads, r \in Sems : On(u, queue'[r]) <=> SleepsOn(u, r)'
    BY <2>4, <2>7, <2>8, <2>2, IInvPlaces DEF Places, SleepsOn
  <2>10. \A r \in Sems : NoDuplicates(queue'[r])
    BY <2>4, <2>8, IInvPlaces DEF Places
  <2>. QED  BY <2>5, <2>6, <2>9, <2>10 DEF Places
<1>. QED  BY <1>1, <1>2

\* P moves its caller from the processor to the end of the queue, or leaves it
\* on the processor.
LEMMA TestPlaces ==
    ASSUME IInv, NEW t \in Threads, NEW s \in Sems, Tests(t, s),
           \/ queue' = queue /\ status'[t] = "RUNNING"
           \/ /\ queue' = [queue EXCEPT ![s] = Append(queue[s], t)]
              /\ status'[t] = "BLOCKED" /\ pc'[t] = "P" /\ sem'[t] = s
    PROVE  Places'
<1> USE DEF IInv, TypeOK
<1>1. readyList' = readyList /\ status[t] = "RUNNING" /\ status'[t] # "READY"
  BY DEF Tests
<1>2. \A u \in Threads \ {t} :
        /\ status'[u] = "READY" <=> status[u] = "READY"
        /\ \A r \in Sems : SleepsOn(u, r)' <=> SleepsOn(u, r)
  <2>1. toBeDestroyed \in Threads => pc[toBeDestroyed] = "finish"
                                     /\ status[toBeDestroyed] # "READY"
    BY ConstantsOK, Zenon DEF ConstantsOK, FinishedInv, StatusMatchesPC
  <2>. QED  BY <2>1 DEF Tests, SleepsOn
<1>3. \A u \in Threads : status'[u] = "READY" <=> On(u, readyList')
  BY <1>1, <1>2, IInvPlaces DEF Places
<1>4. CASE queue' = queue /\ status'[t] = "RUNNING"
  <2>1. \A r \in Sems : ~SleepsOn(t, r) /\ ~SleepsOn(t, r)'
    BY <1>1, <1>4 DEF SleepsOn
  <2>2. \A u \in Threads, r \in Sems : SleepsOn(u, r)' <=> SleepsOn(u, r)
    BY <1>2, <2>1, Zenon
  <2>3. \A u \in Threads : status'[u] = "READY" <=> status[u] = "READY"
    BY <1>1, <1>2
  <2>. QED  BY <1>1, <1>4, <2>2, <2>3, PlacesFrame
<1>5. CASE /\ queue' = [queue EXCEPT ![s] = Append(queue[s], t)]
           /\ status'[t] = "BLOCKED" /\ pc'[t] = "P" /\ sem'[t] = s
  <2>1. ~On(t, queue[s])
    BY <1>1, IInvPlaces DEF Places, SleepsOn
  <2>2. /\ NoDuplicates(Append(queue[s], t))
        /\ \A u \in Threads : On(u, Append(queue[s], t)) <=> On(u, queue[s]) \/ u = t
    BY <2>1, OnAppend, NoDuplicatesAppend, IInvPlaces DEF Places
  <2>3. \A r \in Sems : queue'[r] = IF r = s THEN Append(queue[s], t) ELSE queue[r]
    BY <1>5
  <2>4. \A r \in Sems : ~SleepsOn(t, r) /\ (SleepsOn(t, r)' <=> r = s)
    BY <1>1, <1>5 DEF SleepsOn
  <2>5. \A r \in Sems : NoDuplicates(queue'[r])
    BY <2>2, <2>3, IInvPlaces DEF Places
  <2>6. \A u \in Threads, r \in Sems : On(u, queue'[r]) <=> SleepsOn(u, r)'
    <3> SUFFICES ASSUME NEW u \in Threads, NEW r \in Sems
                 PROVE  On(u, queue'[r]) <=> SleepsOn(u, r)'
      OBVIOUS
    <3>1. On(u, queue[r]) <=> SleepsOn(u, r)
      BY IInvPlaces DEF Places
    <3>2. On(u, queue'[r]) <=> On(u, queue[r]) \/ (u = t /\ r = s)
      BY <2>2, <2>3
    <3>3. CASE u = t
      BY <3>1, <3>2, <3>3, <2>4
    <3>4. CASE u # t
      BY <3>1, <3>2, <3>4, <1>2
    <3>. QED  BY <3>3, <3>4, ZenonT(60)
  <2>. QED  BY <1>1, <1>3, <2>5, <2>6, IInvPlaces DEF Places
<1>. QED  BY <1>4, <1>5

\* The thread that starts to finish or is started, and the one that is reaped,
\* are where their status says.
LEMMA PlacesNext == IInv /\ [Next]_vars => Places'
<1> SUFFICES ASSUME IInv, [Next]_vars PROVE Places'
  OBVIOUS
<1> USE DEF PCs, ThreadStatus, InKernel, Resumed, EnableAndTick, Reap,
            semVars, modeVars, irqVars, threadVars
<1>0. CASE UNCHANGED vars
  <2>1. /\ UNCHANGED <<readyList, queue>>
        /\ \A u \in Threads : /\ status'[u] = "READY" <=> status[u] = "READY"
                           /\ \A s \in Sems : SleepsOn(u, s)' <=> SleepsOn(u, s)
    BY <1>0 DEF SleepsOn, vars
  <2>. QED  BY <2>1, PlacesFrame
<1>1. ASSUME NEW t \in Threads, Yield(t) PROVE Places'
  <2>1. t = currentThread /\ status[t] = "RUNNING" /\ YieldBody(t) /\ UNCHANGED semVars
    BY <1>1, Zenon DEF Yield, IInv, TypeOK, StatusMatchesPC
  <2>. QED  BY <2>1, YieldPlaces
<1>2. ASSUME NEW t \in Threads, YieldReturn(t) PROVE Places'
  <2>1. /\ UNCHANGED <<readyList, queue>>
        /\ \A u \in Threads : /\ status'[u] = "READY" <=> status[u] = "READY"
                           /\ \A s \in Sems : SleepsOn(u, s)' <=> SleepsOn(u, s)
    BY <1>2 DEF IInv, TypeOK, StatusMatchesPC, FinishedInv, Asleep, SleepsOn, YieldReturn
  <2>. QED  BY <2>1, PlacesFrame
<1>3. ASSUME NEW t \in Threads, SleepRun(t) PROVE Places'
  <2> DEFINE h == Head(readyList)
  <2>1. /\ readyList # <<>>
        /\ readyList' = Tail(readyList)
        /\ status' = [status EXCEPT ![h] = "RUNNING"]
        /\ UNCHANGED <<pc, sem, queue>>
    BY <1>3 DEF SleepRun, Run
  <2>2. h \in Threads /\ status[h] = "READY"
    BY <2>1, HeadReady
  <2>3. /\ NoDuplicates(readyList')
        /\ \A u \in Threads : On(u, readyList') <=> On(u, readyList) /\ u # h
    BY <2>1, IInvPlaces, OnTail DEF Places, IInv, TypeOK
  <2> HIDE DEF h
  <2>4. \A u \in Threads : status'[u] = "READY" <=> On(u, readyList')
    BY <2>1, <2>2, <2>3, IInvPlaces DEF Places, IInv, TypeOK
  <2>5. \A u \in Threads, s \in Sems : SleepsOn(u, s)' <=> SleepsOn(u, s)
    BY <2>1, <2>2 DEF SleepsOn, IInv, TypeOK
  <2>. QED  BY <2>1, <2>3, <2>4, <2>5, IInvPlaces DEF Places
<1>4. ASSUME NEW t \in Threads, NEW u \in Threads, Fork(t, u) PROVE Places'
  <2>1. /\ readyList' = Append(readyList, u)
        /\ status' = [status EXCEPT ![u] = "READY"]
        /\ pc' = [pc EXCEPT ![u] = "begin", ![t] = "tick"]
        /\ status[u] = "JUST_CREATED" /\ status[t] = "RUNNING"
        /\ UNCHANGED <<sem, queue>>
    BY <1>4, Zenon DEF Fork, IInv, TypeOK, StatusMatchesPC
  <2>2. ~On(u, readyList)
    BY <2>1, IInvPlaces DEF Places
  <2>3. /\ NoDuplicates(readyList')
        /\ \A v \in Threads : On(v, readyList') <=> On(v, readyList) \/ v = u
    BY <2>1, <2>2, IInvPlaces, OnAppend, NoDuplicatesAppend DEF Places, IInv, TypeOK
  <2>4. \A v \in Threads : status'[v] = "READY" <=> On(v, readyList')
    BY <2>1, <2>3, IInvPlaces DEF Places, IInv, TypeOK
  <2>5. \A v \in Threads, s \in Sems : SleepsOn(v, s)' <=> SleepsOn(v, s)
    BY <2>1 DEF SleepsOn, IInv, TypeOK
  <2>. QED  BY <2>1, <2>3, <2>4, <2>5, IInvPlaces DEF Places
<1>5. ASSUME NEW t \in Threads, Begin(t) PROVE Places'
  <2>1. /\ UNCHANGED <<readyList, queue>>
        /\ \A u \in Threads : /\ status'[u] = "READY" <=> status[u] = "READY"
                           /\ \A s \in Sems : SleepsOn(u, s)' <=> SleepsOn(u, s)
    BY <1>5 DEF IInv, TypeOK, StatusMatchesPC, FinishedInv, Asleep, SleepsOn, Begin
  <2>. QED  BY <2>1, PlacesFrame
<1>6. ASSUME NEW t \in Threads, Finish(t) PROVE Places'
  <2>1. /\ UNCHANGED <<readyList, queue>>
        /\ \A u \in Threads : /\ status'[u] = "READY" <=> status[u] = "READY"
                           /\ \A s \in Sems : SleepsOn(u, s)' <=> SleepsOn(u, s)
    BY <1>6 DEF IInv, TypeOK, StatusMatchesPC, FinishedInv, Asleep, SleepsOn, Finish
  <2>. QED  BY <2>1, PlacesFrame
<1>7. ASSUME NEW t \in Threads, NEW s \in Sems, P(t, s) PROVE Places'
  <2>1. Tests(t, s)
    BY <1>7, TestEffect
  <2>2. TestValue(t, s, status, pc)
    BY <1>7 DEF P
  <2>3. \/ queue' = queue /\ status'[t] = "RUNNING"
        \/ /\ queue' = [queue EXCEPT ![s] = Append(queue[s], t)]
           /\ status'[t] = "BLOCKED" /\ pc'[t] = "P" /\ sem'[t] = s
    BY <2>1, <2>2 DEF TestValue, Tests, IInv, TypeOK
  <2>. QED  BY <2>1, <2>3, TestPlaces
<1>8. ASSUME NEW t \in Threads, NEW s \in Sems, V(t, s) PROVE Places'
  <2>1. VBody(s) /\ UNCHANGED sem /\ status[currentThread] = "RUNNING"
                 /\ pc' = [pc EXCEPT ![currentThread] = "tick"]
    BY <1>8 DEF V, IInv, TypeOK, StatusMatchesPC
  <2>. QED  BY <2>1, VPlaces
<1>9. ASSUME NEW t \in Threads, PResume(t) PROVE Places'
  <2>1. sem[t] \in Sems
    BY <1>9 DEF PResume, IInv, StatusMatchesPC
  <2>2. Tests(t, sem[t])
    BY <1>9, <2>1, TestEffect
  <2>3. TestValue(t, sem[t], Reap(status, "JUST_CREATED"), Reap(pc, "free"))
    BY <1>9 DEF PResume
  <2>4. \/ queue' = queue /\ status'[t] = "RUNNING"
        \/ /\ queue' = [queue EXCEPT ![sem[t]] = Append(queue[sem[t]], t)]
           /\ status'[t] = "BLOCKED" /\ pc'[t] = "P" /\ sem'[t] = sem[t]
    BY <2>1, <2>2, <2>3 DEF TestValue, Tests, IInv, TypeOK
  <2>. QED  BY <2>1, <2>2, <2>4, TestPlaces
<1>10. ASSUME NEW t \in Threads, NEW d \in Devices, Schedule(t, d) PROVE Places'
  <2>1. /\ UNCHANGED <<readyList, queue>>
        /\ \A u \in Threads : /\ status'[u] = "READY" <=> status[u] = "READY"
                           /\ \A s \in Sems : SleepsOn(u, s)' <=> SleepsOn(u, s)
    BY <1>10 DEF IInv, TypeOK, StatusMatchesPC, FinishedInv, Asleep, SleepsOn, Schedule
  <2>. QED  BY <2>1, PlacesFrame
<1>11. ASSUME NEW t \in Threads, UserInstruction(t) PROVE Places'
  <2>1. /\ UNCHANGED <<readyList, queue>>
        /\ \A u \in Threads : /\ status'[u] = "READY" <=> status[u] = "READY"
                           /\ \A s \in Sems : SleepsOn(u, s)' <=> SleepsOn(u, s)
    BY <1>11 DEF IInv, TypeOK, StatusMatchesPC, FinishedInv, Asleep, SleepsOn, UserInstruction
  <2>. QED  BY <2>1, PlacesFrame
<1>12. ASSUME NEW t \in Threads, RaiseException(t) PROVE Places'
  <2>1. /\ UNCHANGED <<readyList, queue>>
        /\ \A u \in Threads : /\ status'[u] = "READY" <=> status[u] = "READY"
                           /\ \A s \in Sems : SleepsOn(u, s)' <=> SleepsOn(u, s)
    BY <1>12 DEF IInv, TypeOK, StatusMatchesPC, FinishedInv, Asleep, SleepsOn, RaiseException
  <2>. QED  BY <2>1, PlacesFrame
<1>13. ASSUME NEW t \in Threads, ReturnToUser(t) PROVE Places'
  <2>1. /\ UNCHANGED <<readyList, queue>>
        /\ \A u \in Threads : /\ status'[u] = "READY" <=> status[u] = "READY"
                           /\ \A s \in Sems : SleepsOn(u, s)' <=> SleepsOn(u, s)
    BY <1>13 DEF IInv, TypeOK, StatusMatchesPC, FinishedInv, Asleep, SleepsOn, ReturnToUser
  <2>. QED  BY <2>1, PlacesFrame
<1>14. ASSUME NEW t \in Threads, NEW D \in SUBSET pending, TickDue(t, D) PROVE Places'
  <2>1. /\ UNCHANGED <<readyList, queue>>
        /\ \A u \in Threads : /\ status'[u] = "READY" <=> status[u] = "READY"
                           /\ \A s \in Sems : SleepsOn(u, s)' <=> SleepsOn(u, s)
    BY <1>14 DEF IInv, TypeOK, StatusMatchesPC, FinishedInv, Asleep, SleepsOn, TickDue
  <2>. QED  BY <2>1, PlacesFrame
<1>15. ASSUME NEW t \in Threads, NEW D \in SUBSET pending, Idle(t, D) PROVE Places'
  <2>1. /\ UNCHANGED <<readyList, queue>>
        /\ \A u \in Threads : /\ status'[u] = "READY" <=> status[u] = "READY"
                           /\ \A s \in Sems : SleepsOn(u, s)' <=> SleepsOn(u, s)
    BY <1>15 DEF IInv, TypeOK, StatusMatchesPC, FinishedInv, Asleep, SleepsOn, Idle
  <2>. QED  BY <2>1, PlacesFrame
<1>16. ASSUME TimerCallBack PROVE Places'
  <2>1. /\ UNCHANGED <<readyList, queue>>
        /\ \A u \in Threads : /\ status'[u] = "READY" <=> status[u] = "READY"
                           /\ \A s \in Sems : SleepsOn(u, s)' <=> SleepsOn(u, s)
    BY <1>16 DEF IInv, TypeOK, StatusMatchesPC, FinishedInv, Asleep, SleepsOn, TimerCallBack
  <2>. QED  BY <2>1, PlacesFrame
<1>17. ASSUME NEW d \in Devices, DeviceCallBack(d) PROVE Places'
  <2>1. CASE VBody(d)
    <3>1. d \in Sems /\ UNCHANGED <<sem, pc>>
      BY <1>17, ConstantsOK DEF DeviceCallBack, ConstantsOK
    <3>. QED  BY <2>1, <3>1, VPlaces
  <2>2. CASE UNCHANGED <<value, queue, readyList, status, sem, pc>>
    <3>1. \A u \in Threads, s \in Sems : SleepsOn(u, s)' <=> SleepsOn(u, s)
      BY <2>2 DEF SleepsOn
    <3>. QED  BY <2>2, <3>1, PlacesFrame
  <2>. QED  BY <1>17, <2>1, <2>2 DEF DeviceCallBack
<1>18. ASSUME NEW t \in Threads, IdleReturn(t) PROVE Places'
  <2>1. /\ UNCHANGED <<readyList, queue>>
        /\ \A u \in Threads : /\ status'[u] = "READY" <=> status[u] = "READY"
                           /\ \A s \in Sems : SleepsOn(u, s)' <=> SleepsOn(u, s)
    BY <1>18 DEF IInv, TypeOK, StatusMatchesPC, FinishedInv, Asleep, SleepsOn, IdleReturn
  <2>. QED  BY <2>1, PlacesFrame
<1>19. ASSUME NEW t \in Threads, TickReturn(t) PROVE Places'
  <2>1. /\ UNCHANGED <<readyList, queue>>
        /\ \A u \in Threads : /\ status'[u] = "READY" <=> status[u] = "READY"
                           /\ \A s \in Sems : SleepsOn(u, s)' <=> SleepsOn(u, s)
    BY <1>19 DEF IInv, TypeOK, StatusMatchesPC, FinishedInv, Asleep, SleepsOn, TickReturn
  <2>. QED  BY <2>1, PlacesFrame
<1>20. ASSUME NEW t \in Threads, TickYield(t) PROVE Places'
  <2>1. t = currentThread /\ status[t] = "RUNNING" /\ YieldBody(t) /\ UNCHANGED semVars
    BY <1>20, Zenon DEF TickYield, IInv, TypeOK, StatusMatchesPC
  <2>. QED  BY <2>1, YieldPlaces
<1>. QED
  BY <1>0, <1>1, <1>2, <1>3, <1>4, <1>5, <1>6, <1>7, <1>8, <1>9, <1>10,
     <1>11, <1>12, <1>13, <1>14, <1>15, <1>16, <1>17, <1>18, <1>19, <1>20
  DEF Next, ThreadStep, InterruptStep

-----------------------------------------------------------------------------
(* The inductive invariant holds                                            *)

\* The state Kernel::Initialize leaves satisfies the invariant.
LEMMA InitIInv == Init => IInv
<1> SUFFICES ASSUME Init PROVE IInv
  OBVIOUS
<1> USE ConstantsOK DEF ConstantsOK
<1>1. TypeOK
  BY TypeInit
<1>2. /\ \A t \in Threads : /\ status[t] = IF t = Main THEN "RUNNING" ELSE
                                           IF t = Worker THEN "READY" ELSE "JUST_CREATED"
                            /\ pc[t] = IF t = Main THEN "tick" ELSE
                                       IF t = Worker THEN "begin" ELSE "free"
      /\ Main # Worker /\ currentThread = Main
  BY DEF Init
<1>3. StatusMatchesPC
  BY <1>2 DEF StatusMatchesPC
<1>4. FinishedInv
  BY <1>2 DEF FinishedInv, Init
<1>5. InterruptDiscipline /\ HandlersInTickOrIdle
  BY <1>2 DEF InterruptDiscipline, HandlersInTickOrIdle, Asleep, Init
<1>6. ModeInv
  BY <1>2 DEF ModeInv, ModeOf, Asleep, Init
<1>7. ListsMatchStatus
  <2>1. readyList = <<Worker>> /\ \A s \in Sems : queue[s] = <<>>
    BY DEF Init
  <2>2. \A t \in Threads : On(t, readyList) <=> t = Worker
    BY <2>1 DEF On
  <2>3. NoDuplicates(readyList)
    BY <2>1 DEF NoDuplicates
  <2>4. \A s \in Sems : NoDuplicates(queue[s]) /\ \A t \in Threads : ~On(t, queue[s])
    BY <2>1 DEF NoDuplicates, On
  <2>. QED  BY <1>2, <2>2, <2>3, <2>4, ZenonT(60) DEF ListsMatchStatus
<1>. QED  BY <1>1, <1>3, <1>4, <1>5, <1>6, <1>7 DEF IInv

\* Every step of the kernel preserves it.
LEMMA NextIInv == IInv /\ [Next]_vars => IInv'
<1> SUFFICES ASSUME IInv, [Next]_vars PROVE IInv'
  OBVIOUS
<1>1. TypeOK'
  BY TypeNext DEF IInv
<1>2. StatusMatchesPC' /\ Places'
  BY StatusNext, PlacesNext
<1>3. ListsMatchStatus'
  BY <1>2 DEF ListsMatchStatus, StatusMatchesPC, Places, SleepsOn
<1>. QED
  BY <1>1, <1>2, <1>3, FinishedNext, LevelNext, HandlersNext, ModeNext DEF IInv

\* The kernel always satisfies the inductive invariant.
THEOREM Invariance == Spec => []IInv
BY InitIInv, NextIInv, PTL DEF Spec

\* Every variable keeps its type; in particular P() never makes a semaphore's
\* value negative.
THEOREM TypeCorrect == Spec => []TypeOK
<1>1. IInv => TypeOK
  BY DEF IInv
<1>. QED  BY <1>1, Invariance, PTL

\* Every thread is on exactly the list its status says, whatever threads fork,
\* sleep, wake, finish and are preempted; Append never meets a duplicate.
THEOREM ListsCorrect == Spec => []ListsMatchStatus
<1>1. IInv => ListsMatchStatus
  BY DEF IInv
<1>. QED  BY <1>1, Invariance, PTL

\* A finished thread is deleted exactly once, by the next thread to run, and is
\* on no list when that happens.
THEOREM DestructionCorrect == Spec => []DestroyedByNextThread
<1>1. IInv => DestroyedByNextThread
  <2> SUFFICES ASSUME IInv PROVE DestroyedByNextThread
    OBVIOUS
  <2>1. ASSUME toBeDestroyed # NoThread
        PROVE  /\ ~On(toBeDestroyed, readyList)
               /\ \A s \in Sems : ~On(toBeDestroyed, queue[s])
    BY <2>1, ZenonT(60) DEF IInv, TypeOK, FinishedInv, ListsMatchStatus, StatusMatchesPC
  <2>. QED  BY <2>1 DEF IInv, FinishedInv, DestroyedByNextThread
<1>. QED  BY <1>1, Invariance, PTL

\* Interrupts are off exactly in the code that needs atomicity, and no yield is
\* owed outside a handler.
THEOREM InterruptsCorrect == Spec => []InterruptDiscipline
<1>1. IInv => InterruptDiscipline
  BY DEF IInv
<1>. QED  BY <1>1, Invariance, PTL

\* The machine status is that of the code that runs, across nested ticks and
\* preemptions.
THEOREM ModeCorrect == Spec => []ModeFollowsCode
<1>1. IInv => ModeFollowsCode
  <2> SUFFICES ASSUME IInv PROVE ModeFollowsCode
    OBVIOUS
  <2>1. pc[currentThread] \in {"kernel", "begin", "yield"} => mode = "SystemMode"
    <3> SUFFICES ASSUME pc[currentThread] \in {"kernel", "begin", "yield"}
                 PROVE  mode = "SystemMode"
      OBVIOUS
    <3>1. mode # "UserMode"
      BY DEF IInv, ModeInv
    <3>2. mode # "IdleMode"
      BY DEF IInv, ModeInv, TypeOK, StatusMatchesPC, HandlersInTickOrIdle, Asleep, ThreadStatus
    <3>. QED  BY <3>1, <3>2 DEF IInv, TypeOK, MachineStatus
  <2>. QED  BY <2>1 DEF IInv, TypeOK, ModeInv, ModeFollowsCode
<1>. QED  BY <1>1, Invariance, PTL

-----------------------------------------------------------------------------
(* No lost wake-up                                                          *)

\* Thread t was woken from semaphore s and has not tested its value yet.
Awake(t, s) == pc[t] = "P" /\ sem[t] = s /\ status[t] # "BLOCKED"

\* The woken threads can be counted.
LEMMA WokenFinite ==
    ASSUME NEW s \in Sems
    PROVE  /\ IsFiniteSet(Woken(s)) /\ Cardinality(Woken(s)) \in Nat
           /\ IsFiniteSet(Woken(s)') /\ Cardinality(Woken(s)') \in Nat
           /\ \A t \in Threads : /\ t \in Woken(s) <=> Awake(t, s)
                                 /\ t \in Woken(s)' <=> Awake(t, s)'
<1>1. Woken(s) \subseteq Threads /\ Woken(s)' \subseteq Threads
  BY Zenon DEF Woken
<1>2. IsFiniteSet(Woken(s)) /\ IsFiniteSet(Woken(s)')
  BY <1>1, FS_Subset, ConstantsOK DEF ConstantsOK
<1>3. \A t \in Threads : t \in Woken(s) <=> Awake(t, s)
  BY DEF Woken, Awake
<1>4. \A t \in Threads : t \in Woken(s)' <=> Awake(t, s)'
  BY Zenon DEF Woken, Awake
<1>. QED  BY <1>2, <1>3, <1>4, FS_CardinalityType

\* If no thread stops being woken, their number does not go down.
LEMMA WokenGrows ==
    ASSUME NEW s \in Sems, \A u \in Threads : Awake(u, s) => Awake(u, s)'
    PROVE  Cardinality(Woken(s)) <= Cardinality(Woken(s)')
<1>1. Woken(s) \subseteq Threads
  BY DEF Woken
<1>2. Woken(s) \subseteq Woken(s)'
  BY <1>1, WokenFinite
<1>. QED  BY <1>2, WokenFinite, FS_Subset

\* Steps that touch no semaphore and take no woken thread away.
LEMMA WakeupFrame ==
    ASSUME NoLostWakeup, IInv, UNCHANGED <<value, queue>>,
           \A u \in Threads, s \in Sems : Awake(u, s) => Awake(u, s)'
    PROVE  NoLostWakeup'
<1> SUFFICES ASSUME NEW s \in Sems, queue[s] # <<>>
             PROVE  value[s] <= Cardinality(Woken(s)')
  BY DEF NoLostWakeup
<1>1. value[s] <= Cardinality(Woken(s)) /\ value[s] \in Nat
  BY DEF NoLostWakeup, IInv, TypeOK
<1>2. Cardinality(Woken(s)) <= Cardinality(Woken(s)')
  BY WokenGrows
<1>. QED  BY <1>1, <1>2, WokenFinite

\* V adds one to the value and, if a thread sleeps, to the woken threads.
LEMMA VWakes ==
    ASSUME NoLostWakeup, IInv, NEW s \in Sems, VBody(s), UNCHANGED sem,
           \/ UNCHANGED pc
           \/ /\ status[currentThread] = "RUNNING" /\ pc[currentThread] = "kernel"
              /\ pc' = [pc EXCEPT ![currentThread] = "tick"]
    PROVE  NoLostWakeup'
<1> SUFFICES ASSUME NEW r \in Sems, queue'[r] # <<>>
             PROVE  value'[r] <= Cardinality(Woken(r)')
  BY DEF NoLostWakeup
<1>1. \A u \in Threads, q \in Sems : Awake(u, q) => Awake(u, q)'
  <2>1. WakesOne(s)
    BY VEffect, Zenon
  <2>. QED  BY <2>1, ZenonT(60) DEF WakesOne, Awake, IInv, TypeOK
<1>2. Cardinality(Woken(r)) <= Cardinality(Woken(r)')
  BY <1>1, WokenGrows
<1>3. CASE r # s
  <2>1. queue'[r] = queue[r] /\ value'[r] = value[r] /\ value[r] \in Nat
    BY <1>3 DEF VBody, IInv, TypeOK
  <2>2. value[r] <= Cardinality(Woken(r))
    BY <2>1, ZenonT(60) DEF NoLostWakeup
  <2>. QED  BY <2>1, <2>2, <1>2, WokenFinite
<1>4. CASE r = s
  <2>1. queue[s] # <<>> /\ value'[s] = value[s] + 1 /\ value[s] \in Nat
    BY <1>4 DEF VBody, IInv, TypeOK
  <2>2. PICK h \in Threads : /\ status[h] = "BLOCKED" /\ pc[h] = "P" /\ sem[h] = s
                             /\ status' = [status EXCEPT ![h] = "READY"]
    BY <2>1, HeadBlocked, Zenon DEF VBody
  <2>3. ~Awake(h, s) /\ Awake(h, s)'
    BY <2>2, Zenon DEF Awake, IInv, TypeOK
  <2>4. h \notin Woken(s) /\ Woken(s) \cup {h} \subseteq Woken(s)'
    <3>1. Woken(s) \subseteq Threads
      BY DEF Woken
    <3>. QED  BY <3>1, <2>3, <1>1, WokenFinite, ZenonT(60)
  <2>5. Cardinality(Woken(s) \cup {h}) = Cardinality(Woken(s)) + 1
    BY <2>4, WokenFinite, FS_AddElement, Zenon
  <2>6. Cardinality(Woken(s) \cup {h}) <= Cardinality(Woken(s)')
    BY <2>4, WokenFinite, FS_Subset, ZenonT(60)
  <2>7. value[s] <= Cardinality(Woken(s))
    BY <2>1 DEF NoLostWakeup
  <2>8. Cardinality(Woken(s)) \in Nat /\ Cardinality(Woken(s)') \in Nat
    BY WokenFinite, Zenon
  <2> DEFINE before == Cardinality(Woken(s))
             after == Cardinality(Woken(s)')
  <2>9. before \in Nat /\ after \in Nat /\ before + 1 <= after /\ value[s] <= before
    BY <2>5, <2>6, <2>7, <2>8, Zenon
  <2> HIDE DEF before, after
  <2>10. value'[s] <= after
    BY <2>1, <2>9
  <2>. QED  BY <1>4, <2>10, Zenon DEF after
<1>. QED  BY <1>3, <1>4

\* P finds the value zero, or takes one from the value and at most one, its
\* caller, from the woken threads.
LEMMA TestWakes ==
    ASSUME NoLostWakeup, IInv, NEW t \in Threads, NEW s \in Sems, Tests(t, s),
           pc[t] = "P" => sem[t] = s,
           \/ value[s] = 0 /\ value' = value
           \/ value[s] # 0 /\ value' = [value EXCEPT ![s] = @ - 1] /\ queue' = queue,
           \A r \in Sems \ {s} : queue'[r] = queue[r]
    PROVE  NoLostWakeup'
<1> SUFFICES ASSUME NEW r \in Sems, queue'[r] # <<>>
             PROVE  value'[r] <= Cardinality(Woken(r)')
  BY DEF NoLostWakeup
<1>1. \A u \in Threads \ {t}, q \in Sems : Awake(u, q) => Awake(u, q)'
  <2>1. toBeDestroyed \in Threads => pc[toBeDestroyed] = "finish"
    BY ConstantsOK, ZenonT(60) DEF ConstantsOK, FinishedInv, IInv
  <2>. QED  BY <2>1, Zenon DEF Awake, Tests
<1>2. CASE r # s
  <2>1. queue[r] # <<>> /\ value'[r] = value[r] /\ value[r] \in Nat
    BY <1>2, Zenon DEF IInv, TypeOK
  <2>2. value[r] <= Cardinality(Woken(r))
    BY <2>1, Zenon DEF NoLostWakeup
  <2>3. ~Awake(t, r)
    BY <1>2, Zenon DEF Awake
  <2>4. Cardinality(Woken(r)) <= Cardinality(Woken(r)')
    BY <1>1, <2>3, WokenGrows, Zenon
  <2>5. Cardinality(Woken(r)) \in Nat /\ Cardinality(Woken(r)') \in Nat
    BY WokenFinite, Zenon
  <2>. QED  BY <2>1, <2>2, <2>4, <2>5
<1>3. CASE r = s /\ value[s] = 0
  <2>1. value'[r] = 0
    BY <1>3, Zenon
  <2>2. Cardinality(Woken(r)') \in Nat
    BY WokenFinite, Zenon
  <2>. QED  BY <2>1, <2>2
<1>4. CASE r = s /\ value[s] # 0
  <2>1. queue[s] # <<>> /\ value'[s] = value[s] - 1 /\ value[s] \in Nat \ {0}
    BY <1>4, ZenonT(60) DEF IInv, TypeOK
  <2>2. value[s] <= Cardinality(Woken(s))
    BY <2>1 DEF NoLostWakeup
  <2>3. Woken(s) \ {t} \subseteq Woken(s)'
    <3>1. Woken(s) \subseteq Threads
      BY Zenon DEF Woken
    <3>. QED  BY <3>1, <1>1, WokenFinite, Zenon
  <2>4. Cardinality(Woken(s) \ {t}) <= Cardinality(Woken(s)')
    BY <2>3, WokenFinite, FS_Subset, ZenonT(60)
  <2>5. Cardinality(Woken(s)) - 1 <= Cardinality(Woken(s) \ {t})
    <3>1. IsFiniteSet(Woken(s)) /\ Cardinality(Woken(s)) \in Nat
      BY WokenFinite, ZenonT(60)
    <3>2. CASE t \in Woken(s)
      <4>1. Cardinality(Woken(s) \ {t}) = Cardinality(Woken(s)) - 1
        BY <3>1, <3>2, FS_RemoveElement, ZenonT(60)
      <4>. QED  BY <3>1, <4>1
    <3>3. CASE t \notin Woken(s)
      <4>1. Woken(s) \ {t} = Woken(s)
        BY <3>3
      <4>2. Cardinality(Woken(s) \ {t}) = Cardinality(Woken(s))
        BY <4>1
      <4>. QED  BY <3>1, <4>2
    <3>. QED  BY <3>2, <3>3, ZenonT(60)
  <2>6. Cardinality(Woken(s) \ {t}) \in Nat
    BY WokenFinite, FS_Subset, FS_CardinalityType, Zenon
  <2>7. Cardinality(Woken(s)) \in Nat /\ Cardinality(Woken(s)') \in Nat
    BY WokenFinite, ZenonT(60)
  <2>8. value'[s] <= Cardinality(Woken(s)')
    BY <2>1, <2>2, <2>4, <2>5, <2>6, <2>7
  <2>. QED  BY <1>4, <2>8, Zenon
<1>. QED  BY <1>2, <1>3, <1>4, ZenonT(60)

\* No step loses a wake-up.
LEMMA WakeupNext == IInv /\ NoLostWakeup /\ [Next]_vars => NoLostWakeup'
<1> SUFFICES ASSUME IInv, NoLostWakeup, [Next]_vars PROVE NoLostWakeup'
  OBVIOUS
<1> USE DEF PCs, ThreadStatus, InKernel, Resumed, EnableAndTick, Reap,
            semVars, modeVars, irqVars, threadVars
<1>0. CASE UNCHANGED vars
  BY <1>0, WakeupFrame, Zenon DEF Awake, vars
<1>1. ASSUME NEW t \in Threads, Yield(t) PROVE NoLostWakeup'
  <2>1. t = currentThread /\ status[t] = "RUNNING" /\ pc[t] # "P" /\ YieldBody(t)
        /\ UNCHANGED semVars
    BY <1>1, Zenon DEF Yield, IInv, TypeOK, StatusMatchesPC
  <2>2. \A u \in Threads, s \in Sems : Awake(u, s) => Awake(u, s)'
    <3>1. CASE readyList = <<>>
      BY <2>1, <3>1 DEF YieldBody, Awake, IInv, TypeOK
    <3>2. CASE readyList # <<>>
      <4>1. PICK h \in Threads : SwitchesTo(t, h)
        BY <2>1, <3>2, YieldEffect
      <4>. QED  BY <2>1, <4>1 DEF SwitchesTo, Awake, IInv, TypeOK
    <3>. QED  BY <3>1, <3>2
  <2>. QED  BY <2>1, <2>2, WakeupFrame, Zenon
<1>2. ASSUME NEW t \in Threads, YieldReturn(t) PROVE NoLostWakeup'
  <2>1. /\ UNCHANGED <<value, queue>>
        /\ \A u \in Threads, s \in Sems : Awake(u, s) => Awake(u, s)'
    BY <1>2, Zenon DEF IInv, TypeOK, StatusMatchesPC, FinishedInv, Asleep, Awake, YieldReturn
  <2>. QED  BY <2>1, WakeupFrame
<1>3. ASSUME NEW t \in Threads, SleepRun(t) PROVE NoLostWakeup'
  <2>1. PICK h \in Threads : SleepsAndRuns(t, h)
    BY <1>3, SleepRunEffect
  <2>2. \A u \in Threads, s \in Sems : Awake(u, s) => Awake(u, s)'
    BY <2>1 DEF SleepsAndRuns, Awake, IInv, TypeOK
  <2>. QED  BY <2>1, <2>2, WakeupFrame, ZenonT(60) DEF SleepsAndRuns
<1>4. ASSUME NEW t \in Threads, NEW v \in Threads, Fork(t, v) PROVE NoLostWakeup'
  <2>1. /\ UNCHANGED <<value, queue>>
        /\ \A u \in Threads, s \in Sems : Awake(u, s) => Awake(u, s)'
    BY <1>4, ZenonT(60) DEF IInv, TypeOK, StatusMatchesPC, FinishedInv, Asleep, Awake, Fork
  <2>. QED  BY <2>1, WakeupFrame
<1>5. ASSUME NEW t \in Threads, Begin(t) PROVE NoLostWakeup'
  <2>1. /\ UNCHANGED <<value, queue>>
        /\ \A u \in Threads, s \in Sems : Awake(u, s) => Awake(u, s)'
    BY <1>5, ZenonT(60) DEF IInv, TypeOK, StatusMatchesPC, FinishedInv, Asleep, Awake, Begin
  <2>. QED  BY <2>1, WakeupFrame
<1>6. ASSUME NEW t \in Threads, Finish(t) PROVE NoLostWakeup'
  <2>1. /\ UNCHANGED <<value, queue>>
        /\ \A u \in Threads, s \in Sems : Awake(u, s) => Awake(u, s)'
    BY <1>6, Zenon DEF IInv, TypeOK, StatusMatchesPC, FinishedInv, Asleep, Awake, Finish
  <2>. QED  BY <2>1, WakeupFrame
<1>7. ASSUME NEW t \in Threads, NEW s \in Sems, P(t, s) PROVE NoLostWakeup'
  <2>1. Tests(t, s)
    BY <1>7, TestEffect
  <2>2. pc[t] # "P" /\ TestValue(t, s, status, pc)
    BY <1>7 DEF P
  <2>. QED  BY <2>1, <2>2, TestWakes, ZenonT(60) DEF TestValue, IInv, TypeOK
<1>8. ASSUME NEW t \in Threads, NEW s \in Sems, V(t, s) PROVE NoLostWakeup'
  <2>1. VBody(s) /\ UNCHANGED sem /\ status[currentThread] = "RUNNING"
                 /\ pc[currentThread] = "kernel"
                 /\ pc' = [pc EXCEPT ![currentThread] = "tick"]
    BY <1>8 DEF V, IInv, TypeOK, StatusMatchesPC
  <2>. QED  BY <2>1, VWakes
<1>9. ASSUME NEW t \in Threads, PResume(t) PROVE NoLostWakeup'
  <2>1. sem[t] \in Sems
    BY <1>9 DEF PResume, IInv, StatusMatchesPC
  <2>2. Tests(t, sem[t])
    BY <1>9, <2>1, TestEffect
  <2>3. TestValue(t, sem[t], Reap(status, "JUST_CREATED"), Reap(pc, "free"))
    BY <1>9 DEF PResume
  <2>. QED  BY <2>1, <2>2, <2>3, TestWakes, ZenonT(60) DEF TestValue, IInv, TypeOK
<1>10. ASSUME NEW t \in Threads, NEW d \in Devices, Schedule(t, d) PROVE NoLostWakeup'
  <2>1. /\ UNCHANGED <<value, queue>>
        /\ \A u \in Threads, s \in Sems : Awake(u, s) => Awake(u, s)'
    BY <1>10, ZenonT(60) DEF IInv, TypeOK, StatusMatchesPC, FinishedInv, Asleep, Awake, Schedule
  <2>. QED  BY <2>1, WakeupFrame
<1>11. ASSUME NEW t \in Threads, UserInstruction(t) PROVE NoLostWakeup'
  <2>1. /\ UNCHANGED <<value, queue>>
        /\ \A u \in Threads, s \in Sems : Awake(u, s) => Awake(u, s)'
    BY <1>11, ZenonT(60) DEF IInv, TypeOK, StatusMatchesPC, FinishedInv, Asleep, Awake, UserInstruction
  <2>. QED  BY <2>1, WakeupFrame
<1>12. ASSUME NEW t \in Threads, RaiseException(t) PROVE NoLostWakeup'
  <2>1. /\ UNCHANGED <<value, queue>>
        /\ \A u \in Threads, s \in Sems : Awake(u, s) => Awake(u, s)'
    BY <1>12, ZenonT(60) DEF IInv, TypeOK, StatusMatchesPC, FinishedInv, Asleep, Awake, RaiseException
  <2>. QED  BY <2>1, WakeupFrame
<1>13. ASSUME NEW t \in Threads, ReturnToUser(t) PROVE NoLostWakeup'
  <2>1. /\ UNCHANGED <<value, queue>>
        /\ \A u \in Threads, s \in Sems : Awake(u, s) => Awake(u, s)'
    BY <1>13, Zenon DEF IInv, TypeOK, StatusMatchesPC, FinishedInv, Asleep, Awake, ReturnToUser
  <2>. QED  BY <2>1, WakeupFrame
<1>14. ASSUME NEW t \in Threads, NEW D \in SUBSET pending, TickDue(t, D) PROVE NoLostWakeup'
  <2>1. /\ UNCHANGED <<value, queue>>
        /\ \A u \in Threads, s \in Sems : Awake(u, s) => Awake(u, s)'
    BY <1>14, ZenonT(60) DEF IInv, TypeOK, StatusMatchesPC, FinishedInv, Asleep, Awake, TickDue
  <2>. QED  BY <2>1, WakeupFrame
<1>15. ASSUME NEW t \in Threads, NEW D \in SUBSET pending, Idle(t, D) PROVE NoLostWakeup'
  <2>1. /\ UNCHANGED <<value, queue>>
        /\ \A u \in Threads, s \in Sems : Awake(u, s) => Awake(u, s)'
    BY <1>15, Zenon DEF IInv, TypeOK, StatusMatchesPC, FinishedInv, Asleep, Awake, Idle
  <2>. QED  BY <2>1, WakeupFrame
<1>16. ASSUME TimerCallBack PROVE NoLostWakeup'
  <2>1. /\ UNCHANGED <<value, queue>>
        /\ \A u \in Threads, s \in Sems : Awake(u, s) => Awake(u, s)'
    BY <1>16, ZenonT(60) DEF IInv, TypeOK, StatusMatchesPC, FinishedInv, Asleep, Awake, TimerCallBack
  <2>. QED  BY <2>1, WakeupFrame
<1>17. ASSUME NEW d \in Devices, DeviceCallBack(d) PROVE NoLostWakeup'
  <2>1. CASE VBody(d)
    <3>1. d \in Sems /\ UNCHANGED <<sem, pc>>
      BY <1>17, ConstantsOK DEF DeviceCallBack, ConstantsOK
    <3>. QED  BY <2>1, <3>1, VWakes
  <2>2. CASE UNCHANGED <<value, queue, readyList, status, sem, pc>>
    <3>1. \A u \in Threads, s \in Sems : Awake(u, s) => Awake(u, s)'
      BY <2>2 DEF Awake
    <3>. QED  BY <2>2, <3>1, WakeupFrame
  <2>. QED  BY <1>17, <2>1, <2>2 DEF DeviceCallBack
<1>18. ASSUME NEW t \in Threads, IdleReturn(t) PROVE NoLostWakeup'
  <2>1. /\ UNCHANGED <<value, queue>>
        /\ \A u \in Threads, s \in Sems : Awake(u, s) => Awake(u, s)'
    BY <1>18, ZenonT(60) DEF IInv, TypeOK, StatusMatchesPC, FinishedInv, Asleep, Awake, IdleReturn
  <2>. QED  BY <2>1, WakeupFrame
<1>19. ASSUME NEW t \in Threads, TickReturn(t) PROVE NoLostWakeup'
  <2>1. /\ UNCHANGED <<value, queue>>
        /\ \A u \in Threads, s \in Sems : Awake(u, s) => Awake(u, s)'
    BY <1>19, ZenonT(60) DEF IInv, TypeOK, StatusMatchesPC, FinishedInv, Asleep, Awake, TickReturn
  <2>. QED  BY <2>1, WakeupFrame
<1>20. ASSUME NEW t \in Threads, TickYield(t) PROVE NoLostWakeup'
  <2>1. t = currentThread /\ status[t] = "RUNNING" /\ pc[t] # "P" /\ YieldBody(t)
        /\ UNCHANGED semVars
    BY <1>20, ZenonT(60) DEF TickYield, IInv, TypeOK, StatusMatchesPC
  <2>2. \A u \in Threads, s \in Sems : Awake(u, s) => Awake(u, s)'
    <3>1. CASE readyList = <<>>
      BY <2>1, <3>1 DEF YieldBody, Awake, IInv, TypeOK
    <3>2. CASE readyList # <<>>
      <4>1. PICK h \in Threads : SwitchesTo(t, h)
        BY <2>1, <3>2, YieldEffect
      <4>. QED  BY <2>1, <4>1 DEF SwitchesTo, Awake, IInv, TypeOK
    <3>. QED  BY <3>1, <3>2
  <2>. QED  BY <2>1, <2>2, WakeupFrame, Zenon
<1>. QED
  BY <1>0, <1>1, <1>2, <1>3, <1>4, <1>5, <1>6, <1>7, <1>8, <1>9, <1>10,
     <1>11, <1>12, <1>13, <1>14, <1>15, <1>16, <1>17, <1>18, <1>19, <1>20, ZenonT(60)
  DEF Next, ThreadStep, InterruptStep

\* While a thread sleeps in P(), every unit of the value that V() added is
\* matched by a thread that was woken for it: no wake-up is lost.
THEOREM WakeupsCorrect == Spec => []NoLostWakeup
<1>1. Init => NoLostWakeup
  BY DEF Init, NoLostWakeup
<1>. QED  BY <1>1, WakeupNext, Invariance, PTL DEF Spec

-----------------------------------------------------------------------------
(* The semaphore that callers see                                           *)

InP(t, s) == pc[t] = "P" /\ sem[t] = s

Waiters == [s \in Sems |-> {t \in Threads : InP(t, s)}]

\* A step after which the same threads are inside P() is no step of theirs.
LEMMA WaitersFrame ==
    ASSUME \A u \in Threads, r \in Sems : InP(u, r)' <=> InP(u, r)
    PROVE  Waiters' = Waiters
<1>1. \A r \in Sems : {u \in Threads : InP(u, r)'} = {u \in Threads : InP(u, r)}
  OBVIOUS
<1>2. Waiters' = [r \in Sems |-> {u \in Threads : InP(u, r)'}]
  BY DEF Waiters
<1>. QED  BY <1>1, <1>2 DEF Waiters

\* One thread enters P() of s, or leaves it.
LEMMA WaitersChange ==
    ASSUME NEW t \in Threads, NEW s \in Sems, NEW W,
           \A u \in Threads, r \in Sems : u # t \/ r # s => (InP(u, r)' <=> InP(u, r)),
           \/ InP(t, s)' /\ W = Waiters[s] \cup {t}
           \/ ~InP(t, s)' /\ W = Waiters[s] \ {t}
    PROVE  Waiters' = [Waiters EXCEPT ![s] = W]
<1>1. Waiters' = [r \in Sems |-> {u \in Threads : InP(u, r)'}]
  BY DEF Waiters
<1>2. \A r \in Sems \ {s} : {u \in Threads : InP(u, r)'} = Waiters[r]
  BY DEF Waiters
<1>3. {u \in Threads : InP(u, s)'} = W
  <2>1. Waiters[s] = {u \in Threads : InP(u, s)}
    BY DEF Waiters
  <2>2. \A u \in Threads : InP(u, s)' <=> u \in W
    BY <2>1, Zenon
  <2>3. \A u \in W : u \in Threads
    BY <2>1, ZenonT(60)
  <2>. QED  BY <2>2, <2>3, Zenon
<1>4. Waiters' = [r \in Sems |-> IF r = s THEN W ELSE Waiters[r]]
  BY <1>1, <1>2, <1>3
<1>5. DOMAIN Waiters = Sems
  BY DEF Waiters
<1>. QED  BY <1>4, <1>5, Zenon

\* A step of the abstract semaphore.
AbsStep ==
    \/ value' = value /\ Waiters' = Waiters
    \/ \E s \in Sems :
         \/ value[s] > 0 /\ value' = [value EXCEPT ![s] = @ - 1] /\ Waiters' = Waiters
         \/ value' = [value EXCEPT ![s] = @ + 1] /\ Waiters' = Waiters
         \/ \E t \in Threads :
              \/ /\ value[s] = 0 /\ t \notin Waiters[s] /\ value' = value
                 /\ Waiters' = [Waiters EXCEPT ![s] = @ \cup {t}]
              \/ /\ t \in Waiters[s] /\ value[s] > 0
                 /\ value' = [value EXCEPT ![s] = @ - 1]
                 /\ Waiters' = [Waiters EXCEPT ![s] = @ \ {t}]

\* A test of the value by P() is a step of the abstract semaphore: a caller
\* takes a unit or starts to wait, a sleeper gets through or stays.
LEMMA TestIsAbstract ==
    ASSUME IInv, NEW t \in Threads, NEW s \in Sems, Tests(t, s),
           pc[t] = "P" => sem[t] = s,
           \/ /\ value[s] = 0 /\ value' = value
              /\ pc'[t] = "P" /\ sem'[t] = s
           \/ /\ value[s] # 0 /\ value' = [value EXCEPT ![s] = @ - 1]
              /\ pc'[t] = "tick"
    PROVE  AbsStep
<1>1. \A u \in Threads \ {t}, r \in Sems : InP(u, r)' <=> InP(u, r)
  <2>1. toBeDestroyed \in Threads => pc[toBeDestroyed] = "finish"
    BY ConstantsOK, ZenonT(60) DEF ConstantsOK, FinishedInv, IInv
  <2>. QED  BY <2>1, Zenon DEF InP, Tests
<1>2. value[s] # 0 => value[s] > 0
  <2>1. value[s] \in Nat
    BY Zenon DEF IInv, TypeOK
  <2>. QED  BY <2>1
<1>3. \A r \in Sems \ {s} : ~InP(t, r) /\ ~InP(t, r)'
  BY DEF InP
<1>4. t \in Waiters[s] <=> InP(t, s)
  BY Zenon DEF Waiters
<1>b. \A u \in Threads, r \in Sems : u # t \/ r # s => (InP(u, r)' <=> InP(u, r))
  BY <1>1, <1>3, Zenon
<1>5. CASE value[s] = 0 /\ ~InP(t, s)
  <2> DEFINE W == Waiters[s] \cup {t}
  <2>1. InP(t, s)' /\ W = Waiters[s] \cup {t}
    BY <1>5, Zenon DEF InP
  <2> HIDE DEF W
  <2>a. \/ InP(t, s)' /\ W = Waiters[s] \cup {t}
        \/ ~InP(t, s)' /\ W = Waiters[s] \ {t}
    BY <2>1, Zenon
  <2>2. Waiters' = [Waiters EXCEPT ![s] = W]
    BY <1>b, <2>a, WaitersChange, Zenon
  <2>3. Waiters' = [Waiters EXCEPT ![s] = @ \cup {t}]
    BY <2>1, <2>2, Zenon
  <2>. QED  BY <1>4, <1>5, <2>3, Zenon DEF AbsStep
<1>6. CASE value[s] = 0 /\ InP(t, s)
  <2>1. Waiters' = Waiters
    BY <1>1, <1>3, <1>6, WaitersFrame, Zenon DEF InP
  <2>. QED  BY <1>6, <2>1, Zenon DEF AbsStep
<1>7. CASE value[s] # 0 /\ ~InP(t, s)
  <2>1. Waiters' = Waiters
    BY <1>1, <1>3, <1>7, WaitersFrame, Zenon DEF InP
  <2>2. value[s] > 0 /\ value' = [value EXCEPT ![s] = @ - 1]
    BY <1>2, <1>7, Zenon
  <2>. QED  BY <2>1, <2>2, Zenon DEF AbsStep
<1>8. CASE value[s] # 0 /\ InP(t, s)
  <2> DEFINE W == Waiters[s] \ {t}
  <2>1. ~InP(t, s)' /\ W = Waiters[s] \ {t}
    BY <1>8, Zenon DEF InP
  <2> HIDE DEF W
  <2>2. Waiters' = [Waiters EXCEPT ![s] = W]
    BY <1>b, <2>1, WaitersChange, Zenon
  <2>3. Waiters' = [Waiters EXCEPT ![s] = @ \ {t}]
    BY <2>1, <2>2, Zenon
  <2>4. t \in Waiters[s] /\ value[s] > 0 /\ value' = [value EXCEPT ![s] = @ - 1]
    BY <1>2, <1>4, <1>8, Zenon
  <2>. QED  BY <2>3, <2>4, Zenon DEF AbsStep
<1>. QED  BY <1>5, <1>6, <1>7, <1>8, ZenonT(60)

\* V() is a Signal, whether or not it wakes a thread.
LEMMA VIsAbstract ==
    ASSUME IInv, NEW s \in Sems, VBody(s), UNCHANGED sem,
           \A u \in Threads : pc'[u] = "P" <=> pc[u] = "P"
    PROVE  AbsStep
<1>1. Waiters' = Waiters
  BY WaitersFrame, Zenon DEF InP
<1>. QED  BY <1>1, Zenon DEF AbsStep, VBody

\* Every step of the kernel is a step of the abstract semaphores or none.
LEMMA NextIsAbstract == IInv /\ [Next]_vars => AbsStep
<1> SUFFICES ASSUME IInv, [Next]_vars PROVE AbsStep
  OBVIOUS
<1> USE DEF IInv, TypeOK, PCs, InKernel, Resumed, EnableAndTick, Reap,
            semVars, modeVars, irqVars, threadVars
<1>a. ASSUME UNCHANGED <<sem, value>>, \A u \in Threads : pc'[u] = "P" <=> pc[u] = "P"
      PROVE  AbsStep
  <2>1. Waiters' = Waiters
    BY <1>a, WaitersFrame DEF InP
  <2>. QED  BY <1>a, <2>1 DEF AbsStep
<1>1. ASSUME NEW t \in Threads, Yield(t) \/ TickYield(t) PROVE AbsStep
  <2>1. YieldBody(t) /\ UNCHANGED semVars /\ pc[t] # "P"
    BY <1>1, Zenon DEF Yield, TickYield
  <2>2. pc' = [pc EXCEPT ![t] = "tick"] \/ pc' = [pc EXCEPT ![t] = "yield"]
    BY <2>1, Zenon DEF YieldBody
  <2>. QED  BY <1>a, <2>1, <2>2
<1>2. ASSUME NEW t \in Threads, YieldReturn(t) \/ Begin(t) PROVE AbsStep
  <2>1. toBeDestroyed # NoThread => toBeDestroyed \in Threads /\ pc[toBeDestroyed] = "finish"
    BY ConstantsOK DEF FinishedInv, ConstantsOK
  <2>2. \A u \in Threads : pc'[u] = "P" <=> pc[u] = "P"
    BY <1>2, <2>1, ZenonT(60) DEF YieldReturn, Begin
  <2>. QED  BY <1>2, <1>a, <2>2, ZenonT(60) DEF YieldReturn, Begin
<1>3. ASSUME NEW t \in Threads, SleepRun(t) PROVE AbsStep
  BY <1>3, <1>a DEF SleepRun
<1>4. ASSUME NEW t \in Threads, NEW v \in Threads, Fork(t, v) PROVE AbsStep
  BY <1>4, <1>a DEF Fork
<1>5. ASSUME NEW t \in Threads,
             Finish(t) \/ UserInstruction(t) \/ RaiseException(t) \/ ReturnToUser(t)
      PROVE  AbsStep
  BY <1>5, <1>a, ZenonT(60) DEF Finish, UserInstruction, RaiseException, ReturnToUser
<1>6. ASSUME NEW t \in Threads, NEW s \in Sems, P(t, s) PROVE AbsStep
  <2>1. Tests(t, s) /\ pc[t] # "P" /\ TestValue(t, s, status, pc)
    BY <1>6, TestEffect, Zenon DEF P
  <2>. QED  BY <2>1, TestIsAbstract, ZenonT(60) DEF TestValue
<1>7. ASSUME NEW t \in Threads, PResume(t) PROVE AbsStep
  <2>1. sem[t] \in Sems
    BY <1>7, Zenon DEF PResume, StatusMatchesPC
  <2>2. Tests(t, sem[t])
    BY <1>7, <2>1, TestEffect, ZenonT(60)
  <2>3. TestValue(t, sem[t], Reap(status, "JUST_CREATED"), Reap(pc, "free"))
    BY <1>7, Zenon DEF PResume
  <2>. QED  BY <2>1, <2>2, <2>3, TestIsAbstract, ZenonT(60) DEF TestValue
<1>8. ASSUME NEW t \in Threads, NEW s \in Sems, V(t, s) PROVE AbsStep
  BY <1>8, VIsAbstract, Zenon DEF V
<1>9. ASSUME NEW d \in Devices, DeviceCallBack(d) PROVE AbsStep
  <2>1. d \in Sems /\ UNCHANGED <<pc, sem>>
    BY <1>9, ConstantsOK, ZenonT(60) DEF ConstantsOK, DeviceCallBack
  <2>. QED  BY <1>9, <1>a, <2>1, VIsAbstract, ZenonT(60) DEF DeviceCallBack
<1>10. ASSUME NEW t \in Threads, NEW d \in Devices, Schedule(t, d) PROVE AbsStep
  BY <1>10, <1>a, Zenon DEF Schedule
<1>11. ASSUME NEW t \in Threads, NEW D \in SUBSET pending, TickDue(t, D) \/ Idle(t, D)
       PROVE  AbsStep
  BY <1>11, <1>a, ZenonT(60) DEF TickDue, Idle
<1>12. ASSUME NEW t \in Threads, IdleReturn(t) PROVE AbsStep
  BY <1>12, <1>a, Zenon DEF IdleReturn
<1>13. ASSUME NEW t \in Threads, TickReturn(t) PROVE AbsStep
  <2>1. pc' = [pc EXCEPT ![t] = caller[t]] /\ caller[t] # "P" /\ pc[t] # "P"
    BY <1>13, Zenon DEF TickReturn
  <2>. QED  BY <1>13, <1>a, <2>1, ZenonT(60) DEF TickReturn
<1>14. CASE TimerCallBack \/ UNCHANGED vars
  BY <1>14, <1>a, ZenonT(60) DEF TimerCallBack, vars
<1>. QED
  BY <1>1, <1>2, <1>3, <1>4, <1>5, <1>6, <1>7, <1>8, <1>9, <1>10, <1>11, <1>12, <1>13, <1>14, ZenonT(60)
  DEF Next, ThreadStep, InterruptStep

\* Queues, ready list, switches and preemption together implement the semaphore
\* of AbstractSemaphore: P() waits until the value is positive and takes a unit in
\* the same step, V() adds one, and a thread sleeps and is woken unseen.
THEOREM SemaphoreImplemented == Spec => ImplementsSemaphore
<1>1. Init => AbsSem!AInit
  BY DEF Init, AbsSem!AInit
<1>2. AbsStep => [AbsSem!ANext]_AbsSem!avars
  BY Zenon DEF AbsStep, Waiters, InP, AbsSem!ANext, AbsSem!avars, AbsSem!Take, AbsSem!Wait,
         AbsSem!Complete, AbsSem!Signal
<1>3. IInv /\ [Next]_vars => [AbsSem!ANext]_AbsSem!avars
  BY <1>2, NextIsAbstract
<1>. QED  BY <1>1, <1>3, Invariance, PTL DEF Spec, ImplementsSemaphore, AbsSem!ASpec

=============================================================================
