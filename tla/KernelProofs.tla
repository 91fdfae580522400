---------------------------- MODULE KernelProofs ----------------------------
(***************************************************************************)
(* Proofs about the kernel below and above the scheduler: Interrupt, for all*)
(* tick lengths, delays and devices, and then Monitor and SynchList, for any*)
(* finite set of threads.  The two share no state.                         *)
(***************************************************************************)
EXTENDS Interrupt, SynchList, FiniteSetTheorems, WellFoundedInduction, TLAPS

-----------------------------------------------------------------------------
(* Interrupt                                                                *)

\* The properties of Interrupt are inductive together: the list must be sorted
\* for the test of its front in CheckIfDue to tell whether anything is due.
IInv == TypeOK /\ PendingSorted /\ InterruptsOnTime /\ TimerPending /\ TicksAccounted

Sorted(ints) == \A i, j \in DOMAIN ints : i < j => ints[i].when <= ints[j].when

-----------------------------------------------------------------------------
(* SortedList::Insert                                                       *)

\* A non-empty set of natural numbers has a least element.
LEMMA LeastNatural ==
    ASSUME NEW T \in SUBSET Nat, T # {}
    PROVE  \E m \in T : \A k \in T : m <= k
<1> DEFINE R == {ss \in Nat \X Nat : ss[1] < ss[2]}
<1>1. IsWellFoundedOn(R, Nat)
  BY NatLessThanWellFounded DEF OpToRel
<1> HIDE DEF R
<1>2. PICK m \in T : \A k \in T : ~(<<k, m>> \in R)
  BY <1>1, WFMin, Zenon
<1>3. \A k \in T : ~(k < m)
  BY <1>2, Zenon DEF R
<1>. QED  BY <1>3

\* The scan of Insert stops before the first bigger item or at the end.
LEMMA PositionExists ==
    ASSUME NEW ints \in Seq(PendingInterrupt), NEW item \in PendingInterrupt
    PROVE  LET i == InsertPosition(item, ints)
           IN  /\ i \in 1 .. Len(ints) + 1
               /\ \A j \in 1 .. i - 1 : ~Before(item, ints[j])
               /\ i <= Len(ints) => Before(item, ints[i])
<1> DEFINE T == {i \in 1 .. Len(ints) + 1 : i <= Len(ints) => Before(item, ints[i])}
<1>1. Len(ints) \in Nat
  OBVIOUS
<1>2. Len(ints) + 1 \in T /\ T \in SUBSET Nat
  BY <1>1
<1>3. PICK m \in T : \A k \in T : m <= k
  BY <1>2, LeastNatural, Zenon
<1>4. \A j \in 1 .. m - 1 : ~Before(item, ints[j])
  BY <1>1, <1>3
<1>5. \E i \in 1 .. Len(ints) + 1 :
        /\ \A j \in 1 .. i - 1 : ~Before(item, ints[j])
        /\ i <= Len(ints) => Before(item, ints[i])
  BY <1>3, <1>4
<1>. QED  BY <1>5, Zenon DEF InsertPosition

\* Insert keeps a sorted list sorted, puts the item on it and loses nothing.
LEMMA InsertSorted ==
    ASSUME NEW ints \in Seq(PendingInterrupt), NEW item \in PendingInterrupt, Sorted(ints)
    PROVE  /\ Insert(item, ints) \in Seq(PendingInterrupt)
           /\ Sorted(Insert(item, ints))
           /\ \E k \in DOMAIN Insert(item, ints) : Insert(item, ints)[k] = item
           /\ \A j \in DOMAIN ints : \E k \in DOMAIN Insert(item, ints) :
                 Insert(item, ints)[k] = ints[j]
           /\ \A k \in DOMAIN Insert(item, ints) :
                 \/ Insert(item, ints)[k] = item
                 \/ \E j \in DOMAIN ints : Insert(item, ints)[k] = ints[j]
<1> DEFINE i == InsertPosition(item, ints)
           n == Len(ints)
           r == Insert(item, ints)
<1>1. /\ i \in 1 .. n + 1
      /\ \A j \in 1 .. i - 1 : ~Before(item, ints[j])
      /\ i <= n => Before(item, ints[i])
  BY PositionExists
<1>2. n \in Nat /\ DOMAIN ints = 1 .. n /\ \A j \in 1 .. n : ints[j] \in PendingInterrupt
  OBVIOUS
<1>3. r = [j \in 1 .. n + 1 |->
             IF j < i THEN ints[j] ELSE IF j = i THEN item ELSE ints[j - 1]]
  BY DEF Insert, InsertAtPosition
<1> HIDE DEF i, r, n
<1>4. DOMAIN r = 1 .. n + 1
  BY <1>3
<1>5. \A j \in 1 .. n + 1 : /\ j < i => r[j] = ints[j] /\ j \in 1 .. n
                            /\ j = i => r[j] = item
                            /\ j > i => r[j] = ints[j - 1] /\ j - 1 \in 1 .. n
  BY <1>1, <1>2, <1>3
<1>6. r \in Seq(PendingInterrupt)
  <2>1. \A j \in 1 .. n + 1 : r[j] \in PendingInterrupt
    BY <1>1, <1>2, <1>5
  <2>. QED  BY <1>2, <1>3, <2>1
<1>7. \A j, k \in 1 .. n : j < k => ints[j].when <= ints[k].when
  BY <1>2 DEF Sorted
<1>8. /\ item.when \in Nat
      /\ \A j \in 1 .. n : ints[j].when \in Nat
  BY <1>2 DEF PendingInterrupt
<1>9. \A j \in 1 .. n : /\ j < i => ints[j].when <= item.when
                        /\ j >= i => item.when <= ints[j].when
  <2> SUFFICES ASSUME NEW j \in 1 .. n
               PROVE  /\ j < i => ints[j].when <= item.when
                      /\ j >= i => item.when <= ints[j].when
    OBVIOUS
  <2>1. CASE j < i
    BY <1>1, <1>2, <1>8, <2>1 DEF Before
  <2>2. CASE j = i
    BY <1>1, <1>2, <1>8, <2>2 DEF Before
  <2>3. CASE j > i
    <3>1. i \in 1 .. n /\ item.when < ints[i].when
      BY <1>1, <1>2, <2>3 DEF Before
    <3>. QED  BY <1>1, <1>2, <1>7, <1>8, <2>3, <3>1
  <2>. QED  BY <1>1, <1>2, <2>1, <2>2, <2>3
<1>10. Sorted(r)
  <2> SUFFICES ASSUME NEW j \in 1 .. n + 1, NEW k \in 1 .. n + 1, j < k
               PROVE  r[j].when <= r[k].when
    BY <1>4 DEF Sorted
  <2>1. CASE k < i
    BY <1>1, <1>2, <1>5, <1>7, <2>1
  <2>2. CASE k = i
    BY <1>1, <1>2, <1>5, <1>9, <2>2
  <2>3. CASE k > i /\ j < i
    <3>1. r[j] = ints[j] /\ r[k] = ints[k - 1] /\ j \in 1 .. n /\ k - 1 \in 1 .. n
      BY <1>5, <2>3
    <3>2. j < k - 1
      BY <1>1, <2>3
    <3>. QED  BY <3>1, <3>2, <1>7
  <2>4. CASE k > i /\ j = i
    <3>1. r[j] = item /\ r[k] = ints[k - 1] /\ k - 1 \in 1 .. n /\ k - 1 >= i
      BY <1>1, <1>5, <2>4
    <3>. QED  BY <3>1, <1>9
  <2>5. CASE j > i
    <3>1. r[j] = ints[j - 1] /\ r[k] = ints[k - 1] /\ j - 1 \in 1 .. n /\ k - 1 \in 1 .. n
      BY <1>1, <1>5, <2>5
    <3>. QED  BY <3>1, <1>7
  <2>. QED  BY <1>1, <1>2, <2>1, <2>2, <2>3, <2>4, <2>5
<1>11. \E k \in DOMAIN r : r[k] = item
  BY <1>1, <1>4, <1>5
<1>12. \A j \in DOMAIN ints : \E k \in DOMAIN r : r[k] = ints[j]
  <2> SUFFICES ASSUME NEW j \in 1 .. n PROVE \E k \in DOMAIN r : r[k] = ints[j]
    BY <1>2
  <2>1. CASE j < i
    BY <1>2, <1>4, <1>5, <2>1
  <2>2. CASE j >= i
    <3>1. j + 1 \in 1 .. n + 1 /\ j + 1 > i
      BY <1>1, <1>2, <2>2
    <3>2. r[j + 1] = ints[j]
      BY <1>5, <3>1
    <3>. QED  BY <1>4, <3>1, <3>2
  <2>. QED  BY <1>1, <1>2, <2>1, <2>2
<1>13. \A k \in DOMAIN r : r[k] = item \/ \E j \in DOMAIN ints : r[k] = ints[j]
  BY <1>1, <1>2, <1>4, <1>5
<1>. QED  BY <1>6, <1>10, <1>11, <1>12, <1>13 DEF r

\* The items of a list of interrupts have a time, and an item makes it non-empty.
LEMMA TimesOf ==
    ASSUME NEW ints \in Seq(PendingInterrupt)
    PROVE  \A j \in DOMAIN ints : ints[j] \in PendingInterrupt /\ ints[j].when \in Nat
                                 /\ ints[j].from \in Sources /\ ints # <<>>
<1>1. \A j \in DOMAIN ints : ints[j] \in PendingInterrupt /\ ints # <<>>
  OBVIOUS
<1>2. \A x \in PendingInterrupt : x.when \in Nat /\ x.from \in Sources
  BY DEF PendingInterrupt
<1>. QED  BY <1>1, <1>2

\* Removing the front of a sorted list leaves a sorted list of the other items.
LEMMA TailSorted ==
    ASSUME NEW ints \in Seq(PendingInterrupt), ints # <<>>, Sorted(ints)
    PROVE  /\ Head(ints) \in PendingInterrupt
           /\ Head(ints).when \in Nat /\ Head(ints).from \in Sources
           /\ \E j \in DOMAIN ints : Head(ints) = ints[j]
           /\ Tail(ints) \in Seq(PendingInterrupt)
           /\ Sorted(Tail(ints))
           /\ \A k \in DOMAIN Tail(ints) : \E j \in DOMAIN ints : Tail(ints)[k] = ints[j]
           /\ \A j \in DOMAIN ints :
                 ints[j] = Head(ints) \/ \E k \in DOMAIN Tail(ints) : Tail(ints)[k] = ints[j]
           /\ \A j \in DOMAIN ints : Head(ints).when <= ints[j].when
<1> DEFINE n == Len(ints)
<1>1. /\ n \in Nat \ {0}
      /\ DOMAIN ints = 1 .. n
      /\ DOMAIN Tail(ints) = 1 .. n - 1
      /\ \A k \in 1 .. n - 1 : Tail(ints)[k] = ints[k + 1]
      /\ Head(ints) = ints[1]
      /\ Head(ints) \in PendingInterrupt
      /\ Tail(ints) \in Seq(PendingInterrupt)
  OBVIOUS
<1>6. \A j \in 1 .. n : ints[j].when \in Nat /\ ints[j].from \in Sources
  BY <1>1, TimesOf
<1> HIDE DEF n
<1>2. Sorted(Tail(ints))
  <2>1. \A k \in 1 .. n - 1 : k + 1 \in DOMAIN ints
    BY <1>1
  <2>2. ASSUME NEW j \in 1 .. n - 1, NEW k \in 1 .. n - 1, j < k
        PROVE  Tail(ints)[j].when <= Tail(ints)[k].when
    <3>1. j + 1 < k + 1
      BY <2>2
    <3>. QED  BY <1>1, <2>1, <3>1 DEF Sorted
  <2>. QED  BY <1>1, <2>2 DEF Sorted
<1>3. \A k \in DOMAIN Tail(ints) : \E j \in DOMAIN ints : Tail(ints)[k] = ints[j]
  BY <1>1
<1>4. ASSUME NEW j \in 1 .. n
      PROVE  ints[j] = Head(ints) \/ \E k \in DOMAIN Tail(ints) : Tail(ints)[k] = ints[j]
  <2>1. CASE j = 1
    BY <1>1, <2>1
  <2>2. CASE j # 1
    <3>1. j - 1 \in 1 .. n - 1 /\ Tail(ints)[j - 1] = ints[j]
      BY <1>1, <1>4, <2>2
    <3>. QED  BY <1>1, <3>1, Zenon
  <2>. QED  BY <2>1, <2>2
<1>5. ASSUME NEW j \in 1 .. n PROVE Head(ints).when <= ints[j].when
  BY <1>1, <1>5, <1>6 DEF Sorted
<1>7. 1 \in 1 .. n
  BY <1>1
<1>. QED  BY <1>1, <1>2, <1>3, <1>4, <1>5, <1>6, <1>7

-----------------------------------------------------------------------------
(* The inductive invariant                                                  *)

\* The state Kernel::Initialize leaves satisfies it.
LEMMA InitIInv == Init => IInv
<1> SUFFICES ASSUME Init PROVE IInv
  OBVIOUS
<1>1. PICK n \in Delays[Timer] : pending = <<[from |-> Timer, when |-> n]>>
  BY DEF Init
<1>2. n \in Nat \ {0}
  BY InterruptConstants DEF InterruptConstants, Sources
<1>3. /\ pending \in Seq(PendingInterrupt)
      /\ DOMAIN pending = {1} /\ pending[1].when = n /\ pending[1].from = Timer
  BY <1>1, <1>2 DEF PendingInterrupt, Sources
<1>4. TypeOK /\ TicksAccounted
  <2>1. /\ totalTicks = 0 /\ idleTicks = 0 /\ systemTicks = 0 /\ userTicks = 0
        /\ status = "SystemMode"
    BY DEF Init
  <2>2. inHandler \in BOOLEAN /\ yieldOnReturn \in BOOLEAN /\ halted \in BOOLEAN
    BY Zenon DEF Init
  <2>. QED  BY <1>3, <2>1, <2>2 DEF TypeOK, TicksAccounted
<1>5. PendingSorted /\ TimerPending
  BY <1>3 DEF Init, PendingSorted, TimerPending, IsPending
<1>6. InterruptsOnTime
  BY <1>2, <1>3 DEF Init, InterruptsOnTime
<1>. QED  BY <1>4, <1>5, <1>6 DEF IInv

\* r is ints with an interrupt of d put where it belongs.
HasScheduled(r, d, ints) ==
    /\ r \in Seq(PendingInterrupt)
    /\ Sorted(r)
    /\ \E k \in DOMAIN r : r[k].from = d
    /\ \A j \in DOMAIN ints : \E k \in DOMAIN r : r[k] = ints[j]
    /\ \A k \in DOMAIN r : r[k].when > totalTicks \/ \E j \in DOMAIN ints : r[k] = ints[j]

\* What scheduling an interrupt on a sorted list of interrupts does.
LEMMA ScheduleEffect ==
    ASSUME NEW d \in Sources, NEW n \in Delays[d], NEW ints \in Seq(PendingInterrupt),
           Sorted(ints), totalTicks \in Nat
    PROVE  HasScheduled(Schedule(d, n, totalTicks, ints), d, ints)
<1> DEFINE item == [from |-> d, when |-> totalTicks + n]
<1>1. n \in Nat \ {0}
  BY InterruptConstants DEF InterruptConstants
<1>2. item \in PendingInterrupt /\ item.when > totalTicks /\ item.from = d
  BY <1>1 DEF PendingInterrupt
<1>3. Schedule(d, n, totalTicks, ints) = Insert(item, ints)
  BY DEF Schedule
<1> HIDE DEF item
<1> DEFINE r == Insert(item, ints)
<1>4. /\ r \in Seq(PendingInterrupt)
      /\ Sorted(r)
      /\ \E k \in DOMAIN r : r[k] = item
      /\ \A j \in DOMAIN ints : \E k \in DOMAIN r : r[k] = ints[j]
      /\ \A k \in DOMAIN r : r[k] = item \/ \E j \in DOMAIN ints : r[k] = ints[j]
  BY <1>2, InsertSorted, Zenon
<1> HIDE DEF r
<1>5. /\ \E k \in DOMAIN r : r[k].from = d
      /\ \A k \in DOMAIN r : r[k].when > totalTicks \/ \E j \in DOMAIN ints : r[k] = ints[j]
  BY <1>2, <1>4
<1>6. HasScheduled(r, d, ints)
  BY <1>4, <1>5 DEF HasScheduled
<1>. QED  BY <1>3, <1>6 DEF r

\* Every step of the interrupt simulation preserves it.
LEMMA NextIInv == IInv /\ [Next]_vars => IInv'
<1> SUFFICES ASSUME IInv, [Next]_vars PROVE IInv'
  OBVIOUS
<1>0. /\ pending \in Seq(PendingInterrupt) /\ Sorted(pending) /\ totalTicks \in Nat
      /\ \A i \in DOMAIN pending : pending[i].when \in Nat
  <2>1. pending \in Seq(PendingInterrupt) /\ Sorted(pending) /\ totalTicks \in Nat
    BY DEF IInv, TypeOK, PendingSorted, Sorted
  <2>. QED  BY <2>1, TimesOf
<1> USE DEF clockVars
<1>1. ASSUME NEW d \in Devices, StartDevice(d) PROVE IInv'
  <2>1. PICK n \in Delays[d] : pending' = Schedule(d, n, totalTicks, pending)
    BY <1>1 DEF StartDevice
  <2>2. /\ pending' \in Seq(PendingInterrupt)
        /\ Sorted(pending')
        /\ \A j \in DOMAIN pending : \E k \in DOMAIN pending' : pending'[k] = pending[j]
        /\ \A k \in DOMAIN pending' : \/ pending'[k].when > totalTicks
                                      \/ \E j \in DOMAIN pending : pending'[k] = pending[j]
    <3>1. d \in Sources
      BY DEF Sources
    <3>2. HasScheduled(pending', d, pending)
      BY <1>0, <2>1, <3>1, ScheduleEffect
    <3>. QED  BY <3>2 DEF HasScheduled
  <2>3. TypeOK' /\ TicksAccounted'
    BY <1>1, <2>2 DEF StartDevice, IInv, TypeOK, TicksAccounted
  <2>4. PendingSorted' /\ TimerPending'
    BY <1>1, <2>2 DEF StartDevice, IInv, PendingSorted, Sorted, TimerPending, IsPending
  <2>5. InterruptsOnTime'
    <3>1. totalTicks' = totalTicks /\ ~inHandler /\ ~inHandler'
      BY <1>1 DEF StartDevice
    <3>2. \A j \in DOMAIN pending : totalTicks < pending[j].when
      BY <3>1 DEF IInv, InterruptsOnTime
    <3>3. \A k \in DOMAIN pending' : pending'[k].when \in Nat
      BY <2>2, TimesOf
    <3>. QED  BY <1>0, <2>2, <3>1, <3>2, <3>3 DEF InterruptsOnTime
  <2>. QED  BY <2>3, <2>4, <2>5 DEF IInv
<1>2. CASE ChangeMode
  BY <1>2 DEF ChangeMode, IInv, TypeOK, PendingSorted, InterruptsOnTime, TimerPending,
              IsPending, TicksAccounted
<1>3. CASE OneTick
  <2> DEFINE tick == TickOf(status)
  <2>1. /\ tick \in Nat \ {0} /\ totalTicks' = totalTicks + tick
        /\ pending' = pending /\ status' = status /\ ~inHandler
        /\ inHandler' = FrontDue(totalTicks')
    BY <1>3, InterruptConstants DEF OneTick, TickOf, InterruptConstants
  <2>2. TypeOK' /\ TicksAccounted'
    BY <1>3, InterruptConstants
    DEF OneTick, IInv, TypeOK, TicksAccounted, InterruptConstants, FrontDue
  <2>3. PendingSorted' /\ TimerPending'
    BY <1>3 DEF OneTick, IInv, PendingSorted, TimerPending, IsPending
  <2>4. ASSUME NEW i \in DOMAIN pending
        PROVE  /\ totalTicks' < pending[i].when + tick
               /\ ~inHandler' => totalTicks' < pending[i].when
    <3>1. totalTicks < pending[i].when /\ pending[i].when \in Nat
      BY <1>0, <2>1 DEF IInv, InterruptsOnTime
    <3>2. pending # <<>> /\ Head(pending).when <= pending[i].when
                         /\ Head(pending).when \in Nat
      BY <1>0, TimesOf, TailSorted
    <3>3. totalTicks' < pending[i].when + tick
      BY <1>0, <2>1, <3>1
    <3>4. ASSUME ~inHandler' PROVE totalTicks' < pending[i].when
      <4>1. ~FrontDue(totalTicks')
        BY <2>1, <3>4
      <4>2. ~(Head(pending).when <= totalTicks')
        BY <3>2, <4>1 DEF FrontDue
      <4>3. totalTicks' \in Nat
        BY <1>0, <2>1
      <4>. QED  BY <3>1, <3>2, <4>2, <4>3
    <3>. QED  BY <3>3, <3>4
  <2>5. InterruptsOnTime'
    BY <2>1, <2>4 DEF InterruptsOnTime, TickOf
  <2>. QED  BY <2>2, <2>3, <2>5 DEF IInv
<1>4. CASE Idle
  <2>0. pending # <<>>
    BY <1>0, TimesOf DEF IInv, TimerPending, IsPending
  <2>1. /\ \A i \in DOMAIN pending : totalTicks < pending[i].when
        /\ status' = "IdleMode" /\ inHandler' = TRUE /\ halted' = FALSE /\ pending' = pending
    BY <1>4, <2>0, Zenon DEF Idle, IInv, InterruptsOnTime
  <2>2. /\ Head(pending).when \in Nat
        /\ \A i \in DOMAIN pending : Head(pending).when <= pending[i].when
        /\ \E i \in DOMAIN pending : Head(pending) = pending[i]
    BY <1>0, <2>0, TailSorted
  <2>3. totalTicks < Head(pending).when
    BY <2>1, <2>2
  <2>4. /\ totalTicks' = Head(pending).when
        /\ idleTicks' = idleTicks + (Head(pending).when - totalTicks)
        /\ UNCHANGED <<systemTicks, userTicks, yieldOnReturn>>
    BY <1>0, <1>4, <2>0, <2>1, <2>2, <2>3 DEF Idle, FrontDue
  <2>5. TypeOK' /\ TicksAccounted'
    <3>1. totalTicks \in Nat /\ idleTicks \in Nat /\ systemTicks \in Nat /\ userTicks \in Nat
          /\ totalTicks = idleTicks + systemTicks + userTicks
      BY DEF IInv, TypeOK, TicksAccounted
    <3>2. totalTicks' \in Nat /\ idleTicks' \in Nat /\ TicksAccounted'
      BY <2>2, <2>3, <2>4, <3>1 DEF TicksAccounted
    <3>3. inHandler' \in BOOLEAN /\ halted' \in BOOLEAN /\ yieldOnReturn' \in BOOLEAN
      BY <2>1, <2>4, Zenon DEF IInv, TypeOK
    <3>. QED  BY <2>1, <2>4, <3>1, <3>2, <3>3 DEF IInv, TypeOK
  <2>6. PendingSorted' /\ TimerPending'
    BY <2>1 DEF IInv, PendingSorted, TimerPending, IsPending
  <2>7. InterruptsOnTime'
    BY <1>0, <2>1, <2>2, <2>4 DEF InterruptsOnTime, TickOf
  <2>. QED  BY <2>5, <2>6, <2>7 DEF IInv
<1>5. CASE Deliver
  <2> DEFINE d == Head(pending).from
             rest == Tail(pending)
  <2>1. /\ pending # <<>> /\ inHandler /\ inHandler' = inHandler
        /\ UNCHANGED <<clockVars, status, halted>>
        /\ \/ \E n \in Delays[d] : pending' = Schedule(d, n, totalTicks, rest)
           \/ d # Timer /\ pending' = rest
        /\ yieldOnReturn' \in BOOLEAN
    BY <1>5, Zenon DEF Deliver, FrontDue, IInv, TypeOK
  <2>2. /\ d \in Sources /\ rest \in Seq(PendingInterrupt) /\ Sorted(rest)
        /\ \A k \in DOMAIN rest : \E j \in DOMAIN pending : rest[k] = pending[j]
        /\ \A j \in DOMAIN pending :
              pending[j].from = d \/ \E k \in DOMAIN rest : rest[k] = pending[j]
    BY <1>0, <2>1, TailSorted, Zenon
  <2> HIDE DEF d, rest
  <2>3. /\ pending' \in Seq(PendingInterrupt)
        /\ Sorted(pending')
        /\ \E k \in DOMAIN pending' : pending'[k].from = Timer
        /\ \A k \in DOMAIN pending' : \/ pending'[k].when > totalTicks
                                      \/ \E j \in DOMAIN pending : pending'[k] = pending[j]
    <3>1. PICK i \in DOMAIN pending : pending[i].from = Timer
      BY DEF IInv, TimerPending, IsPending
    <3>2. CASE \E n \in Delays[d] : pending' = Schedule(d, n, totalTicks, rest)
      <4>1. PICK n \in Delays[d] : pending' = Schedule(d, n, totalTicks, rest)
        BY <3>2
      <4>2. /\ pending' \in Seq(PendingInterrupt)
            /\ Sorted(pending')
            /\ \E k \in DOMAIN pending' : pending'[k].from = d
            /\ \A j \in DOMAIN rest : \E k \in DOMAIN pending' : pending'[k] = rest[j]
            /\ \A k \in DOMAIN pending' : \/ pending'[k].when > totalTicks
                                          \/ \E j \in DOMAIN rest : pending'[k] = rest[j]
        <5>1. HasScheduled(pending', d, rest)
          BY <1>0, <2>2, <4>1, ScheduleEffect
        <5>. QED  BY <5>1 DEF HasScheduled
      <4>. QED  BY <2>2, <3>1, <4>2
    <3>3. CASE d # Timer /\ pending' = rest
      BY <2>2, <3>1, <3>3
    <3>. QED  BY <2>1, <3>2, <3>3, Zenon
  <2>4. TypeOK' /\ TicksAccounted'
    BY <2>1, <2>3, Zenon DEF IInv, TypeOK, TicksAccounted
  <2>5. PendingSorted' /\ TimerPending'
    BY <2>1, <2>3, Zenon DEF IInv, PendingSorted, Sorted, TimerPending, IsPending
  <2>6. InterruptsOnTime'
    <3>1. TickOf(status) \in Nat \ {0}
      BY InterruptConstants DEF TickOf, InterruptConstants
    <3>2. \A j \in DOMAIN pending : totalTicks < pending[j].when + TickOf(status)
      BY <2>1, Zenon DEF IInv, InterruptsOnTime
    <3>3. \A k \in DOMAIN pending' : pending'[k].when \in Nat
      BY <2>3, TimesOf
    <3>4. \A k \in DOMAIN pending' : totalTicks < pending'[k].when + TickOf(status)
      BY <1>0, <2>3, <3>1, <3>2, <3>3
    <3>. QED  BY <2>1, <3>4, Zenon DEF InterruptsOnTime, TickOf
  <2>. QED  BY <2>4, <2>5, <2>6 DEF IInv
<1>6. CASE HandlersDone
  <2>1. TypeOK' /\ TicksAccounted' /\ PendingSorted' /\ TimerPending'
    BY <1>6, Zenon DEF HandlersDone, IInv, TypeOK, TicksAccounted, PendingSorted, TimerPending, IsPending
  <2>2. ASSUME NEW i \in DOMAIN pending PROVE totalTicks < pending[i].when
    <3>1. pending # <<>> /\ Head(pending).when <= pending[i].when
                         /\ Head(pending).when \in Nat
      BY <1>0, TimesOf, TailSorted
    <3>. QED  BY <1>0, <1>6, <3>1 DEF HandlersDone, FrontDue
  <2>3. InterruptsOnTime'
    BY <1>6, <2>2 DEF HandlersDone, InterruptsOnTime
  <2>. QED  BY <2>1, <2>3 DEF IInv
<1>7. CASE YieldNow
  BY <1>7, Zenon DEF YieldNow, IInv, TypeOK, PendingSorted, InterruptsOnTime, TimerPending,
              IsPending, TicksAccounted
<1>8. CASE UNCHANGED vars
  BY <1>8 DEF vars, IInv, TypeOK, PendingSorted, InterruptsOnTime, TickOf, TimerPending,
              IsPending, TicksAccounted
<1>. QED  BY <1>1, <1>2, <1>3, <1>4, <1>5, <1>6, <1>7, <1>8 DEF Next

\* The interrupt simulation always satisfies the inductive invariant.
THEOREM Invariance == Spec => []IInv
BY InitIInv, NextIInv, PTL DEF Spec

\* No interrupt is overdue while kernel or user code runs, and none is delivered
\* a whole tick late, whatever the delays and however many fall due together.
THEOREM OnTime == Spec => []InterruptsOnTime
<1>1. IInv => InterruptsOnTime
  BY DEF IInv
<1>. QED  BY <1>1, Invariance, PTL

\* SortedList keeps the pending interrupts in the order of time.
THEOREM SortedPending == Spec => []PendingSorted
<1>1. IInv => PendingSorted
  BY DEF IInv
<1>. QED  BY <1>1, Invariance, PTL

\* The timer is always pending, so Idle never halts the machine.
THEOREM IdleNeverHalts == Spec => []TimerPending
<1>1. IInv => TimerPending
  BY DEF IInv
<1>. QED  BY <1>1, Invariance, PTL

\* The three kinds of ticks add up to the total.
THEOREM TicksAddUp == Spec => []TicksAccounted
<1>1. IInv => TicksAccounted
  BY DEF IInv
<1>. QED  BY <1>1, Invariance, PTL

\* The times, the list of pending interrupts and the flags of class Interrupt keep
\* their types, whatever is scheduled and delivered.
THEOREM TypesCorrect == Spec => []TypeOK
<1>1. IInv => TypeOK
  BY DEF IInv
<1>. QED  BY <1>1, Invariance, PTL

-----------------------------------------------------------------------------
(***************************************************************************)
(* Monitor and SynchList: mutual exclusion, the lock holder, no missed     *)
(* signal, no stranded item.                                               *)
(*                                                                         *)
(* The same inductive invariant, Inv, serves both specifications.  It is   *)
(* split into LockOK (the lock) and CondOK (the condition), and a lemma for*)
(* each kind of effect a step has on one of them is proved once; a step of *)
(* Monitor or SynchList is then a pair of effects.                         *)
(***************************************************************************)

InsidePoints  == {"locked", "body", "relocked", "broadcast"}
InWaitPoints  == {"waitP", "relockP", "relocked"}
Points        == {"out", "lockP", "waitP", "relockP"} \cup InsidePoints

MonitorType ==
    /\ lockValue \in {0, 1}
    /\ lockHolder \in Threads \cup {NoThread}
    /\ waitQueue \in Seq(Threads)
    /\ waiter \in [Threads -> {0, 1, Deleted}]
    /\ at \in [Threads -> Points]

\* Mutual exclusion without counting.
OneInside ==
    /\ \A t, u \in Threads : at[t] \in InsidePoints /\ at[u] \in InsidePoints => t = u
    /\ lockValue = 1 <=> \A t \in Threads : at[t] \notin InsidePoints

Inv == MonitorType /\ OneInside /\ HolderIsInside /\ SignalNotMissed

\* The only place of a step's thread that changes is its own.
MovesTo(t, to) == at' = [at EXCEPT ![t] = to]

-----------------------------------------------------------------------------
(* Effects on the lock                                                      *)

LockOK == lockValue \in {0, 1} /\ lockHolder \in Threads \cup {NoThread}
          /\ OneInside /\ HolderIsInside

\* The lock's P(): nobody is inside, and the thread goes in.
LEMMA LockTaken ==
    ASSUME Inv, NEW t \in Threads, NEW to \in {"locked", "relocked"},
           LockP, MovesTo(t, to)
    PROVE  LockOK'
<1>1. lockValue = 1 /\ lockValue' = 0 /\ lockHolder' = lockHolder
      /\ at \in [Threads -> Points]
  BY DEF Inv, MonitorType, LockP
<1>2. \A u \in Threads : at[u] \notin InsidePoints
  BY <1>1 DEF Inv, OneInside
<1>3. lockHolder = NoThread
  BY <1>2 DEF Inv, HolderIsInside, Inside, InsidePoints
<1>. QED  BY <1>1, <1>2, <1>3 DEF LockOK, MovesTo, OneInside, HolderIsInside, Inside, InsidePoints

\* Release by the thread inside: nobody is inside any more.
LEMMA LockLeft ==
    ASSUME Inv, NEW t \in Threads, NEW to \in Points \ InsidePoints,
           at[t] \in InsidePoints, ReleaseLock, MovesTo(t, to)
    PROVE  LockOK'
<1>1. lockValue = 0 /\ at \in [Threads -> Points]
  BY DEF Inv, OneInside, MonitorType
<1>2. \A u \in Threads : at'[u] \notin InsidePoints
  BY <1>1 DEF Inv, OneInside, MovesTo
<1>. QED  BY <1>1, <1>2 DEF LockOK, ReleaseLock, OneInside, HolderIsInside, Inside, InsidePoints

\* The thread inside becomes the holder, or is it, and stays inside.
LEMMA LockKept ==
    ASSUME Inv, NEW t \in Threads, NEW to \in {"body", "broadcast"},
           at[t] \in InsidePoints, UNCHANGED lockValue, lockHolder' = t, MovesTo(t, to)
    PROVE  LockOK'
<1>1. lockValue = 0 /\ at \in [Threads -> Points]
  BY DEF Inv, OneInside, MonitorType
<1>2. \A u \in Threads : at'[u] \in InsidePoints <=> at[u] \in InsidePoints
  BY <1>1 DEF MovesTo, InsidePoints
<1>3. \A u \in Threads : at'[u] \in InsidePoints => u = t
  BY <1>2 DEF Inv, OneInside
<1>4. OneInside'
  BY <1>1, <1>2 DEF Inv, OneInside
<1>. QED  BY <1>1, <1>2, <1>3, <1>4 DEF LockOK, HolderIsInside, Inside, InsidePoints

\* A thread that is outside stays outside.
LEMMA LockElsewhere ==
    ASSUME Inv, NEW t \in Threads, NEW to \in Points \ InsidePoints,
           at[t] \notin InsidePoints, UNCHANGED lockVars, MovesTo(t, to)
    PROVE  LockOK'
<1>1. at \in [Threads -> Points] /\ lockValue' = lockValue /\ lockHolder' = lockHolder
  BY DEF Inv, MonitorType, lockVars
<1>2. \A u \in Threads : /\ at'[u] \in InsidePoints <=> at[u] \in InsidePoints
                         /\ at'[u] \in InsidePoints => at'[u] = at[u]
  BY <1>1 DEF MovesTo, InsidePoints
<1>3. OneInside'
  BY <1>1, <1>2 DEF Inv, OneInside
<1>. QED  BY <1>1, <1>2, <1>3 DEF LockOK, Inv, MonitorType, HolderIsInside, Inside, InsidePoints

-----------------------------------------------------------------------------
(* Effects on the condition                                                 *)

CondOK == waitQueue \in Seq(Threads) /\ waiter \in [Threads -> {0, 1, Deleted}]
          /\ at \in [Threads -> Points] /\ SignalNotMissed

\* A thread that does not touch the condition, in or out of Wait.
LEMMA CondElsewhere ==
    ASSUME Inv, NEW t \in Threads, NEW to \in Points \ {"waitP"}, at[t] # "waitP",
           at[t] \in InWaitPoints <=> to \in InWaitPoints,
           UNCHANGED condVars, MovesTo(t, to)
    PROVE  CondOK'
BY DEF Inv, MonitorType, CondOK, MovesTo, SignalNotMissed, condVars, InWaitPoints

\* The start of Wait, by a thread that is not waiting already.
LEMMA CondEnqueued ==
    ASSUME Inv, NEW t \in Threads, at[t] # "waitP", EnqueueWaiter(t), MovesTo(t, "waitP")
    PROVE  CondOK'
<1> DEFINE n == Len(waitQueue)
<1>1. /\ waitQueue \in Seq(Threads) /\ at \in [Threads -> Points]
      /\ waiter \in [Threads -> {0, 1, Deleted}] /\ n \in Nat /\ DOMAIN waitQueue = 1 .. n
  BY DEF Inv, MonitorType
<1>2. /\ waitQueue' \in Seq(Threads) /\ DOMAIN waitQueue' = 1 .. n + 1
      /\ \A i \in 1 .. n : waitQueue'[i] = waitQueue[i]
      /\ waitQueue'[n + 1] = t
  BY <1>1 DEF EnqueueWaiter
<1>3. \A i \in 1 .. n : waitQueue[i] \in Threads \ {t}
  BY <1>1 DEF Inv, SignalNotMissed
<1>4. /\ waiter' \in [Threads -> {0, 1, Deleted}] /\ at' \in [Threads -> Points]
      /\ waiter'[t] = 0 /\ at'[t] = "waitP"
      /\ \A u \in Threads \ {t} : waiter'[u] = waiter[u] /\ at'[u] = at[u]
  BY <1>1 DEF EnqueueWaiter, MovesTo, Points
<1>5. \A i, j \in DOMAIN waitQueue' : i # j => waitQueue'[i] # waitQueue'[j]
  <2> TAKE i, j \in DOMAIN waitQueue'
  <2> HAVE i # j
  <2>1. CASE i \in 1 .. n /\ j \in 1 .. n
    BY <2>1, <1>1, <1>2 DEF Inv, SignalNotMissed
  <2>2. CASE i = n + 1 \/ j = n + 1
    BY <2>2, <1>1, <1>2, <1>3
  <2>. QED  BY <1>1, <1>2, <2>1, <2>2
<1>6. \A i \in DOMAIN waitQueue' : at'[waitQueue'[i]] = "waitP" /\ waiter'[waitQueue'[i]] = 0
  <2> TAKE i \in DOMAIN waitQueue'
  <2>1. CASE i \in 1 .. n
    BY <2>1, <1>1, <1>2, <1>3, <1>4 DEF Inv, SignalNotMissed
  <2>2. CASE i = n + 1
    BY <2>2, <1>2, <1>4
  <2>. QED  BY <1>1, <1>2, <2>1, <2>2
<1>7. ASSUME NEW u \in Threads, at'[u] = "waitP", waiter'[u] = 0
      PROVE  \E i \in DOMAIN waitQueue' : waitQueue'[i] = u
  <2>1. CASE u = t
    BY <2>1, <1>1, <1>2
  <2>2. CASE u # t
    <3>1. PICK i \in 1 .. n : waitQueue[i] = u
      BY <2>2, <1>1, <1>4, <1>7 DEF Inv, SignalNotMissed
    <3>. QED  BY <3>1, <1>1, <1>2
  <2>. QED  BY <2>1, <2>2
<1>8. \A u \in Threads : waiter'[u] = Deleted <=> at'[u] \notin InWaitPoints
  BY <1>4, MonitorConstants DEF MonitorConstants, Inv, SignalNotMissed, InWaitPoints
<1>. QED  BY <1>2, <1>4, <1>5, <1>6, <1>7, <1>8 DEF CondOK, SignalNotMissed, InWaitPoints

\* Signal by a thread that is not in Wait: the front thread leaves the queue and
\* finds the signal in its semaphore.
LEMMA CondSignalled ==
    ASSUME Inv, NEW t \in Threads, NEW to \in Points \ InWaitPoints, at[t] \notin InWaitPoints,
           SignalFront, MovesTo(t, to)
    PROVE  CondOK'
<1>0. CASE waitQueue = <<>>
  <2>1. UNCHANGED condVars
    BY <1>0 DEF SignalFront
  <2>. QED  BY <2>1, CondElsewhere DEF InWaitPoints
<1>1. CASE waitQueue # <<>>
  <2> DEFINE n == Len(waitQueue)
             h == Head(waitQueue)
  <2>1. /\ waitQueue \in Seq(Threads) /\ at \in [Threads -> Points]
        /\ waiter \in [Threads -> {0, 1, Deleted}] /\ n \in Nat \ {0}
        /\ DOMAIN waitQueue = 1 .. n /\ h = waitQueue[1] /\ h \in Threads
    BY <1>1 DEF Inv, MonitorType
  <2>2. /\ waitQueue' \in Seq(Threads) /\ DOMAIN waitQueue' = 1 .. n - 1
        /\ \A i \in 1 .. n - 1 : waitQueue'[i] = waitQueue[i + 1]
    <3>1. waitQueue' = Tail(waitQueue)
      BY <1>1 DEF SignalFront
    <3>2. Tail(waitQueue) \in Seq(Threads) /\ Len(Tail(waitQueue)) = n - 1
      BY <1>1, <2>1
    <3>3. \A i \in 1 .. n - 1 : Tail(waitQueue)[i] = waitQueue[i + 1]
      BY <1>1, <2>1, <3>2
    <3>. QED  BY <3>1, <3>2, <3>3
  <2>3. /\ at[h] = "waitP" /\ waiter[h] = 0 /\ h # t
        /\ \A i \in 2 .. n : waitQueue[i] \in Threads \ {h, t}
    BY <2>1 DEF Inv, SignalNotMissed, InWaitPoints
  <2>4. /\ waiter' \in [Threads -> {0, 1, Deleted}] /\ at' \in [Threads -> Points]
        /\ waiter'[h] = 1 /\ at'[h] = "waitP"
        /\ \A u \in Threads \ {h} : waiter'[u] = waiter[u]
        /\ \A u \in Threads \ {t} : at'[u] = at[u]
        /\ at'[t] \notin InWaitPoints
    <3>1. waiter' = [waiter EXCEPT ![h] = 1]
      BY <1>1, <2>1, <2>3 DEF SignalFront
    <3>. QED  BY <3>1, <2>1, <2>3 DEF MovesTo
  <2>5. \A i, j \in DOMAIN waitQueue' : i # j => waitQueue'[i] # waitQueue'[j]
    <3> SUFFICES ASSUME NEW i \in 1 .. n - 1, NEW j \in 1 .. n - 1, i # j
                 PROVE  waitQueue[i + 1] # waitQueue[j + 1]
      BY <2>2, Zenon
    <3>1. i + 1 \in 1 .. n /\ j + 1 \in 1 .. n /\ i + 1 # j + 1
      BY <2>1
    <3>. QED  BY <3>1, <2>1 DEF Inv, SignalNotMissed
  <2>6. \A i \in DOMAIN waitQueue' : at'[waitQueue'[i]] = "waitP" /\ waiter'[waitQueue'[i]] = 0
    <3> SUFFICES ASSUME NEW i \in 1 .. n - 1
                 PROVE  at'[waitQueue[i + 1]] = "waitP" /\ waiter'[waitQueue[i + 1]] = 0
      BY <2>2
    <3>1. i + 1 \in 2 .. n
      BY <2>1
    <3>2. at[waitQueue[i + 1]] = "waitP" /\ waiter[waitQueue[i + 1]] = 0
      BY <3>1, <2>1 DEF Inv, SignalNotMissed
    <3>. QED  BY <3>1, <3>2, <2>3, <2>4
  <2>7. ASSUME NEW u \in Threads, at'[u] = "waitP", waiter'[u] = 0
        PROVE  \E i \in DOMAIN waitQueue' : waitQueue'[i] = u
    <3>1. u # h /\ u # t /\ at[u] = "waitP" /\ waiter[u] = 0
      BY <2>3, <2>4, <2>7 DEF InWaitPoints
    <3>2. PICK i \in 1 .. n : waitQueue[i] = u
      BY <3>1, <2>1 DEF Inv, SignalNotMissed
    <3>3. i - 1 \in 1 .. n - 1 /\ waitQueue'[i - 1] = u
      BY <3>1, <3>2, <2>1, <2>2
    <3>. QED  BY <3>3, <2>2
  <2>8. \A u \in Threads : waiter'[u] = Deleted <=> at'[u] \notin InWaitPoints
    <3>1. \A u \in Threads : waiter[u] = Deleted <=> at[u] \notin InWaitPoints
      BY DEF Inv, SignalNotMissed, InWaitPoints
    <3>2. Deleted # 1
      BY MonitorConstants DEF MonitorConstants
    <3>. QED  BY <3>1, <3>2, <2>3, <2>4 DEF InWaitPoints
  <2>. QED  BY <2>2, <2>4, <2>5, <2>6, <2>7, <2>8 DEF CondOK, SignalNotMissed, InWaitPoints
<1>. QED  BY <1>0, <1>1

\* waiter->P() takes the signal: the thread was not queued any more.
LEMMA CondWoken ==
    ASSUME Inv, NEW t \in Threads, at[t] = "waitP", WaiterP(t), UNCHANGED waitQueue,
           MovesTo(t, "relockP")
    PROVE  CondOK'
<1>1. /\ at \in [Threads -> Points] /\ waiter \in [Threads -> {0, 1, Deleted}]
      /\ waitQueue \in Seq(Threads)
  BY DEF Inv, MonitorType
<1>2. waiter[t] = 1
  BY <1>1, MonitorConstants DEF WaiterP, MonitorConstants
<1>3. /\ waiter' = [waiter EXCEPT ![t] = 0] /\ waitQueue' = waitQueue
      /\ at' = [at EXCEPT ![t] = "relockP"]
  BY <1>1, <1>2 DEF WaiterP, MovesTo
<1>4. \A i \in DOMAIN waitQueue : waitQueue[i] \in Threads \ {t}
  BY <1>1, <1>2 DEF Inv, SignalNotMissed
<1>5. 0 # Deleted
  BY MonitorConstants DEF MonitorConstants
<1>. QED  BY <1>1, <1>3, <1>4, <1>5 DEF CondOK, Inv, SignalNotMissed, Points

\* delete waiter, at the end of Wait: the semaphore deleted is on no queue.
LEMMA CondDeleted ==
    ASSUME Inv, NEW t \in Threads, at[t] # "waitP", NEW to \in Points \ InWaitPoints,
           waiter' = [waiter EXCEPT ![t] = Deleted], UNCHANGED waitQueue, MovesTo(t, to)
    PROVE  CondOK'
<1>1. /\ at \in [Threads -> Points] /\ waiter \in [Threads -> {0, 1, Deleted}]
      /\ waitQueue \in Seq(Threads) /\ waitQueue' = waitQueue
      /\ at' = [at EXCEPT ![t] = to]
  BY DEF Inv, MonitorType, MovesTo
<1>2. \A i \in DOMAIN waitQueue : waitQueue[i] \in Threads \ {t}
  BY <1>1 DEF Inv, SignalNotMissed
<1>3. 0 # Deleted
  BY MonitorConstants DEF MonitorConstants
<1>. QED  BY <1>1, <1>2, <1>3 DEF CondOK, Inv, SignalNotMissed, InWaitPoints

\* The two halves of the invariant, after a step.
LEMMA Halves == LockOK' /\ CondOK' => Inv'
BY DEF Inv, MonitorType, LockOK, CondOK

-----------------------------------------------------------------------------
(* Monitor                                                                  *)

LEMMA InvInit == MonitorInit => Inv
BY MonitorConstants
DEF MonitorConstants, MonitorInit, Inv, MonitorType, OneInside, HolderIsInside,
    SignalNotMissed, Points, InsidePoints

\* A thread that stays where it is moves to where it is.
LEMMA Stays ==
    ASSUME Inv, NEW t \in Threads, UNCHANGED at
    PROVE  MovesTo(t, at[t])
BY DEF Inv, MonitorType, MovesTo

LEMMA MonitorInv == Inv /\ [MonitorNext]_mvars => Inv'
<1> SUFFICES ASSUME Inv, [MonitorNext]_mvars PROVE Inv'
  OBVIOUS
<1> USE DEF Goes, InsidePoints, InWaitPoints, Points
<1>0. CASE UNCHANGED mvars
  <2>1. UNCHANGED <<lockValue, lockHolder, waitQueue, waiter, at>>
    BY <1>0, Zenon DEF mvars, lockVars, condVars
  <2>2. MonitorType'
    BY <2>1, Zenon DEF Inv, MonitorType
  <2>3. OneInside'
    BY <2>1, Zenon DEF Inv, OneInside
  <2>4. HolderIsInside'
    BY <2>1, Zenon DEF Inv, HolderIsInside, Inside
  <2>5. SignalNotMissed'
    BY <2>1 DEF Inv, SignalNotMissed
  <2>. QED  BY <2>2, <2>3, <2>4, <2>5, Zenon DEF Inv
<1>1. ASSUME NEW t \in Threads, Acquire(t) PROVE Inv'
  <2>1. /\ at[t] = "out" /\ MovesTo(t, "locked") /\ LockP /\ UNCHANGED condVars
    BY <1>1 DEF Acquire, MovesTo
  <2>. QED  BY <2>1, LockTaken, CondElsewhere, Halves
<1>2. ASSUME NEW t \in Threads, Acquired(t) PROVE Inv'
  <2>1. /\ at[t] = "locked" /\ MovesTo(t, "body") /\ UNCHANGED <<lockValue, condVars>>
        /\ lockHolder' = t
    BY <1>2 DEF Acquired, MovesTo
  <2>. QED  BY <2>1, LockKept, CondElsewhere, Halves
<1>3. ASSUME NEW t \in Threads, Release(t) PROVE Inv'
  <2>1. /\ at[t] = "body" /\ MovesTo(t, "out") /\ ReleaseLock /\ UNCHANGED condVars
    BY <1>3 DEF Release, MovesTo
  <2>. QED  BY <2>1, LockLeft, CondElsewhere, Halves
<1>4. ASSUME NEW t \in Threads, Wait(t) PROVE Inv'
  <2>1. /\ at[t] = "body" /\ MovesTo(t, "waitP") /\ ReleaseLock /\ EnqueueWaiter(t)
    BY <1>4 DEF Wait, MovesTo
  <2>. QED  BY <2>1, LockLeft, CondEnqueued, Halves
<1>5. ASSUME NEW t \in Threads, Woken(t) PROVE Inv'
  <2>1. /\ at[t] = "waitP" /\ MovesTo(t, "relockP") /\ UNCHANGED <<lockVars, waitQueue>>
        /\ WaiterP(t)
    BY <1>5 DEF Woken, MovesTo
  <2>. QED  BY <2>1, LockElsewhere, CondWoken, Halves
<1>6. ASSUME NEW t \in Threads, Reacquire(t) PROVE Inv'
  <2>1. /\ at[t] = "relockP" /\ MovesTo(t, "relocked") /\ LockP /\ UNCHANGED condVars
    BY <1>6 DEF Reacquire, MovesTo
  <2>. QED  BY <2>1, LockTaken, CondElsewhere, Halves
<1>7. ASSUME NEW t \in Threads, WaitReturn(t) PROVE Inv'
  <2>1. /\ at[t] = "relocked" /\ MovesTo(t, "body") /\ UNCHANGED <<lockValue, waitQueue>>
        /\ lockHolder' = t /\ waiter' = [waiter EXCEPT ![t] = Deleted]
    BY <1>7 DEF WaitReturn, MovesTo
  <2>. QED  BY <2>1, LockKept, CondDeleted, Halves, Zenon
<1>8. ASSUME NEW t \in Threads, Signal(t) PROVE Inv'
  <2>1. at[t] = "body" /\ MovesTo(t, "body") /\ SignalFront
    BY <1>8, Stays DEF Signal
  <2>2. lockHolder' = t /\ UNCHANGED lockValue
    BY <1>8, <2>1 DEF Signal, lockVars, Inv, HolderIsInside
  <2>. QED  BY <2>1, <2>2, LockKept, CondSignalled, Halves
<1>9. ASSUME NEW t \in Threads, Broadcast(t) PROVE Inv'
  <2>1. PICK to \in {"body", "broadcast"} : MovesTo(t, to)
    BY <1>9, Zenon DEF Broadcast, MovesTo
  <2>2. at[t] \in {"body", "broadcast"} /\ SignalFront
    BY <1>9 DEF Broadcast
  <2>3. lockHolder' = t /\ UNCHANGED lockValue
    BY <1>9, <2>2 DEF Broadcast, lockVars, Inv, HolderIsInside
  <2>. QED  BY <2>1, <2>2, <2>3, LockKept, CondSignalled, Halves
<1>. QED
  BY <1>0, <1>1, <1>2, <1>3, <1>4, <1>5, <1>6, <1>7, <1>8, <1>9 DEF MonitorNext, MonitorStep

\* Counting the threads inside.
LEMMA Counted == Inv => MutualExclusion
<1> SUFFICES ASSUME Inv PROVE MutualExclusion
  OBVIOUS
<1>1. CASE lockValue = 1
  <2>1. Inside = {}
    BY <1>1 DEF Inv, OneInside, Inside, InsidePoints
  <2>. QED  BY <1>1, <2>1, FS_EmptySet DEF MutualExclusion
<1>2. CASE lockValue = 0
  <2>1. PICK t \in Threads : at[t] \in InsidePoints
    BY <1>2 DEF Inv, OneInside
  <2>2. Inside = {t}
    BY <2>1 DEF Inv, OneInside, Inside, InsidePoints
  <2>3. Cardinality({t}) = 1
    BY FS_Singleton
  <2>. QED  BY <1>2, <2>2, <2>3 DEF MutualExclusion
<1>. QED  BY <1>1, <1>2 DEF Inv, MonitorType

\* The monitor of synch.cc always satisfies the inductive invariant.
THEOREM MonitorInvariance == MonitorSpec => []Inv
BY InvInit, MonitorInv, PTL DEF MonitorSpec

\* Lock: at most one thread is between Acquire and Release, a thread coming back
\* from Wait included, and the semaphore of the lock counts exactly that.
THEOREM MonitorExclusion == MonitorSpec => []MutualExclusion
BY MonitorInvariance, Counted, PTL

\* Lock: lockHolder, written outside the semaphore's atomic section, is right
\* wherever IsHeldByCurrentThread() is asserted.
THEOREM MonitorHolder == MonitorSpec => []HolderIsInside
<1>1. Inv => HolderIsInside
  BY DEF Inv
<1>. QED  BY <1>1, MonitorInvariance, PTL

\* Condition: a waiting thread is queued, or its signal is in its semaphore.
THEOREM MonitorSignals == MonitorSpec => []SignalNotMissed
<1>1. Inv => SignalNotMissed
  BY DEF Inv
<1>. QED  BY <1>1, MonitorInvariance, PTL

-----------------------------------------------------------------------------
(* SynchList                                                                *)

\* Thread t was signalled and has not looked at the list again.
IsSignalled(t) ==
    \/ at[t] = "waitP" /\ waiter[t] = 1
    \/ at[t] \in {"relockP", "relocked"}

\* The signalled threads can be counted.
LEMMA SignalledFinite ==
    /\ IsFiniteSet(Signalled) /\ Cardinality(Signalled) \in Nat /\ Signalled \subseteq Threads
    /\ IsFiniteSet(Signalled') /\ Cardinality(Signalled') \in Nat
    /\ \A t \in Threads : /\ t \in Signalled <=> IsSignalled(t)
                          /\ t \in Signalled' <=> IsSignalled(t)'
<1>1. Signalled \subseteq Threads /\ Signalled' \subseteq Threads
  BY DEF Signalled
<1>2. IsFiniteSet(Signalled) /\ IsFiniteSet(Signalled')
  BY <1>1, FS_Subset, MonitorConstants DEF MonitorConstants
<1>3. \A t \in Threads : t \in Signalled <=> IsSignalled(t)
  BY DEF Signalled, IsSignalled
<1>4. \A t \in Threads : t \in Signalled' <=> IsSignalled(t)'
  BY DEF Signalled, IsSignalled
<1>. QED  BY <1>1, <1>2, <1>3, <1>4, FS_CardinalityType

ListInv == Inv /\ list \in Seq(Items) /\ ItemsNotStranded

\* If no thread but t stops being signalled, at most one is lost.
LEMMA SignalledShrinks ==
    ASSUME NEW t \in Threads, \A u \in Threads \ {t} : IsSignalled(u) => IsSignalled(u)'
    PROVE  Cardinality(Signalled) - 1 <= Cardinality(Signalled')
<1>1. Signalled \ {t} \subseteq Signalled'
  BY SignalledFinite
<1>2. Cardinality(Signalled \ {t}) <= Cardinality(Signalled')
  BY <1>1, SignalledFinite, FS_Subset
<1>3. Cardinality(Signalled \ {t}) = IF t \in Signalled THEN Cardinality(Signalled) - 1
                                                        ELSE Cardinality(Signalled)
  BY SignalledFinite, FS_RemoveElement, Zenon
<1>. QED  BY <1>2, <1>3, SignalledFinite

\* If no thread stops being signalled, none is lost.
LEMMA SignalledStays ==
    ASSUME \A u \in Threads : IsSignalled(u) => IsSignalled(u)'
    PROVE  Cardinality(Signalled) <= Cardinality(Signalled')
<1>1. Signalled \subseteq Signalled'
  BY SignalledFinite
<1>. QED  BY <1>1, SignalledFinite, FS_Subset

\* If a thread becomes signalled and none stops, their number grows.
LEMMA SignalledGrows ==
    ASSUME NEW h \in Threads, ~IsSignalled(h), IsSignalled(h)',
           \A u \in Threads : IsSignalled(u) => IsSignalled(u)'
    PROVE  Cardinality(Signalled) + 1 <= Cardinality(Signalled')
<1>1. Signalled \cup {h} \subseteq Signalled' /\ h \notin Signalled
  BY SignalledFinite
<1>2. Cardinality(Signalled \cup {h}) = Cardinality(Signalled) + 1
  BY <1>1, SignalledFinite, FS_AddElement, Zenon
<1>. QED  BY <1>1, <1>2, SignalledFinite, FS_Subset

\* Steps that leave the list and the queue alone, and take no signalled thread away.
LEMMA ItemsFrame ==
    ASSUME ListInv, UNCHANGED <<list, waitQueue>>,
           \A u \in Threads : IsSignalled(u) => IsSignalled(u)'
    PROVE  ItemsNotStranded'
<1>1. Len(list) \in Nat
  BY DEF ListInv
<1>. QED  BY <1>1, SignalledStays, SignalledFinite DEF ListInv, ItemsNotStranded

\* Append adds an item and, if a thread waits, a signalled thread.
LEMMA AppendItems ==
    ASSUME ListInv, NEW t \in Threads, NEW x \in Items, AppendItem(t, x)
    PROVE  ItemsNotStranded'
<1> USE DEF ListInv, Inv, MonitorType
<1>1. CASE waitQueue = <<>>
  BY <1>1 DEF AppendItem, SignalFront, condVars, ItemsNotStranded
<1>2. CASE waitQueue # <<>>
  <2>1. PICK h \in Threads : /\ at[h] = "waitP" /\ waiter[h] = 0
                             /\ waiter' = [waiter EXCEPT ![h] = waiter[h] + 1]
    <3>1. /\ Head(waitQueue) = waitQueue[1] /\ 1 \in DOMAIN waitQueue
          /\ Head(waitQueue) \in Threads
      BY <1>2
    <3>2. waiter' = [waiter EXCEPT ![Head(waitQueue)] = waiter[Head(waitQueue)] + 1]
      BY <1>2 DEF AppendItem, SignalFront
    <3>. QED  BY <3>1, <3>2, ZenonT(60) DEF SignalNotMissed
  <2>2. at[t] = "locked" /\ at' = [at EXCEPT ![t] = "body"]
    BY <1>2 DEF AppendItem, Goes
  <2>3. ~IsSignalled(h) /\ IsSignalled(h)' /\ \A u \in Threads : IsSignalled(u) => IsSignalled(u)'
    BY <2>1, <2>2 DEF IsSignalled
  <2>4. Cardinality(Signalled) + 1 <= Cardinality(Signalled')
    BY <2>1, <2>3, SignalledGrows
  <2>5. Len(list') = Len(list) + 1 /\ Len(list) \in Nat
    BY DEF AppendItem
  <2>6. Len(list) <= Cardinality(Signalled)
    BY <1>2 DEF ItemsNotStranded
  <2>. QED  BY <2>4, <2>5, <2>6, SignalledFinite DEF ItemsNotStranded
<1>. QED  BY <1>1, <1>2

\* RemoveFront waits on an empty list only, or takes an item and at most one
\* signalled thread, itself.
LEMMA RemoveItems ==
    ASSUME ListInv, NEW t \in Threads, TestList(t)
    PROVE  ItemsNotStranded'
<1> USE DEF ListInv, Inv, MonitorType
<1>1. CASE list = <<>>
  BY <1>1, SignalledFinite DEF TestList, ItemsNotStranded
<1>2. CASE list # <<>>
  <2>1. /\ Len(list') = Len(list) - 1 /\ Len(list) \in Nat \ {0}
        /\ waitQueue' = waitQueue
    BY <1>2 DEF TestList
  <2>2. \A u \in Threads \ {t} : IsSignalled(u) => IsSignalled(u)'
    BY <1>2 DEF TestList, IsSignalled
  <2>3. Cardinality(Signalled) - 1 <= Cardinality(Signalled')
    BY <2>2, SignalledShrinks
  <2>. QED  BY <2>1, <2>3, SignalledFinite DEF ItemsNotStranded
<1>. QED  BY <1>1, <1>2

\* Every step of SynchList keeps the monitor's invariant: its steps are built
\* from the same effects.
LEMMA ListMonitorInv == Inv /\ [ListNext]_svars => Inv'
<1> SUFFICES ASSUME Inv, [ListNext]_svars PROVE Inv'
  OBVIOUS
<1> USE DEF Goes, InsidePoints, InWaitPoints, Points
<1>0. CASE UNCHANGED svars
  BY <1>0 DEF svars, mvars, lockVars, condVars, Inv, MonitorType, OneInside, HolderIsInside,
              Inside, SignalNotMissed
<1>1. ASSUME NEW t \in Threads, NEW o, Call(t, o) PROVE Inv'
  <2>1. at[t] = "out" /\ MovesTo(t, "lockP") /\ UNCHANGED <<lockVars, condVars>>
    BY <1>1 DEF Call, MovesTo
  <2>. QED  BY <2>1, LockElsewhere, CondElsewhere, Halves
<1>2. ASSUME NEW t \in Threads, EnterList(t) PROVE Inv'
  <2>1. LockP /\ UNCHANGED condVars
    BY <1>2 DEF EnterList
  <2>2. CASE at[t] = "lockP" /\ MovesTo(t, "locked")
    BY <2>1, <2>2, LockTaken, CondElsewhere, Halves
  <2>3. CASE at[t] = "relockP" /\ MovesTo(t, "relocked")
    BY <2>1, <2>3, LockTaken, CondElsewhere, Halves
  <2>. QED  BY <1>2, <2>2, <2>3 DEF EnterList, MovesTo
<1>3. ASSUME NEW t \in Threads, NEW x \in Items, AppendItem(t, x) PROVE Inv'
  <2>1. at[t] = "locked" /\ SignalFront
    BY <1>3 DEF AppendItem
  <2>2. CASE waitQueue = <<>>
    <3>1. MovesTo(t, "out") /\ ReleaseLock
      BY <1>3, <2>2 DEF AppendItem, MovesTo
    <3>. QED  BY <2>1, <3>1, LockLeft, CondSignalled, Halves
  <2>3. CASE waitQueue # <<>>
    <3>1. MovesTo(t, "body") /\ lockHolder' = t /\ UNCHANGED lockValue
      BY <1>3, <2>3 DEF AppendItem, MovesTo
    <3>. QED  BY <2>1, <3>1, LockKept, CondSignalled, Halves
  <2>. QED  BY <2>2, <2>3
<1>4. ASSUME NEW t \in Threads, AppendRelease(t) PROVE Inv'
  <2>1. at[t] = "body" /\ MovesTo(t, "out") /\ ReleaseLock /\ UNCHANGED condVars
    BY <1>4 DEF AppendRelease, MovesTo
  <2>. QED  BY <2>1, LockLeft, CondElsewhere, Halves
<1>5. ASSUME NEW t \in Threads, TestList(t) PROVE Inv'
  <2>1. at[t] \in {"locked", "relocked"} /\ ReleaseLock
    BY <1>5 DEF TestList
  <2>2. CASE list = <<>>
    <3>1. MovesTo(t, "waitP") /\ EnqueueWaiter(t)
      BY <1>5, <2>2 DEF TestList, MovesTo
    <3>. QED  BY <2>1, <3>1, LockLeft, CondEnqueued, Halves
  <2>3. CASE list # <<>>
    <3>1. /\ MovesTo(t, "out") /\ waiter' = [waiter EXCEPT ![t] = Deleted]
          /\ UNCHANGED waitQueue
      BY <1>5, <2>3 DEF TestList, MovesTo
    <3>. QED  BY <2>1, <3>1, LockLeft, CondDeleted, Halves, Zenon
  <2>. QED  BY <2>2, <2>3
<1>6. ASSUME NEW t \in Threads, WokenForItem(t) PROVE Inv'
  <2>1. /\ at[t] = "waitP" /\ MovesTo(t, "relockP") /\ UNCHANGED <<lockVars, waitQueue>>
        /\ WaiterP(t)
    BY <1>6 DEF WokenForItem, Woken, MovesTo
  <2>. QED  BY <2>1, LockElsewhere, CondWoken, Halves
<1>7. ASSUME NEW t \in Threads, ApplyItems(t) PROVE Inv'
  <2>1. at[t] = "locked" /\ MovesTo(t, "out") /\ ReleaseLock /\ UNCHANGED condVars
    BY <1>7 DEF ApplyItems, MovesTo
  <2>. QED  BY <2>1, LockLeft, CondElsewhere, Halves
<1>. QED
  BY <1>0, <1>1, <1>2, <1>3, <1>4, <1>5, <1>6, <1>7 DEF ListNext, Proceed

LEMMA ListInvNext == ListInv /\ [ListNext]_svars => ListInv'
<1> SUFFICES ASSUME ListInv, [ListNext]_svars PROVE list' \in Seq(Items) /\ ItemsNotStranded'
  BY ListMonitorInv DEF ListInv
<1> USE DEF Goes
<1>t. at \in [Threads -> Points] /\ waiter \in [Threads -> {0, 1, Deleted}]
      /\ list \in Seq(Items)
  BY DEF ListInv, Inv, MonitorType
<1>0. CASE UNCHANGED svars
  <2>1. UNCHANGED <<list, waitQueue, at, waiter>>
    BY <1>0 DEF svars, mvars, condVars
  <2>. QED  BY <1>t, <2>1, ItemsFrame DEF IsSignalled
<1>1. ASSUME NEW t \in Threads, NEW o, Call(t, o)
      PROVE  list' \in Seq(Items) /\ ItemsNotStranded'
  BY <1>1, <1>t, ItemsFrame DEF Call, condVars, IsSignalled
<1>2. ASSUME NEW t \in Threads, EnterList(t)
      PROVE  list' \in Seq(Items) /\ ItemsNotStranded'
  BY <1>2, <1>t, ItemsFrame DEF EnterList, condVars, IsSignalled
<1>3. ASSUME NEW t \in Threads, NEW x \in Items, AppendItem(t, x)
      PROVE  list' \in Seq(Items) /\ ItemsNotStranded'
  <2>1. list' = Append(list, x)
    BY <1>3 DEF AppendItem
  <2>. QED  BY <1>3, <1>t, <2>1, AppendItems
<1>4. ASSUME NEW t \in Threads, AppendRelease(t)
      PROVE  list' \in Seq(Items) /\ ItemsNotStranded'
  BY <1>4, <1>t, ItemsFrame DEF AppendRelease, condVars, IsSignalled
<1>5. ASSUME NEW t \in Threads, TestList(t)
      PROVE  list' \in Seq(Items) /\ ItemsNotStranded'
  <2>1. list # <<>> => Tail(list) \in Seq(Items)
    BY <1>t
  <2>2. list' \in Seq(Items)
    BY <1>5, <1>t, <2>1, Zenon DEF TestList
  <2>. QED  BY <1>5, <2>2, RemoveItems
<1>6. ASSUME NEW t \in Threads, WokenForItem(t)
      PROVE  list' \in Seq(Items) /\ ItemsNotStranded'
  BY <1>6, <1>t, ItemsFrame DEF WokenForItem, Woken, WaiterP, IsSignalled
<1>7. ASSUME NEW t \in Threads, ApplyItems(t)
      PROVE  list' \in Seq(Items) /\ ItemsNotStranded'
  BY <1>7, <1>t, ItemsFrame DEF ApplyItems, condVars, IsSignalled
<1>. QED
  BY <1>0, <1>1, <1>2, <1>3, <1>4, <1>5, <1>6, <1>7 DEF ListNext, Proceed

\* The synchronized list of synchlist.cc always satisfies the inductive invariant.
THEOREM ListInvariance == ListSpec => []ListInv
<1>1. ListInit => ListInv
  BY InvInit DEF ListInit, MonitorInit, ListInv, ItemsNotStranded
<1>. QED  BY <1>1, ListInvNext, PTL DEF ListSpec

\* SynchList: its operations exclude one another, release a lock they hold, and
\* miss no signal.
THEOREM ListMonitorCorrect == ListSpec => [](MutualExclusion /\ HolderIsInside /\ SignalNotMissed)
<1>1. ListInv => MutualExclusion /\ HolderIsInside /\ SignalNotMissed
  BY Counted DEF ListInv, Inv
<1>. QED  BY <1>1, ListInvariance, PTL

\* SynchList: while a thread waits in RemoveFront, every item on the list is
\* matched by a thread that was signalled and has still to look at the list.
THEOREM ListItemsCorrect == ListSpec => []ItemsNotStranded
<1>1. ListInv => ItemsNotStranded
  BY DEF ListInv
<1>. QED  BY <1>1, ListInvariance, PTL

=============================================================================
