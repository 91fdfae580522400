------------------------------- MODULE Drivers -------------------------------
(***************************************************************************)
(* The synchronous drivers over the interrupt-driven devices: SynchConsole *)
(* (userprog/synchconsole.cc) over Console and SynchDisk                   *)
(* (filesys/synchdisk.cc) over Disk, used by threads.  One thread runs     *)
(* Kernel::ConsoleTest, which echoes what it reads; the others make any    *)
(* calls.  Each driver is a lock and a semaphore its interrupt handler     *)
(* signals.                                                                *)
(*                                                                         *)
(* A step is what runs without an interrupt between two points where the   *)
(* CPU may be lost.  Lock and Semaphore are as Monitor and Scheduler show  *)
(* them to be: a lock has one holder, and a P ends by taking one V.        *)
(***************************************************************************)
EXTENDS Console, Disk

CONSTANTS
  Clients,        \* threads that make calls
  Uses(_),        \* the devices a client uses
  Tester,         \* the thread that runs ConsoleTest
  NoThread,
  SectorsUsed,    \* sectors the clients ask for
  Delays,         \* ticks a thread computes before a disk call
  MaxOps          \* bound on the calls of each client

ASSUME DriversAssumption ==
  /\ Tester \notin Clients /\ NoThread \notin Clients \cup {Tester}
  /\ SectorsUsed \subseteq Sectors /\ Delays \subseteq Nat

VARIABLES
  lock,           \* device |-> thread that holds the driver's lock
  waitFor,        \* device |-> value of the driver's semaphore
  pc,             \* thread |-> where it is in its call
  op,             \* thread |-> the call
  served,         \* thread |-> its request's interrupt has been handled
  got,            \* what GetChar has returned, in the order of the lock
  ops             \* client |-> calls made (bounded)

driverVars == <<lock, waitFor, pc, op, served, got, ops>>

vars == <<consoleVars, diskVars, driverVars>>

Threads == Clients \cup {Tester}

Devices == {"keyboard", "display", "disk"}

NoOp == [dev |-> "none", ch |-> EOF, sector |-> 0, writing |-> FALSE]

GetCharOp == [NoOp EXCEPT !.dev = "keyboard"]

PutCharOp(ch) == [NoOp EXCEPT !.dev = "display", !.ch = ch]

DiskOp(s, w) == [NoOp EXCEPT !.dev = "disk", !.sector = s, !.writing = w]

ClientOps ==
  {GetCharOp} \cup {PutCharOp(ch) : ch \in Chars}
    \cup {DiskOp(s, w) : s \in SectorsUsed, w \in BOOLEAN}

Init ==
  /\ ConsoleInit /\ DiskInit
  /\ lock = [d \in Devices |-> NoThread]
  /\ waitFor = [d \in Devices |-> 0]
  /\ pc = [t \in Threads |-> IF t = Tester THEN "acquire" ELSE "idle"]
  /\ op = [t \in Threads |-> IF t = Tester THEN GetCharOp ELSE NoOp]
  /\ served = [t \in Threads |-> FALSE]
  /\ got = <<>>
  /\ ops = [t \in Clients |-> 0]

-----------------------------------------------------------------------------

\* A client makes a call, having computed for a while.
Call(t, o) ==
  /\ pc[t] = "idle" /\ ops[t] < MaxOps /\ o.dev \in Uses(t)
  /\ op' = [op EXCEPT ![t] = o]
  /\ pc' = [pc EXCEPT ![t] = "acquire"]
  /\ ops' = [ops EXCEPT ![t] = @ + 1]
  /\ \E d \in Delays : totalTicks' = IF o.dev = "disk" THEN totalTicks + d ELSE totalTicks
  /\ UNCHANGED <<consoleVars, active, lastSector, bufferInit, diskInt,
                 lock, waitFor, served, got>>

\* lock->Acquire().  GetChar waits first; the others make their request first.
Acquire(t) ==
  /\ pc[t] = "acquire" /\ lock[op[t].dev] = NoThread
  /\ lock' = [lock EXCEPT ![op[t].dev] = t]
  /\ pc' = [pc EXCEPT ![t] = IF op[t].dev = "keyboard" THEN "wait" ELSE "request"]
  /\ UNCHANGED <<consoleVars, diskVars, waitFor, op, served, got, ops>>

\* consoleOutput->PutChar(ch)
PutChar(t) ==
  /\ pc[t] = "request" /\ op[t].dev = "display"
  /\ ConsoleOutputPutChar(op[t].ch)
  /\ pc' = [pc EXCEPT ![t] = "wait"]
  /\ served' = [served EXCEPT ![t] = FALSE]
  /\ UNCHANGED <<diskVars, lock, waitFor, op, got, ops>>

\* disk->ReadRequest(sectorNumber, data) or disk->WriteRequest
DiskRequest(t) ==
  /\ pc[t] = "request" /\ op[t].dev = "disk"
  /\ Request(op[t].sector, op[t].writing)
  /\ pc' = [pc EXCEPT ![t] = "wait"]
  /\ served' = [served EXCEPT ![t] = FALSE]
  /\ UNCHANGED <<consoleVars, lock, waitFor, op, got, ops>>

\* As Wait, without waiting.
WaitSkipped(t) ==
  /\ pc[t] = "wait"
  /\ waitFor' = [waitFor EXCEPT ![op[t].dev] = IF @ > 0 THEN @ - 1 ELSE 0]
  /\ pc' = [pc EXCEPT ![t] = IF op[t].dev = "keyboard" THEN "take" ELSE "release"]
  /\ UNCHANGED <<consoleVars, diskVars, lock, op, served, got, ops>>

\* waitFor->P() or semaphore->P() ends.
Wait(t) ==
  /\ pc[t] = "wait" /\ waitFor[op[t].dev] > 0
  /\ waitFor' = [waitFor EXCEPT ![op[t].dev] = @ - 1]
  /\ pc' = [pc EXCEPT ![t] = IF op[t].dev = "keyboard" THEN "take" ELSE "release"]
  /\ UNCHANGED <<consoleVars, diskVars, lock, op, served, got, ops>>

\* ch = consoleInput->GetChar()
TakeChar(t) ==
  /\ pc[t] = "take"
  /\ ConsoleInputGetChar
  /\ op' = [op EXCEPT ![t].ch = incoming]
  /\ got' = Append(got, incoming)
  /\ pc' = [pc EXCEPT ![t] = "release"]
  /\ UNCHANGED <<diskVars, lock, waitFor, served, ops>>

\* lock->Release(), and the caller goes on.  ConsoleTest: a character is echoed,
\* after the echo the next one is read, and EOF ends the test.
AfterCall(t) ==
  IF t # Tester \/ (op[t].dev = "keyboard" /\ op[t].ch = EOF)
  THEN [pc |-> "idle", op |-> NoOp]
  ELSE [pc |-> "acquire",
        op |-> IF op[t].dev = "keyboard" THEN PutCharOp(op[t].ch) ELSE GetCharOp]

Release(t) ==
  /\ pc[t] = "release"
  /\ lock' = [lock EXCEPT ![op[t].dev] = NoThread]
  /\ pc' = [pc EXCEPT ![t] = AfterCall(t).pc]
  /\ op' = [op EXCEPT ![t] = AfterCall(t).op]
  /\ UNCHANGED <<consoleVars, diskVars, waitFor, served, got, ops>>

-----------------------------------------------------------------------------
(* Interrupt handlers. *)

\* Ghost: whose request the device has just finished.
Serve(d) ==
  served' = [t \in Threads |-> served[t] \/ (lock[d] = t /\ pc[t] = "wait")]

Signal(d) == waitFor' = [waitFor EXCEPT ![d] = @ + 1]

KeyboardIdle ==
  /\ PollNothing
  /\ UNCHANGED <<diskVars, driverVars>>

\* ConsoleInput::CallBack, then SynchConsoleInput::CallBack.
KeyboardInt ==
  /\ PollChar
  /\ Signal("keyboard")
  /\ UNCHANGED <<diskVars, lock, pc, op, served, got, ops>>

KeyboardEnd ==
  /\ PollEnd
  /\ Signal("keyboard")
  /\ UNCHANGED <<diskVars, lock, pc, op, served, got, ops>>

\* ConsoleOutput::CallBack, then SynchConsoleOutput::CallBack.
DisplayInt ==
  /\ ConsoleOutputCallBack
  /\ Signal("display") /\ Serve("display")
  /\ UNCHANGED <<diskVars, lock, pc, op, got, ops>>

\* Disk::CallBack, then SynchDisk::CallBack.
DiskInterrupt ==
  /\ DiskCallBack
  /\ Signal("disk") /\ Serve("disk")
  /\ UNCHANGED <<consoleVars, lock, pc, op, got, ops>>

Step(t) ==
  Acquire(t) \/ PutChar(t) \/ DiskRequest(t) \/ Wait(t) \/ TakeChar(t) \/ Release(t)

Next ==
  \/ \E t \in Clients, o \in ClientOps : Call(t, o)
  \/ \E t \in Threads : Step(t)
  \/ KeyboardIdle \/ KeyboardInt \/ KeyboardEnd
  \/ DisplayInt \/ DiskInterrupt

\* A thread that can run does run (ReadyRuns of Scheduler), a pending interrupt
\* comes due (Interrupt), and the user types what there is to type.  A free lock
\* may go to a newcomer any number of times.
Fairness ==
  /\ \A t \in Threads : WF_vars(Step(t))
  /\ WF_vars(KeyboardInt) /\ WF_vars(DisplayInt) /\ WF_vars(DiskInterrupt)

Spec == Init /\ [][Next]_vars /\ Fairness

-----------------------------------------------------------------------------
(* Properties. *)

\* Every keystroke reaches exactly one GetChar, in the order typed
\* (console.cc:64-111, synchconsole.cc:44-66): what was returned, what is
\* buffered and what the host still has make up what was typed.  The buffer is
\* in use exactly when the semaphore, or the one reader that has passed it, says
\* so; and a poll finds it empty, as ASSERT(incoming == EOF) demands.
Takers == {t \in Threads : pc[t] = "take"}

Buffered == waitFor["keyboard"] = 1 \/ Takers # {}

InputInOrder ==
  /\ waitFor["keyboard"] \in {0, 1} /\ (Takers # {} => waitFor["keyboard"] = 0)
  /\ \A t, u \in Takers : t = u
  /\ polling => incoming = EOF /\ ~Buffered
  /\ ~atEnd => got \o (IF Buffered THEN <<incoming>> ELSE <<>>) \o keyboard = typed
  /\ atEnd => got \in {typed, Append(typed, EOF)}

\* A driver's call returns only after the interrupt for its own request, and
\* makes its request only when the device has finished the previous one, as
\* ASSERT(putBusy == FALSE) and ASSERT(!active) demand (console.cc:168,
\* disk.cc:117, :137; synchconsole.cc:100-119, synchdisk.cc:57-94).
ReturnsAfterInterrupt ==
  \A t \in Threads :
    /\ pc[t] = "release" /\ op[t].dev # "keyboard" => served[t]
    /\ pc[t] = "request" /\ op[t].dev = "display" => ~putBusy /\ waitFor["display"] = 0
    /\ pc[t] = "request" /\ op[t].dev = "disk" => ~active /\ waitFor["disk"] = 0

\* A disk request ends when the sector has passed under the head
\* (disk.cc:176-268): one RotationTime after the later of its issue and the
\* first time the sector's start passed the head since the head reached the
\* track, or, for a read of the track the head is on, since the track buffer
\* began to fill.
DiskTimes ==
  LET r     == diskInt
      seek  == Distance(r.sector \div SectorsPerTrack, r.from \div SectorsPerTrack)
                 * SeekTime
      since == IF seek = 0 /\ ~r.writing THEN bufferInit ELSE r.issued + seek
  IN  r.pending => r.when = Max({r.issued, Min(Passes(r.sector, since))}) + RotationTime

\* A call on the disk or the display returns, and a reader is given the next
\* keystroke, so polling never stops for good (console.cc:64-111) before the end
\* of the input; the premise leaves out the byte 0xFF, after which it does stop,
\* because GetChar takes that byte for EOF (console.cc:106).
CallsReturn ==
  \A t \in Threads :
    /\ (pc[t] = "acquire" /\ op[t].dev \in {"disk", "display"}) ~>
         ~(pc[t] # "idle" /\ op[t].dev \in {"disk", "display"})
    /\ (pc[t] = "wait" /\ op[t].dev = "keyboard" /\ keyboard # <<>>
        /\ \A k \in DOMAIN typed : typed[k] # EOF) ~>
         (pc[t] # "wait" \/ atEnd)

=============================================================================
