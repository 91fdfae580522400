-------------------------------- MODULE Disk --------------------------------
(***************************************************************************)
(* The simulated disk of machine/disk.cc: one request at a time, a latency *)
(* computed from the head's track, the rotation and the track buffer, and  *)
(* an interrupt when the request is done.  What the sectors hold is in     *)
(* DiskFileSystem.                                                         *)
(***************************************************************************)
EXTENDS Integers, FiniteSetsExt

CONSTANTS
  SectorsPerTrack,
  NumTracks,
  SeekTime,       \* ticks to move the head by one track
  RotationTime    \* ticks for one sector to pass under the head

ASSUME DiskAssumption ==
  {SectorsPerTrack, NumTracks, SeekTime, RotationTime} \subseteq Nat \ {0}

VARIABLES
  totalTicks,     \* Statistics::totalTicks
  active,         \* Disk::active
  lastSector,     \* Disk::lastSector
  bufferInit,     \* Disk::bufferInit
  diskInt         \* the pending DiskInt: when it is due, and what it is for

diskVars == <<totalTicks, active, lastSector, bufferInit, diskInt>>

NumSectors == SectorsPerTrack * NumTracks

Sectors == 0 .. NumSectors - 1

Distance(a, b) == IF a > b THEN a - b ELSE b - a

\* TimeToSeek: its result, and the time to the next sector boundary.
TimeToSeek(newSector) ==
  Distance(newSector \div SectorsPerTrack, lastSector \div SectorsPerTrack) * SeekTime

RotationAfter(seek) ==
  LET over == (totalTicks + seek) % RotationTime
  IN  IF over > 0 THEN RotationTime - over ELSE 0

ModuloDiff(to, from) ==
  (((to % SectorsPerTrack) - (from % SectorsPerTrack)) + SectorsPerTrack)
    % SectorsPerTrack

InTrackBuffer(newSector, timeAfter) ==
  (timeAfter - bufferInit) \div RotationTime
    > ModuloDiff(newSector, bufferInit \div RotationTime)

\* As ComputeLatency, taking the sector now passing the head for a buffered one.
ComputeLatencyEarly(newSector, writing) ==
  LET seek      == TimeToSeek(newSector)
      rotation  == RotationAfter(seek)
      timeAfter == totalTicks + seek + rotation
  IN  IF /\ ~writing /\ seek = 0
         /\ (timeAfter - bufferInit) \div RotationTime
              >= ModuloDiff(newSector, bufferInit \div RotationTime)
      THEN RotationTime
      ELSE seek + rotation + RotationTime
             + ModuloDiff(newSector, timeAfter \div RotationTime) * RotationTime

ComputeLatency(newSector, writing) ==
  LET seek      == TimeToSeek(newSector)
      rotation  == RotationAfter(seek)
      timeAfter == totalTicks + seek + rotation
  IN  IF ~writing /\ seek = 0 /\ InTrackBuffer(newSector, timeAfter)
      THEN RotationTime
      ELSE seek + rotation + RotationTime
             + ModuloDiff(newSector, timeAfter \div RotationTime) * RotationTime

\* UpdateLast: a seek empties the track buffer.
UpdateLast(newSector) ==
  LET seek == TimeToSeek(newSector)
  IN  /\ bufferInit' = IF seek # 0 THEN totalTicks + seek + RotationAfter(seek)
                       ELSE bufferInit
      /\ lastSector' = newSector

NoInt == [pending |-> FALSE, when |-> 0, sector |-> 0, writing |-> FALSE,
          issued |-> 0, from |-> 0]

DiskInit ==
  /\ totalTicks = 0
  /\ active = FALSE /\ lastSector = 0 /\ bufferInit = 0
  /\ diskInt = NoInt

\* ReadRequest and WriteRequest, after their ASSERTs.
Request(newSector, writing) ==
  /\ active' = TRUE
  /\ UpdateLast(newSector)
  /\ diskInt' = [pending |-> TRUE,
                 when    |-> totalTicks + ComputeLatency(newSector, writing),
                 sector  |-> newSector, writing |-> writing,
                 issued  |-> totalTicks, from |-> lastSector]
  /\ UNCHANGED totalTicks

\* The clock reaches the interrupt (Interrupt::CheckIfDue), and Disk::CallBack.
DiskCallBack ==
  /\ diskInt.pending
  /\ totalTicks' = Max({totalTicks, diskInt.when})
  /\ active' = FALSE
  /\ diskInt' = NoInt
  /\ UNCHANGED <<lastSector, bufferInit>>

-----------------------------------------------------------------------------
(* The reference: where the head is. *)

\* The times from t on at which the start of the sector passes under the head.
Passes(sector, t) ==
  {u \in t .. t + SectorsPerTrack * RotationTime :
     u % RotationTime = 0
     /\ (u \div RotationTime) % SectorsPerTrack = sector % SectorsPerTrack}

=============================================================================
