------------------------------ MODULE FileTable ------------------------------
(***************************************************************************)
(* The file system the build uses (FILESYS_STUB): FileSystem of            *)
(* filesys/filesys.h keeps a table of open files over the host's files,    *)
(* OpenFile of filesys/openfile.h keeps the offset, and lib/sysdep.cc      *)
(* calls the host.  The operators below are the methods; Syscall makes     *)
(* actions of them, one per system call.                                   *)
(*                                                                         *)
(* A name is a sequence of characters, a file a sequence of bytes, and the *)
(* byte 0 is NUL.  The host is external: a directory from names to inodes, *)
(* the inodes' bytes, and the descriptors of this process, of which the    *)
(* lowest free one is always taken.                                        *)
(***************************************************************************)
EXTENDS Integers, Sequences, FiniteSets, FiniteSetsExt

CONSTANTS
  MAX_FILE,       \* slots of the table; 0 and 1 stand for the console
  FirstFd,        \* lowest host descriptor the kernel itself does not hold
  LastFd,         \* highest descriptor the host grants this process
  Inodes,         \* host inodes
  Names,          \* the non-empty names user programs use
  HostFiles,      \* the files there may be at the start: name |-> [inode, bytes]
  Heaps           \* what new[] may leave in the table: slot |-> [id, openMode]

ASSUME FileTableAssumption ==
  /\ MAX_FILE \in Nat /\ MAX_FILE > 2
  /\ FirstFd \in Nat /\ FirstFd > 2 /\ LastFd \in Nat
  /\ Inodes \subseteq Nat \ {0}
  /\ Heaps \subseteq [2 .. MAX_FILE - 1 -> [id : Int, openMode : Int]]
  /\ \A n \in Names : n # <<>>

VARIABLES
  table,          \* FileTable, id, openMode and name, slot by slot
  fds,            \* host: descriptor |-> [inode, writable], inode 0 when closed
  dir,            \* host: name |-> inode, 0 when there is no such file
  data            \* host: inode |-> bytes

fileVars == <<table, fds, dir, data>>

MODE_READWRITE == 0

MODE_READ == 1

Slots == 2 .. MAX_FILE - 1

Fds == FirstFd .. LastFd

-----------------------------------------------------------------------------
(* The host. *)

Closed == [inode |-> 0, writable |-> FALSE]

\* open(2) takes the lowest free descriptor and fails when there is none.
FreeFds == {f \in Fds : fds[f].inode = 0}

FreshFd == IF FreeFds = {} THEN -1 ELSE Min(FreeFds)

\* An inode is free once no name and no descriptor refers to it.
FreeInodes ==
  Inodes \ ({dir[n] : n \in Names} \cup {fds[f].inode : f \in Fds})

\* OpenForRead and OpenForReadWrite with crashOnError FALSE: -1 when the file
\* does not exist or no descriptor is left.
OpenHost(n) == IF dir[n] = 0 THEN -1 ELSE FreshFd

\* OpenForWrite needs a descriptor and, for a new file, an inode.
CanMake(n) == FreshFd # -1 /\ (dir[n] # 0 \/ FreeInodes # {})

-----------------------------------------------------------------------------
(* OpenFile: every access seeks to currentOffset first. *)

Bytes(s) == data[fds[s.file].inode]

Length(s) == Len(Bytes(s))

ReadAt(s, numBytes, position) ==
  SubSeq(Bytes(s), position + 1, Min({position + numBytes, Length(s)}))

\* Writing past the end leaves a hole of NUL bytes.
WriteAt(s, from, position) ==
  LET size == IF from = <<>> THEN Length(s) ELSE Max({Length(s), position + Len(from)})
  IN  [k \in 1 .. size |->
         IF k \in position + 1 .. position + Len(from) THEN from[k - position]
         ELSE IF k <= Length(s) THEN Bytes(s)[k] ELSE 0]

-----------------------------------------------------------------------------
(* FileSystem. *)

\* The null name pointer is <<>>: neither ever equals the name of a file.
EmptySlot == [open |-> FALSE, file |-> 0, currentOffset |-> 0,
              id |-> 0, openMode |-> 0, name |-> <<>>]

\* checkFileModeRead and checkFileModeReadWrite.
checkFileMode(n, mode) ==
  \E j \in Slots : table[j].name = n /\ table[j].openMode = mode

\* The first slot from 2 on whose FileTable entry is null.
FreeSlots == {j \in Slots : ~table[j].open}

\* The first slot whose id matches; Read, Write, Seek and Close all search so.
HasId(t, fileID) == \E j \in Slots : t[j].id = fileID

SlotOf(t, fileID) == Min({j \in Slots : t[j].id = fileID})

\* What the copy loop leaves in a slot's name.  The order of the two sides of
\* name[i][j][index++] = fileName[index] is unspecified, and the array has no
\* room for the NUL: the copy is exact, or shifted by one, or runs on into
\* whatever byte follows it.
CopiedNames(n) == {n, Tail(n), Append(n, "?")}

\* Close(fileID): delete the OpenFile of the first match, empty the slot, and
\* call Close again for the next one.
Closing(t, fileID) ==
  IF fileID < 0 THEN {} ELSE {j \in Slots : t[j].id = fileID}

CloseTable(t, fileID) ==
  [j \in Slots |-> IF j \in Closing(t, fileID) THEN EmptySlot ELSE t[j]]

CloseHost(t, fd, fileID) ==
  [f \in Fds |-> IF \E j \in Closing(t, fileID) : t[j].open /\ t[j].file = f
                 THEN Closed ELSE fd[f]]

CloseResult(t, fileID) == IF Closing(t, fileID) = {} THEN -1 ELSE 0

\* An emptied slot has id 0, so Close(0) finds it again and recurses for ever.
CloseNeverReturns(t, fileID) == fileID = 0 /\ Closing(t, fileID) # {}

\* new[] leaves ids and modes as it found them; pointers are null where the
\* memory was zero (Syscall!WildTable has the others).
Init ==
  /\ \E h \in Heaps :
       table = [j \in Slots |->
                  [EmptySlot EXCEPT !.id = h[j].id, !.openMode = h[j].openMode]]
  /\ fds = [f \in Fds |-> Closed]
  /\ \E f \in HostFiles :
       /\ dir = [n \in Names |-> f[n].inode]
       /\ data = [i \in Inodes |->
                    IF \E n \in Names : f[n].inode = i
                    THEN f[CHOOSE n \in Names : f[n].inode = i].bytes ELSE <<>>]

-----------------------------------------------------------------------------
(* The methods as steps. *)

\* Create(name): OpenForWrite makes or truncates the file (and asserts that it
\* got a descriptor), then Close(fileDescriptor) looks the descriptor up in the
\* table.
Create(n, fd, inode) ==
  LET held == [fds EXCEPT ![fd] = [inode |-> inode, writable |-> TRUE]]
  IN  /\ dir' = [dir EXCEPT ![n] = inode]
      /\ data' = [data EXCEPT ![inode] = <<>>]
      /\ table' = CloseTable(table, fd)
      /\ fds' = CloseHost(table, held, fd)

\* OpenMode once the mode is known not to be taken: the descriptor, -1
\* included, goes into the first free slot; when there is none it is passed to
\* Close, which looks it up in the table.
NewSlot(fd, type, copy) ==
  [open |-> TRUE, file |-> fd, currentOffset |-> 0,
   id |-> fd, openMode |-> type, name |-> copy]

\* As EnterSlot, without the break: every free slot takes the file.
EnterSlotNoBreak(fd, type, copy) ==
  table' = [j \in Slots |-> IF j \in FreeSlots THEN NewSlot(fd, type, copy)
                            ELSE table[j]]

EnterSlot(fd, type, copy) ==
  table' = [table EXCEPT ![Min(FreeSlots)] = NewSlot(fd, type, copy)]

OpenMode(n, type, copy) ==
  LET fd   == OpenHost(n)
      held == IF fd = -1 THEN fds
              ELSE [fds EXCEPT ![fd] = [inode |-> dir[n],
                                        writable |-> type = MODE_READWRITE]]
  IN  /\ ~checkFileMode(n, type)
      /\ \/ FreeSlots # {} /\ EnterSlot(fd, type, copy) /\ fds' = held
         \/ /\ FreeSlots = {}
            /\ table' = CloseTable(table, fd)
            /\ fds' = CloseHost(table, held, fd)
      /\ UNCHANGED <<dir, data>>

OpenResult(n) == IF FreeSlots = {} THEN -1 ELSE OpenHost(n)

\* Write: the text must be as long as the size says and the mode read-write.
CanWrite(buffer, size, fileID) ==
  /\ fileID >= 0 /\ Len(buffer) = size
  /\ HasId(table, fileID)
  /\ LET s == table[SlotOf(table, fileID)]
     IN  s.openMode = MODE_READWRITE /\ s.open

\* As Write, leaving currentOffset alone.
WriteNoAdvance(buffer, fileID) ==
  LET s == table[SlotOf(table, fileID)]
  IN  /\ data' = [data EXCEPT ![fds[s.file].inode] = WriteAt(s, buffer, s.currentOffset)]
      /\ UNCHANGED <<table, fds, dir>>

Write(buffer, fileID) ==
  LET j == SlotOf(table, fileID)
      s == table[j]
  IN  /\ data' = [data EXCEPT ![fds[s.file].inode] = WriteAt(s, buffer, s.currentOffset)]
      /\ table' = [table EXCEPT ![j].currentOffset = @ + Len(buffer)]
      /\ UNCHANGED <<fds, dir>>

\* WriteFile asserts that the host wrote everything: when only n bytes reached
\* the file the kernel ends here, and the host closes its descriptors.
ShortWrite(buffer, fileID, n) ==
  LET s == table[SlotOf(table, fileID)]
  IN  /\ data' = [data EXCEPT ![fds[s.file].inode] =
                    WriteAt(s, SubSeq(buffer, 1, n), s.currentOffset)]
      /\ table' = [j \in Slots |-> EmptySlot]
      /\ fds' = [f \in Fds |-> Closed]
      /\ UNCHANGED dir

\* Read and Seek accept any slot with that id that holds an OpenFile.
IsOpen(fileID) ==
  fileID >= 0 /\ HasId(table, fileID) /\ table[SlotOf(table, fileID)].open

ReadBytes(size, fileID) ==
  LET s == table[SlotOf(table, fileID)] IN ReadAt(s, size, s.currentOffset)

Read(size, fileID) ==
  /\ table' = [table EXCEPT ![SlotOf(table, fileID)].currentOffset =
                 @ + Len(ReadBytes(size, fileID))]
  /\ UNCHANGED <<fds, dir, data>>

SeekPosition(pos, fileID) ==
  IF pos = -1 THEN Length(table[SlotOf(table, fileID)]) ELSE pos

Seek(pos, fileID) ==
  /\ table' = [table EXCEPT ![SlotOf(table, fileID)].currentOffset =
                 SeekPosition(pos, fileID)]
  /\ UNCHANGED <<fds, dir, data>>

\* Remove unlinks a name that no slot holds; open descriptors keep the inode.
CanRemove(n) ==
  ~checkFileMode(n, MODE_READ) /\ ~checkFileMode(n, MODE_READWRITE)

Remove(n) ==
  /\ dir' = [dir EXCEPT ![n] = 0]
  /\ UNCHANGED <<table, fds, data>>

\* ~FileSystem deletes every OpenFile, and ~OpenFile asserts that the host's
\* close succeeds: the slot of a failed open holds descriptor -1.
CloseAllAborts == \E j \in Slots : table[j].open /\ table[j].file = -1

=============================================================================
