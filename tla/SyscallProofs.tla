---------------------------- MODULE SyscallProofs ----------------------------
(***************************************************************************)
(* Proofs about Syscall: the table of open files agrees with the host's     *)
(* descriptors, and the calls implement AbstractFiles.  (Numbers are in     *)
(* NumberProofs.)  One lemma for each call shows that it keeps IInv, the    *)
(* inductive invariant, and that it is a step of AbstractFiles; the lemmas  *)
(* about the table and the buffers are in SyscallLemmas.                    *)
(***************************************************************************)
EXTENDS SyscallLemmas

-----------------------------------------------------------------------------
(* The simpler calls keep the invariant and are steps of AbstractFiles      *)

LEMMA InitStep == SyscallInit => IInv /\ Promised!Init
<1> SUFFICES ASSUME SyscallInit PROVE IInv /\ Promised!Init
  OBVIOUS
<1>1. table \in Tables /\ \A j \in Slots : ~table[j].open /\ Unused(table[j])
  <2>1. PICK h \in Heaps :
          table = [j \in Slots |-> [EmptySlot EXCEPT !.id = h[j].id, !.openMode = h[j].openMode]]
    BY Zenon DEF SyscallInit, Init
  <2>2. \A j \in Slots : h[j].id \in Int /\ h[j].openMode \in Int
    BY FileTableAssumption DEF Slots
  <2>3. \A i, m \in Int :
          LET s == [EmptySlot EXCEPT !.id = i, !.openMode = m]
          IN  s \in SlotRecords /\ ~s.open /\ Unused(s)
    BY EmptyIsSlot DEF EmptySlot, SlotRecords, Unused
  <2>4. \A j \in Slots : table[j] \in SlotRecords /\ ~table[j].open /\ Unused(table[j])
    BY <2>1, <2>2, <2>3, Zenon
  <2>. QED  BY <2>1, <2>4, Zenon DEF Tables
<1>2. fds \in FdTables
  BY EmptyIsSlot DEF SyscallInit, Init, FdTables
<1>3. PICK h \in HostFiles :
        /\ dir = [n \in Names |-> h[n].inode]
        /\ data = [i \in Inodes |->
                     IF \E n \in Names : h[n].inode = i
                     THEN h[CHOOSE n \in Names : h[n].inode = i].bytes ELSE <<>>]
  BY Zenon DEF SyscallInit, Init
<1>4. \A n \in Names : h[n].inode \in Inodes \cup {0} /\ h[n].bytes \in Seq(Byte)
  BY SyscallAssumption
<1>5. dir \in [Names -> Inodes \cup {0}]
  BY <1>3, <1>4
<1>6. ASSUME NEW i \in Inodes PROVE data[i] \in Seq(Byte)
  <2>1. CASE \E n \in Names : h[n].inode = i
    <3>1. (CHOOSE n \in Names : h[n].inode = i) \in Names
      BY <2>1
    <3>. QED  BY <2>1, <3>1, <1>3, <1>4
  <2>2. CASE ~\E n \in Names : h[n].inode = i
    BY <2>2, <1>3
  <2>. QED  BY <2>1, <2>2
<1>7. data \in [Inodes -> Seq(Byte)]
  BY <1>3, <1>6
<1>8. user \in [1 .. UserSize -> Byte]
  BY SyscallAssumption DEF SyscallInit
<1>9. Consistent(table, fds) /\ \A j \in Slots : ~InUse(table, j)
  BY <1>1, Zenon DEF Consistent, InUse
<1>10. HandleMap(table, fds) = <<>>
  BY <1>1, <1>9, MapEmpty
<1>11. \A i \in Inodes : \A k \in DOMAIN data[i] : data[i][k] \in Byte
  BY <1>6
<1>12. Promised!Init
  BY <1>5, <1>8, <1>10, <1>11, ZenonT(60)
     DEF Promised!Init, Promised!UserBuffers, HandleMap, View, IdsOf, OpenIds
<1>. QED  BY <1>1, <1>2, <1>5, <1>7, <1>8, <1>9, <1>12 DEF IInv, FilesType

\* A call that leaves the files alone.
LEMMA SameStep ==
  ASSUME IInv, UNCHANGED fileVars, user' \in [1 .. UserSize -> Byte]
  PROVE  IInv' /\ Promised!Next
<1>1. table' = table /\ fds' = fds /\ dir' = dir /\ data' = data
  BY DEF fileVars
<1>2. FilesType'
  BY <1>1 DEF IInv, FilesType
<1>3. IInv'
  BY <1>1, <1>2 DEF IInv
<1>4. HandleMap(table', fds') = HandleMap(table, fds)
  BY <1>1
<1>. QED  BY <1>1, <1>3, <1>4, AbsOther

LEMMA UserSame == ASSUME IInv, UNCHANGED user PROVE user' \in [1 .. UserSize -> Byte]
BY DEF IInv, FilesType

\* The kernel ends, and its descriptors with it.
LEMMA Emptied ==
  ASSUME table' = [j \in Slots |-> EmptySlot], fds' = [f \in Fds |-> Closed]
  PROVE  /\ table' \in Tables /\ fds' \in FdTables /\ Consistent(table', fds')
         /\ HandleMap(table', fds') = <<>>
<1>1. table' \in Tables /\ \A j \in Slots : table'[j] = EmptySlot
  BY EmptyIsSlot DEF Tables
<1>2. fds' \in FdTables
  BY EmptyIsSlot DEF FdTables
<1>3. \A j \in Slots : ~InUse(table', j) /\ ~table'[j].open /\ Unused(table'[j])
  BY <1>1, EmptyIsUnused, Zenon
<1>4. Consistent(table', fds')
  BY <1>3, Zenon DEF Consistent
<1>5. HandleMap(table', fds') = <<>>
  BY <1>1, <1>3, MapEmpty
<1>. QED  BY <1>1, <1>2, <1>4, <1>5

LEMMA HaltStep ==
  ASSUME IInv, Halt
  PROVE  IInv' /\ Promised!Next
<1>1. UNCHANGED <<dir, data, user>>
  BY DEF Halt
<1>2. /\ table' \in Tables /\ fds' \in FdTables /\ Consistent(table', fds')
      /\ HandleMap(table', fds') = <<>>
  BY Emptied, Zenon DEF Halt
<1>3. IInv'
  BY <1>1, <1>2 DEF IInv, FilesType
<1>. QED  BY <1>1, <1>2, <1>3, AbsHalt

LEMMA ReadStringStep ==
  ASSUME IInv, ReadString
  PROVE  IInv' /\ Promised!Next
<1>1. PICK length \in Sizes :
        \/ /\ length >= -1
           /\ \E text \in [1 .. length -> Typed] :
                user' = system2User(Append(text, 0), length + 1)
           /\ UNCHANGED fileVars
        \/ Stop("ReadString", "looping")
  BY DEF ReadString
<1>2. length \in Int
  BY SyscallAssumption
<1>3. CASE /\ length >= -1
           /\ \E text \in [1 .. length -> Typed] :
                user' = system2User(Append(text, 0), length + 1)
           /\ UNCHANGED fileVars
  <2>1. PICK text \in [1 .. length -> Typed] :
          user' = system2User(Append(text, 0), length + 1)
    BY <1>3
  <2>2. length + 1 \in Nat
    BY <1>2, <1>3
  <2>3. \A k \in 1 .. length + 1 : Append(text, 0)[k] \in Byte
    <3>1. CASE length = -1
      BY <3>1
    <3>2. CASE length # -1
      <4>1. length \in Nat
        BY <1>2, <1>3, <3>2
      <4>2. text \in Seq(Byte) /\ Len(text) = length /\ 0 \in Byte
        BY <4>1, SyscallAssumption
      <4>. QED  BY <4>1, <4>2
    <3>. QED  BY <3>1, <3>2
  <2>4. user' \in [1 .. UserSize -> Byte]
    BY <2>1, <2>2, <2>3, CopyOut, ZenonT(60)
  <2>. QED  BY <1>3, <2>4, SameStep
<1>4. CASE Stop("ReadString", "looping")
  BY <1>4, SameStep, UserSame DEF Stop
<1>. QED  BY <1>1, <1>3, <1>4

LEMMA ConsoleStep ==
  ASSUME IInv,
         \/ ThreadJoin \/ UnexpectedSyscall \/ WildTable \/ Add \/ RandomNum
         \/ PrintString \/ ReadNum \/ PrintNum \/ ReadChar \/ PrintChar
  PROVE  IInv' /\ Promised!Next
<1>1. UNCHANGED fileVars /\ UNCHANGED user
  BY DEF ThreadJoin, UnexpectedSyscall, WildTable, Add, RandomNum, PrintString,
         ReadNum, PrintNum, ReadChar, PrintChar, Stop
<1>. QED  BY <1>1, SameStep, UserSame

LEMMA RemoveStep ==
  ASSUME IInv, SC_Remove
  PROVE  IInv' /\ Promised!Next
<1>1. CASE UNCHANGED fileVars
  BY <1>1, SameStep, UserSame DEF SC_Remove
<1>2. CASE \E n \in Names : Remove(n)
  <2>1. PICK n \in Names : Remove(n)
    BY <1>2
  <2>2. UNCHANGED user
    BY DEF SC_Remove
  <2>3. dir' \in [Names -> Inodes \cup {0}] /\ UNCHANGED <<table, fds, data>>
    BY <2>1 DEF Remove, IInv, FilesType
  <2>4. IInv'
    BY <2>2, <2>3 DEF IInv, FilesType
  <2>5. HandleMap(table', fds') = HandleMap(table, fds)
    BY <2>3
  <2>. QED  BY <2>1, <2>2, <2>4, <2>5, AbsRemove, ZenonT(60) DEF Remove
<1>. QED  BY <1>1, <1>2 DEF SC_Remove

\* What FilesType and the table say of a file in use.
LEMMA UsedIs ==
  ASSUME IInv, NEW j \in Slots, InUse(table, j)
  PROVE  /\ table \in Tables /\ fds \in FdTables /\ Consistent(table, fds)
         /\ table[j].currentOffset \in Nat
         /\ fds[table[j].file].inode \in Inodes
         /\ Bytes(table[j]) \in Seq(Byte)
         /\ table[j].id \in IdsOf(table)
         /\ HandleMap(table, fds)[table[j].id] = View(table[j], fds)
<1>1. table \in Tables /\ fds \in FdTables /\ Consistent(table, fds)
      /\ data \in [Inodes -> Seq(Byte)]
  BY DEF IInv, FilesType
<1>2. table[j].currentOffset \in Nat
  BY <1>1 DEF Tables, SlotRecords
<1>3. fds[table[j].file].inode \in Inodes
  BY <1>1, SlotIs, ZenonT(60)
<1>4. Bytes(table[j]) \in Seq(Byte)
  BY <1>1, <1>3 DEF Bytes
<1>. QED  BY <1>1, <1>2, <1>3, <1>4, HandlesIs, ZenonT(60)

\* A step that moves the offset of one file in use.
LEMMA Moved ==
  ASSUME IInv, NEW j \in Slots, InUse(table, j), NEW o \in Nat,
         table' = MoveSlot(table, j, o),
         UNCHANGED <<fds, dir>>, data' \in [Inodes -> Seq(Byte)],
         user' \in [1 .. UserSize -> Byte]
  PROVE  /\ IInv'
         /\ HandleMap(table', fds') = MoveHandle(HandleMap(table, fds), table[j].id, o)
<1>1. table \in Tables /\ fds \in FdTables /\ Consistent(table, fds)
  BY UsedIs, Zenon
<1>2. table' \in Tables /\ Consistent(table', fds')
  BY <1>1, MoveKeeps, Zenon DEF MoveSlot
<1>3. IInv'
  BY <1>1, <1>2 DEF IInv, FilesType
<1>4. HandleMap(MoveSlot(table, j, o), fds) = MoveHandle(HandleMap(table, fds), table[j].id, o)
  BY <1>1, MapMove
<1>. QED  BY <1>3, <1>4

LEMMA SeekStep ==
  ASSUME IInv, SC_Seek
  PROVE  IInv' /\ Promised!Next
<1>1. PICK pos \in Positions, id \in FileIds :
        \/ Fail("Seek")
        \/ IsOpen(id) /\ pos >= -1 /\ Seek(pos, id) /\ UNCHANGED user
  BY DEF SC_Seek
<1>2. CASE Fail("Seek")
  BY <1>2, SameStep, UserSame DEF Fail
<1>3. CASE IsOpen(id) /\ pos >= -1 /\ Seek(pos, id) /\ UNCHANGED user
  <2> DEFINE j == SlotOf(table, id)
             o == SeekPosition(pos, id)
  <2>1. pos \in Int /\ id \in Int
    BY SyscallAssumption
  <2>2. j \in Slots /\ InUse(table, j) /\ table[j].id = id
    BY <1>3, <2>1, FoundIs DEF IsOpen
  <2>3. o \in Nat
    BY <1>3, <2>1, <2>2, UsedIs, SMTT(30) DEF SeekPosition, Length
  <2>4. table' = MoveSlot(table, j, o) /\ UNCHANGED <<fds, dir, data, user>>
    BY <1>3 DEF Seek, MoveSlot
  <2> HIDE DEF j, o
  <2>5. data' \in [Inodes -> Seq(Byte)] /\ user' \in [1 .. UserSize -> Byte]
    BY <2>4 DEF IInv, FilesType
  <2>6. IInv' /\ HandleMap(table', fds') = MoveHandle(HandleMap(table, fds), id, o)
    BY <2>2, <2>3, <2>4, <2>5, Moved
  <2>7. id \in IdsOf(table) /\ HandleMap(table, fds)[id].offset \in Nat
    <3>1. View(table[j], fds).offset = table[j].currentOffset
      BY DEF View
    <3>. QED  BY <3>1, <2>2, UsedIs, ZenonT(60)
  <2>. QED  BY <2>3, <2>4, <2>6, <2>7, AbsSeek, ZenonT(60)
<1>. QED  BY <1>1, <1>2, <1>3

-----------------------------------------------------------------------------
(* Every call keeps the invariant and is a step of AbstractFiles            *)

\* A file in use whose bytes at the offset become the first n of the buffer.
Writes(j, c, n) ==
  /\ table[j].openMode = MODE_READWRITE
  /\ c \in Seq(Byte) /\ Len(c) = n /\ \A k \in 1 .. n : c[k] = user[k]
  /\ data' = [data EXCEPT ![fds[table[j].file].inode] =
                WriteAt(table[j], c, table[j].currentOffset)]

LEMMA WrittenIs ==
  ASSUME IInv, NEW j \in Slots, InUse(table, j), NEW n \in 0 .. UserSize, NEW c, Writes(j, c, n)
  PROVE  /\ data' \in [Inodes -> Seq(Byte)]
         /\ n = 0 => data' = data
         /\ n # 0 => Rewrites(table[j].id, n)
<1> DEFINE s == table[j]
           i == fds[s.file].inode
           H == HandleMap(table, fds)
           from == s.currentOffset
<1>1. /\ from \in Nat /\ i \in Inodes /\ Bytes(s) \in Seq(Byte)
      /\ H[s.id] = View(s, fds)
  BY UsedIs, ZenonT(60)
<1>2. /\ c \in Seq(Byte) /\ Len(c) = n /\ \A k \in 1 .. n : c[k] = user[k]
      /\ data' = [data EXCEPT ![i] = WriteAt(s, c, from)]
      /\ s.openMode = MODE_READWRITE
  BY DEF Writes
<1>3. data \in [Inodes -> Seq(Byte)] /\ Bytes(s) = data[i] /\ n \in Nat
  BY SyscallAssumption DEF IInv, FilesType, Bytes
<1>4. H[s.id].offset = from /\ H[s.id].inode = i /\ H[s.id].mode = "readwrite"
  <2>1. View(s, fds).offset = from /\ View(s, fds).inode = i /\ View(s, fds).mode = "readwrite"
    BY <1>2, ViewIs, Zenon
  <2>. QED  BY <1>1, <2>1, Zenon
<1>5. /\ WriteAt(s, c, from) \in Seq(Byte)
      /\ c = <<>> => WriteAt(s, c, from) = Bytes(s)
      /\ c # <<>> => WriteAt(s, c, from) = Overwrite(Bytes(s), c, from, Len(c))
  <2> HIDE DEF s, from
  <2>. QED  BY <1>1, <1>2, WriteIs, ZenonT(60)
<1> HIDE DEF s, i, from, H
<1>6. data' \in [Inodes -> Seq(Byte)]
  BY <1>1, <1>2, <1>3, <1>5
<1>7. CASE n = 0
  <2>1. c = <<>>
    BY <1>2, <1>7
  <2>2. data' = data
    BY <1>1, <1>2, <1>3, <1>5, <2>1
  <2>. QED  BY <1>6, <1>7, <2>2
<1>8. CASE n # 0
  <2>1. c # <<>>
    BY <1>2, <1>8
  <2>2. SameBytes(c, user, from, n)
    BY <1>1, <1>2, <1>3, SMTT(30) DEF SameBytes
  <2>3. Overwrite(Bytes(s), c, from, n) = Overwrite(Bytes(s), user, from, n)
    BY <1>1, <1>3, <2>2, OverwriteSame, SMTT(30)
  <2>4. data' = [data EXCEPT ![H[s.id].inode] = Overwrite(data[H[s.id].inode], user, H[s.id].offset, n)]
    BY <1>2, <1>3, <1>4, <1>5, <2>1, <2>3, Zenon
  <2>5. Rewrites(s.id, n)
    BY <1>4, <2>4, Zenon DEF Rewrites, H
  <2>. QED  BY <1>6, <1>8, <2>5, Zenon DEF s
<1>. QED  BY <1>7, <1>8

\* A write that succeeds.
LEMMA WriteDone ==
  ASSUME IInv, NEW j \in Slots, InUse(table, j), NEW n \in 0 .. UserSize, NEW c, Writes(j, c, n),
         table' = MoveSlot(table, j, table[j].currentOffset + n),
         UNCHANGED <<fds, dir, user>>
  PROVE  IInv' /\ Promised!Next
<1> DEFINE o == table[j].currentOffset + n
           H == HandleMap(table, fds)
           id == table[j].id
<1>1. /\ table[j].currentOffset \in Nat /\ id \in IdsOf(table) /\ H[id] = View(table[j], fds)
      /\ n \in Nat
  BY UsedIs, SyscallAssumption
<1>2. o \in Nat /\ user' \in [1 .. UserSize -> Byte]
  BY <1>1, UserSame
<1>3. /\ data' \in [Inodes -> Seq(Byte)]
      /\ n = 0 => data' = data
      /\ n # 0 => Rewrites(id, n)
  BY WrittenIs
<1>4. IInv' /\ HandleMap(table', fds') = MoveHandle(H, id, o)
  <2> HIDE DEF o
  <2>1. table' = MoveSlot(table, j, o) /\ UNCHANGED <<fds, dir>>
    BY DEF o
  <2>. QED  BY <1>2, <1>3, <2>1, Moved, ZenonT(60)
<1>5. H[id].offset = table[j].currentOffset
  <2>1. View(table[j], fds).offset = table[j].currentOffset
    BY DEF View
  <2>. QED  BY <1>1, <2>1, Zenon
<1>6. CASE n = 0
  <2>1. o = H[id].offset
    BY <1>1, <1>5, <1>6
  <2>2. [H[id] EXCEPT !.offset = o] = H[id]
    BY <1>1, <2>1 DEF View
  <2>3. H = [x \in IdsOf(table) |-> H[x]]
    BY DEF HandleMap
  <2> HIDE DEF o, H, id
  <2>4. MoveHandle(H, id, o) = H
    BY <2>2, <2>3 DEF MoveHandle
  <2>. QED  BY <1>2, <1>3, <1>4, <1>6, <2>4, AbsOther, ZenonT(60) DEF H
<1>7. CASE n # 0
  <2>1. n \in 1 .. UserSize
    BY <1>7
  <2>2. HandleMap(table', fds') = MoveHandle(H, id, H[id].offset + n)
    BY <1>4, <1>5
  <2>3. UNCHANGED <<dir, user>>
    OBVIOUS
  <2> HIDE DEF id
  <2>. QED  BY <1>1, <1>3, <1>4, <1>7, <2>1, <2>2, <2>3, AbsWrite, ZenonT(60)
<1>. QED  BY <1>6, <1>7

\* A write that the host cuts short.
LEMMA WriteCut ==
  ASSUME IInv, NEW j \in Slots, InUse(table, j), NEW n \in 0 .. UserSize, NEW c, Writes(j, c, n),
         table' = [k \in Slots |-> EmptySlot], fds' = [f \in Fds |-> Closed],
         UNCHANGED <<dir, user>>
  PROVE  IInv' /\ Promised!Next
<1>1. /\ table' \in Tables /\ fds' \in FdTables /\ Consistent(table', fds')
      /\ HandleMap(table', fds') = <<>>
  BY Emptied, Zenon
<1>2. /\ data' \in [Inodes -> Seq(Byte)]
      /\ n = 0 => data' = data
      /\ n # 0 => Rewrites(table[j].id, n)
  BY WrittenIs
<1>3. IInv'
  BY <1>1, <1>2 DEF IInv, FilesType
<1>4. CASE n = 0
  BY <1>1, <1>2, <1>3, <1>4, AbsHalt
<1>5. CASE n # 0
  <2>1. n \in 1 .. UserSize
    BY <1>5
  <2>2. table[j].id \in IdsOf(table)
    BY UsedIs, ZenonT(60)
  <2>. QED  BY <1>1, <1>2, <1>3, <1>5, <2>1, <2>2, AbsCutShort, ZenonT(60)
<1>. QED  BY <1>4, <1>5

LEMMA WriteStep ==
  ASSUME IInv, SC_Write
  PROVE  IInv' /\ Promised!Next
<1>1. PICK size \in Sizes, id \in FileIds :
        \/ UNCHANGED <<fileVars, user>>
        \/ /\ CanWrite(user2System(size), size, id) /\ Write(user2System(size), id)
           /\ UNCHANGED user
        \/ /\ CanWrite(user2System(size), size, id)
           /\ \E n \in 0 .. size - 1 : ShortWrite(user2System(size), id, n)
           /\ UNCHANGED user
  BY DEF SC_Write, Fail, Stop
<1>2. CASE UNCHANGED <<fileVars, user>>
  BY <1>2, SameStep, UserSame
<1>3. ASSUME CanWrite(user2System(size), size, id), UNCHANGED user,
             \/ Write(user2System(size), id)
             \/ \E n \in 0 .. size - 1 : ShortWrite(user2System(size), id, n)
      PROVE  IInv' /\ Promised!Next
  <2> DEFINE j == SlotOf(table, id)
             b == user2System(size)
  <2>0. id \in Int /\ size \in Int /\ size <= UserSize /\ UserSize \in Nat
    BY SyscallAssumption
  <2>1. j \in Slots /\ InUse(table, j) /\ table[j].openMode = MODE_READWRITE
    BY <1>3, <2>0, FoundIs, ZenonT(60) DEF CanWrite
  <2>2. /\ size \in 0 .. UserSize
        /\ b \in Seq(Byte) /\ Len(b) = size /\ \A k \in 1 .. size : b[k] = user[k]
    <3>1. Len(b) = size
      BY <1>3 DEF CanWrite
    <3>. QED  BY <2>0, <3>1, CopyIn
  <2>3. CASE Write(b, id)
    <3>1. Writes(j, b, size) /\ UNCHANGED <<fds, dir, user>>
      BY <1>3, <2>1, <2>2, <2>3, ZenonT(60) DEF Write, Writes
    <3>2. table' = MoveSlot(table, j, table[j].currentOffset + size)
      BY <2>1, <2>2, <2>3 DEF Write, IInv, FilesType, Tables, MoveSlot
    <3> HIDE DEF j, b
    <3>. QED  BY <2>1, <2>2, <3>1, <3>2, WriteDone, ZenonT(60)
  <2>4. CASE \E n \in 0 .. size - 1 : ShortWrite(b, id, n)
    <3>1. PICK n \in 0 .. size - 1 : ShortWrite(b, id, n)
      BY <2>4
    <3> DEFINE c == SubSeq(b, 1, n)
    <3>2. n \in 0 .. UserSize /\ c \in Seq(Byte) /\ Len(c) = n /\ \A k \in 1 .. n : c[k] = user[k]
      <4> HIDE DEF b
      <4>. QED  BY <2>0, <2>2
    <3> HIDE DEF c
    <3>3. /\ Writes(j, c, n) /\ UNCHANGED <<dir, user>>
          /\ table' = [k \in Slots |-> EmptySlot] /\ fds' = [f \in Fds |-> Closed]
      BY <1>3, <2>1, <3>1, <3>2, ZenonT(60) DEF ShortWrite, Writes, c
    <3> HIDE DEF j
    <3>. QED  BY <2>1, <3>2, <3>3, WriteCut, ZenonT(60)
  <2>. QED  BY <1>3, <2>3, <2>4
<1>. QED  BY <1>1, <1>2, <1>3

\* The kernel buffer after a read.
Filled(size, got, buffer) ==
  [k \in 1 .. size |-> IF k <= Len(got) THEN got[k] ELSE buffer[k]]

ReadCase(size, id, buffer) ==
  \/ /\ \E text \in [1 .. size -> Typed] : user' = system2User(text, size)
     /\ UNCHANGED fileVars
  \/ user' = system2User(buffer, size) /\ UNCHANGED fileVars
  \/ /\ IsOpen(id) /\ Read(size, id)
     /\ user' = system2User(Filled(size, ReadBytes(size, id), buffer), size)

LEMMA ReadStep ==
  ASSUME IInv, SC_Read
  PROVE  IInv' /\ Promised!Next
<1>1. \/ Stop("Read", "aborted")
      \/ \E size \in {n \in Sizes : n >= 0}, id \in FileIds :
         \E buffer \in [1 .. size -> Garbage] : ReadCase(size, id, buffer)
  BY ZenonT(60) DEF SC_Read, ReadCase, Filled
<1>b. CASE Stop("Read", "aborted")
  BY <1>b, SameStep, UserSame DEF Stop
<1> SUFFICES ASSUME NEW size \in {n \in Sizes : n >= 0}, NEW id \in FileIds,
                    \E buffer \in [1 .. size -> Garbage] : ReadCase(size, id, buffer)
             PROVE  IInv' /\ Promised!Next
  BY <1>1, <1>b
<1>2. PICK buffer \in [1 .. size -> Garbage] : ReadCase(size, id, buffer)
  OBVIOUS
<1>3. /\ id \in Int /\ size \in 0 .. UserSize /\ UserSize \in Nat
      /\ \A k \in 1 .. size : buffer[k] \in Byte
  BY SyscallAssumption
<1>4. CASE /\ \E text \in [1 .. size -> Typed] : user' = system2User(text, size)
           /\ UNCHANGED fileVars
  <2>1. PICK text \in [1 .. size -> Typed] : user' = system2User(text, size)
    BY <1>4
  <2>2. \A k \in 1 .. size : text[k] \in Byte
    BY SyscallAssumption
  <2>3. user' \in [1 .. UserSize -> Byte]
    BY <1>3, <2>1, <2>2, CopyOut
  <2>. QED  BY <1>4, <2>3, SameStep
<1>5. CASE user' = system2User(buffer, size) /\ UNCHANGED fileVars
  <2>1. user' \in [1 .. UserSize -> Byte]
    BY <1>3, <1>5, CopyOut
  <2>. QED  BY <1>5, <2>1, SameStep
<1>6. CASE /\ IsOpen(id) /\ Read(size, id)
           /\ user' = system2User(Filled(size, ReadBytes(size, id), buffer), size)
  <2> DEFINE j == SlotOf(table, id)
             s == table[j]
             off == s.currentOffset
             got == ReadBytes(size, id)
             n == Available(s, size, off)
             filled == Filled(size, got, buffer)
             o == off + Len(got)
             H == HandleMap(table, fds)
  <2>0. size \in Nat
    BY <1>3
  <2>1. j \in Slots /\ InUse(table, j) /\ s.id = id
    BY <1>3, <1>6, FoundIs, ZenonT(60) DEF IsOpen
  <2>2. /\ off \in Nat /\ Bytes(s) \in Seq(Byte)
        /\ id \in IdsOf(table) /\ H[id] = View(s, fds)
    BY <2>1, UsedIs, Zenon
  <2>3. /\ got \in Seq(Byte) /\ Length(s) \in Nat
        /\ n <= 0 => Len(got) = 0
        /\ n > 0 => Len(got) = n
        /\ \A k \in 1 .. n : got[k] = Bytes(s)[off + k]
        /\ n \in Int
    <3>1. size \in Nat /\ got = ReadAt(s, size, off)
      BY <2>0 DEF ReadBytes
    <3>2. off \in Nat /\ Bytes(s) \in Seq(Byte)
      BY <2>2, Zenon
    <3> HIDE DEF got, s, off
    <3>. QED  BY <3>1, <3>2, ReadIs, ZenonT(60)
  <2>4. table' = [table EXCEPT ![j].currentOffset = @ + Len(got)] /\ UNCHANGED <<fds, dir, data>>
    BY <1>6 DEF Read
  <2>5. table' = MoveSlot(table, j, o) /\ o \in Nat
    <3>1. o \in Nat
      <4>1. off \in Nat /\ got \in Seq(Byte)
        BY <2>2, <2>3, Zenon
      <4> HIDE DEF off, got
      <4>. QED  BY <4>1
    <3>2. table' = MoveSlot(table, j, o)
      BY <2>1, <2>4, Zenon DEF IInv, FilesType, Tables, MoveSlot
    <3>. QED  BY <3>1, <3>2
  <2>6. user' = system2User(filled, size)
    BY <1>6
  <2>7. H[id].offset = off /\ H[id].inode = fds[s.file].inode
    <3>1. View(s, fds).offset = s.currentOffset /\ View(s, fds).inode = fds[s.file].inode
      BY ViewIs, Zenon
    <3>. QED  BY <2>2, <3>1, Zenon
  <2>8. data' \in [Inodes -> Seq(Byte)]
    BY <2>4 DEF IInv, FilesType
  <2>a. \A k \in 1 .. size : k <= Len(got) => filled[k] = got[k]
    BY DEF Filled
  <2> HIDE DEF got, n
  <2>9. \A k \in 1 .. size : filled[k] \in Byte
    BY <1>3, <2>3 DEF Filled
  <2> HIDE DEF filled
  <2>10. /\ user' \in [1 .. UserSize -> Byte]
         /\ \A k \in 1 .. UserSize :
              /\ k > size => user'[k] = user[k]
              /\ k <= size /\ (\A q \in 1 .. k - 1 : filled[q] # 0) => user'[k] = filled[k]
    <3>1. /\ system2User(filled, size) \in [1 .. UserSize -> Byte]
          /\ \A k \in 1 .. UserSize :
               /\ k > size => system2User(filled, size)[k] = user[k]
               /\ k <= size /\ (\A q \in 1 .. k - 1 : filled[q] # 0) =>
                    system2User(filled, size)[k] = filled[k]
      BY <2>0, <2>9, CopyOut, ZenonT(60)
    <3>. QED  BY <2>6, <3>1, Zenon
  <2> HIDE DEF o
  <2>11. IInv' /\ HandleMap(table', fds') = MoveHandle(H, id, o)
    <3>1. IInv' /\ HandleMap(table', fds') = MoveHandle(H, table[j].id, o)
      <4>1. /\ j \in Slots /\ InUse(table, j) /\ o \in Nat
            /\ table' = MoveSlot(table, j, o) /\ UNCHANGED <<fds, dir>>
            /\ user' \in [1 .. UserSize -> Byte]
        BY <2>1, <2>4, <2>5, <2>10
      <4> HIDE DEF j
      <4>. QED  BY <4>1, <2>8, Moved
    <3>. QED  BY <3>1, <2>1
  <2>b. /\ off \in Nat /\ size \in Nat /\ Length(s) \in Nat /\ n \in Int /\ n <= size
        /\ n = IF off + size <= Length(s) THEN size ELSE Length(s) - off
    <3>1. off \in Nat /\ size \in Nat /\ Length(s) \in Nat
      BY <2>0, <2>2, <2>3, Zenon
    <3>2. n = IF off + size <= Length(s) THEN size ELSE Length(s) - off
      BY Zenon DEF n, Available
    <3> HIDE DEF off, s
    <3>. QED  BY <3>1, <3>2
  <2>12. CASE n <= 0
    <3>1. o = off
      BY <2>2, <2>3, <2>12 DEF o
    <3>3. MoveHandle(H, id, o) = H
      <4>1. [H[id] EXCEPT !.offset = o] = H[id]
        BY <3>1, <2>2 DEF View
      <4>2. H = [x \in IdsOf(table) |-> H[x]]
        BY DEF HandleMap
      <4>. QED  BY <4>1, <4>2 DEF MoveHandle
    <3>. QED  BY <3>3, <2>4, <2>10, <2>11, AbsOther
  <2>13. CASE n > 0
    <3> DEFINE B == Bytes(s)
    <3>0. size \in 1 .. UserSize
      BY <1>3, <2>b, <2>13
    <3>1. B = data[H[id].inode] /\ Length(s) = Len(B)
      BY <2>7 DEF Bytes, Length
    <3>2. n = Promised!Lesser(size, Len(B) - off)
      <4>1. off \in Nat /\ size \in Nat /\ Length(s) \in Nat /\ Length(s) = Len(B)
        BY <2>b, <3>1, Zenon
      <4>2. n = IF off + size <= Length(s) THEN size ELSE Length(s) - off
        BY <2>b, ZenonT(60)
      <4> HIDE DEF off, B, s
      <4>. QED  BY <4>1, <4>2 DEF Promised!Lesser
    <3>3. Len(got) = n /\ \A k \in 1 .. n : got[k] = B[off + k]
      BY <2>3, <2>13
    <3> HIDE DEF B
    <3>4. o = off + n
      BY <3>3 DEF o
    <3>5. ASSUME NEW k \in 1 .. n PROVE filled[k] = B[off + k]
      <4>1. k \in 1 .. size /\ k <= n
        <5>1. n \in Int /\ n <= size /\ size \in Nat
          BY <2>b, Zenon
        <5>. QED  BY <5>1
      <4>. QED  BY <4>1, <2>a, <3>3, Zenon
    <3>6. ASSUME NEW k \in 1 .. n, \A q \in 1 .. k - 1 : B[off + q] # 0
          PROVE  user'[k] = B[off + k]
      <4>1. k \in 1 .. UserSize /\ k <= size /\ \A q \in 1 .. k - 1 : q \in 1 .. n
        BY <1>3, <2>b
      <4>2. \A q \in 1 .. k - 1 : filled[q] # 0
        BY <4>1, <3>5, <3>6
      <4>. QED  BY <4>1, <4>2, <3>5, <2>10, ZenonT(60)
    <3>7. \A k \in size + 1 .. UserSize : user'[k] = user[k]
      BY <1>3, <2>10
    <3> HIDE DEF off, H
    <3>8. /\ n = Promised!Lesser(size, Len(data[H[id].inode]) - H[id].offset)
          /\ HandleMap(table', fds') = MoveHandle(H, id, H[id].offset + n)
          /\ \A k \in 1 .. n :
               (\A q \in 1 .. k - 1 : data[H[id].inode][H[id].offset + q] # 0)
                 => user'[k] = data[H[id].inode][H[id].offset + k]
      <4>1. off = H[id].offset /\ data[H[id].inode] = B
        BY <3>1, <2>7, ZenonT(60)
      <4>2. HandleMap(table', fds') = MoveHandle(H, id, off + n)
        BY <3>4, <2>11
      <4>3. \A k \in 1 .. n : (\A q \in 1 .. k - 1 : B[off + q] # 0) => user'[k] = B[off + k]
        BY <3>6
      <4>. QED  BY ONLY <4>1, <4>2, <4>3, <3>2
    <3>9. UNCHANGED <<dir, data>> /\ id \in IdsOf(table) /\ user' \in [1 .. UserSize -> Byte]
      BY <2>2, <2>4, <2>10
    <3>10. Promised!Next
      BY ONLY <3>0, <3>7, <3>8, <3>9, <2>13, AbsRead, ZenonT(60) DEF H
    <3>11. IInv'
      BY <2>11, Zenon
    <3>. QED  BY <3>10, <3>11, Zenon
  <2>. QED  BY <2>b, <2>12, <2>13
<1>. QED  BY <1>2, <1>4, <1>5, <1>6 DEF ReadCase

\* Close of a number that no file in use has: the handles stay.
LEMMA CloseNone ==
  ASSUME IInv, NEW f \in Int, \A j \in Slots : InUse(table, j) => table[j].id # f,
         table' = CloseTable(table, f), fds' \in FdTables,
         \A g \in Fds \ {f} : fds'[g] = fds[g]
  PROVE  /\ table' \in Tables /\ Consistent(table', fds')
         /\ HandleMap(table', fds') = HandleMap(table, fds)
<1>0. table \in Tables /\ fds \in FdTables /\ Consistent(table, fds)
  BY DEF IInv, FilesType
<1>1. /\ Consistent(table', fds')
      /\ \A k \in Slots : InUse(table', k) <=> InUse(table, k) /\ table[k].id # f
  BY <1>0, CloseKeeps, ZenonT(60)
<1>2. table' \in Tables /\ \A k \in Slots : table[k].id # f => table'[k] = table[k]
  BY <1>0, CloseIs, ZenonT(60)
<1>3. ASSUME NEW j \in Slots, InUse(table, j)
      PROVE  table'[j] = table[j] /\ View(table[j], fds') = View(table[j], fds)
  <2>1. table[j].file = table[j].id /\ table[j].id \in Fds
    BY <1>0, <1>3, SlotIs
  <2>2. table[j].id # f
    BY <1>3
  <2>3. fds'[table[j].file] = fds[table[j].file]
    BY <2>1, <2>2
  <2>. QED  BY <1>2, <2>2, <2>3 DEF View
<1>4. HandleMap(table', fds') = HandleMap(table, fds)
  <2>1. \A j \in Slots : InUse(table', j) <=> InUse(table, j)
    BY <1>1
  <2>2. \A j \in Slots : InUse(table, j) =>
          table'[j].id = table[j].id /\ View(table'[j], fds') = View(table[j], fds)
    BY <1>3, Zenon
  <2>. QED  BY <1>0, <1>1, <1>2, <2>1, <2>2, MapSame, ZenonT(60)
<1>. QED  BY <1>1, <1>2, <1>4

LEMMA CloseStep ==
  ASSUME IInv, SC_Close
  PROVE  IInv' /\ Promised!Next
<1>1. PICK id \in FileIds :
        \/ Stop("Close", "aborted")
        \/ /\ table' = CloseTable(table, id) /\ fds' = CloseHost(table, fds, id)
           /\ UNCHANGED <<dir, data, user>>
  BY DEF SC_Close
<1>2. CASE Stop("Close", "aborted")
  BY <1>2, SameStep, UserSame DEF Stop
<1>3. CASE /\ table' = CloseTable(table, id) /\ fds' = CloseHost(table, fds, id)
           /\ UNCHANGED <<dir, data, user>>
  <2>0. id \in Int /\ table \in Tables /\ fds \in FdTables /\ Consistent(table, fds)
    BY SyscallAssumption DEF IInv, FilesType
  <2>1. fds' \in FdTables /\ \A f \in Fds \ {id} : fds'[f] = fds[f]
    BY <1>3, <2>0, CloseHostIs
  <2>2. CASE \A j \in Slots : InUse(table, j) => table[j].id # id
    <3>1. /\ table' \in Tables /\ Consistent(table', fds')
          /\ HandleMap(table', fds') = HandleMap(table, fds)
      BY <1>3, <2>0, <2>1, <2>2, CloseNone, ZenonT(60)
    <3>2. IInv' /\ user' \in [1 .. UserSize -> Byte]
      BY <1>3, <2>1, <3>1 DEF IInv, FilesType
    <3>. QED  BY <1>3, <3>1, <3>2, AbsOther
  <2>3. CASE \E j \in Slots : InUse(table, j) /\ table[j].id = id
    <3>1. PICK j \in Slots : InUse(table, j) /\ table[j].id = id
      BY <2>3
    <3>2. /\ Consistent(table', fds')
          /\ \A k \in Slots : InUse(table', k) <=> InUse(table, k) /\ table[k].id # id
      BY <1>3, <2>0, <2>1, CloseKeeps, ZenonT(60)
    <3>3. table' \in Tables /\ \A k \in Slots : table[k].id # id => table'[k] = table[k]
      BY <1>3, <2>0, CloseIs, ZenonT(60)
    <3>4. IInv'
      BY <1>3, <2>1, <3>2, <3>3 DEF IInv, FilesType
    <3>5. \A k \in Slots \ {j} : InUse(table, k) => table[k].id # id
      BY <2>0, <3>1 DEF Consistent, InUse
    <3>6. ~InUse(table', j) /\ SameButFor(table, table', j)
      BY <3>1, <3>2, <3>3, <3>5, Zenon DEF SameButFor
    <3>7. HandleMap(table', fds') =
            [g \in IdsOf(table) \ {table[j].id} |-> HandleMap(table, fds)[g]]
      <4>1. \A f \in Fds \ {table[j].id} : fds'[f] = fds[f]
        BY <2>1, <3>1
      <4>2. InUse(table, j) /\ ~InUse(table', j) /\ Consistent(table', fds') /\ table' \in Tables
        BY <3>1, <3>2, <3>3, <3>6, Zenon
      <4>. QED  BY <2>0, <2>1, <3>6, <4>1, <4>2, MapClose, SMTT(30)
    <3>8. id \in IdsOf(table)
      BY <3>1, UsedIs, ZenonT(60)
    <3>9. HandleMap(table', fds') = [g \in IdsOf(table) \ {id} |-> HandleMap(table, fds)[g]]
      BY <3>1, <3>7
    <3>10. Promised!Next
      BY <1>3, <3>8, <3>9, AbsClose
    <3>. QED  BY <3>4, <3>10
  <2>. QED  BY <2>2, <2>3
<1>. QED  BY <1>1, <1>2, <1>3

LEMMA CreateStep ==
  ASSUME IInv, SC_Create
  PROVE  IInv' /\ Promised!Next
<1>1. CASE Fail("Create")
  BY <1>1, SameStep, UserSame DEF Fail
<1>2. CASE Stop("Create", "aborted")
  BY <1>2, SameStep, UserSame DEF Stop
<1>3. CASE \E n \in Names :
             /\ CanMake(n)
             /\ Create(n, FreshFd, IF dir[n] # 0 THEN dir[n] ELSE Min(FreeInodes))
             /\ UNCHANGED user
  <2>1. PICK n \in Names :
          /\ CanMake(n)
          /\ Create(n, FreshFd, IF dir[n] # 0 THEN dir[n] ELSE Min(FreeInodes))
          /\ UNCHANGED user
    BY <1>3
  <2> DEFINE i == IF dir[n] # 0 THEN dir[n] ELSE Min(FreeInodes)
             f == FreshFd
             v == [inode |-> i, writable |-> TRUE]
             held == [fds EXCEPT ![f] = v]
  <2>2. /\ table \in Tables /\ fds \in FdTables /\ Consistent(table, fds)
        /\ dir \in [Names -> Inodes \cup {0}] /\ data \in [Inodes -> Seq(Byte)]
    BY DEF IInv, FilesType
  <2>3. f \in Fds /\ fds[f].inode = 0
    BY <2>1, FreshIs DEF CanMake
  <2>4. /\ i \in Inodes
        /\ i = dir[n] \/ ( /\ dir[n] = 0
                           /\ \A m \in Names : dir[m] # i
                           /\ \A g \in Fds : fds[g].inode # i )
    BY <2>1, <2>2, FreeInodeIs, ZenonT(60) DEF CanMake
  <2>5. v \in [inode : Inodes \cup {0}, writable : BOOLEAN]
    BY <2>4
  <2>6. /\ dir' = [dir EXCEPT ![n] = i] /\ data' = [data EXCEPT ![i] = <<>>]
        /\ table' = CloseTable(table, f) /\ fds' = CloseHost(table, held, f)
    BY <2>1 DEF Create
  <2> HIDE DEF i, f, v
  <2>7. f \in Int /\ \A j \in Slots : InUse(table, j) => table[j].id # f
    <3>1. f \in Nat
      BY <2>3, FdsAre, Zenon
    <3>. QED  BY <2>2, <2>3, <3>1, NoFileHas
  <2>8. held \in FdTables /\ \A g \in Fds \ {f} : held[g] = fds[g]
    BY <2>2, <2>3, <2>5 DEF FdTables
  <2>9. fds' \in FdTables /\ \A g \in Fds \ {f} : fds'[g] = fds[g]
    <3> HIDE DEF held
    <3>. QED  BY <2>2, <2>6, <2>7, <2>8, CloseHostIs
  <2>10. /\ table' \in Tables /\ Consistent(table', fds')
         /\ HandleMap(table', fds') = HandleMap(table, fds)
    BY <2>6, <2>7, <2>9, CloseNone, ZenonT(60)
  <2>11. dir' \in [Names -> Inodes \cup {0}] /\ data' \in [Inodes -> Seq(Byte)]
    BY <2>2, <2>4, <2>6
  <2>12. IInv'
    BY <2>1, <2>2, <2>9, <2>10, <2>11, ZenonT(60) DEF IInv, FilesType
  <2>13. (\A g \in Fds : fds[g].inode # i) =>
           \A h \in IdsOf(table) : HandleMap(table, fds)[h].inode # i
    <3> SUFFICES ASSUME \A g \in Fds : fds[g].inode # i, NEW h \in IdsOf(table)
                 PROVE  HandleMap(table, fds)[h].inode # i
      OBVIOUS
    <3>1. PICK j \in Slots : InUse(table, j) /\ table[j].id = h
      BY <2>2, HandlesIs, ZenonT(60)
    <3>2. HandleMap(table, fds)[h] = View(table[j], fds)
      BY <3>1, UsedIs, ZenonT(60)
    <3>3. table[j].file \in Fds
      BY <2>2, <3>1, SlotIs, ZenonT(60)
    <3>. QED  BY <3>2, <3>3 DEF View
  <2>14. Promised!Next
    BY <2>1, <2>4, <2>6, <2>10, <2>13, AbsCreate, ZenonT(60)
  <2>. QED  BY <2>12, <2>14
<1>. QED  BY <1>1, <1>2, <1>3 DEF SC_Create

LEMMA OpenModeStep ==
  ASSUME IInv, NEW n \in Names, NEW type \in {MODE_READWRITE, MODE_READ},
         NEW copy \in CopiedNames(n), OpenMode(n, type, copy), UNCHANGED user
  PROVE  IInv' /\ Promised!Next
<1> DEFINE f == OpenHost(n)
           v == [inode |-> dir[n], writable |-> type = MODE_READWRITE]
           held == IF f = -1 THEN fds ELSE [fds EXCEPT ![f] = v]
           j == Min(FreeSlots)
           s == NewSlot(f, type, copy)
<1>1. /\ table \in Tables /\ fds \in FdTables /\ Consistent(table, fds)
      /\ dir[n] \in Inodes \cup {0}
  BY DEF IInv, FilesType
<1>2. f # -1 => f \in Fds /\ fds[f].inode = 0 /\ dir[n] # 0
  BY FreshIs DEF OpenHost
<1>3. v \in [inode : Inodes \cup {0}, writable : BOOLEAN]
  BY <1>1
<1>4. \/ FreeSlots # {} /\ table' = [table EXCEPT ![j] = s] /\ fds' = held
      \/ FreeSlots = {} /\ table' = CloseTable(table, f) /\ fds' = CloseHost(table, held, f)
  BY Zenon DEF OpenMode, EnterSlot
<1>5. UNCHANGED <<dir, data, user>>
  BY Zenon DEF OpenMode
<1>a. s.open /\ s.id = f /\ s.file = f /\ s.openMode = type /\ s.currentOffset = 0
  BY DEF NewSlot
<1>b. v.inode = dir[n]
  OBVIOUS
<1> HIDE DEF f, j
<1>6. CASE FreeSlots = {}
  <2>1. f \in Int /\ (f # -1 => f \in Fds)
    <3>1. f # -1 => f \in Nat
      BY <1>2, FdsAre, Zenon
    <3>. QED  BY <1>2, <3>1
  <2>2. held \in FdTables /\ \A g \in Fds \ {f} : held[g] = fds[g]
    <3> HIDE DEF v
    <3>. QED  BY <1>1, <1>3, <2>1 DEF FdTables
  <2>3. fds' \in FdTables /\ \A g \in Fds \ {f} : fds'[g] = fds[g]
    <3> HIDE DEF held
    <3>. QED  BY <1>1, <1>4, <1>6, <2>1, <2>2, CloseHostIs
  <2>4. \A k \in Slots : InUse(table, k) => table[k].id # f
    <3>1. CASE f = -1
      BY <3>1 DEF InUse
    <3>2. CASE f # -1
      BY <1>1, <1>2, <3>2, NoFileHas
    <3>. QED  BY <3>1, <3>2
  <2>5. /\ table' \in Tables /\ Consistent(table', fds')
        /\ HandleMap(table', fds') = HandleMap(table, fds)
    <3>1. table' = CloseTable(table, f)
      BY <1>4, <1>6
    <3>. QED  BY <2>1, <2>3, <2>4, <3>1, CloseNone, ZenonT(60)
  <2>6. IInv' /\ user' \in [1 .. UserSize -> Byte]
    BY <1>5, <2>3, <2>5 DEF IInv, FilesType
  <2>. QED  BY <1>5, <2>5, <2>6, AbsOther
<1>7. CASE FreeSlots # {}
  <2>1. j \in Slots /\ ~table[j].open /\ \A k \in Slots : k < j => table[k].open
    BY <1>7, FreeSlotIs DEF j
  <2>2. f \in Fds \cup {-1} /\ (f # -1 => fds[f].inode = 0 /\ dir[n] # 0)
    BY <1>2
  <2>3. table' = [table EXCEPT ![j] = s] /\ fds' = held
    BY <1>4, <1>7, Zenon
  <2>a. s \in SlotRecords /\ (v.writable <=> s.openMode = MODE_READWRITE)
    <3>1. copy \in SlotNames
      BY DEF SlotNames
    <3>2. f \in Int /\ type \in Int
      <4>1. f \in Nat \cup {-1}
        BY <2>2, FdsAre, Zenon
      <4>2. type \in Int
        BY DEF MODE_READ, MODE_READWRITE
      <4>. QED  BY <4>1, <4>2
    <3>3. 0 \in Nat
      OBVIOUS
    <3>. QED  BY <2>2, <3>1, <3>2, <3>3, ZenonT(60) DEF NewSlot, SlotRecords
  <2> HIDE DEF s, v
  <2>6. table' \in Tables /\ table'[j] = s /\ \A k \in Slots \ {j} : table'[k] = table[k]
    BY <1>1, <2>1, <2>3, <2>a DEF Tables
  <2>b. /\ fds' \in FdTables /\ Consistent(table, fds')
        /\ f # -1 => fds'[f] = v /\ \A k \in Slots : InUse(table, k) => table[k].id # f
    <3>1. CASE f = -1
      BY <1>1, <2>3, <3>1
    <3>2. CASE f # -1
      <4>1. fds' = [fds EXCEPT ![f] = v] /\ f \in Fds
        BY <2>2, <2>3, <3>2
      <4>2. [fds EXCEPT ![f] = v] \in FdTables /\ Consistent(table, [fds EXCEPT ![f] = v])
        BY <1>1, <1>3, <2>2, <3>2, Hold
      <4>3. fds'[f] = v
        BY <1>1, <4>1 DEF FdTables
      <4>. QED  BY <1>1, <2>2, <3>2, <4>1, <4>2, <4>3, NoFileHas
    <3>. QED  BY <3>1, <3>2
  <2>4. Consistent(table', fds')
    <3>1. table'[j].open /\ table'[j].id = f /\ table'[j].file = f
      BY <1>a, <2>6, Zenon
    <3>2. f # -1 => /\ \A k \in Slots : InUse(table, k) => table[k].id # f
                    /\ fds'[f].inode # 0
                    /\ fds'[f].writable <=> table'[j].openMode = MODE_READWRITE
      BY <1>b, <2>2, <2>6, <2>a, <2>b, ZenonT(60)
    <3>. QED  BY <1>1, <2>1, <2>2, <2>6, <2>b, <3>1, <3>2, EnterKeeps, ZenonT(60)
  <2>5. IInv' /\ user' \in [1 .. UserSize -> Byte]
    BY <1>5, <2>4, <2>6, <2>b, ZenonT(60) DEF IInv, FilesType
  <2>7. ~InUse(table, j)
    BY <2>1 DEF InUse
  <2>8. CASE f = -1
    <3>1. ~InUse(table', j)
      BY <1>a, <2>6, <2>8 DEF InUse
    <3>2. \A k \in Slots : InUse(table', k) <=> InUse(table, k)
      BY <2>6, <2>7, <3>1 DEF InUse
    <3>3. fds' = fds
      BY <2>3, <2>8
    <3>4. \A k \in Slots : InUse(table, k) =>
            table'[k].id = table[k].id /\ View(table'[k], fds') = View(table[k], fds)
      BY <2>6, <2>7, <3>3
    <3>5. HandleMap(table', fds') = HandleMap(table, fds)
      BY <1>1, <2>4, <2>6, <2>b, <3>2, <3>4, MapSame, ZenonT(60)
    <3>. QED  BY <1>5, <2>5, <3>5, AbsOther
  <2>9. CASE f # -1
    <3> DEFINE mode == IF type = MODE_READ THEN "read" ELSE "readwrite"
    <3>1. InUse(table', j) /\ table'[j].id = f
      BY <1>a, <2>6, <2>9 DEF InUse
    <3>2. fds' = [fds EXCEPT ![f] = v] /\ f \in Fds
      BY <2>2, <2>3, <2>9
    <3>3. fds'[f] = v /\ \A g \in Fds \ {f} : fds'[g] = fds[g]
      BY <1>1, <3>2 DEF FdTables
    <3>4. View(table'[j], fds') = [inode |-> dir[n], mode |-> mode, offset |-> 0]
      BY <1>a, <1>b, <2>6, <3>3, ZenonT(60) DEF View
    <3>5. OneMore(table, fds, table', fds', table'[j].id, View(table'[j], fds'))
      BY <1>1, <2>1, <2>4, <2>6, <2>7, <2>b, <3>1, <3>3, MapEnter, ZenonT(60)
    <3>6. /\ f \notin IdsOf(table)
          /\ HandleMap(table', fds') =
               [id \in IdsOf(table) \cup {f} |->
                  IF id = f THEN [inode |-> dir[n], mode |-> mode, offset |-> 0]
                  ELSE HandleMap(table, fds)[id]]
      BY <3>1, <3>4, <3>5, ZenonT(60) DEF OneMore
    <3>7. mode \in {"read", "readwrite"} /\ dir[n] # 0
      BY <2>2, <2>9
    <3> HIDE DEF mode
    <3>8. Promised!Next
      BY <1>5, <3>2, <3>6, <3>7, AbsOpen, ZenonT(60)
    <3>. QED  BY <2>5, <3>8
  <2>. QED  BY <2>8, <2>9
<1>. QED  BY <1>6, <1>7

LEMMA OpenStep ==
  ASSUME IInv, SC_Open
  PROVE  IInv' /\ Promised!Next
<1>1. CASE Fail("Open")
  BY <1>1, SameStep, UserSame DEF Fail
<1>2. CASE \E n \in Names, type \in {MODE_READWRITE, MODE_READ} :
             (\E copy \in CopiedNames(n) : OpenMode(n, type, copy)) /\ UNCHANGED user
  BY <1>2, OpenModeStep
<1>. QED  BY <1>1, <1>2 DEF SC_Open

-----------------------------------------------------------------------------
(* Theorems                                                                 *)

LEMMA NextStep == IInv /\ [Next]_vars => IInv' /\ (Promised!Next \/ UNCHANGED vars)
<1> SUFFICES ASSUME IInv, [Next]_vars PROVE IInv' /\ (Promised!Next \/ UNCHANGED vars)
  OBVIOUS
<1>1. CASE UNCHANGED vars
  <2>1. UNCHANGED fileVars /\ UNCHANGED user
    BY <1>1 DEF vars
  <2>. QED  BY <1>1, <2>1, SameStep, UserSame
<1>2. CASE Next
  BY <1>2, HaltStep, ConsoleStep, ReadStringStep, CreateStep, OpenStep, CloseStep,
     WriteStep, ReadStep, SeekStep, RemoveStep DEF Next
<1>. QED  BY <1>1, <1>2

\* The file calls always satisfy the inductive invariant.
THEOREM Invariance == Spec => []IInv
<1>1. SyscallInit => IInv
  BY InitStep
<1>2. IInv /\ [Next]_vars => IInv'
  BY NextStep
<1>. QED  BY <1>1, <1>2, PTL DEF Spec

\* The table and the host agree after every sequence of calls (filesys.h:182-246,
\* :374-406): for any number of slots, descriptors, files and calls.
THEOREM HandlesCorrect == Spec => []HandlesConsistent
<1>1. IInv => HandlesConsistent
  BY Zenon DEF IInv, Consistent, Unused, HandlesConsistent, InUse
<1>. QED  BY <1>1, Invariance, PTL

\* Every call is a step of AbstractFiles (filesys.h:248-406, openfile.h:45-73,
\* exception.cc:327-381).
THEOREM FilesImplemented == Spec => ImplementsFiles
<1>1. SyscallInit => Promised!Init
  BY InitStep
<1>2. IInv /\ [Next]_vars => Promised!Next \/ UNCHANGED vars
  BY NextStep
<1>3. UNCHANGED vars => UNCHANGED Promised!vars
  <2> SUFFICES ASSUME UNCHANGED vars PROVE UNCHANGED Promised!vars
    OBVIOUS
  <2>1. table' = table /\ fds' = fds /\ dir' = dir /\ data' = data /\ user' = user
    BY DEF vars, fileVars
  <2>. QED  BY <2>1, Zenon DEF Promised!vars, OpenIds
<1>4. IInv /\ [Next]_vars => [Promised!Next]_(Promised!vars)
  BY <1>2, <1>3
<1>. QED  BY <1>1, <1>4, Invariance, PTL DEF Spec, ImplementsFiles, Promised!Spec

=============================================================================
