------------------------------- MODULE Syscall -------------------------------
(***************************************************************************)
(* The system calls: ExceptionHandler and the solve_SC_* functions of      *)
(* userprog/exception.cc over userprog/ksyscall.h, for the one user        *)
(* program of the kernel.  A call runs to its end before the program       *)
(* continues, so each is one action.  GetChar waits for whatever the user  *)
(* types next, so what a call reads from the console is any text, and the  *)
(* characters it prints are kept until the next call (module Console has   *)
(* the device).  Mips has the program counter.                             *)
(*                                                                         *)
(* user is the program's buffer, always passed from its first byte.        *)
(***************************************************************************)
EXTENDS FileTable, NumberIO

CONSTANTS
  Byte,           \* byte values, 0 among them
  UserSize,       \* bytes in the program's buffer
  Texts,          \* what the program has put in its buffer
  Garbage,        \* values of uninitialised heap bytes
  Typed,          \* characters a user types
  Lines,          \* lines a user types, without the newline
  FileIds,        \* fileID arguments
  Sizes,          \* charCount and length arguments, negative ones too
  Positions,      \* pos arguments
  Nums,           \* int arguments of Add
  MaxCalls,       \* bound on the calls a program makes
  ConsoleTurns,   \* bound: which of them may leave files alone
  NumberTurns     \* bound: which of them may read or print a number

ASSUME SyscallAssumption ==
  /\ 0 \in Byte /\ Typed \subseteq Byte /\ Garbage \subseteq Byte
  /\ UserSize \in Nat \ {0}
  /\ Texts \subseteq [1 .. UserSize -> Byte]
  /\ HostFiles \subseteq [Names -> [inode : Inodes \cup {0}, bytes : Seq(Byte)]]
  /\ Sizes \subseteq Int /\ \A size \in Sizes : size <= UserSize
  /\ FileIds \subseteq Int /\ Positions \subseteq Int /\ Lines \subseteq Seq(Int)

VARIABLES
  user,           \* the program's buffer
  printed,        \* characters printed by the last call
  call,           \* the last call: its name and what it was given
  r2,             \* register 2: the result
  status,         \* "running", "halted", "aborted" or "looping"
  calls           \* calls made so far (bounded)

vars == <<fileVars, user, printed, call, r2, status, calls>>

-----------------------------------------------------------------------------

\* user2System(virtAddr, limit): the string at the buffer, cut at limit.
user2System(limit) ==
  LET n   == Max({Min({limit, UserSize}), 0})
      nul == {k \in 1 .. n : user[k] = 0}
  IN  SubSeq(user, 1, IF nul = {} THEN n ELSE Min(nul) - 1)

\* system2User(buffer, virtAddr, limit): bytes up to limit or the first NUL.
system2User(buffer, limit) ==
  LET nul == {k \in 1 .. limit : buffer[k] = 0}
      n   == IF nul = {} THEN limit ELSE Min(nul)
  IN  [k \in 1 .. UserSize |-> IF k <= n THEN buffer[k] ELSE user[k]]

\* A call ends: WriteRegister(2, result), and the program continues.
Returns(name, given, result, output) ==
  /\ call' = [name |-> name, given |-> given]
  /\ r2' = result
  /\ printed' = output
  /\ UNCHANGED status

Return(name, result) == Returns(name, <<>>, result, <<>>)

\* The kernel stops, in an ASSERT or by recursing without end.
Stop(name, how) ==
  /\ call' = [name |-> name, given |-> <<>>]
  /\ status' = how
  /\ UNCHANGED <<fileVars, user, printed, r2>>

Running == status = "running"

Called == Running /\ calls < MaxCalls /\ calls' = calls + 1

ConsoleCalled == Called /\ calls \in ConsoleTurns

NumberCalled == Called /\ calls \in NumberTurns

-----------------------------------------------------------------------------
(* Calls that do not touch files. *)

\* Also how a call ends that is given an address outside the program: ReadMem or
\* WriteMem raises an exception, and ExceptionHandler halts the machine
\* (exception.cc:434-456).
Halt ==
  /\ Running
  /\ status' = IF CloseAllAborts THEN "aborted" ELSE "halted"
  /\ table' = [j \in Slots |-> EmptySlot]
  /\ fds' = [f \in Fds |-> Closed]
  /\ UNCHANGED <<dir, data, user, printed, call, r2, calls>>

ThreadJoin ==
  /\ ConsoleCalled
  /\ Return("ThreadJoin", r2)
  /\ UNCHANGED <<fileVars, user>>

\* Exit, Exec, Join, ThreadFork and the others ExceptionHandler has no case for.
UnexpectedSyscall ==
  /\ ConsoleCalled
  /\ Stop("Unexpected", "aborted")

\* The pointers of the table come from new[] and are not initialised either.  A
\* call that follows one the heap left there stops the kernel.  One that is not
\* followed puts its slot out of use, which is a smaller MAX_FILE, and a name it
\* happens to point at makes Open and Remove refuse, as they may below.
WildTable ==
  /\ Called
  /\ Stop("Wild", "aborted")

Add ==
  /\ ConsoleCalled
  /\ \E op1, op2 \in Nums : Returns("Add", <<op1, op2>>, Wrap(op1 + op2), <<>>)
  /\ UNCHANGED <<fileVars, user>>

\* rand() + 1 with rand() in 0 .. INT_MAX: its ends stand for the rest.
RandomNum ==
  /\ ConsoleCalled
  /\ \E n \in {0, MaxInt} : Return("RandomNum", Wrap(n + 1))
  /\ UNCHANGED <<fileVars, user>>

\* malloc may fail, and does for a length below -1.  Then the handler returns
\* without advancing the PC, and the program makes the same call again.
ReadString ==
  /\ ConsoleCalled
  /\ \E length \in Sizes :
       \/ /\ length >= -1
          /\ \E text \in [1 .. length -> Typed] :
               user' = system2User(Append(text, 0), length + 1)
          /\ Return("ReadString", r2)
          /\ UNCHANGED fileVars
       \/ Stop("ReadString", "looping")

PrintString ==
  /\ ConsoleCalled
  /\ Returns("PrintString", <<>>, r2, user2System(UserSize))
  /\ UNCHANGED <<fileVars, user>>

ReadNum ==
  /\ NumberCalled
  /\ \E line \in Lines : Returns("ReadNum", line, SysReadNum(line), <<>>)
  /\ UNCHANGED <<fileVars, user>>

PrintNum ==
  /\ NumberCalled
  /\ \E num \in Ints : Returns("PrintNum", <<num>>, r2, SysPrintNum(num))
  /\ UNCHANGED <<fileVars, user>>

ReadChar ==
  /\ ConsoleCalled
  /\ \E c \in Typed : Return("ReadChar", c)
  /\ UNCHANGED <<fileVars, user>>

PrintChar ==
  /\ ConsoleCalled
  /\ \E c \in Typed : Returns("PrintChar", <<>>, r2, <<c>>)
  /\ UNCHANGED <<fileVars, user>>

-----------------------------------------------------------------------------
(* Calls on files. *)

\* A call that fails: no file is touched.
Fail(name) ==
  /\ Return(name, -1)
  /\ UNCHANGED <<fileVars, user>>

SC_Create ==
  /\ Called
  /\ \/ Fail("Create")                                  \* the empty name
     \/ \E n \in Names :
          \/ ~CanMake(n) /\ Stop("Create", "aborted")             \* ASSERT(fd >= 0)
          \/ /\ CanMake(n)
             /\ Create(n, FreshFd, IF dir[n] # 0 THEN dir[n] ELSE Min(FreeInodes))
             /\ Return("Create", 0)
             /\ UNCHANGED user

SC_Open ==
  /\ Called
  /\ \/ Fail("Open")                            \* the empty name, or a bad type
     \/ \E n \in Names, type \in {MODE_READWRITE, MODE_READ} :
          \/ checkFileMode(n, type) /\ Fail("Open")
          \/ /\ \E copy \in CopiedNames(n) : OpenMode(n, type, copy)
             /\ Return("Open", OpenResult(n))
             /\ UNCHANGED user

SC_Close ==
  /\ Called
  /\ \E id \in FileIds :
       \/ CloseNeverReturns(table, id) /\ Stop("Close", "aborted")
       \/ /\ ~CloseNeverReturns(table, id)
          /\ table' = CloseTable(table, id)
          /\ fds' = CloseHost(table, fds, id)
          /\ Return("Close", CloseResult(table, id))
          /\ UNCHANGED <<dir, data, user>>

\* new char[n] throws for a negative n.  The default limit of user2System is -1,
\* so a charCount of -1 is the empty string there.
SC_Write ==
  /\ Called
  /\ \E size \in Sizes, id \in FileIds :
       LET buffer == user2System(size) IN
       \/ size < -1 /\ Stop("Write", "aborted")
       \/ /\ size >= -1 /\ id = 1
          /\ Returns("Write", <<>>, 1, buffer)
          /\ UNCHANGED <<fileVars, user>>
       \/ /\ size >= -1 /\ id # 1 /\ (id = 0 \/ ~CanWrite(buffer, size, id))
          /\ Fail("Write")
       \/ /\ id \notin {0, 1} /\ CanWrite(buffer, size, id)
          /\ Write(buffer, id)
          /\ Return("Write", Len(buffer))
          /\ UNCHANGED user
       \/ /\ id \notin {0, 1} /\ CanWrite(buffer, size, id)
          /\ \E n \in 0 .. size - 1 : ShortWrite(buffer, id, n)
          /\ call' = [name |-> "Write", given |-> <<>>]
          /\ status' = "aborted"
          /\ UNCHANGED <<user, printed, r2>>

\* The kernel buffer starts as whatever the heap holds, and all charCount bytes
\* of it go to the program, whatever SysRead returned.  (SysReadString's NUL goes
\* one byte past the buffer, into what pads it on the heap.)
SC_Read ==
  /\ Called
  /\ \/ \E size \in Sizes : size < 0 /\ Stop("Read", "aborted")
     \/ \E size \in {n \in Sizes : n >= 0}, id \in FileIds :
        \E buffer \in [1 .. size -> Garbage] :
          \/ /\ id = 0
             /\ \E text \in [1 .. size -> Typed] : user' = system2User(text, size)
             /\ Return("Read", 1)
             /\ UNCHANGED fileVars
          \/ /\ id = 1 \/ (id # 0 /\ ~IsOpen(id))
             /\ user' = system2User(buffer, size)
             /\ Return("Read", -1)
             /\ UNCHANGED fileVars
          \/ /\ id \notin {0, 1} /\ IsOpen(id)
             /\ LET got == ReadBytes(size, id) IN
                /\ user' = system2User([k \in 1 .. size |->
                             IF k <= Len(got) THEN got[k] ELSE buffer[k]], size)
                /\ Return("Read", Len(got))
             /\ Read(size, id)

SC_Seek ==
  /\ Called
  /\ \E pos \in Positions, id \in FileIds :
       \/ (~IsOpen(id) \/ pos < -1) /\ Fail("Seek")
       \/ /\ IsOpen(id) /\ pos >= -1
          /\ Seek(pos, id)
          /\ Return("Seek", SeekPosition(pos, id))
          /\ UNCHANGED user

\* SysRemove answers 0 whenever FileSystem::Remove does not: Unlink's success
\* is false and is answered -1, its failure 1, a refusal -1.
SC_Remove ==
  /\ Called
  /\ \/ /\ Return("Remove", 0) /\ UNCHANGED fileVars    \* the empty name
     \/ \E n \in Names :
          \/ ~CanRemove(n) /\ Return("Remove", 0) /\ UNCHANGED fileVars
          \/ CanRemove(n) /\ Remove(n) /\ Return("Remove", 0)
  /\ UNCHANGED user

-----------------------------------------------------------------------------

SyscallInit ==
  /\ Init
  /\ user \in Texts
  /\ call = [name |-> "none", given |-> <<>>]
  /\ printed = <<>> /\ r2 = 0
  /\ status = "running" /\ calls = 0

Next ==
  \/ Halt \/ ThreadJoin \/ UnexpectedSyscall \/ WildTable \/ Add \/ RandomNum
  \/ ReadString \/ PrintString \/ ReadNum \/ PrintNum \/ ReadChar \/ PrintChar
  \/ SC_Create \/ SC_Open \/ SC_Close \/ SC_Write \/ SC_Read \/ SC_Seek \/ SC_Remove

Spec == SyscallInit /\ [][Next]_vars

-----------------------------------------------------------------------------
(* Properties. *)

\* The table and the host agree (filesys.h:182-246, :374-406): a slot in use
\* holds a descriptor that is open on an existing inode with the slot's mode,
\* or -1 after a failed open; a free slot holds no file and no name; and although
\* free slots may keep any id from uninitialised memory, the search by id for a
\* file that is open finds its slot, and only that slot is in use under that id.
HandlesConsistent ==
  \A j \in Slots :
    /\ ~table[j].open =>
         table[j] = [EmptySlot EXCEPT !.id = table[j].id, !.openMode = table[j].openMode]
    /\ table[j].open =>
         /\ table[j].id = table[j].file
         /\ table[j].id \in Fds \cup {-1}
         /\ table[j].id # -1 =>
              /\ fds[table[j].id].inode # 0
              /\ fds[table[j].id].writable <=> table[j].openMode = MODE_READWRITE
              /\ \A k \in Slots \ {j} :
                   table[k].open \/ k < j => table[k].id # table[j].id

\* The handles a program sees: the ids of the slots in use.
OpenIds == {table[j].id : j \in {k \in Slots : table[k].open}} \ {-1}

Promised ==
  INSTANCE AbstractFiles WITH
    Handles <- Fds,
    handles <- [id \in OpenIds |->
                  LET s == table[SlotOf(table, id)] IN
                  [inode  |-> fds[s.file].inode,
                   mode   |-> IF s.openMode = MODE_READ THEN "read" ELSE "readwrite",
                   offset |-> s.currentOffset]]

\* Whatever the order of calls, and although Create and a full table leak host
\* descriptors and failed opens take slots, a program sees handles that each
\* read and write their own file at their own offset (filesys.h:248-406,
\* openfile.h:45-73, exception.cc:327-381).
ImplementsFiles == Promised!Spec

\* However the digits overflow on the way, SysReadNum (ksyscall.h:93-153) never
\* returns a number that was not typed: what it returns, unless 0, is what the
\* line denotes, and the line (up to a NUL, if one was typed) is the one way to
\* write it.  The int whose numeral is shorter than _maxNumLen, and INT_MIN, is
\* always read.  SysPrintNum (ksyscall.h:155-185) prints the one numeral of its
\* argument, INT_MIN included.
NumbersNotMisread ==
  /\ call.name = "ReadNum" =>
       LET line == CString(call.given) IN
       /\ r2 # 0 => Canonical(line) /\ Denotes(line) = r2
       /\ /\ Canonical(line) /\ Denotes(line) \in Ints
          /\ Len(line) < maxNumLen \/ Denotes(line) = MinInt
          => r2 = Denotes(line)
  /\ call.name = "PrintNum" =>
       Canonical(printed) /\ Denotes(printed) = call.given[1]


\* "neu khong con cho trong thi dong file vua mo" (filesys.h:241: if there is no
\* free slot, close the file just opened): an Open that fails keeps no host
\* descriptor.
FailedOpenClosesFile ==
  [][call'.name = "Open" /\ r2' = -1 /\ calls' # calls => fds' = fds]_vars

=============================================================================
