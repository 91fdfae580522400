---------------------------- MODULE AbstractFiles ----------------------------
(***************************************************************************)
(* What the file system calls promise a program: a handle stands for one   *)
(* file, keeps its own offset, and is not affected by what is done with    *)
(* other handles, except that the file's bytes are shared.  No table, no   *)
(* slots, no host descriptors.                                             *)
(***************************************************************************)
EXTENDS Integers, Sequences

CONSTANTS Names, Inodes, Handles, Byte, UserSize

VARIABLES
  handles,        \* partial function: open handle |-> [inode, mode, offset]
  dir,            \* name |-> inode, 0 when there is no such file
  data,           \* inode |-> bytes
  user            \* the program's buffer

vars == <<handles, dir, data, user>>

Lesser(a, b) == IF a < b THEN a ELSE b

Greater(a, b) == IF a > b THEN a ELSE b

UserBuffers == [1 .. UserSize -> Byte]

Init ==
  /\ handles = <<>>
  /\ dir \in [Names -> Inodes \cup {0}]
  /\ \A i \in Inodes : \A k \in DOMAIN data[i] : data[i][k] \in Byte
  /\ user \in UserBuffers

\* A new file, or an existing one made empty.
Create(n, i) ==
  /\ i = dir[n] \/ ( /\ dir[n] = 0
                     /\ \A m \in Names : dir[m] # i
                     /\ \A h \in DOMAIN handles : handles[h].inode # i )
  /\ dir' = [dir EXCEPT ![n] = i]
  /\ data' = [data EXCEPT ![i] = <<>>]
  /\ UNCHANGED <<handles, user>>

Open(n, mode, h) ==
  /\ dir[n] # 0 /\ h \notin DOMAIN handles
  /\ handles' = [g \in DOMAIN handles \cup {h} |->
                   IF g = h THEN [inode |-> dir[n], mode |-> mode, offset |-> 0]
                   ELSE handles[g]]
  /\ UNCHANGED <<dir, data, user>>

Close(h) ==
  /\ handles' = [g \in DOMAIN handles \ {h} |-> handles[g]]
  /\ UNCHANGED <<dir, data, user>>

\* The bytes at the offset arrive in the buffer, up to the first NUL among
\* them; at most size bytes of the buffer change.
Read(h, size) ==
  LET from  == handles[h].offset
      bytes == data[handles[h].inode]
      n     == Lesser(size, Len(bytes) - from)
  IN  /\ n > 0
      /\ handles' = [handles EXCEPT ![h].offset = from + n]
      /\ user' \in UserBuffers
      /\ \A k \in 1 .. n : (\A q \in 1 .. k - 1 : bytes[from + q] # 0)
                             => user'[k] = bytes[from + k]
      /\ \A k \in size + 1 .. UserSize : user'[k] = user[k]
      /\ UNCHANGED <<dir, data>>

\* The first size bytes of the buffer replace those at the offset.
Replace(h, size) ==
  LET from  == handles[h].offset
      bytes == data[handles[h].inode]
  IN  /\ handles[h].mode = "readwrite" /\ size > 0
      /\ data' = [data EXCEPT ![handles[h].inode] =
                    [k \in 1 .. Greater(Len(bytes), from + size) |->
                       IF k > from /\ k <= from + size THEN user[k - from]
                       ELSE IF k <= Len(bytes) THEN bytes[k] ELSE 0]]

Write(h, size) ==
  /\ Replace(h, size)
  /\ handles' = [handles EXCEPT ![h].offset = @ + size]
  /\ UNCHANGED <<dir, user>>

\* A write that the host cuts short is the last thing the program does.
CutShort(h, size) ==
  /\ Replace(h, size)
  /\ handles' = <<>>
  /\ UNCHANGED <<dir, user>>

Seek(h) ==
  /\ DOMAIN handles' = DOMAIN handles
  /\ handles'[h].offset \in Nat
  /\ handles' = [handles EXCEPT ![h].offset = handles'[h].offset]
  /\ UNCHANGED <<dir, data, user>>

Remove(n) ==
  /\ dir' = [dir EXCEPT ![n] = 0]
  /\ UNCHANGED <<handles, data, user>>

\* A call that fails, and everything the program does to its own memory.
Other ==
  /\ user' \in UserBuffers
  /\ UNCHANGED <<handles, dir, data>>

Halt ==
  /\ handles' = <<>>
  /\ UNCHANGED <<dir, data, user>>

Next ==
  \/ \E n \in Names, i \in Inodes : Create(n, i)
  \/ \E n \in Names, mode \in {"read", "readwrite"}, h \in Handles : Open(n, mode, h)
  \/ \E h \in DOMAIN handles : Close(h) \/ Seek(h)
  \/ \E h \in DOMAIN handles, size \in 1 .. UserSize :
       Read(h, size) \/ Write(h, size) \/ CutShort(h, size)
  \/ \E n \in Names : Remove(n)
  \/ Other
  \/ Halt

Spec == Init /\ [][Next]_vars

=============================================================================
