---------------------------- MODULE SyscallLemmas ----------------------------
(***************************************************************************)
(* What SyscallProofs rests on: the inductive invariant, IInv, and what the *)
(* operators of FileTable and of Syscall's buffers compute.                 *)
(*                                                                         *)
(* IInv is HandlesConsistent with the types of the table, of the host and   *)
(* of the program's buffer.  What a program sees is written as a function   *)
(* of a table and of descriptors, HandleMap, so that the same lemmas serve  *)
(* the state before a call and the one after it.                            *)
(***************************************************************************)
EXTENDS Syscall, WellFoundedInduction, TLAPS

-----------------------------------------------------------------------------
(* The inductive invariant                                                  *)

SlotNames == {<<>>} \cup UNION {CopiedNames(n) : n \in Names}

SlotRecords ==
  [open : BOOLEAN, file : Fds \cup {-1, 0}, currentOffset : Nat,
   id : Int, openMode : Int, name : SlotNames]

Tables == [Slots -> SlotRecords]

FdTables == [Fds -> [inode : Inodes \cup {0}, writable : BOOLEAN]]

FilesType ==
  /\ table \in Tables
  /\ fds \in FdTables
  /\ dir \in [Names -> Inodes \cup {0}]
  /\ data \in [Inodes -> Seq(Byte)]
  /\ user \in [1 .. UserSize -> Byte]

\* Slot j of t holds a file that a program can name.
InUse(t, j) == t[j].open /\ t[j].id # -1

\* A slot without a file, whatever new[] left in it.
Unused(s) == s = [EmptySlot EXCEPT !.id = s.id, !.openMode = s.openMode]

\* HandlesConsistent of any table and descriptors.
Consistent(t, fd) ==
  \A j \in Slots :
    /\ ~t[j].open => Unused(t[j])
    /\ t[j].open => t[j].id = t[j].file /\ t[j].id \in Fds \cup {-1}
    /\ InUse(t, j) =>
         /\ fd[t[j].id].inode # 0
         /\ fd[t[j].id].writable <=> t[j].openMode = MODE_READWRITE
         /\ \A k \in Slots \ {j} : t[k].open \/ k < j => t[k].id # t[j].id

IInv == FilesType /\ Consistent(table, fds)

-----------------------------------------------------------------------------
(* Least elements                                                           *)

LEMMA LeastNat ==
  ASSUME NEW T, T \subseteq Nat, T # {}
  PROVE  Min(T) \in T /\ \A y \in T : Min(T) <= y
<1>1. PICK x \in T : \A y \in T : <<y, x>> \notin OpToRel(<, Nat)
  BY NatLessThanWellFounded, WFMin, Zenon
<1>2. \A y \in T : x \in Nat /\ y \in Nat /\ ~(y < x)
  BY <1>1, Zenon DEF OpToRel
<1>3. \A y \in T : x <= y
  BY <1>2
<1>. QED  BY <1>3, Zenon DEF Min

LEMMA FdsAre == Fds \subseteq Nat /\ \A f \in Fds : f > 2
BY FileTableAssumption DEF Fds

LEMMA FreshIs ==
  ASSUME FreshFd # -1
  PROVE  FreshFd \in Fds /\ fds[FreshFd].inode = 0
<1>1. FreeFds # {} /\ FreeFds \subseteq Nat
  BY FdsAre, Zenon DEF FreshFd, FreeFds
<1>2. FreshFd \in FreeFds
  BY <1>1, LeastNat, Zenon DEF FreshFd
<1>. QED  BY <1>2 DEF FreeFds

LEMMA FreeSlotIs ==
  ASSUME FreeSlots # {}
  PROVE  /\ Min(FreeSlots) \in Slots /\ ~table[Min(FreeSlots)].open
         /\ \A k \in Slots : k < Min(FreeSlots) => table[k].open
<1>1. FreeSlots \subseteq Nat /\ Slots \subseteq Nat
  BY FileTableAssumption DEF FreeSlots, Slots
<1>2. Min(FreeSlots) \in FreeSlots /\ \A k \in FreeSlots : Min(FreeSlots) <= k
  BY <1>1, LeastNat
<1>3. ASSUME NEW k \in Slots, k < Min(FreeSlots)
      PROVE  table[k].open
  <2>1. k \in Nat /\ Min(FreeSlots) \in Nat
    BY <1>1, <1>2, Zenon
  <2>2. ~(Min(FreeSlots) <= k)
    BY <1>3, <2>1
  <2>3. k \notin FreeSlots
    BY <1>2, <2>2, Zenon
  <2>. QED  BY <2>3, Zenon DEF FreeSlots
<1>4. Min(FreeSlots) \in Slots /\ ~table[Min(FreeSlots)].open
  BY <1>2, Zenon DEF FreeSlots
<1>. QED  BY <1>3, <1>4

LEMMA FreeInodeIs ==
  ASSUME FreeInodes # {}
  PROVE  /\ Min(FreeInodes) \in Inodes
         /\ \A n \in Names : dir[n] # Min(FreeInodes)
         /\ \A f \in Fds : fds[f].inode # Min(FreeInodes)
<1>1. FreeInodes \subseteq Nat
  BY FileTableAssumption, Zenon DEF FreeInodes
<1>2. Min(FreeInodes) \in FreeInodes
  BY <1>1, LeastNat, Zenon
<1>. QED  BY <1>2, Zenon DEF FreeInodes

-----------------------------------------------------------------------------
(* Looking an id up                                                         *)

\* A search by the id of a file in use finds it: no slot before it has that id.
LEMMA SlotIs ==
  ASSUME NEW t \in Tables, NEW fd \in FdTables, Consistent(t, fd),
         NEW j \in Slots, InUse(t, j)
  PROVE  /\ SlotOf(t, t[j].id) = j
         /\ t[j].id = t[j].file /\ t[j].id \in Fds
         /\ fd[t[j].id].inode \in Inodes
<1> DEFINE T == {k \in Slots : t[k].id = t[j].id}
<1>1. T \subseteq Nat /\ j \in T /\ j \in Nat
  BY FileTableAssumption DEF Slots
<1>2. ASSUME NEW k \in T, k < j
      PROVE  FALSE
  <2>1. k \in Slots \ {j} /\ t[k].id = t[j].id
    BY <1>1, <1>2
  <2>. QED  BY <1>2, <2>1, Zenon DEF Consistent
<1> HIDE DEF T
<1>3. Min(T) \in T /\ Min(T) <= j
  BY <1>1, LeastNat
<1>4. SlotOf(t, t[j].id) = j
  <2>1. Min(T) \in Nat /\ ~(Min(T) < j)
    BY <1>1, <1>2, <1>3
  <2>2. Min(T) = j
    BY <1>1, <1>3, <2>1
  <2>. QED  BY <2>2 DEF SlotOf, T
<1>5. t[j].id = t[j].file /\ t[j].id \in Fds /\ fd[t[j].id].inode # 0
  BY DEF Consistent, InUse
<1>6. fd[t[j].id].inode \in Inodes
  BY <1>5 DEF FdTables
<1>. QED  BY <1>4, <1>5, <1>6

\* No file in use has the id of a descriptor that is not open.
LEMMA NoFileHas ==
  ASSUME NEW t \in Tables, NEW fd \in FdTables, Consistent(t, fd),
         NEW f \in Fds, fd[f].inode = 0, NEW j \in Slots, InUse(t, j)
  PROVE  t[j].id # f
BY DEF Consistent

\* A search that ends at an OpenFile ends at a file in use.
LEMMA FoundIs ==
  ASSUME IInv, NEW id \in Int, id >= 0, HasId(table, id), table[SlotOf(table, id)].open
  PROVE  /\ SlotOf(table, id) \in Slots /\ InUse(table, SlotOf(table, id))
         /\ table[SlotOf(table, id)].id = id
<1>1. {j \in Slots : table[j].id = id} \subseteq Nat
  BY FileTableAssumption DEF Slots
<1>2. SlotOf(table, id) \in {j \in Slots : table[j].id = id}
  BY <1>1, LeastNat DEF HasId, SlotOf
<1>. QED  BY <1>2 DEF InUse

-----------------------------------------------------------------------------
(* What the methods do to the table and to the descriptors                  *)

\* A descriptor that no file in use has may be given any file.
LEMMA Hold ==
  ASSUME NEW t \in Tables, NEW fd \in FdTables, Consistent(t, fd),
         NEW f \in Fds, fd[f].inode = 0,
         NEW v \in [inode : Inodes \cup {0}, writable : BOOLEAN]
  PROVE  /\ [fd EXCEPT ![f] = v] \in FdTables
         /\ Consistent(t, [fd EXCEPT ![f] = v])
<1> DEFINE g == [fd EXCEPT ![f] = v]
<1>1. g \in FdTables /\ \A h \in Fds \ {f} : g[h] = fd[h]
  BY DEF FdTables
<1>3. \A j \in Slots : InUse(t, j) => t[j].id \in Fds \ {f}
  BY NoFileHas, SlotIs
<1> HIDE DEF g
<1>4. Consistent(t, g)
  BY <1>1, <1>3 DEF Consistent
<1>. QED  BY <1>1, <1>4 DEF g

LEMMA EmptyIsSlot == EmptySlot \in SlotRecords /\ Closed \in [inode : Inodes \cup {0}, writable : BOOLEAN]
<1>1. EmptySlot.name \in SlotNames
  BY DEF EmptySlot, SlotNames
<1>. QED  BY <1>1 DEF EmptySlot, SlotRecords, Closed

LEMMA EmptyIsUnused ==
  ASSUME NEW t, NEW j, t[j] = EmptySlot
  PROVE  ~InUse(t, j) /\ ~t[j].open /\ t[j].id = 0 /\ Unused(t[j])
<1>1. Unused(EmptySlot)
  BY DEF EmptySlot, Unused
<1>2. ~EmptySlot.open /\ EmptySlot.id = 0
  BY DEF EmptySlot
<1>. QED  BY <1>1, <1>2, Zenon DEF InUse

\* Close(id) leaves a slot alone or empties it, and leaves alone the files in use
\* that have another id.
LEMMA CloseIs ==
  ASSUME NEW t \in Tables, NEW fd \in FdTables, Consistent(t, fd), NEW id \in Int
  PROVE  /\ CloseTable(t, id) \in Tables
         /\ \A k \in Slots : CloseTable(t, id)[k] = t[k] \/ CloseTable(t, id)[k] = EmptySlot
         /\ \A k \in Slots : t[k].id # id => CloseTable(t, id)[k] = t[k]
         /\ \A k \in Slots : id >= 0 /\ t[k].id = id => CloseTable(t, id)[k] = EmptySlot
<1> DEFINE u == CloseTable(t, id)
<1>1. u = [k \in Slots |-> IF k \in Closing(t, id) THEN EmptySlot ELSE t[k]]
  BY Zenon DEF CloseTable
<1>2. \A k \in Slots : u[k] = IF k \in Closing(t, id) THEN EmptySlot ELSE t[k]
  BY <1>1, Zenon
<1>3. u \in Tables
  BY <1>1, EmptyIsSlot DEF Tables
<1>4. \A k \in Slots : /\ k \in Closing(t, id) => t[k].id = id
                       /\ id >= 0 /\ t[k].id = id => k \in Closing(t, id)
  BY DEF Closing
<1> HIDE DEF u
<1>5. /\ \A k \in Slots : u[k] = t[k] \/ u[k] = EmptySlot
      /\ \A k \in Slots : t[k].id # id => u[k] = t[k]
      /\ \A k \in Slots : id >= 0 /\ t[k].id = id => u[k] = EmptySlot
  BY <1>2, <1>4, Zenon
<1>. QED  BY <1>3, <1>5 DEF u

\* On the host it closes at most the descriptor id.
LEMMA CloseHostIs ==
  ASSUME NEW t \in Tables, NEW fd \in FdTables, Consistent(t, fd), NEW id \in Int,
         NEW g \in FdTables
  PROVE  /\ CloseHost(t, g, id) \in FdTables
         /\ \A f \in Fds \ {id} : CloseHost(t, g, id)[f] = g[f]
<1>1. \A j \in Closing(t, id) : t[j].open => t[j].file = id
  BY DEF Closing, Consistent
<1>2. \A f \in Fds \ {id} : ~\E j \in Closing(t, id) : t[j].open /\ t[j].file = f
  BY <1>1, Zenon
<1>. QED  BY <1>2, EmptyIsSlot DEF CloseHost, FdTables

\* So does the rest of the table stay consistent with the host.
LEMMA CloseKeeps ==
  ASSUME NEW t \in Tables, NEW fd \in FdTables, Consistent(t, fd), NEW id \in Int,
         NEW g \in FdTables, \A f \in Fds \ {id} : g[f] = fd[f]
  PROVE  /\ Consistent(CloseTable(t, id), g)
         /\ \A k \in Slots : InUse(CloseTable(t, id), k) <=> InUse(t, k) /\ t[k].id # id
<1> DEFINE u == CloseTable(t, id)
<1>1. /\ u \in Tables
      /\ \A k \in Slots : u[k] = t[k] \/ u[k] = EmptySlot
      /\ \A k \in Slots : t[k].id # id => u[k] = t[k]
      /\ \A k \in Slots : id >= 0 /\ t[k].id = id => u[k] = EmptySlot
  BY CloseIs
<1> HIDE DEF u
<1>2. ASSUME NEW k \in Slots, InUse(u, k)
      PROVE  u[k] = t[k] /\ InUse(t, k) /\ t[k].id \in Fds \ {id} /\ t[k].id # 0
  <2>1. u[k] # EmptySlot
    BY <1>2, EmptyIsUnused
  <2>2. u[k] = t[k] /\ InUse(t, k)
    BY <1>1, <1>2, <2>1 DEF InUse
  <2>3. t[k].id \in Fds
    BY <2>2, SlotIs
  <2>4. t[k].id \in Nat /\ t[k].id > 2
    BY <2>3, FdsAre
  <2>5. t[k].id # id
    BY <1>1, <2>1, <2>4
  <2>. QED  BY <2>2, <2>3, <2>4, <2>5
<1>3. \A k \in Slots : /\ ~u[k].open => Unused(u[k])
                       /\ u[k].open => u[k].id = u[k].file /\ u[k].id \in Fds \cup {-1}
  <2> SUFFICES ASSUME NEW k \in Slots
               PROVE  /\ ~u[k].open => Unused(u[k])
                      /\ u[k].open => u[k].id = u[k].file /\ u[k].id \in Fds \cup {-1}
    OBVIOUS
  <2>1. CASE u[k] = EmptySlot
    BY <2>1, EmptyIsUnused
  <2>2. CASE u[k] = t[k]
    BY <2>2, Zenon DEF Consistent
  <2>. QED  BY <1>1, <2>1, <2>2
<1>4. ASSUME NEW k \in Slots, InUse(u, k)
      PROVE  /\ g[u[k].id].inode # 0
             /\ g[u[k].id].writable <=> u[k].openMode = MODE_READWRITE
  BY <1>2, <1>4 DEF Consistent
<1>5. ASSUME NEW k \in Slots, InUse(u, k), NEW l \in Slots \ {k}, u[l].open \/ l < k
      PROVE  u[l].id # u[k].id
  <2>1. CASE u[l] = EmptySlot
    BY <1>2, <1>5, <2>1, EmptyIsUnused
  <2>2. CASE u[l] = t[l]
    BY <1>2, <1>5, <2>2 DEF Consistent
  <2>. QED  BY <1>1, <2>1, <2>2
<1>6. Consistent(u, g)
  BY <1>3, <1>4, <1>5, Zenon DEF Consistent
<1>7. \A k \in Slots : InUse(u, k) <=> InUse(t, k) /\ t[k].id # id
  BY <1>1, <1>2, Zenon DEF InUse
<1>. QED  BY <1>6, <1>7 DEF u

\* Only the offset of slot j changes.
LEMMA MoveKeeps ==
  ASSUME NEW t \in Tables, NEW fd \in FdTables, Consistent(t, fd),
         NEW j \in Slots, InUse(t, j), NEW o \in Nat
  PROVE  /\ [t EXCEPT ![j].currentOffset = o] \in Tables
         /\ Consistent([t EXCEPT ![j].currentOffset = o], fd)
<1> DEFINE u == [t EXCEPT ![j].currentOffset = o]
<1>1. t[j] \in SlotRecords
  BY DEF Tables
<1>2. u[j] = [t[j] EXCEPT !.currentOffset = o] /\ \A k \in Slots \ {j} : u[k] = t[k]
  BY DEF Tables
<1>3. u[j] \in SlotRecords
  BY <1>1, <1>2 DEF SlotRecords
<1>4. u \in Tables
  BY <1>2, <1>3 DEF Tables
<1>5. /\ u[j].open = t[j].open /\ u[j].id = t[j].id /\ u[j].file = t[j].file
      /\ u[j].openMode = t[j].openMode
  BY <1>1, <1>2 DEF SlotRecords
<1> HIDE DEF u
<1>6. \A k \in Slots : /\ u[k].open = t[k].open /\ u[k].id = t[k].id
                       /\ u[k].file = t[k].file /\ u[k].openMode = t[k].openMode
  BY <1>2, <1>5, Zenon
<1>7. \A k \in Slots : ~u[k].open => u[k] = t[k]
  BY <1>2, <1>6 DEF InUse
<1>8. Consistent(u, fd)
  BY <1>6, <1>7 DEF Consistent, InUse
<1>. QED  BY <1>4, <1>8 DEF u

\* The first free slot takes -1, or a descriptor that no file in use has.
LEMMA EnterKeeps ==
  ASSUME NEW t \in Tables, NEW u \in Tables, NEW g \in FdTables, Consistent(t, g),
         NEW j \in Slots, \A k \in Slots : k < j => t[k].open, NEW f \in Fds \cup {-1},
         \A k \in Slots \ {j} : u[k] = t[k],
         u[j].open, u[j].id = f, u[j].file = f,
         f # -1 => /\ \A k \in Slots : InUse(t, k) => t[k].id # f
                   /\ g[f].inode # 0
                   /\ g[f].writable <=> u[j].openMode = MODE_READWRITE
  PROVE  Consistent(u, g)
<1> SUFFICES ASSUME NEW k \in Slots
             PROVE  /\ ~u[k].open => Unused(u[k])
                    /\ u[k].open => u[k].id = u[k].file /\ u[k].id \in Fds \cup {-1}
                    /\ InUse(u, k) =>
                         /\ g[u[k].id].inode # 0
                         /\ g[u[k].id].writable <=> u[k].openMode = MODE_READWRITE
                         /\ \A l \in Slots \ {k} : u[l].open \/ l < k => u[l].id # u[k].id
  BY DEF Consistent
<1>1. CASE k = j
  <2>1. ASSUME InUse(u, j), NEW l \in Slots \ {j}, u[l].open \/ l < j PROVE u[l].id # f
    <3>1. u[l] = t[l] /\ t[l].open /\ f # -1
      BY <2>1 DEF InUse
    <3>. QED  BY <3>1 DEF InUse
  <2>. QED  BY <1>1, <2>1 DEF InUse
<1>2. CASE k # j
  <2>1. u[k] = t[k] /\ (InUse(u, k) <=> InUse(t, k))
    BY <1>2 DEF InUse
  <2>2. ASSUME InUse(t, k), NEW l \in Slots \ {k}, u[l].open \/ l < k PROVE u[l].id # t[k].id
    <3>1. CASE l = j
      BY <2>2, <3>1 DEF InUse
    <3>2. CASE l # j
      <4>1. u[l] = t[l] /\ (t[l].open \/ l < k)
        BY <2>2, <3>2
      <4>. QED  BY <2>2, <4>1 DEF Consistent
    <3>. QED  BY <3>1, <3>2
  <2>. QED  BY <2>1, <2>2 DEF Consistent
<1>. QED  BY <1>1, <1>2

-----------------------------------------------------------------------------
(* The handles a program sees                                               *)

IdsOf(t) == {t[j].id : j \in {k \in Slots : t[k].open}} \ {-1}

View(s, fd) ==
  [inode  |-> fd[s.file].inode,
   mode   |-> IF s.openMode = MODE_READ THEN "read" ELSE "readwrite",
   offset |-> s.currentOffset]

HandleMap(t, fd) == [id \in IdsOf(t) |-> View(t[SlotOf(t, id)], fd)]

\* Slot j of a table, and handle id of a map, with the offset o.
MoveSlot(t, j, o) == [t EXCEPT ![j].currentOffset = o]

MoveHandle(H, id, o) == [H EXCEPT ![id].offset = o]

\* The bytes of a file after n bytes of from replaced those after pos.
Overwrite(bytes, from, pos, n) ==
  [k \in 1 .. (IF Len(bytes) > pos + n THEN Len(bytes) ELSE pos + n) |->
     IF k > pos /\ k <= pos + n THEN from[k - pos]
     ELSE IF k <= Len(bytes) THEN bytes[k] ELSE 0]

\* Two sources of the same n bytes.
SameBytes(f, g, pos, n) ==
  \A k \in Nat : k > pos /\ k <= pos + n => f[k - pos] = g[k - pos]

LEMMA OverwriteSame ==
  ASSUME NEW B \in Seq(Byte), NEW pos \in Nat, NEW n \in Nat, NEW f, NEW g,
         SameBytes(f, g, pos, n)
  PROVE  Overwrite(B, f, pos, n) = Overwrite(B, g, pos, n)
<1> DEFINE top == IF Len(B) > pos + n THEN Len(B) ELSE pos + n
           Byt(h, k) == IF k > pos /\ k <= pos + n THEN h[k - pos]
                        ELSE IF k <= Len(B) THEN B[k] ELSE 0
<1>1. \A k \in 1 .. top : k \in Nat
  <2>1. Len(B) \in Nat
    OBVIOUS
  <2>. QED  BY <2>1
<1>2. \A k \in 1 .. top : Byt(f, k) = Byt(g, k)
  BY <1>1, Zenon DEF SameBytes
<1>3. [k \in 1 .. top |-> Byt(f, k)] = [k \in 1 .. top |-> Byt(g, k)]
  BY <1>2, Zenon
<1>. QED  BY <1>3, Zenon DEF Overwrite

LEMMA ViewIs ==
  ASSUME NEW s, NEW fd
  PROVE  /\ View(s, fd).offset = s.currentOffset
         /\ View(s, fd).inode = fd[s.file].inode
         /\ s.openMode = MODE_READWRITE => View(s, fd).mode = "readwrite"
BY DEF View, MODE_READ, MODE_READWRITE

\* The handles are the ids of the slots in use.
LEMMA IdsAre ==
  ASSUME NEW t
  PROVE  \A id : id \in IdsOf(t) <=> \E j \in Slots : InUse(t, j) /\ t[j].id = id
BY DEF IdsOf, InUse

LEMMA HandlesIs ==
  ASSUME NEW t \in Tables, NEW fd \in FdTables, Consistent(t, fd)
  PROVE  /\ DOMAIN HandleMap(t, fd) = IdsOf(t)
         /\ IdsOf(t) \subseteq Fds
         /\ \A j \in Slots : InUse(t, j) =>
              t[j].id \in IdsOf(t) /\ HandleMap(t, fd)[t[j].id] = View(t[j], fd)
         /\ \A id \in IdsOf(t) : \E j \in Slots : InUse(t, j) /\ t[j].id = id
<1>1. DOMAIN HandleMap(t, fd) = IdsOf(t)
  BY DEF HandleMap
<1>2. \A id \in IdsOf(t) : \E j \in Slots : InUse(t, j) /\ t[j].id = id
  BY IdsAre, Zenon
<1>3. IdsOf(t) \subseteq Fds
  BY <1>2, SlotIs
<1>4. \A j \in Slots : InUse(t, j) => t[j].id \in IdsOf(t)
  BY IdsAre, Zenon
<1>5. ASSUME NEW j \in Slots, InUse(t, j)
      PROVE  HandleMap(t, fd)[t[j].id] = View(t[j], fd)
  <2>1. SlotOf(t, t[j].id) = j
    BY <1>5, SlotIs
  <2>. QED  BY <2>1, <1>4, <1>5 DEF HandleMap
<1>. QED  BY <1>1, <1>2, <1>3, <1>4, <1>5

\* The steps of AbstractFiles, in terms of HandleMap.
LEMMA AbsOther ==
  ASSUME HandleMap(table', fds') = HandleMap(table, fds), UNCHANGED <<dir, data>>,
         user' \in [1 .. UserSize -> Byte]
  PROVE  Promised!Next
<1>1. Promised!Other
  BY DEF Promised!Other, Promised!UserBuffers, HandleMap, View, IdsOf, OpenIds
<1>. QED  BY <1>1 DEF Promised!Next

LEMMA AbsCreate ==
  ASSUME NEW n \in Names, NEW i \in Inodes,
         i = dir[n] \/ ( /\ dir[n] = 0
                         /\ \A m \in Names : dir[m] # i
                         /\ \A h \in IdsOf(table) : HandleMap(table, fds)[h].inode # i ),
         dir' = [dir EXCEPT ![n] = i], data' = [data EXCEPT ![i] = <<>>],
         HandleMap(table', fds') = HandleMap(table, fds), UNCHANGED user
  PROVE  Promised!Next
<1>0. DOMAIN HandleMap(table, fds) = IdsOf(table)
  BY DEF HandleMap
<1>1. Promised!Create(n, i)
  BY <1>0, Zenon DEF Promised!Create, HandleMap, View, IdsOf, OpenIds
<1>. QED  BY <1>1 DEF Promised!Next

LEMMA AbsOpen ==
  ASSUME NEW n \in Names, NEW mode \in {"read", "readwrite"}, NEW h \in Fds,
         dir[n] # 0, h \notin IdsOf(table),
         HandleMap(table', fds') =
           [g \in IdsOf(table) \cup {h} |->
              IF g = h THEN [inode |-> dir[n], mode |-> mode, offset |-> 0]
              ELSE HandleMap(table, fds)[g]],
         UNCHANGED <<dir, data, user>>
  PROVE  Promised!Next
<1>0. DOMAIN HandleMap(table, fds) = IdsOf(table)
  BY DEF HandleMap
<1>a. HandleMap(table', fds') =
        [g \in DOMAIN HandleMap(table, fds) \cup {h} |->
           IF g = h THEN [inode |-> dir[n], mode |-> mode, offset |-> 0]
           ELSE HandleMap(table, fds)[g]]
  BY <1>0
<1>1. Promised!Open(n, mode, h)
  BY <1>0, <1>a, Zenon DEF Promised!Open, HandleMap, View, IdsOf, OpenIds
<1>. QED  BY <1>1 DEF Promised!Next

LEMMA AbsClose ==
  ASSUME NEW h \in IdsOf(table),
         HandleMap(table', fds') =
           [g \in IdsOf(table) \ {h} |-> HandleMap(table, fds)[g]],
         UNCHANGED <<dir, data, user>>
  PROVE  Promised!Next
<1>0. DOMAIN HandleMap(table, fds) = IdsOf(table)
  BY DEF HandleMap
<1>1. HandleMap(table', fds') =
        [g \in DOMAIN HandleMap(table, fds) \ {h} |-> HandleMap(table, fds)[g]]
  BY <1>0
<1>2. h \in DOMAIN HandleMap(table, fds)
  BY <1>0
<1>3. Promised!Close(h)
  BY <1>1, Zenon DEF Promised!Close, HandleMap, View, IdsOf, OpenIds
<1>. QED  BY <1>2, <1>3, Zenon DEF Promised!Next, HandleMap, View, IdsOf, OpenIds

LEMMA AbsSeek ==
  ASSUME NEW h \in IdsOf(table), NEW o \in Nat,
         HandleMap(table', fds') = MoveHandle(HandleMap(table, fds), h, o),
         HandleMap(table, fds)[h].offset \in Nat,
         UNCHANGED <<dir, data, user>>
  PROVE  Promised!Next
<1> DEFINE H == HandleMap(table, fds)
           G == HandleMap(table', fds')
<1>0. DOMAIN H = IdsOf(table)
  BY DEF HandleMap
<1>a. H[h] = View(table[SlotOf(table, h)], fds)
  BY DEF HandleMap
<1>b. [H[h] EXCEPT !.offset = o].offset = o
  BY <1>a DEF View
<1>1. DOMAIN G = DOMAIN H /\ G[h] = [H[h] EXCEPT !.offset = o] /\ h \in DOMAIN H
  BY <1>0 DEF MoveHandle
<1>2. G[h].offset = o
  BY <1>1, <1>b
<1>3. G = [H EXCEPT ![h].offset = G[h].offset] /\ G[h].offset \in Nat
  BY <1>2, Zenon DEF MoveHandle
<1>4. Promised!Seek(h)
  BY <1>1, <1>3, Zenon DEF Promised!Seek, HandleMap, View, IdsOf, OpenIds
<1>. QED  BY <1>1, <1>4, Zenon DEF Promised!Next, HandleMap, View, IdsOf, OpenIds

LEMMA AbsRead ==
  ASSUME NEW h \in IdsOf(table), NEW size \in 1 .. UserSize, NEW n,
         n = Promised!Lesser(size, Len(data[HandleMap(table, fds)[h].inode])
                                     - HandleMap(table, fds)[h].offset),
         n > 0,
         HandleMap(table', fds') =
           MoveHandle(HandleMap(table, fds), h, HandleMap(table, fds)[h].offset + n),
         user' \in [1 .. UserSize -> Byte],
         \A k \in 1 .. n :
           (\A q \in 1 .. k - 1 : data[HandleMap(table, fds)[h].inode]
                                    [HandleMap(table, fds)[h].offset + q] # 0)
             => user'[k] = data[HandleMap(table, fds)[h].inode]
                             [HandleMap(table, fds)[h].offset + k],
         \A k \in size + 1 .. UserSize : user'[k] = user[k],
         UNCHANGED <<dir, data>>
  PROVE  Promised!Next
<1>0. DOMAIN HandleMap(table, fds) = IdsOf(table)
  BY Zenon DEF HandleMap
<1>1. Promised!Read(h, size)
  BY Zenon DEF Promised!Read, Promised!UserBuffers, MoveHandle, HandleMap, View, IdsOf, OpenIds
<1>. QED  BY <1>0, <1>1, Zenon DEF Promised!Next, HandleMap, View, IdsOf, OpenIds

\* The first n bytes of the program's buffer replace those at the offset of h.
Rewrites(h, n) ==
  /\ HandleMap(table, fds)[h].mode = "readwrite"
  /\ data' = [data EXCEPT ![HandleMap(table, fds)[h].inode] =
                Overwrite(data[HandleMap(table, fds)[h].inode], user,
                          HandleMap(table, fds)[h].offset, n)]

LEMMA AbsReplace ==
  ASSUME NEW h \in IdsOf(table), NEW n \in 1 .. UserSize, Rewrites(h, n)
  PROVE  Promised!Replace(h, n)
<1>1. n > 0
  OBVIOUS
<1>. QED  BY <1>1, ZenonT(60) DEF Rewrites, Promised!Replace, Promised!Greater, Overwrite,
              HandleMap, View, IdsOf, OpenIds

LEMMA AbsWrite ==
  ASSUME NEW h \in IdsOf(table), NEW n \in 1 .. UserSize, Rewrites(h, n),
         HandleMap(table', fds') =
           MoveHandle(HandleMap(table, fds), h, HandleMap(table, fds)[h].offset + n),
         UNCHANGED <<dir, user>>
  PROVE  Promised!Next
<1>0. DOMAIN HandleMap(table, fds) = IdsOf(table)
  BY DEF HandleMap
<1>1. Promised!Write(h, n)
  BY AbsReplace, ZenonT(60) DEF Promised!Write, MoveHandle, HandleMap, View, IdsOf, OpenIds
<1>. QED  BY <1>0, <1>1, Zenon DEF Promised!Next, HandleMap, View, IdsOf, OpenIds

LEMMA AbsCutShort ==
  ASSUME NEW h \in IdsOf(table), NEW n \in 1 .. UserSize, Rewrites(h, n),
         HandleMap(table', fds') = <<>>, UNCHANGED <<dir, user>>
  PROVE  Promised!Next
<1>0. DOMAIN HandleMap(table, fds) = IdsOf(table)
  BY DEF HandleMap
<1>1. Promised!CutShort(h, n)
  BY AbsReplace, ZenonT(60) DEF Promised!CutShort, HandleMap, View, IdsOf, OpenIds
<1>. QED  BY <1>0, <1>1, Zenon DEF Promised!Next, HandleMap, View, IdsOf, OpenIds

LEMMA AbsRemove ==
  ASSUME NEW n \in Names, dir' = [dir EXCEPT ![n] = 0],
         HandleMap(table', fds') = HandleMap(table, fds), UNCHANGED <<data, user>>
  PROVE  Promised!Next
<1>1. Promised!Remove(n)
  BY DEF Promised!Remove, HandleMap, View, IdsOf, OpenIds
<1>. QED  BY <1>1 DEF Promised!Next

LEMMA AbsHalt ==
  ASSUME HandleMap(table', fds') = <<>>, UNCHANGED <<dir, data, user>>
  PROVE  Promised!Next
<1>1. Promised!Halt
  BY DEF Promised!Halt, HandleMap, View, IdsOf, OpenIds
<1>. QED  BY <1>1 DEF Promised!Next

-----------------------------------------------------------------------------
(* How the handles follow the table                                         *)

\* The slots in use look the same: so do the handles.
LEMMA MapSame ==
  ASSUME NEW t \in Tables, NEW fd \in FdTables, Consistent(t, fd),
         NEW u \in Tables, NEW g \in FdTables, Consistent(u, g),
         \A j \in Slots : InUse(u, j) <=> InUse(t, j),
         \A j \in Slots : InUse(t, j) => u[j].id = t[j].id /\ View(u[j], g) = View(t[j], fd)
  PROVE  HandleMap(u, g) = HandleMap(t, fd)
<1>1. IdsOf(u) = IdsOf(t)
  <2>1. IdsOf(u) \subseteq IdsOf(t)
    BY IdsAre
  <2>2. IdsOf(t) \subseteq IdsOf(u)
    BY IdsAre
  <2>. QED  BY <2>1, <2>2, Zenon
<1>2. ASSUME NEW id \in IdsOf(t)
      PROVE  View(u[SlotOf(u, id)], g) = View(t[SlotOf(t, id)], fd)
  <2>1. PICK j \in Slots : InUse(t, j) /\ t[j].id = id
    BY IdsAre, Zenon
  <2>2. SlotOf(t, id) = j
    BY <2>1, SlotIs, ZenonT(30)
  <2>3. SlotOf(u, id) = j
    BY <2>1, SlotIs, ZenonT(30)
  <2>. QED  BY <2>1, <2>2, <2>3
<1>. QED  BY <1>1, <1>2 DEF HandleMap

\* The handles of u and g are those of t and fd and a new one, f, that shows h.
OneMore(t, fd, u, g, f, h) ==
  /\ f \notin IdsOf(t)
  /\ HandleMap(u, g) =
       [id \in IdsOf(t) \cup {f} |-> IF id = f THEN h ELSE HandleMap(t, fd)[id]]

\* A new slot in use is a new handle.
LEMMA MapEnter ==
  ASSUME NEW t \in Tables, NEW fd \in FdTables, Consistent(t, fd),
         NEW u \in Tables, NEW g \in FdTables, Consistent(u, g),
         NEW j \in Slots, ~InUse(t, j), InUse(u, j),
         \A k \in Slots \ {j} : u[k] = t[k],
         \A f \in Fds \ {u[j].id} : g[f] = fd[f]
  PROVE  OneMore(t, fd, u, g, u[j].id, View(u[j], g))
<1> DEFINE f == u[j].id
           H == HandleMap(t, fd)
<1>0. \A k \in Slots \ {j} : InUse(u, k) <=> InUse(t, k)
  BY DEF InUse
<1>1. f \notin IdsOf(t)
  <2> SUFFICES ASSUME f \in IdsOf(t) PROVE FALSE
    OBVIOUS
  <2>1. PICK k \in Slots : InUse(t, k) /\ t[k].id = f
    BY IdsAre
  <2>2. k # j
    BY <2>1, Zenon
  <2>3. u[k].open /\ u[k].id = u[j].id
    BY <2>1, <2>2, Zenon DEF InUse
  <2>. QED  BY <2>2, <2>3, Zenon DEF Consistent
<1>2. ASSUME NEW k \in Slots \ {j}, InUse(t, k)
      PROVE  View(u[k], g) = View(t[k], fd) /\ t[k].id # f
  <2>1. t[k].id # f
    BY <1>1, <1>2, IdsAre, Zenon
  <2>2. t[k].file = t[k].id /\ t[k].id \in Fds
    BY <1>2, SlotIs, ZenonT(30)
  <2>. QED  BY <2>1, <2>2, Zenon DEF View
<1>3. DOMAIN H = IdsOf(t)
  BY DEF HandleMap
<1>4. IdsOf(u) = IdsOf(t) \cup {f}
  <2>1. IdsOf(u) \subseteq IdsOf(t) \cup {f}
    BY <1>0, IdsAre
  <2>2. IdsOf(t) \cup {f} \subseteq IdsOf(u)
    BY <1>0, IdsAre
  <2>. QED  BY <2>1, <2>2, Zenon
<1>5. ASSUME NEW id \in IdsOf(u)
      PROVE  View(u[SlotOf(u, id)], g) = IF id = f THEN View(u[j], g) ELSE H[id]
  <2>1. PICK k \in Slots : InUse(u, k) /\ u[k].id = id
    BY IdsAre, Zenon
  <2>2. SlotOf(u, id) = k
    BY <2>1, SlotIs, ZenonT(30)
  <2>3. CASE k = j
    BY <2>1, <2>2, <2>3, Zenon
  <2>4. CASE k # j
    <3>1. InUse(t, k) /\ t[k].id = id
      BY <1>0, <2>1, <2>4, Zenon
    <3>2. H[id] = View(t[k], fd) /\ id # f /\ View(u[k], g) = View(t[k], fd)
      BY <3>1, <1>2, <2>4, HandlesIs, ZenonT(60)
    <3>. QED  BY <3>2, <2>2, Zenon
  <2>. QED  BY <2>3, <2>4, Zenon
<1> HIDE DEF H, f
<1>7. HandleMap(u, g) = [id \in IdsOf(u) |-> IF id = f THEN View(u[j], g) ELSE H[id]]
  BY <1>5, Zenon DEF HandleMap
<1>. QED  BY <1>1, <1>4, <1>7 DEF H, f, OneMore

\* The files in use other than that of slot j are the same.
SameButFor(t, u, j) ==
  \A k \in Slots \ {j} : (InUse(u, k) <=> InUse(t, k)) /\ (InUse(t, k) => u[k] = t[k])

\* A slot that is emptied takes its handle with it.
LEMMA MapClose ==
  ASSUME NEW t \in Tables, NEW fd \in FdTables, Consistent(t, fd),
         NEW u \in Tables, NEW g \in FdTables, Consistent(u, g),
         NEW j \in Slots, InUse(t, j), ~InUse(u, j), SameButFor(t, u, j),
         \A f \in Fds \ {t[j].id} : g[f] = fd[f]
  PROVE  HandleMap(u, g) = [id \in IdsOf(t) \ {t[j].id} |-> HandleMap(t, fd)[id]]
<1> DEFINE f == t[j].id
           H == HandleMap(t, fd)
<1>0. \A k \in Slots \ {j} : (InUse(u, k) <=> InUse(t, k)) /\ (InUse(t, k) => u[k] = t[k])
  BY Zenon DEF SameButFor
<1>1. ASSUME NEW k \in Slots \ {j}, InUse(t, k)
      PROVE  View(u[k], g) = View(t[k], fd) /\ t[k].id # f
  <2>1. t[k].id # f
    BY <1>1, Zenon DEF Consistent, InUse
  <2>2. t[k].file = t[k].id /\ t[k].id \in Fds
    BY <1>1, SlotIs, ZenonT(30)
  <2>. QED  BY <1>0, <1>1, <2>1, <2>2, Zenon DEF View
<1>2. IdsOf(u) = IdsOf(t) \ {f}
  <2>1. IdsOf(u) \subseteq IdsOf(t) \ {f}
    BY <1>0, <1>1, IdsAre
  <2>2. IdsOf(t) \ {f} \subseteq IdsOf(u)
    BY <1>0, IdsAre
  <2>. QED  BY <2>1, <2>2, Zenon
<1>3. ASSUME NEW id \in IdsOf(u)
      PROVE  View(u[SlotOf(u, id)], g) = H[id]
  <2>1. PICK k \in Slots : InUse(u, k) /\ u[k].id = id
    BY IdsAre, Zenon
  <2>2. SlotOf(u, id) = k /\ k # j
    BY <2>1, SlotIs, ZenonT(30)
  <2>3. InUse(t, k) /\ t[k].id = id
    BY <1>0, <2>1, <2>2, Zenon
  <2>4. H[id] = View(t[k], fd) /\ View(u[k], g) = View(t[k], fd)
    BY <2>3, <1>1, <2>2, HandlesIs, ZenonT(60)
  <2>. QED  BY <2>2, <2>4, Zenon
<1> HIDE DEF H, f
<1>4. HandleMap(u, g) = [id \in IdsOf(u) |-> H[id]]
  BY <1>3, Zenon DEF HandleMap
<1>. QED  BY <1>2, <1>4 DEF H, f

\* A slot's offset is its handle's.
LEMMA MapMove ==
  ASSUME NEW t \in Tables, NEW fd \in FdTables, Consistent(t, fd),
         NEW j \in Slots, InUse(t, j), NEW o \in Nat
  PROVE  HandleMap(MoveSlot(t, j, o), fd) = MoveHandle(HandleMap(t, fd), t[j].id, o)
<1> DEFINE u == [t EXCEPT ![j].currentOffset = o]
           f == t[j].id
           H == HandleMap(t, fd)
<1>0. u \in Tables /\ Consistent(u, fd)
  BY MoveKeeps
<1>1. t[j] \in SlotRecords
  BY DEF Tables
<1>2. u[j] = [t[j] EXCEPT !.currentOffset = o] /\ \A k \in Slots \ {j} : u[k] = t[k]
  BY DEF Tables
<1>3. /\ u[j].open = t[j].open /\ u[j].id = t[j].id /\ u[j].file = t[j].file
      /\ u[j].openMode = t[j].openMode /\ u[j].currentOffset = o
  BY <1>1, <1>2 DEF SlotRecords
<1>4. View(u[j], fd) = [View(t[j], fd) EXCEPT !.offset = o]
  BY <1>3 DEF View
<1> HIDE DEF u
<1>5. \A k \in Slots : (InUse(u, k) <=> InUse(t, k)) /\ u[k].id = t[k].id
  BY <1>2, <1>3, Zenon DEF InUse
<1>6. IdsOf(u) = IdsOf(t)
  <2>1. IdsOf(u) \subseteq IdsOf(t)
    BY <1>5, IdsAre
  <2>2. IdsOf(t) \subseteq IdsOf(u)
    BY <1>5, IdsAre
  <2>. QED  BY <2>1, <2>2, Zenon
<1>7. ASSUME NEW id \in IdsOf(u)
      PROVE  View(u[SlotOf(u, id)], fd) =
               IF id = f THEN [H[f] EXCEPT !.offset = o] ELSE H[id]
  <2>1. PICK k \in Slots : InUse(t, k) /\ t[k].id = id
    BY <1>6, IdsAre, Zenon
  <2>2. SlotOf(u, id) = k
    BY <2>1, <1>0, <1>5, SlotIs, ZenonT(30)
  <2>3. H[id] = View(t[k], fd)
    BY <2>1, HandlesIs, ZenonT(30)
  <2>4. CASE k = j
    BY <2>1, <2>2, <2>3, <2>4, <1>4
  <2>5. CASE k # j
    <3>1. id # f
      BY <2>1, <2>5, Zenon DEF Consistent, InUse
    <3>. QED  BY <3>1, <2>2, <2>3, <2>5, <1>2
  <2>. QED  BY <2>4, <2>5, Zenon
<1>8. DOMAIN H = IdsOf(t) /\ f \in IdsOf(t)
  BY HandlesIs
<1> HIDE DEF H, f
<1>9. HandleMap(u, fd) =
        [id \in IdsOf(u) |-> IF id = f THEN [H[f] EXCEPT !.offset = o] ELSE H[id]]
  BY <1>7 DEF HandleMap
<1>10. H = [id \in IdsOf(t) |-> H[id]]
  BY DEF H, HandleMap
<1>11. [H EXCEPT ![f].offset = o] =
         [id \in IdsOf(t) |-> IF id = f THEN [H[f] EXCEPT !.offset = o] ELSE H[id]]
  BY <1>8, <1>10
<1>. QED  BY <1>6, <1>9, <1>11, Zenon DEF u, H, f, MoveSlot, MoveHandle

\* A table with no file in use shows no handle.
LEMMA MapEmpty ==
  ASSUME NEW t \in Tables, NEW fd, \A j \in Slots : ~InUse(t, j)
  PROVE  HandleMap(t, fd) = <<>>
<1>1. IdsOf(t) = {}
  BY DEF IdsOf, InUse
<1>. QED  BY <1>1 DEF HandleMap

-----------------------------------------------------------------------------
(* Buffers and bytes                                                        *)

LEMMA MinOfTwo ==
  ASSUME NEW a \in Int, NEW b \in Int
  PROVE  Min({a, b}) = IF a <= b THEN a ELSE b
BY DEF Min

LEMMA MaxOfTwo ==
  ASSUME NEW a \in Int, NEW b \in Int
  PROVE  Max({a, b}) = IF a >= b THEN a ELSE b
BY DEF Max

LEMMA UserIsSeq ==
  ASSUME IInv
  PROVE  user \in Seq(Byte) /\ Len(user) = UserSize
BY SyscallAssumption DEF IInv, FilesType

\* system2User copies at least up to the first NUL, and nothing past limit.
LEMMA CopyOut ==
  ASSUME IInv, NEW limit \in Nat, NEW buffer, \A k \in 1 .. limit : buffer[k] \in Byte
  PROVE  /\ system2User(buffer, limit) \in [1 .. UserSize -> Byte]
         /\ \A k \in 1 .. UserSize :
              /\ k > limit => system2User(buffer, limit)[k] = user[k]
              /\ k <= limit /\ (\A q \in 1 .. k - 1 : buffer[q] # 0) =>
                   system2User(buffer, limit)[k] = buffer[k]
<1> DEFINE nul == {k \in 1 .. limit : buffer[k] = 0}
           n   == IF nul = {} THEN limit ELSE Min(nul)
<1>1. nul \subseteq Nat
  OBVIOUS
<1>2. n \in 0 .. limit /\ (n < limit => n \in 1 .. limit /\ buffer[n] = 0)
  BY <1>1, LeastNat
<1> HIDE DEF n
<1>3. system2User(buffer, limit) =
        [k \in 1 .. UserSize |-> IF k <= n THEN buffer[k] ELSE user[k]]
  BY DEF system2User, n
<1>4. UserSize \in Nat /\ user \in [1 .. UserSize -> Byte]
  BY SyscallAssumption DEF IInv, FilesType
<1>5. ASSUME NEW k \in 1 .. UserSize
      PROVE  (IF k <= n THEN buffer[k] ELSE user[k]) \in Byte
  BY <1>2, <1>4
<1>6. ASSUME NEW k \in 1 .. UserSize, k <= limit, \A q \in 1 .. k - 1 : buffer[q] # 0
      PROVE  k <= n
  BY <1>2, <1>4, <1>6
<1>. QED  BY <1>2, <1>3, <1>4, <1>5, <1>6

\* A string as long as size is the first size bytes of the buffer.
LEMMA CopyIn ==
  ASSUME IInv, NEW size \in Int, size <= UserSize, Len(user2System(size)) = size
  PROVE  /\ size \in 0 .. UserSize
         /\ user2System(size) \in Seq(Byte)
         /\ \A k \in 1 .. size : user2System(size)[k] = user[k]
<1> DEFINE n   == IF size >= 0 THEN size ELSE 0
           nul == {k \in 1 .. n : user[k] = 0}
           m   == IF nul = {} THEN n ELSE Min(nul) - 1
<1>0. UserSize \in Nat /\ n \in Nat /\ n <= UserSize
  BY SyscallAssumption
<1>1. Max({Min({size, UserSize}), 0}) = n
  BY <1>0, MinOfTwo, MaxOfTwo
<1>2. user2System(size) = SubSeq(user, 1, m)
  BY <1>1, Zenon DEF user2System
<1> HIDE DEF n
<1>3. nul \subseteq Nat
  OBVIOUS
<1>4. m \in 0 .. n
  BY <1>0, <1>3, LeastNat, SMTT(30)
<1>5. user \in Seq(Byte) /\ Len(user) = UserSize
  BY UserIsSeq
<1> HIDE DEF m
<1>6. /\ SubSeq(user, 1, m) \in Seq(Byte) /\ Len(SubSeq(user, 1, m)) = m
      /\ \A k \in 1 .. m : SubSeq(user, 1, m)[k] = user[k]
  BY <1>0, <1>4, <1>5
<1>7. m = size /\ size \in 0 .. UserSize
  BY <1>0, <1>2, <1>4, <1>6
<1>. QED  BY <1>2, <1>6, <1>7

\* What WriteAt makes of a file.
LEMMA WriteIs ==
  ASSUME NEW s, Bytes(s) \in Seq(Byte), NEW from \in Seq(Byte), NEW pos \in Nat
  PROVE  /\ WriteAt(s, from, pos) \in Seq(Byte)
         /\ from = <<>> => WriteAt(s, from, pos) = Bytes(s)
         /\ from # <<>> => WriteAt(s, from, pos) = Overwrite(Bytes(s), from, pos, Len(from))
<1> DEFINE l == Len(from)
           b == Length(s)
           size == IF from = <<>> THEN b ELSE IF b > pos + l THEN b ELSE pos + l
<1>1. l \in Nat /\ b \in Nat /\ pos + l \in Nat
  BY DEF Length
<1>2. Max({b, pos + l}) = IF b > pos + l THEN b ELSE pos + l
  BY <1>1, MaxOfTwo
<1>3. size \in Nat /\ (from = <<>> => size = b /\ l = 0)
  BY <1>1
<1>a. 0 \in Byte /\ Len(Bytes(s)) = b
  BY SyscallAssumption DEF Length
<1> HIDE DEF size
<1>4. WriteAt(s, from, pos) =
        [k \in 1 .. size |-> IF k \in pos + 1 .. pos + l THEN from[k - pos]
                             ELSE IF k <= b THEN Bytes(s)[k] ELSE 0]
  BY <1>2 DEF WriteAt, size
<1>5. \A k \in 1 .. size : k \in pos + 1 .. pos + l <=> k > pos /\ k <= pos + l
  BY <1>1, <1>3
<1>6. ASSUME NEW k \in 1 .. size
      PROVE  (IF k \in pos + 1 .. pos + l THEN from[k - pos]
              ELSE IF k <= b THEN Bytes(s)[k] ELSE 0) \in Byte
  BY <1>1, <1>3, <1>a
<1>7. WriteAt(s, from, pos) \in Seq(Byte)
  BY <1>3, <1>4, <1>6
<1>8. ASSUME from = <<>> PROVE WriteAt(s, from, pos) = Bytes(s)
  <2>1. size = b /\ pos + 1 .. pos + l = {}
    BY <1>1, <1>3, <1>8
  <2>2. WriteAt(s, from, pos) = [k \in 1 .. b |-> Bytes(s)[k]]
    BY <1>1, <1>4, <2>1
  <2>. QED  BY <2>2, <1>a
<1>9. from # <<>> => WriteAt(s, from, pos) =
        [k \in 1 .. size |-> IF k > pos /\ k <= pos + l THEN from[k - pos]
                             ELSE IF k <= b THEN Bytes(s)[k] ELSE 0]
  BY <1>4, <1>5
<1>10. from # <<>> => WriteAt(s, from, pos) = Overwrite(Bytes(s), from, pos, l)
  BY <1>9, <1>a DEF size, Overwrite
<1>. QED  BY <1>7, <1>8, <1>10

\* How many bytes there are from pos on, up to size.
Available(s, size, pos) == IF pos + size <= Length(s) THEN size ELSE Length(s) - pos

\* What ReadAt returns: the bytes from pos on, as many as there are.
LEMMA ReadIs ==
  ASSUME NEW s, Bytes(s) \in Seq(Byte), NEW size \in Nat, NEW pos \in Nat
  PROVE  /\ ReadAt(s, size, pos) \in Seq(Byte) /\ Length(s) \in Nat
         /\ Available(s, size, pos) \in Int
         /\ Available(s, size, pos) <= 0 => Len(ReadAt(s, size, pos)) = 0
         /\ Available(s, size, pos) > 0 => Len(ReadAt(s, size, pos)) = Available(s, size, pos)
         /\ \A k \in 1 .. Available(s, size, pos) :
              ReadAt(s, size, pos)[k] = Bytes(s)[pos + k]
<1> DEFINE b == Bytes(s)
           m == IF pos + size <= Len(b) THEN pos + size ELSE Len(b)
<1>1. Len(b) \in Nat /\ pos + size \in Nat
  OBVIOUS
<1>2. ReadAt(s, size, pos) = SubSeq(b, pos + 1, m)
  BY <1>1, MinOfTwo DEF ReadAt, Length
<1>3. m \in Nat /\ m <= Len(b)
  BY <1>1
<1>4. \A k \in pos + 1 .. m : b[k] \in Byte
  BY <1>1, <1>3
<1> HIDE DEF b
<1>5. SubSeq(b, pos + 1, m) \in Seq(Byte) /\ Len(SubSeq(b, pos + 1, m)) = IF pos < m THEN m - pos ELSE 0
  BY <1>1, <1>3, <1>4
<1>6. \A k \in 1 .. m - pos : SubSeq(b, pos + 1, m)[k] = b[pos + k]
  BY <1>1, <1>3
<1>. QED  BY <1>1, <1>2, <1>5, <1>6 DEF b, Length, Available

=============================================================================
