--------------------------- MODULE DiskFileSystem ---------------------------
(***************************************************************************)
(* The Nachos file system on the simulated disk: filesys/filesys.cc,       *)
(* directory.cc, filehdr.cc, pbitmap.cc and openfile.cc, with the bitmap   *)
(* of lib/bitmap.cc (what is compiled when FILESYS_STUB is not defined).   *)
(*                                                                         *)
(* An operation reads what it needs and then writes sectors, one           *)
(* WriteSector at a time; the machine may stop between any two of them.    *)
(* "There is no synchronization for concurrent accesses" (filesys.cc), so  *)
(* one operation runs at a time.                                           *)
(*                                                                         *)
(* A sector holds a tagged value instead of raw bytes: a file header, the  *)
(* bitmap, a part of the directory, or file bytes.  Read as file bytes, the *)
(* other three are Raw.  A header read from a sector that holds none (after *)
(* a crash, see damaged) is arbitrary memory and is not followed further.  *)
(***************************************************************************)
EXTENDS Integers, Sequences, FiniteSets, FiniteSetsExt

CONSTANTS
  NumSectors, SectorSize,
  NumDirEntries,
  FieldsPerSector,    \* directory fields in a sector, see Directory below
  FileNames,
  FileSizes,          \* initialSize arguments, at most NumDirect sectors
  Raw,                \* a byte no file wrote: of a header, or of the heap
  Texts,              \* what Write is given
  Offsets,            \* what Seek is given
  MaxOps, MaxCrashes  \* bounds

ASSUME DiskFileSystemAssumption ==
  /\ {NumSectors, SectorSize, NumDirEntries, FieldsPerSector} \subseteq Nat \ {0}
  /\ FileSizes \subseteq Nat \ {0}
  /\ Offsets \subseteq Nat /\ Texts \subseteq Seq(Int) /\ Raw \in Int

VARIABLES
  disk,           \* sector |-> what it holds
  pending,        \* the WriteSectors the running operation has still to make
  formatted,      \* the disk has been formatted
  file,           \* an OpenFile, or NoFile
  ops, crashes,   \* operations and crashes so far (bounded)
  torn,           \* ghost: a crash interrupted an operation
  damaged,        \* ghost: the disk was changed after that, or through a stale file
  content         \* ghost: name |-> the bytes the file should hold, none if
                  \* there is no such file

vars == <<disk, pending, formatted, file, ops, crashes, torn, damaged, content>>

Sectors == 0 .. NumSectors - 1

FreeMapSector == 0

DirectorySector == 1

divRoundUp(n, s) == (n + s - 1) \div s

divRoundDown(n, s) == n \div s

Header(numBytes, dataSectors) ==
  [kind |-> "header", numBytes |-> numBytes, dataSectors |-> dataSectors]

MapSector(marked) == [kind |-> "map", marked |-> marked]

DirSector(fields) == [kind |-> "dir", fields |-> fields]

Data(bytes) == [kind |-> "data", bytes |-> bytes]

-----------------------------------------------------------------------------
(* Bitmap: the set of the bits that are set. *)

NumClear(map) == NumSectors - Cardinality(map)

ClearBelow(map, s) == {c \in 0 .. s - 1 : c \notin map}

\* FindAndSet called n times: the n lowest clear bits, lowest first.
FindAndSet(map, n) ==
  [k \in 1 .. n |-> CHOOSE s \in Sectors \ map : Cardinality(ClearBelow(map, s)) = k - 1]

-----------------------------------------------------------------------------
(* FileHeader. *)

DataSectors(fileSize) == divRoundUp(fileSize, SectorSize)

\* FileHeader::Allocate
CanAllocate(map, fileSize) == NumClear(map) >= DataSectors(fileSize)

Allocate(map, fileSize) ==
  Header(fileSize, FindAndSet(map, DataSectors(fileSize)))

ByteToSector(hdr, offset) == hdr.dataSectors[(offset \div SectorSize) + 1]

-----------------------------------------------------------------------------
(* OpenFile.  Positions count from 0, sequences from 1. *)

\* The request, cut at the end of the file.
Clip(hdr, numBytes, position) ==
  IF numBytes <= 0 \/ position >= hdr.numBytes THEN 0
  ELSE Min({numBytes, hdr.numBytes - position})

firstSector(position) == divRoundDown(position, SectorSize)

lastSector(position, n) == divRoundDown(position + n - 1, SectorSize)

numSectors(position, n) == 1 + lastSector(position, n) - firstSector(position)

BytesOf(sector) ==
  IF disk[sector].kind = "data" THEN disk[sector].bytes
  ELSE [k \in 1 .. SectorSize |-> Raw]

ByteAt(hdr, offset) == BytesOf(ByteToSector(hdr, offset))[(offset % SectorSize) + 1]

\* n sectors of the file, one after the other.
Gather(hdr, first, n) ==
  [k \in 1 .. n * SectorSize |-> ByteAt(hdr, (first * SectorSize) + k - 1)]

ReadAt(hdr, numBytes, position) ==
  LET n     == Clip(hdr, numBytes, position)
      first == firstSector(position)
      start == position - first * SectorSize
  IN  IF n = 0 THEN <<>>
      ELSE SubSeq(Gather(hdr, first, numSectors(position, n)), start + 1, start + n)

\* bytes copied over what is in buf from offset at on.
CopyTo(buf, at, bytes) ==
  [k \in DOMAIN buf |-> IF k - at \in DOMAIN bytes THEN bytes[k - at] ELSE buf[k]]

\* As WriteBuffer, taking a single sector for one that was read in already.
WriteBufferOneRead(hdr, from, position) ==
  LET first        == firstSector(position)
      last         == lastSector(position, Len(from))
      firstAligned == position = first * SectorSize
      lastAligned  == position + Len(from) = (last + 1) * SectorSize
      buf    == [k \in 1 .. numSectors(position, Len(from)) * SectorSize |-> Raw]
      begun  == IF firstAligned THEN buf
                ELSE CopyTo(buf, 0, ReadAt(hdr, SectorSize, first * SectorSize))
      filled == IF ~lastAligned /\ first # last
                THEN CopyTo(begun, (last - first) * SectorSize,
                            ReadAt(hdr, SectorSize, last * SectorSize))
                ELSE begun
  IN  CopyTo(filled, position - first * SectorSize, from)

\* WriteAt's buffer: new memory, into which the first sector is read if the
\* write starts inside it, then the last one if the write ends inside it and it
\* was not read in as the first, and then the bytes are copied.  ReadAt stops
\* at the end of the file, and what follows in the buffer stays as it was.
WriteBuffer(hdr, from, position) ==
  LET first        == firstSector(position)
      last         == lastSector(position, Len(from))
      firstAligned == position = first * SectorSize
      lastAligned  == position + Len(from) = (last + 1) * SectorSize
      buf    == [k \in 1 .. numSectors(position, Len(from)) * SectorSize |-> Raw]
      begun  == IF firstAligned THEN buf
                ELSE CopyTo(buf, 0, ReadAt(hdr, SectorSize, first * SectorSize))
      filled == IF ~lastAligned /\ (first # last \/ firstAligned)
                THEN CopyTo(begun, (last - first) * SectorSize,
                            ReadAt(hdr, SectorSize, last * SectorSize))
                ELSE begun
  IN  CopyTo(filled, position - first * SectorSize, from)

WriteAt(hdr, from, position) ==
  LET n     == Clip(hdr, Len(from), position)
      first == firstSector(position)
      buf   == WriteBuffer(hdr, SubSeq(from, 1, n), position)
  IN  IF n = 0 THEN <<>>
      ELSE [k \in 1 .. numSectors(position, n) |->
              <<ByteToSector(hdr, (first + k - 1) * SectorSize),
                Data(SubSeq(buf, (k - 1) * SectorSize + 1, k * SectorSize))>>]

-----------------------------------------------------------------------------
(* The two files the file system keeps open: their headers never change. *)

\* The directory file is a row of fields, two to an entry: inUse and sector,
\* then the name.  A sector ends after any field: with entries of 20 bytes and
\* sectors of 128, FieldsPerSector is 13 and parts entry 6 from its name.
NumDirSectors == divRoundUp(2 * NumDirEntries, FieldsPerSector)

\* The constructor asserts that the two files can be allocated.
ASSUME SystemFilesFit == 3 + NumDirSectors <= NumSectors

System == {FreeMapSector, DirectorySector}

MapHdr == Allocate(System, SectorSize)

DirHdr ==
  Allocate(System \cup Range(MapHdr.dataSectors), NumDirSectors * SectorSize)

SystemSectors ==
  System \cup Range(MapHdr.dataSectors) \cup Range(DirHdr.dataSectors)

\* PersistentBitmap(freeMapFile, NumSectors) and WriteBack
FetchMap == disk[MapHdr.dataSectors[1]].marked

WriteBackMap(map) == << <<MapHdr.dataSectors[1], MapSector(map)>> >>

\* Directory::FetchFrom and WriteBack: table[i] for i in 0 .. NumDirEntries - 1
Entries == 0 .. NumDirEntries - 1

NoEntry == [inUse |-> FALSE, sector |-> 0, name |-> "none"]

Place(entry) == [inUse |-> entry.inUse, sector |-> entry.sector]

FieldOnDisk(f) ==
  disk[DirHdr.dataSectors[(f \div FieldsPerSector) + 1]].fields[(f % FieldsPerSector) + 1]

FetchDirectory ==
  [i \in Entries |->
     LET place == FieldOnDisk(2 * i)
     IN  [inUse |-> place.inUse, sector |-> place.sector, name |-> FieldOnDisk(2 * i + 1)]]

\* The fields of table that are in the k-th sector of the directory.
FieldsIn(table, k) ==
  LET before == (k - 1) * FieldsPerSector
      f(j)   == before + j - 1
  IN  [j \in 1 .. Min({FieldsPerSector, 2 * NumDirEntries - before}) |->
         IF f(j) % 2 = 0 THEN Place(table[f(j) \div 2]) ELSE table[f(j) \div 2].name]

WriteBackDirectory(table) ==
  [k \in 1 .. NumDirSectors |-> <<DirHdr.dataSectors[k], DirSector(FieldsIn(table, k))>>]

\* Directory::FindIndex, Find, Add, Remove
Matches(table, name) == {i \in Entries : table[i].inUse /\ table[i].name = name}

Find(table, name) ==
  IF Matches(table, name) = {} THEN -1 ELSE table[Min(Matches(table, name))].sector

Unused(table) == {i \in Entries : ~table[i].inUse}

Add(table, name, newSector) ==
  [table EXCEPT ![Min(Unused(table))] =
     [inUse |-> TRUE, sector |-> newSector, name |-> name]]

RemoveEntry(table, name) ==
  [table EXCEPT ![Min(Matches(table, name))].inUse = FALSE]

-----------------------------------------------------------------------------

NoFile == [name |-> "none", sector |-> -1, hdr |-> Header(0, <<>>), seekPosition |-> 0]

\* FileSystem::FileSystem(TRUE): headers first, then the bitmap and an empty
\* directory.
Format ==
  << <<FreeMapSector, MapHdr>>, <<DirectorySector, DirHdr>> >>
    \o WriteBackMap(SystemSectors)
    \o WriteBackDirectory([i \in Entries |-> NoEntry])

Init ==
  /\ disk = [s \in Sectors |-> Data([k \in 1 .. SectorSize |-> 0])]
  /\ pending = Format
  /\ formatted = FALSE
  /\ file = NoFile
  /\ ops = 0 /\ crashes = 0 /\ torn = FALSE /\ damaged = FALSE
  /\ content = [n \in FileNames |-> <<>>]

\* SynchDisk::WriteSector: the next sector reaches the disk.
WriteSector ==
  /\ pending # <<>>
  /\ disk' = [disk EXCEPT ![Head(pending)[1]] = Head(pending)[2]]
  /\ pending' = Tail(pending)
  /\ formatted' = (formatted \/ Len(pending) = 1)
  /\ UNCHANGED <<file, ops, crashes, torn, damaged, content>>

\* Nachos exits; it is started again, with -f if the disk was not formatted.
Crash ==
  /\ crashes < MaxCrashes
  /\ crashes' = crashes + 1
  /\ torn' = (torn \/ (formatted /\ pending # <<>>))
  /\ pending' = IF formatted THEN <<>> ELSE Format
  /\ file' = NoFile
  /\ UNCHANGED <<disk, formatted, ops, damaged, content>>

\* An operation can start; one that writes after a torn one builds on damage.
Start ==
  /\ formatted /\ pending = <<>> /\ ops < MaxOps
  /\ ops' = ops + 1
  /\ UNCHANGED <<disk, formatted, crashes, torn>>

IsHeader(sector) == disk[sector].kind = "header"

-----------------------------------------------------------------------------
(* FileSystem. *)

CanCreate(name, initialSize) ==
  LET map == FetchMap IN
  /\ Find(FetchDirectory, name) = -1
  /\ NumClear(map) > 0
  /\ Unused(FetchDirectory) # {}
  /\ CanAllocate(map \cup {FindAndSet(map, 1)[1]}, initialSize)

\* As CreateWrites, directory before header.
CreateWritesDirFirst(sector, hdr, table, map) ==
  WriteBackDirectory(table) \o << <<sector, hdr>> >> \o WriteBackMap(map)

\* hdr->WriteBack, directory->WriteBack, freeMap->WriteBack
CreateWrites(sector, hdr, table, map) ==
  << <<sector, hdr>> >> \o WriteBackDirectory(table) \o WriteBackMap(map)

Create(name, initialSize) ==
  LET map    == FetchMap
      sector == FindAndSet(map, 1)[1]
      hdr    == Allocate(map \cup {sector}, initialSize)
  IN  /\ Start /\ CanCreate(name, initialSize)
      /\ pending' = CreateWrites(sector, hdr, Add(FetchDirectory, name, sector),
                                 map \cup {sector} \cup Range(hdr.dataSectors))
      /\ content' = [content EXCEPT ![name] = ReadAt(hdr, initialSize, 0)]
      /\ damaged' = (damaged \/ torn)
      /\ UNCHANGED file

CreateFails(name, initialSize) ==
  /\ Start /\ ~CanCreate(name, initialSize)
  /\ UNCHANGED <<pending, file, content, damaged>>

Open(name) ==
  LET sector == Find(FetchDirectory, name) IN
  /\ Start /\ sector >= 0 /\ IsHeader(sector)
  /\ file' = [name |-> name, sector |-> sector, hdr |-> disk[sector], seekPosition |-> 0]
  /\ UNCHANGED <<pending, content, damaged>>

\* As RemovedMap, leaving the header's sector marked.
RemovedMapKeepsHeader(map, sector, hdr) == map \ Range(hdr.dataSectors)

\* fileHdr->Deallocate(freeMap) and freeMap->Clear(sector)
RemovedMap(map, sector, hdr) == map \ (Range(hdr.dataSectors) \cup {sector})

\* Deallocate asserts that the file's sectors are marked.
Remove(name) ==
  LET sector == Find(FetchDirectory, name)
      hdr    == disk[sector]
  IN  /\ Start /\ sector >= 0 /\ IsHeader(sector)
      /\ Range(hdr.dataSectors) \subseteq FetchMap
      /\ pending' = WriteBackMap(RemovedMap(FetchMap, sector, hdr))
                      \o WriteBackDirectory(RemoveEntry(FetchDirectory, name))
      /\ content' = [content EXCEPT ![name] = <<>>]
      /\ damaged' = (damaged \/ torn)
      /\ UNCHANGED file

RemoveAborts(name) ==
  LET sector == Find(FetchDirectory, name) IN
  /\ Start /\ sector >= 0 /\ IsHeader(sector)
  /\ ~(Range(disk[sector].dataSectors) \subseteq FetchMap)
  /\ file' = NoFile
  /\ UNCHANGED <<pending, content, damaged>>

\* Remove and Open of a name that is not in the directory.
NotFound(name) ==
  /\ Start /\ Find(FetchDirectory, name) = -1
  /\ UNCHANGED <<pending, file, content, damaged>>

-----------------------------------------------------------------------------
(* OpenFile, through the file that is open. *)

\* The header that was read when the file was opened is still the file's: it
\* was not removed since (nor created anew, in other sectors).
Live ==
  /\ Find(FetchDirectory, file.name) = file.sector
  /\ disk[file.sector] = file.hdr

Seek(position) ==
  /\ Start /\ file # NoFile
  /\ file' = [file EXCEPT !.seekPosition = position]
  /\ UNCHANGED <<pending, content, damaged>>

Read(numBytes) ==
  /\ Start /\ file # NoFile
  /\ file' = [file EXCEPT !.seekPosition = @ + Clip(file.hdr, numBytes, @)]
  /\ UNCHANGED <<pending, content, damaged>>

Write(from) ==
  LET position == file.seekPosition
      n        == Clip(file.hdr, Len(from), position)
  IN  /\ Start /\ file # NoFile
      /\ pending' = WriteAt(file.hdr, from, position)
      /\ file' = [file EXCEPT !.seekPosition = @ + n]
      /\ content' = [content EXCEPT ![file.name] =
                       IF ~Live \/ damaged THEN @
                       ELSE [k \in DOMAIN @ |-> IF k \in position + 1 .. position + n
                                                THEN from[k - position] ELSE @[k]]]
      /\ damaged' = (damaged \/ (n > 0 /\ (torn \/ ~Live)))

-----------------------------------------------------------------------------

Next ==
  \/ WriteSector
  \/ Crash
  \/ \E n \in FileNames :
       \/ \E size \in FileSizes : Create(n, size) \/ CreateFails(n, size)
       \/ Open(n) \/ Remove(n) \/ RemoveAborts(n) \/ NotFound(n)
  \/ \E p \in Offsets : Seek(p)
  \/ \E k \in 1 .. SectorSize : Read(k)
  \/ \E t \in Texts : Write(t)

Spec == Init /\ [][Next]_vars

-----------------------------------------------------------------------------
(* Properties. *)

InUse == {i \in Entries : FetchDirectory[i].inUse}

HeaderOf(i) == disk[FetchDirectory[i].sector]

SectorsOf(i) == Range(HeaderOf(i).dataSectors) \cup {FetchDirectory[i].sector}

\* When no operation is under way, and unless one was cut short by a crash or
\* wrote through the OpenFile of a removed file, the free map on disk marks
\* exactly the sectors of the system files and of the files in the directory,
\* so nothing is lost and nothing will be given away twice (filesys.cc:174-286).
MapMatchesFiles ==
  formatted /\ pending = <<>> /\ ~torn /\ ~damaged =>
    FetchMap = SystemSectors \cup UNION {SectorsOf(i) : i \in InUse}

\* The order of the writes (filesys.cc:204-206, :280-281): at every moment, also
\* between the sectors of an operation and after a crash there, every entry in
\* use in the directory on disk leads to a file header that has been written, no
\* two files share a sector, and no file has a sector of the system, until an
\* operation writes to a disk that a crash left half written, or through the
\* OpenFile of a removed file.  It says nothing of the entry's name, which may be
\* in a sector that is not yet written.
EntriesHaveHeaders ==
  formatted /\ ~damaged =>
    /\ \A i \in InUse : /\ IsHeader(FetchDirectory[i].sector)
                        /\ SectorsOf(i) \cap SystemSectors = {}
    /\ \A i, j \in InUse : i # j => SectorsOf(i) \cap SectorsOf(j) = {}

\* When no operation is under way, and unless one was cut short by a crash or
\* wrote through the OpenFile of a removed file, Find (directory.cc:90-117) finds
\* exactly the files that were created and not removed, and each part of each of
\* them reads as what was last written there, however reads and writes
\* straddle sectors (openfile.cc:115-183).
ContentsKept ==
  formatted /\ pending = <<>> /\ ~torn /\ ~damaged =>
    \A name \in FileNames :
      LET sector == Find(FetchDirectory, name)
          bytes  == content[name]
      IN  IF bytes = <<>> THEN sector = -1
          ELSE /\ sector # -1
               /\ \A p \in 0 .. 2 * SectorSize, k \in 1 .. 2 * SectorSize :
                    ReadAt(disk[sector], k, p) =
                      SubSeq(bytes, p + 1, Min({p + k, Len(bytes)}))

=============================================================================
