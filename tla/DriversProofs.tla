---------------------------- MODULE DriversProofs ----------------------------
(***************************************************************************)
(* Proofs about Drivers, for all clients, keystrokes, disk geometries and  *)
(* times.                                                                  *)
(***************************************************************************)
EXTENDS Drivers, TLAPS

PCs == {"idle", "acquire", "request", "wait", "take", "release"}

Ops == [dev : Devices \cup {"none"}, ch : Chars \cup {EOF}, sector : Nat, writing : BOOLEAN]

DriverType ==
  /\ lock \in [Devices -> Threads \cup {NoThread}]
  /\ waitFor \in [Devices -> Nat]
  /\ pc \in [Threads -> PCs]
  /\ op \in [Threads -> Ops]
  /\ served \in [Threads -> BOOLEAN]

\* A thread past Acquire, and only it, holds the lock of the device of its call.
Inside(t) == pc[t] \in {"request", "wait", "take", "release"}

Holding ==
  /\ \A t \in Threads :
       /\ pc[t] = "acquire" => op[t].dev \in Devices
       /\ Inside(t) => op[t].dev \in Devices /\ lock[op[t].dev] = t
       /\ pc[t] = "request" => op[t].dev # "keyboard"
       /\ pc[t] = "take" => op[t].dev = "keyboard"
  /\ \A d \in Devices : lock[d] # NoThread => Inside(lock[d]) /\ op[lock[d]].dev = d

Waiting(d) == lock[d] # NoThread /\ pc[lock[d]] = "wait"

\* The display and the disk: a request is with the device, or its V is in the
\* semaphore, exactly while the thread that made it waits.
Handshake(d, busy) ==
  /\ busy => Waiting(d) /\ waitFor[d] = 0
  /\ ~busy => waitFor[d] = (IF Waiting(d) THEN 1 ELSE 0)
  /\ lock[d] # NoThread
       /\ (pc[lock[d]] = "release" \/ (pc[lock[d]] = "wait" /\ ~busy)) => served[lock[d]]

Handshakes ==
  /\ putBusy \in BOOLEAN /\ active \in BOOLEAN
  /\ putPending = putBusy /\ diskInt.pending = active
  /\ Handshake("display", putBusy) /\ Handshake("disk", active)

Taking == lock["keyboard"] # NoThread /\ pc[lock["keyboard"]] = "take"

Full == waitFor["keyboard"] = 1 \/ Taking

\* The keyboard: the buffer is full when its V is in the semaphore or the reader
\* has just taken it, and a poll is pending only when it is empty.
Input ==
  /\ typed \in Seq(Chars \cup {EOF}) /\ keyboard \in Seq(Chars \cup {EOF})
  /\ got \in Seq(Chars \cup {EOF}) /\ incoming \in Chars \cup {EOF}
  /\ polling \in BOOLEAN /\ atEnd \in BOOLEAN
  /\ waitFor["keyboard"] \in {0, 1}
  /\ Taking => waitFor["keyboard"] = 0
  /\ polling => ~Full /\ ~atEnd
  /\ ~Full => incoming = EOF
  /\ ~atEnd => got \o (IF Full THEN <<incoming>> ELSE <<>>) \o keyboard = typed
  /\ atEnd => IF Full THEN incoming = EOF /\ got = typed ELSE got = Append(typed, EOF)

\* The disk: the track buffer began to fill at a sector's boundary, before the
\* current request was issued or before it ends.
HeadTimes ==
  /\ totalTicks \in Nat /\ lastSector \in Nat
  /\ bufferInit \in Nat /\ bufferInit % RotationTime = 0
  /\ ~diskInt.pending => bufferInit <= totalTicks
  /\ diskInt.pending => diskInt.when \in Nat /\ bufferInit <= diskInt.when
  /\ DiskTimes

IInv == DriverType /\ Holding /\ Handshakes /\ Input /\ HeadTimes

-----------------------------------------------------------------------------
(* Disk::ComputeLatency.                                                   *)

LEMMA DiskConstants ==
  /\ SectorsPerTrack \in Nat \ {0} /\ NumTracks \in Nat \ {0}
  /\ SeekTime \in Nat \ {0} /\ RotationTime \in Nat \ {0}
BY DiskAssumption

LEMMA DivMod ==
  ASSUME NEW a \in Int, NEW b \in Nat \ {0}
  PROVE  /\ a \div b \in Int /\ a % b \in Nat /\ a % b < b
         /\ a = (b * (a \div b)) + (a % b)
OBVIOUS

\* No multiple of b but 0 is strictly between -b and b.
LEMMA Gap ==
  ASSUME NEW b \in Nat \ {0}, NEW x \in Int, 0 - b < b * x, b * x < b
  PROVE  x = 0
OBVIOUS

LEMMA DivModUnique ==
  ASSUME NEW b \in Nat \ {0}, NEW q \in Int, NEW r \in Nat, r < b
  PROVE  ((b * q) + r) \div b = q /\ ((b * q) + r) % b = r
<1> DEFINE a == (b * q) + r
           p == a \div b
           s == a % b
<1>1. a \in Int
  OBVIOUS
<1>2. p \in Int /\ s \in Nat /\ s < b /\ a = (b * p) + s
  BY <1>1, DivMod
<1>3. (b * q) + r = (b * p) + s
  BY <1>2
<1> HIDE DEF p, s
<1> DEFINE x == q - p
<1>4. x \in Int /\ b * x = s - r
  BY <1>2, <1>3
<1>5. 0 - b < b * x /\ b * x < b
  BY <1>2, <1>4
<1> HIDE DEF x
<1>6. x = 0
  BY <1>4, <1>5, Gap
<1>7. q = p
  BY <1>2, <1>6 DEF x
<1>8. r = s
  BY <1>2, <1>3, <1>7
<1>. QED  BY <1>7, <1>8 DEF p, s

\* The end of the sector that is under the head at time t.
Boundary(t) ==
  t + (IF t % RotationTime > 0 THEN RotationTime - (t % RotationTime) ELSE 0)

LEMMA BoundaryIs ==
  ASSUME NEW t \in Nat
  PROVE  /\ Boundary(t) \in Nat /\ t <= Boundary(t) /\ Boundary(t) < t + RotationTime
         /\ Boundary(t) \div RotationTime \in Nat
         /\ Boundary(t) % RotationTime = 0
         /\ Boundary(t) = RotationTime * (Boundary(t) \div RotationTime)
<1> DEFINE R == RotationTime
           q == t \div R
           r == t % R
<1>1. R \in Nat \ {0} /\ q \in Int /\ r \in Nat /\ r < R /\ t = (R * q) + r
  BY DiskConstants, DivMod
<1>2. Boundary(t) = t + (IF r > 0 THEN R - r ELSE 0)
  BY DEF Boundary
<1> HIDE DEF R, q, r
<1> DEFINE k == IF r > 0 THEN q + 1 ELSE q
<1>3. k \in Int
  BY <1>1
<1>4. Boundary(t) = R * k
  BY <1>1, <1>2
<1> HIDE DEF k
<1>5. Boundary(t) \in Nat /\ t <= Boundary(t) /\ Boundary(t) < t + R
  BY <1>1, <1>2
<1>6. (R * k) \div R = k /\ (R * k) % R = 0
  <2>1. (R * k) + 0 = R * k /\ 0 \in Nat /\ 0 < R
    BY <1>1, <1>3
  <2>2. ((R * k) + 0) \div R = k /\ ((R * k) + 0) % R = 0
    BY <1>1, <1>3, <2>1, DivModUnique
  <2>. QED  BY <2>1, <2>2
<1>7. k >= 0
  <2>1. 0 <= R * k
    BY <1>4, <1>5
  <2>. QED  BY <1>1, <1>3, <2>1
<1>. QED  BY <1>3, <1>4, <1>5, <1>6, <1>7 DEF R

\* Sectors still to pass: fewer than a track's, and after them the sector comes.
LEMMA ModuloDiffIs ==
  ASSUME NEW x \in Nat, NEW y \in Nat
  PROVE  /\ ModuloDiff(x, y) \in Nat /\ ModuloDiff(x, y) < SectorsPerTrack
         /\ (y + ModuloDiff(x, y)) % SectorsPerTrack = x % SectorsPerTrack
<1> DEFINE S == SectorsPerTrack
           p == x % S
           k == y \div S
           q == y % S
           d == ((p - q) + S) % S
<1>1. S \in Nat \ {0}
  BY DiskConstants
<1>2. p \in Nat /\ p < S /\ k \in Int /\ q \in Nat /\ q < S /\ y = (S * k) + q
  BY <1>1, DivMod
<1>3. ModuloDiff(x, y) = d
  BY DEF ModuloDiff
<1> HIDE DEF S, p, k, q
<1>4. CASE p >= q
  <2>1. p - q \in Nat /\ p - q < S /\ 1 \in Int /\ (S * 1) + (p - q) = (p - q) + S
    BY <1>1, <1>2, <1>4
  <2>2. ((S * 1) + (p - q)) % S = p - q
    BY <1>1, <2>1, DivModUnique, Zenon
  <2>3. d = p - q
    BY <2>1, <2>2
  <2>4. y + d = (S * k) + p
    BY <1>1, <1>2, <2>3
  <2>5. ((S * k) + p) % S = p
    BY <1>1, <1>2, DivModUnique
  <2>. QED  BY <1>3, <2>1, <2>3, <2>4, <2>5 DEF S, p
<1>5. CASE p < q
  <2>1. (p - q) + S \in Nat /\ (p - q) + S < S /\ 0 \in Int
        /\ (S * 0) + ((p - q) + S) = (p - q) + S
    BY <1>1, <1>2, <1>5
  <2>2. ((S * 0) + ((p - q) + S)) % S = (p - q) + S
    BY <1>1, <2>1, DivModUnique
  <2>3. d = (p - q) + S
    BY <2>1, <2>2
  <2>4. y + d = (S * (k + 1)) + p /\ k + 1 \in Int
    BY <1>1, <1>2, <2>3
  <2>5. ((S * (k + 1)) + p) % S = p
    BY <1>1, <1>2, <2>4, DivModUnique, Zenon
  <2>. QED  BY <1>3, <2>1, <2>3, <2>4, <2>5 DEF S, p
<1>. QED  BY <1>2, <1>4, <1>5

\* No other number of sectors below a track's does.
LEMMA ModuloDiffUnique ==
  ASSUME NEW x \in Nat, NEW y \in Nat, NEW k \in Nat, k < SectorsPerTrack,
         (y + k) % SectorsPerTrack = x % SectorsPerTrack
  PROVE  k = ModuloDiff(x, y)
<1> DEFINE S == SectorsPerTrack
           m == ModuloDiff(x, y)
           a == (y + k) \div S
           b == (y + m) \div S
<1>1. S \in Nat \ {0} /\ m \in Nat /\ m < S /\ (y + m) % S = (y + k) % S
  BY DiskConstants, ModuloDiffIs, Zenon
<1> HIDE DEF m
<1>2. /\ a \in Int /\ b \in Int
      /\ y + k = (S * a) + ((y + k) % S) /\ y + m = (S * b) + ((y + m) % S)
      /\ (y + k) % S \in Nat
  <2>1. y + k \in Int /\ y + m \in Int
    BY <1>1
  <2>. QED  BY <1>1, <2>1, DivMod
<1> DEFINE r == (y + k) % S
<1>3. r \in Nat /\ y + k = (S * a) + r /\ y + m = (S * b) + r
  BY <1>1, <1>2
<1> HIDE DEF S, a, b, r
<1> DEFINE z == a - b
<1>4. z \in Int /\ S * z = k - m
  BY <1>1, <1>2, <1>3
<1>5. 0 - S < S * z /\ S * z < S
  BY <1>1, <1>4 DEF S
<1>6. z = 0
  BY <1>1, <1>4, <1>5, Gap
<1>. QED  BY <1>1, <1>4, <1>6 DEF m

\* Where the first pass of a sector since time t is.
FirstPass(sector, t) ==
  Boundary(t) + (ModuloDiff(sector, Boundary(t) \div RotationTime) * RotationTime)

LEMMA MinIs ==
  ASSUME NEW T \in SUBSET Int, NEW m \in T, \A u \in T : m <= u
  PROVE  Min(T) = m
<1>1. \A x \in T : (\A u \in T : x <= u) => x = m
  OBVIOUS
<1>. QED  BY <1>1, Zenon DEF Min

LEMMA MaxIs ==
  ASSUME NEW a \in Int, NEW b \in Int
  PROVE  Max({a, b}) = IF a <= b THEN b ELSE a
<1> DEFINE m == IF a <= b THEN b ELSE a
<1>1. m \in {a, b} /\ \A u \in {a, b} : m >= u
  OBVIOUS
<1>2. \A x \in {a, b} : (\A u \in {a, b} : x >= u) => x = m
  OBVIOUS
<1> HIDE DEF m
<1>3. Max({a, b}) = m
  BY <1>1, <1>2 DEF Max
<1>. QED  BY <1>3 DEF m

LEMMA FirstPassIs ==
  ASSUME NEW sector \in Nat, NEW t \in Nat
  PROVE  /\ FirstPass(sector, t) \in Nat
         /\ Min(Passes(sector, t)) = FirstPass(sector, t)
<1> DEFINE R == RotationTime
           S == SectorsPerTrack
           A == Boundary(t)
           a == A \div R
           m == ModuloDiff(sector, a)
           F == FirstPass(sector, t)
<1>1. R \in Nat \ {0} /\ S \in Nat \ {0}
  BY DiskConstants
<1>2. A \in Nat /\ t <= A /\ A < t + R /\ a \in Nat /\ A = R * a
  BY BoundaryIs
<1>3. m \in Nat /\ m < S /\ (a + m) % S = sector % S
  BY <1>2, ModuloDiffIs, Zenon
<1>4. F = A + (m * R)
  BY DEF FirstPass
<1>5. \A k \in Nat : k < S /\ (a + k) % S = sector % S => k = m
  BY <1>2, ModuloDiffUnique
<1>6. Passes(sector, t) = {u \in t .. t + S * R : u % R = 0 /\ (u \div R) % S = sector % S}
  BY DEF Passes
<1> HIDE DEF R, S, A, a, m, F
<1>7. F = R * (a + m) /\ F \in Nat
  BY <1>1, <1>2, <1>3, <1>4
<1>8. F \in t .. t + S * R
  <2>1. m <= S - 1
    BY <1>1, <1>3
  <2>2. m * R <= (S - 1) * R
    BY <1>1, <1>3, <2>1
  <2>3. (S - 1) * R = (S * R) - R
    BY <1>1
  <2>4. m * R \in Nat /\ S * R \in Nat
    BY <1>1, <1>3
  <2>. QED  BY <1>1, <1>2, <1>4, <2>2, <2>3, <2>4
<1>9. F % R = 0 /\ F \div R = a + m
  <2> DEFINE q == a + m
  <2>1. q \in Int /\ F = (R * q) + 0 /\ 0 \in Nat /\ 0 < R
    BY <1>1, <1>2, <1>3, <1>7
  <2> HIDE DEF q
  <2>2. ((R * q) + 0) \div R = q /\ ((R * q) + 0) % R = 0
    BY <1>1, <2>1, DivModUnique
  <2>. QED  BY <2>1, <2>2 DEF q
<1>10. F \in Passes(sector, t)
  BY <1>3, <1>6, <1>8, <1>9
<1>11. ASSUME NEW u \in Passes(sector, t)
       PROVE  F <= u
  <2> DEFINE v == u \div R
  <2>1. u \in Int /\ t <= u /\ u % R = 0 /\ v % S = sector % S
    BY <1>1, <1>6
  <2>2. v \in Int /\ u = R * v
    BY <1>1, <2>1, DivMod
  <2> HIDE DEF v
  <2>3. v >= a
    <3>1. R * a < (R * v) + R
      BY <1>1, <1>2, <2>1, <2>2
    <3>2. R * a < R * (v + 1)
      BY <1>1, <1>2, <2>2, <3>1
    <3>3. a < v + 1
      BY <1>1, <1>2, <2>2, <3>2
    <3>. QED  BY <1>2, <2>2, <3>3
  <2> DEFINE k == v - a
  <2>4. k \in Nat /\ a + k = v
    BY <1>2, <2>2, <2>3
  <2> HIDE DEF k
  <2>5. m <= k
    <3>1. CASE k < S
      BY <1>3, <1>5, <2>1, <2>4, <3>1
    <3>2. CASE k >= S
      BY <1>1, <1>3, <2>4, <3>2
    <3>. QED  BY <1>1, <2>4, <3>1, <3>2
  <2>6. a + m <= v
    BY <1>2, <1>3, <2>4, <2>5
  <2>7. R * (a + m) <= R * v
    BY <1>1, <1>2, <1>3, <2>2, <2>6
  <2>. QED  BY <1>7, <2>2, <2>7
<1>12. Passes(sector, t) \in SUBSET Int
  BY <1>1, <1>6
<1>13. Min(Passes(sector, t)) = F
  BY <1>10, <1>11, <1>12, MinIs
<1>. QED  BY <1>7, <1>13 DEF F

LEMMA SeekIs ==
  ASSUME lastSector \in Nat, NEW s \in Nat
  PROVE  TimeToSeek(s) \in Nat
<1> DEFINE p == s \div SectorsPerTrack
           q == lastSector \div SectorsPerTrack
<1>1. p \in Int /\ q \in Int
  BY DiskConstants, DivMod
<1>2. TimeToSeek(s) = Distance(p, q) * SeekTime
  BY DEF TimeToSeek
<1> HIDE DEF p, q
<1>3. Distance(p, q) \in Nat
  BY <1>1 DEF Distance
<1>. QED  BY <1>2, <1>3, DiskConstants

LEMMA RotationIs ==
  ASSUME totalTicks \in Nat, NEW seek \in Nat
  PROVE  /\ RotationAfter(seek) \in Nat
         /\ totalTicks + seek + RotationAfter(seek) = Boundary(totalTicks + seek)
<1> DEFINE t == totalTicks + seek
           r == t % RotationTime
<1>1. t \in Nat /\ r \in Nat /\ r < RotationTime /\ RotationTime \in Nat
  BY DiskConstants, DivMod
<1>2. RotationAfter(seek) = IF r > 0 THEN RotationTime - r ELSE 0
  BY DEF RotationAfter
<1>3. Boundary(t) = t + (IF r > 0 THEN RotationTime - r ELSE 0)
  BY DEF Boundary
<1> HIDE DEF r
<1>. QED  BY <1>1, <1>2, <1>3

\* When the track buffer began to fill: a boundary, so its own.
LEMMA BufferBoundary ==
  ASSUME NEW t \in Nat, t % RotationTime = 0
  PROVE  Boundary(t) = t
BY DEF Boundary

\* The latency of a request takes it to the end of the first pass of its sector,
\* or, when that pass is over and in the track buffer, one RotationTime on.
LEMMA LatencyIs ==
  ASSUME totalTicks \in Nat, lastSector \in Nat, bufferInit \in Nat,
         bufferInit % RotationTime = 0, bufferInit <= totalTicks,
         NEW s \in Nat, NEW w \in BOOLEAN
  PROVE  LET seek  == TimeToSeek(s)
             since == IF seek = 0 /\ ~w THEN bufferInit ELSE totalTicks + seek
             when  == totalTicks + ComputeLatency(s, w)
         IN  /\ when \in Nat
             /\ Boundary(totalTicks + seek) <= when \/ seek = 0
             /\ when = Max({totalTicks, Min(Passes(s, since))}) + RotationTime
<1> DEFINE seek  == TimeToSeek(s)
           since == IF seek = 0 /\ ~w THEN bufferInit ELSE totalTicks + seek
           L     == ComputeLatency(s, w)
           R     == RotationTime
           S     == SectorsPerTrack
           rot   == RotationAfter(seek)
           A     == totalTicks + seek + rot
           a     == A \div R
           k     == ModuloDiff(s, a)
           b     == bufferInit \div R
           m     == ModuloDiff(s, b)
           F     == Min(Passes(s, since))
<1>1. R \in Nat \ {0} /\ S \in Nat \ {0} /\ seek \in Nat
  BY DiskConstants, SeekIs
<1>2. /\ rot \in Nat /\ A = Boundary(totalTicks + seek)
      /\ A \in Nat /\ totalTicks + seek <= A /\ A < totalTicks + seek + R
      /\ a \in Nat /\ A = R * a
  <2> HIDE DEF seek
  <2>1. totalTicks + seek \in Nat
    BY <1>1
  <2>2. rot \in Nat /\ A = Boundary(totalTicks + seek)
    BY <1>1, RotationIs
  <2>. QED  BY <2>1, <2>2, BoundaryIs
<1>3. k \in Nat /\ k < S
  BY <1>2, ModuloDiffIs
<1>4. Boundary(bufferInit) = bufferInit /\ b \in Nat /\ bufferInit = R * b
  BY BufferBoundary, BoundaryIs
<1>5. m \in Nat /\ m < S /\ (b + m) % S = s % S
  BY <1>4, ModuloDiffIs, Zenon
<1>6. L = IF ~w /\ seek = 0 /\ (A - bufferInit) \div R > m
          THEN R ELSE seek + rot + R + (k * R)
  BY DEF ComputeLatency, InTrackBuffer
<1>7. F = IF seek = 0 /\ ~w THEN bufferInit + (m * R) ELSE A + (k * R)
  <2>1. since \in Nat
    BY <1>1
  <2>2. F = FirstPass(s, since)
    BY <2>1, FirstPassIs, Zenon
  <2>3. CASE seek = 0 /\ ~w
    BY <1>4, <2>2, <2>3 DEF FirstPass
  <2>4. CASE ~(seek = 0 /\ ~w)
    BY <1>2, <2>2, <2>4 DEF FirstPass
  <2>. QED  BY <2>3, <2>4
<1>8. \A j \in Nat : j < S /\ (a + j) % S = s % S => j = k
  BY <1>2, ModuloDiffUnique
<1> HIDE DEF seek, since, L, R, S, rot, A, a, k, b, m, F
<1>9. k * R \in Nat /\ m * R \in Nat
  BY <1>1, <1>3, <1>5
<1> SUFFICES /\ L \in Nat
             /\ A <= totalTicks + L \/ seek = 0
             /\ totalTicks + L = Max({totalTicks, F}) + R
  BY <1>2 DEF L, F, since, seek, R
<1>10. CASE ~(seek = 0 /\ ~w)
  <2>1. L = seek + rot + R + (k * R) /\ F = A + (k * R)
    BY <1>6, <1>7, <1>10
  <2>2. L \in Nat /\ F \in Nat /\ totalTicks <= F /\ totalTicks + L = F + R
    BY <1>1, <1>2, <1>9, <2>1 DEF A
  <2>3. Max({totalTicks, F}) = F
    BY <2>2, MaxIs
  <2>4. A <= totalTicks + L
    BY <1>1, <1>2, <1>9, <2>1, <2>2
  <2>. QED  BY <2>2, <2>3, <2>4
<1>11. CASE seek = 0 /\ ~w
  <2>1. F = bufferInit + (m * R)
    BY <1>7, <1>11
  <2>2. F = R * (b + m) /\ F \in Nat
    BY <1>1, <1>4, <1>5, <1>9, <2>1
  <2>3. (A - bufferInit) \div R = a - b
    <3> DEFINE q == a - b
    <3>1. q \in Int /\ A - bufferInit = (R * q) + 0 /\ 0 \in Nat /\ 0 < R
      BY <1>1, <1>2, <1>4
    <3> HIDE DEF q
    <3>2. ((R * q) + 0) \div R = q
      BY <1>1, <3>1, DivModUnique
    <3>. QED  BY <3>1, <3>2 DEF q
  <2>4. CASE a - b > m
    <3>1. L = R
      BY <1>6, <1>11, <2>3, <2>4
    <3>2. b + m <= a - 1
      BY <1>2, <1>4, <1>5, <2>4
    <3>3. R * (b + m) <= R * (a - 1)
      BY <1>1, <1>2, <1>4, <1>5, <3>2
    <3>4. R * (a - 1) = A - R
      BY <1>1, <1>2
    <3>5. F < totalTicks
      BY <1>1, <1>2, <1>11, <2>2, <3>3, <3>4
    <3>6. Max({totalTicks, F}) = totalTicks
      BY <2>2, <3>5, MaxIs
    <3>. QED  BY <1>1, <1>11, <3>1, <3>6
  <2>5. CASE ~(a - b > m)
    <3>1. L = seek + rot + R + (k * R)
      BY <1>6, <1>11, <2>3, <2>5
    <3>2. b <= a
      <4>1. R * b <= R * a
        BY <1>1, <1>2, <1>4, <1>11
      <4>. QED  BY <1>1, <1>2, <1>4, <4>1
    <3> DEFINE j == m - (a - b)
    <3>3. j \in Nat /\ j < S /\ a + j = b + m
      BY <1>1, <1>2, <1>4, <1>5, <2>5, <3>2
    <3> HIDE DEF j
    <3>4. j = k
      BY <1>5, <1>8, <3>3
    <3>5. F = (R * a) + (k * R)
      BY <1>1, <1>2, <1>3, <2>2, <3>3, <3>4
    <3>6. F = A + (k * R)
      BY <1>2, <3>5
    <3>7. L \in Nat /\ totalTicks <= F /\ totalTicks + L = F + R
      BY <1>1, <1>2, <1>9, <3>1, <3>6 DEF A
    <3>8. Max({totalTicks, F}) = F
      BY <2>2, <3>7, MaxIs
    <3>. QED  BY <1>11, <3>7, <3>8
  <2>. QED  BY <2>4, <2>5
<1>. QED  BY <1>10, <1>11

-----------------------------------------------------------------------------
(* The locks.                                                              *)

LEMMA ThreadFacts == NoThread \notin Threads /\ Tester \in Threads /\ Clients \subseteq Threads
BY DriversAssumption DEF Threads

LEMMA OpsTyped ==
  /\ NoOp \in Ops /\ GetCharOp \in Ops
  /\ \A ch \in Chars \cup {EOF} : PutCharOp(ch) \in Ops
  /\ \A o \in ClientOps : o \in Ops /\ o.dev \in Devices
<1>1. NoOp \in Ops
  BY DEF NoOp, Ops
<1>2. GetCharOp \in Ops /\ GetCharOp.dev = "keyboard"
  BY Zenon DEF NoOp, Ops, GetCharOp, Devices
<1>3. \A ch \in Chars \cup {EOF} : PutCharOp(ch) \in Ops /\ PutCharOp(ch).dev = "display"
  BY Zenon DEF NoOp, Ops, PutCharOp, Devices
<1>4. \A x \in SectorsUsed, w \in BOOLEAN : DiskOp(x, w) \in Ops /\ DiskOp(x, w).dev = "disk"
  <2>1. Sectors \subseteq Nat
    BY DiskConstants DEF Sectors, NumSectors
  <2>2. SectorsUsed \subseteq Nat
    BY <2>1, DriversAssumption
  <2>. QED  BY <2>2, Zenon DEF NoOp, Ops, DiskOp, Devices
<1>. QED  BY <1>1, <1>2, <1>3, <1>4 DEF ClientOps, Devices

Locks == DriverType /\ Holding

LEMMA LocksKept ==
  ASSUME Locks, incoming \in Chars \cup {EOF}, [Next]_vars
  PROVE  Locks'
<1> USE ThreadFacts DEF Locks
<1>1. ASSUME NEW t \in Clients, NEW o \in ClientOps, Call(t, o)
      PROVE  Locks'
  <2>1. o \in Ops /\ o.dev \in Devices
    BY OpsTyped
  <2>2. DriverType'
    BY <1>1, <2>1 DEF DriverType, Call, PCs
  <2>3. Holding'
    BY <1>1, <2>1 DEF DriverType, Holding, Inside, Call
  <2>. QED  BY <2>2, <2>3
<1>2. ASSUME NEW t \in Threads, Acquire(t)
      PROVE  Locks'
  <2>1. op[t].dev \in Devices
    BY <1>2 DEF Holding, Acquire
  <2>2. DriverType'
    BY <1>2, <2>1 DEF DriverType, Acquire, PCs
  <2>3. Holding'
    BY <1>2, <2>1 DEF DriverType, Holding, Inside, Acquire
  <2>. QED  BY <2>2, <2>3
<1>3. ASSUME NEW t \in Threads, PutChar(t) \/ DiskRequest(t)
      PROVE  Locks'
  <2>2. DriverType'
    BY <1>3, Zenon DEF DriverType, PutChar, DiskRequest, PCs
  <2>3. Holding'
    BY <1>3 DEF DriverType, Holding, Inside, PutChar, DiskRequest
  <2>. QED  BY <2>2, <2>3
<1>4. ASSUME NEW t \in Threads, Wait(t)
      PROVE  Locks'
  <2>1. op[t].dev \in Devices
    BY <1>4 DEF Holding, Inside, Wait
  <2>2. DriverType'
    BY <1>4, <2>1 DEF DriverType, Wait, PCs
  <2>3. Holding'
    BY <1>4, <2>1 DEF DriverType, Holding, Inside, Wait
  <2>. QED  BY <2>2, <2>3
<1>5. ASSUME NEW t \in Threads, TakeChar(t)
      PROVE  Locks'
  <2>1. op'[t] \in Ops /\ op'[t].dev = op[t].dev
    BY <1>5, ZenonT(60) DEF DriverType, TakeChar, Ops
  <2>2. DriverType'
    BY <1>5, <2>1 DEF DriverType, TakeChar, PCs
  <2>3. \A u \in Threads : op'[u].dev = op[u].dev
    BY <1>5, <2>1 DEF DriverType, TakeChar
  <2>4. Holding'
    BY <1>5, <2>2, <2>3 DEF DriverType, Holding, Inside, TakeChar
  <2>. QED  BY <2>2, <2>4
<1>6. ASSUME NEW t \in Threads, Release(t)
      PROVE  Locks'
  <2>1. op[t].dev \in Devices /\ lock[op[t].dev] = t /\ op[t].ch \in Chars \cup {EOF}
    BY <1>6 DEF DriverType, Holding, Inside, Release, Ops
  <2> DEFINE p == AfterCall(t).pc
             o == AfterCall(t).op
  <2>2. p \in {"idle", "acquire"} /\ o \in Ops /\ (p = "acquire" => o.dev \in Devices)
    <3>1. CASE p = "idle" /\ o = NoOp
      BY <3>1, OpsTyped
    <3>2. CASE p = "acquire" /\ o \in {PutCharOp(op[t].ch), GetCharOp}
      <4>1. PutCharOp(op[t].ch) \in Ops /\ PutCharOp(op[t].ch).dev = "display"
        BY <2>1, OpsTyped, Zenon DEF PutCharOp, NoOp
      <4>2. GetCharOp \in Ops /\ GetCharOp.dev = "keyboard"
        BY OpsTyped DEF GetCharOp, NoOp
      <4>. QED  BY <3>2, <4>1, <4>2 DEF Devices
    <3>. QED  BY <3>1, <3>2, Zenon DEF AfterCall
  <2>3. /\ pc' = [pc EXCEPT ![t] = p] /\ op' = [op EXCEPT ![t] = o]
        /\ lock' = [lock EXCEPT ![op[t].dev] = NoThread]
        /\ UNCHANGED <<waitFor, served>>
    BY <1>6 DEF Release
  <2> HIDE DEF p, o
  <2>4. DriverType'
    BY <2>1, <2>2, <2>3 DEF DriverType, PCs
  <2>5. Holding'
    BY <2>1, <2>2, <2>3 DEF DriverType, Holding, Inside
  <2>. QED  BY <2>4, <2>5
<1>7. ASSUME NEW d \in Devices, Signal(d), UNCHANGED <<lock, pc, op>>,
             served' = served \/ Serve(d)
      PROVE  Locks'
  <2>1. DriverType'
    <3>1. served' \in [Threads -> BOOLEAN]
      <4>1. CASE served' = served
        BY <4>1 DEF DriverType
      <4>2. CASE Serve(d)
        BY <4>2, Zenon DEF Serve
      <4>. QED  BY <1>7, <4>1, <4>2
    <3>2. waitFor' \in [Devices -> Nat]
      BY <1>7 DEF DriverType, Signal
    <3>. QED  BY <1>7, <3>1, <3>2 DEF DriverType
  <2>2. Holding'
    BY <1>7, Zenon DEF Holding, Inside
  <2>. QED  BY <2>1, <2>2
<1>8. CASE KeyboardIdle \/ UNCHANGED vars
  BY <1>8 DEF DriverType, Holding, Inside, KeyboardIdle, driverVars, vars
<1>9. CASE KeyboardInt \/ KeyboardEnd \/ DisplayInt \/ DiskInterrupt
  BY <1>7, <1>9 DEF KeyboardInt, KeyboardEnd, DisplayInt, DiskInterrupt, Devices
<1>. QED  BY <1>1, <1>2, <1>3, <1>4, <1>5, <1>6, <1>8, <1>9 DEF Next, Step

-----------------------------------------------------------------------------
(* The display and the disk.                                               *)

\* The steps of other threads, and of this device's threads outside their calls.
LEMMA HandshakeFrame ==
  ASSUME NEW d, NEW busy \in BOOLEAN, Handshake(d, busy),
         waitFor'[d] = waitFor[d],
         \/ lock'[d] = lock[d]
              /\ (lock[d] # NoThread =>
                    pc'[lock[d]] = pc[lock[d]] /\ (served[lock[d]] => served'[lock[d]]))
         \/ ~Waiting(d) /\ (lock'[d] = NoThread \/ pc'[lock'[d]] = "request")
  PROVE  /\ busy => Waiting(d)' /\ waitFor'[d] = 0
         /\ ~busy => waitFor'[d] = (IF Waiting(d)' THEN 1 ELSE 0)
         /\ lock'[d] # NoThread
              /\ (pc'[lock'[d]] = "release" \/ (pc'[lock'[d]] = "wait" /\ ~busy))
                => served'[lock'[d]]
BY Zenon DEF Handshake, Waiting

LEMMA HandshakesKept ==
  ASSUME Locks, Handshakes, [Next]_vars
  PROVE  Handshakes'
<1> USE ThreadFacts DEF Locks
<1>a. "display" \in Devices /\ "disk" \in Devices
  BY DEF Devices
\* A step that leaves the devices and the semaphores alone.
<1>b. ASSUME UNCHANGED <<putBusy, putPending, active, diskInt>>,
             \A d \in {"display", "disk"} :
               /\ waitFor'[d] = waitFor[d]
               /\ \/ lock'[d] = lock[d]
                     /\ (lock[d] # NoThread =>
                           /\ pc'[lock[d]] = pc[lock[d]]
                           /\ (served[lock[d]] => served'[lock[d]]))
                  \/ ~Waiting(d) /\ (lock'[d] = NoThread \/ pc'[lock'[d]] = "request")
      PROVE  Handshakes'
  <2>1. /\ putBusy \in BOOLEAN /\ active \in BOOLEAN
        /\ Handshake("display", putBusy) /\ Handshake("disk", active)
        /\ putPending = putBusy /\ diskInt.pending = active
    BY DEF Handshakes
  <2>2. Handshake("display", putBusy)'
    BY <1>b, <2>1, HandshakeFrame, Zenon DEF Handshake
  <2>3. Handshake("disk", active)'
    BY <1>b, <2>1, HandshakeFrame, Zenon DEF Handshake
  <2>. QED  BY <1>b, <2>1, <2>2, <2>3 DEF Handshakes
<1>1. ASSUME NEW t \in Clients, NEW o \in ClientOps, Call(t, o)
      PROVE  Handshakes'
  <2>1. \A d \in {"display", "disk"} : lock[d] # NoThread => lock[d] # t /\ lock[d] \in Threads
    BY <1>1, <1>a DEF DriverType, Holding, Inside, Call
  <2>. QED  BY <1>1, <1>b, <2>1 DEF DriverType, Call, consoleVars, outputVars
<1>2. ASSUME NEW t \in Threads, Acquire(t)
      PROVE  Handshakes'
  <2>1. op[t].dev \in Devices
    BY <1>2, Zenon DEF Holding, Acquire
  <2>2. \A d \in {"display", "disk"} : lock[d] # NoThread => lock[d] # t /\ lock[d] \in Threads
    BY <1>2, <1>a DEF DriverType, Holding, Inside, Acquire
  <2>3. \A d \in {"display", "disk"} :
          \/ lock'[d] = lock[d] /\ (lock[d] # NoThread => pc'[lock[d]] = pc[lock[d]])
          \/ ~Waiting(d) /\ pc'[lock'[d]] = "request"
    BY <1>2, <1>a, <2>1, <2>2 DEF DriverType, Acquire, Waiting
  <2>. QED  BY <1>2, <1>b, <2>3, Zenon DEF Acquire, consoleVars, outputVars, diskVars
<1>3. ASSUME NEW t \in Threads, NEW d \in {"display", "disk"},
             pc[t] = "request", op[t].dev = d,
             pc' = [pc EXCEPT ![t] = "wait"], UNCHANGED <<lock, waitFor>>
      PROVE  /\ lock[d] = t /\ ~Waiting(d)
             /\ waitFor'[d] = waitFor[d]
             /\ Waiting(d)'
  BY <1>3, <1>a DEF DriverType, Holding, Inside, Waiting
<1>4. ASSUME NEW t \in Threads, PutChar(t)
      PROVE  Handshakes'
  <2>1. lock["display"] = t /\ ~Waiting("display") /\ Waiting("display")'
    BY <1>3, <1>4, Zenon DEF PutChar
  <2>2. waitFor["display"] = 0 /\ waitFor' = waitFor /\ lock' = lock
    BY <1>4, <2>1 DEF PutChar, Handshakes, Handshake
  <2>3. putBusy' = TRUE /\ putPending' = TRUE /\ UNCHANGED <<active, diskInt>>
    BY <1>4 DEF PutChar, ConsoleOutputPutChar, diskVars
  <2>4. Handshake("display", putBusy)'
    BY <1>4, <2>1, <2>2, <2>3 DEF Handshake, DriverType, PutChar
  <2>5. lock["disk"] # NoThread => lock["disk"] # t /\ lock["disk"] \in Threads
    BY <1>4, <1>a DEF DriverType, Holding, PutChar
  <2>6. lock["disk"] # NoThread => pc'[lock["disk"]] = pc[lock["disk"]]
                                    /\ served'[lock["disk"]] = served[lock["disk"]]
    BY <1>4, <2>5, Zenon DEF DriverType, PutChar
  <2>7. Handshake("disk", active)'
    BY <2>2, <2>3, <2>6, HandshakeFrame, Zenon DEF Handshakes, Handshake
  <2>. QED  BY <2>3, <2>4, <2>7, Zenon DEF Handshakes
<1>5. ASSUME NEW t \in Threads, DiskRequest(t)
      PROVE  Handshakes'
  <2>1. lock["disk"] = t /\ ~Waiting("disk") /\ Waiting("disk")'
    BY <1>3, <1>5, Zenon DEF DiskRequest
  <2>2. waitFor["disk"] = 0 /\ waitFor' = waitFor /\ lock' = lock
    BY <1>5, <2>1, Zenon DEF DiskRequest, Handshakes, Handshake
  <2>3. active' = TRUE /\ diskInt'.pending = TRUE /\ UNCHANGED <<putBusy, putPending>>
    BY <1>5, Zenon DEF DiskRequest, Request, consoleVars, outputVars
  <2>4. Handshake("disk", active)'
    BY <1>5, <2>1, <2>2, <2>3 DEF Handshake, DriverType, DiskRequest
  <2>5. lock["display"] # NoThread => lock["display"] # t /\ lock["display"] \in Threads
    BY <1>5, <1>a DEF DriverType, Holding, DiskRequest
  <2>6. lock["display"] # NoThread => pc'[lock["display"]] = pc[lock["display"]]
                                       /\ served'[lock["display"]] = served[lock["display"]]
    BY <1>5, <2>5, Zenon DEF DriverType, DiskRequest
  <2>7. Handshake("display", putBusy)'
    BY <2>2, <2>3, <2>6, HandshakeFrame, Zenon DEF Handshakes, Handshake
  <2>. QED  BY <2>3, <2>4, <2>7, Zenon DEF Handshakes
<1>6. ASSUME NEW t \in Threads, Wait(t)
      PROVE  Handshakes'
  <2> DEFINE e == op[t].dev
  <2>1. e \in Devices /\ lock[e] = t
    BY <1>6 DEF Holding, Inside, Wait
  <2>2. \A d \in {"display", "disk"} :
          d # e /\ lock[d] # NoThread => lock[d] # t /\ lock[d] \in Threads
    BY <1>6, <1>a DEF DriverType, Holding
  <2>3. UNCHANGED <<putBusy, putPending, active, diskInt, lock, served>>
    BY <1>6 DEF Wait, consoleVars, outputVars, diskVars
  <2>4. \A d \in {"display", "disk"} : d # e =>
          /\ waitFor'[d] = waitFor[d]
          /\ lock[d] # NoThread => pc'[lock[d]] = pc[lock[d]]
    BY <1>6, <1>a, <2>1, <2>2 DEF DriverType, Wait
  <2>5. ASSUME NEW d \in {"display", "disk"}, NEW busy \in BOOLEAN, d = e, Handshake(d, busy)
        PROVE  ~busy /\ ~Waiting(d)' /\ waitFor'[d] = 0 /\ served[t] /\ lock'[d] = t
    <3>1. Waiting(d) /\ waitFor[d] > 0
      BY <1>6, <2>1, <2>5, Zenon DEF Wait, Waiting
    <3>2. ~busy /\ waitFor[d] = 1 /\ served[t]
      <4>1. waitFor[d] # 0
        BY <3>1
      <4>2. ~busy
        BY <2>5, <4>1, Zenon DEF Handshake
      <4>3. waitFor[d] = 1
        BY <2>5, <3>1, <4>2, Zenon DEF Handshake
      <4>. QED  BY <2>1, <2>5, <3>1, <4>2, <4>3, Zenon DEF Handshake, Waiting
    <3>3. waitFor'[d] = 1 - 1 /\ pc'[t] # "wait"
      BY <1>6, <2>1, <2>5, <3>2 DEF Wait, DriverType
    <3>4. waitFor'[d] = 0
      BY <3>3
    <3>5. lock'[d] = t /\ ~Waiting(d)'
      BY <2>1, <2>3, <2>5, <3>3, Zenon DEF Waiting
    <3>. QED  BY <3>2, <3>4, <3>5, Zenon
  <2> HIDE DEF e
  <2>6. Handshake("display", putBusy)'
    <3>1. CASE e = "display"
      BY <2>3, <2>5, <3>1, Zenon DEF Handshakes, Handshake, Waiting
    <3>2. CASE e # "display"
      BY <2>3, <2>4, <3>2, HandshakeFrame, Zenon DEF Handshakes, Handshake
    <3>. QED  BY <3>1, <3>2
  <2>7. Handshake("disk", active)'
    <3>1. CASE e = "disk"
      BY <2>3, <2>5, <3>1, Zenon DEF Handshakes, Handshake, Waiting
    <3>2. CASE e # "disk"
      BY <2>3, <2>4, <3>2, HandshakeFrame, Zenon DEF Handshakes, Handshake
    <3>. QED  BY <3>1, <3>2
  <2>. QED  BY <2>3, <2>6, <2>7 DEF Handshakes
<1>7. ASSUME NEW t \in Threads, TakeChar(t)
      PROVE  Handshakes'
  <2>1. \A d \in {"display", "disk"} : lock[d] # NoThread => lock[d] # t /\ lock[d] \in Threads
    BY <1>7, <1>a DEF DriverType, Holding, TakeChar
  <2>. QED  BY <1>7, <1>b, <2>1
            DEF DriverType, TakeChar, ConsoleInputGetChar, outputVars, diskVars
<1>8. ASSUME NEW t \in Threads, Release(t)
      PROVE  Handshakes'
  <2>1. op[t].dev \in Devices /\ lock[op[t].dev] = t
    BY <1>8, Zenon DEF Holding, Inside, Release
  <2>2. \A d \in {"display", "disk"} :
          d # op[t].dev /\ lock[d] # NoThread => lock[d] # t /\ lock[d] \in Threads
    BY <1>8, <1>a DEF DriverType, Holding
  <2>3. \A d \in {"display", "disk"} :
          \/ lock'[d] = lock[d] /\ (lock[d] # NoThread => pc'[lock[d]] = pc[lock[d]])
          \/ ~Waiting(d) /\ lock'[d] = NoThread
    BY <1>8, <1>a, <2>1, <2>2, Zenon DEF DriverType, Release, Waiting
  <2>. QED  BY <1>8, <1>b, <2>3, Zenon DEF Release, consoleVars, outputVars, diskVars
<1>9. CASE KeyboardIdle \/ KeyboardInt \/ KeyboardEnd \/ UNCHANGED vars
  <2>1. \A d \in {"display", "disk"} : waitFor'[d] = waitFor[d]
    BY <1>9, <1>a DEF DriverType, KeyboardIdle, KeyboardInt, KeyboardEnd, Signal, vars, driverVars
  <2>2. UNCHANGED <<putBusy, putPending, active, diskInt, lock, pc, served>>
    BY <1>9 DEF KeyboardIdle, KeyboardInt, KeyboardEnd, PollNothing, PollChar, PollEnd,
                vars, driverVars, consoleVars, outputVars, diskVars
  <2>. QED  BY <1>b, <2>1, <2>2
\* The interrupt of a device that was busy.
<1>10. ASSUME NEW d \in {"display", "disk"}, Handshake(d, TRUE),
              Signal(d), Serve(d), UNCHANGED <<lock, pc>>
       PROVE  Handshake(d, FALSE)'
  <2>1. Waiting(d) /\ waitFor[d] = 0
    BY <1>10, Zenon DEF Handshake
  <2>2. waitFor'[d] = 0 + 1
    BY <1>10, <1>a, <2>1, Zenon DEF Signal, DriverType
  <2>3. Waiting(d)'
    BY <1>10, <2>1, Zenon DEF Waiting
  <2>4. lock[d] \in Threads /\ pc[lock[d]] = "wait"
    BY <1>a, <2>1 DEF Waiting, DriverType
  <2>5. served'[lock[d]]
    BY <1>10, <2>4, Zenon DEF Serve
  <2>6. lock'[d] = lock[d]
    BY <1>10, Zenon
  <2>7. waitFor'[d] = 1
    BY <2>2
  <2>. QED  BY <2>3, <2>5, <2>6, <2>7, Zenon DEF Handshake
<1>11. ASSUME NEW d, NEW e \in {"display", "disk"}, d # e, NEW busy \in BOOLEAN,
              Handshake(e, busy), Signal(d), Serve(d), UNCHANGED <<lock, pc>>
       PROVE  /\ busy => Waiting(e)' /\ waitFor'[e] = 0
              /\ ~busy => waitFor'[e] = (IF Waiting(e)' THEN 1 ELSE 0)
              /\ lock'[e] # NoThread
                   /\ (pc'[lock'[e]] = "release" \/ (pc'[lock'[e]] = "wait" /\ ~busy))
                     => served'[lock'[e]]
  <2>1. waitFor'[e] = waitFor[e]
    BY <1>11, <1>a DEF DriverType, Signal
  <2>2. lock[e] # NoThread => (served[lock[e]] => served'[lock[e]])
    BY <1>11, <1>a DEF DriverType, Serve
  <2>. QED  BY <1>11, <2>1, <2>2, HandshakeFrame, Zenon
<1>12. CASE DisplayInt
  <2>1. putBusy = TRUE /\ putBusy' = FALSE /\ putPending' = FALSE /\ UNCHANGED <<active, diskInt>>
    BY <1>12, Zenon DEF DisplayInt, ConsoleOutputCallBack, Handshakes, diskVars
  <2>2. Handshake("display", FALSE)'
    BY <1>10, <1>12, <2>1, Zenon DEF DisplayInt, Handshakes
  <2>3. Handshake("display", putBusy)'
    BY <2>1, <2>2 DEF Handshake
  <2>4. Handshake("disk", active)'
    BY <1>11, <1>12, <2>1, Zenon DEF DisplayInt, Handshakes, Handshake
  <2>. QED  BY <2>1, <2>3, <2>4, Zenon DEF Handshakes
<1>13. CASE DiskInterrupt
  <2>1. /\ active = TRUE /\ active' = FALSE /\ diskInt'.pending = FALSE
        /\ UNCHANGED <<putBusy, putPending>>
    BY <1>13, Zenon DEF DiskInterrupt, DiskCallBack, NoInt, Handshakes, consoleVars, outputVars
  <2>2. Handshake("disk", FALSE)'
    BY <1>10, <1>13, <2>1, Zenon DEF DiskInterrupt, Handshakes
  <2>3. Handshake("disk", active)'
    BY <2>1, <2>2, Zenon DEF Handshake
  <2>4. Handshake("display", putBusy)'
    BY <1>11, <1>13, <2>1, Zenon DEF DiskInterrupt, Handshakes, Handshake
  <2>. QED  BY <2>1, <2>3, <2>4, Zenon DEF Handshakes
<1>. QED  BY <1>1, <1>2, <1>4, <1>5, <1>6, <1>7, <1>8, <1>9, <1>12, <1>13 DEF Next, Step

-----------------------------------------------------------------------------
(* The keyboard.                                                           *)

LEMMA BufferGoesOn ==
  ASSUME NEW M, NEW g \in Seq(M), NEW c \in M, NEW k \in Seq(M)
  PROVE  /\ Append(g, c) \o <<>> \o k = g \o <<c>> \o k
         /\ k # <<>> => /\ Head(k) \in M /\ Tail(k) \in Seq(M)
                        /\ g \o <<Head(k)>> \o Tail(k) = g \o <<>> \o k
         /\ g \o <<>> \o <<>> = g
<1>1. Append(g, c) \o <<>> \o k = g \o <<c>> \o k
  <2>1. Append(g, c) \o <<>> = g \o <<c>>
    OBVIOUS
  <2>. QED  BY <2>1
<1>2. ASSUME k # <<>>
      PROVE  /\ Head(k) \in M /\ Tail(k) \in Seq(M)
             /\ g \o <<Head(k)>> \o Tail(k) = g \o <<>> \o k
  <2>1. Head(k) \in M /\ Tail(k) \in Seq(M)
    BY <1>2
  <2>2. k = <<Head(k)>> \o Tail(k)
    BY <1>2
  <2>3. g \o <<>> = g
    OBVIOUS
  <2>4. PICK h \in M, l \in Seq(M) : h = Head(k) /\ l = Tail(k) /\ k = <<h>> \o l
    BY <2>1, <2>2, Zenon
  <2>5. (g \o <<h>>) \o l = g \o (<<h>> \o l)
    OBVIOUS
  <2>. QED  BY <2>1, <2>3, <2>4, <2>5
<1>3. g \o <<>> \o <<>> = g
  OBVIOUS
<1>. QED  BY <1>1, <1>2, <1>3, Zenon

LEMMA InputKept ==
  ASSUME Locks, Input, [Next]_vars
  PROVE  Input'
<1> USE ThreadFacts DEF Locks
<1> DEFINE M == Chars \cup {EOF}
<1>a. "keyboard" \in Devices
  BY DEF Devices
\* A step that leaves the keyboard and its readers alone.
<1>b. ASSUME UNCHANGED <<inputVars, got>>, waitFor'["keyboard"] = waitFor["keyboard"],
             Taking' = Taking
      PROVE  Input'
  <2>1. Full' = Full
    BY <1>b DEF Full
  <2>. QED  BY <1>b, <2>1 DEF Input, inputVars
<1>1. ASSUME NEW t \in Clients, NEW o \in ClientOps, Call(t, o)
      PROVE  Input'
  <2>1. lock["keyboard"] # NoThread => lock["keyboard"] # t /\ lock["keyboard"] \in Threads
    BY <1>1, <1>a DEF DriverType, Holding, Inside, Call
  <2>2. Taking' = Taking
    BY <1>1, <2>1 DEF Taking, DriverType, Call
  <2>. QED  BY <1>1, <1>b, <2>2 DEF Call, consoleVars
<1>2. ASSUME NEW t \in Threads, Acquire(t)
      PROVE  Input'
  <2>1. lock["keyboard"] # NoThread => lock["keyboard"] # t /\ lock["keyboard"] \in Threads
    BY <1>2, <1>a DEF DriverType, Holding, Inside, Acquire
  <2>2. op[t].dev \in Devices
    BY <1>2, Zenon DEF Holding, Acquire
  <2>3. Taking' = Taking
    BY <1>2, <1>a, <2>1, <2>2 DEF Taking, DriverType, Acquire
  <2>. QED  BY <1>2, <1>b, <2>3, Zenon DEF Acquire, consoleVars
<1>3. ASSUME NEW t \in Threads, PutChar(t) \/ DiskRequest(t)
      PROVE  Input'
  <2>1. Taking' = Taking
    BY <1>3, <1>a DEF Taking, DriverType, PutChar, DiskRequest
  <2>2. UNCHANGED inputVars
    BY <1>3, Zenon DEF PutChar, DiskRequest, ConsoleOutputPutChar, consoleVars
  <2>. QED  BY <1>3, <1>b, <2>1, <2>2, Zenon DEF PutChar, DiskRequest
<1>4. ASSUME NEW t \in Threads, Wait(t)
      PROVE  Input'
  <2>1. op[t].dev \in Devices /\ lock[op[t].dev] = t /\ UNCHANGED inputVars
    BY <1>4, ZenonT(60) DEF Holding, Inside, Wait, consoleVars
  <2>2. CASE op[t].dev = "keyboard"
    <3>1. waitFor["keyboard"] = 1 /\ Full
      BY <1>4, <2>2, SMTT(30) DEF Input, Wait, Full
    <3>2. waitFor'["keyboard"] = 1 - 1
      BY <1>4, <1>a, <2>2, <3>1 DEF Wait, DriverType
    <3>3. Taking'
      BY <1>4, <1>a, <2>1, <2>2 DEF Taking, Wait, DriverType
    <3>4. Full'
      BY <3>3 DEF Full
    <3>. QED  BY <1>4, <2>1, <3>1, <3>2, <3>4, SMTT(30) DEF Input, inputVars, Wait
  <2>3. CASE op[t].dev # "keyboard"
    <3>1. Taking' = Taking
      BY <1>4, <1>a, <2>1, <2>3 DEF Taking, Wait, DriverType
    <3>2. waitFor'["keyboard"] = waitFor["keyboard"]
      BY <1>4, <1>a, <2>1, <2>3 DEF Wait, DriverType
    <3>. QED  BY <1>4, <1>b, <2>1, <3>1, <3>2 DEF Wait
  <2>. QED  BY <2>2, <2>3
<1>5. ASSUME NEW t \in Threads, TakeChar(t)
      PROVE  Input'
  <2>1. lock["keyboard"] = t /\ Taking
    BY <1>5, <1>a DEF Holding, Inside, TakeChar, Taking
  <2>2. Full /\ waitFor["keyboard"] = 0 /\ ~polling
    BY <2>1 DEF Full, Input
  <2>3. lock' = lock /\ waitFor' = waitFor /\ pc'[t] = "release"
    BY <1>5 DEF TakeChar, DriverType
  <2>4. ~Taking' /\ ~Full'
    BY <2>1, <2>2, <2>3 DEF Taking, Full
  <2>5. /\ got' = Append(got, incoming) /\ incoming' = EOF
        /\ polling' = (polling \/ incoming # EOF) /\ UNCHANGED <<typed, keyboard, atEnd>>
    BY <1>5 DEF TakeChar, ConsoleInputGetChar
  <2>6. got \in Seq(M) /\ keyboard \in Seq(M) /\ incoming \in M /\ got' \in Seq(M)
    BY <2>5 DEF Input
  <2>7. got' \o <<>> \o keyboard = got \o <<incoming>> \o keyboard
    BY <2>5, <2>6, BufferGoesOn
  <2>8. ~atEnd => got' \o <<>> \o keyboard = typed
    BY <2>2, <2>7, Zenon DEF Input
  <2>9. atEnd => incoming = EOF /\ got' = Append(typed, EOF)
    BY <2>2, <2>5, Zenon DEF Input
  <2>10. polling' \in BOOLEAN /\ (polling' => ~atEnd)
    BY <2>2, <2>5, <2>9 DEF Input
  <2>. QED  BY <2>2, <2>3, <2>4, <2>5, <2>6, <2>8, <2>9, <2>10 DEF Input
<1>6. ASSUME NEW t \in Threads, Release(t)
      PROVE  Input'
  <2>1. op[t].dev \in Devices /\ lock[op[t].dev] = t
    BY <1>6 DEF Holding, Inside, Release
  <2>2. op[t].dev # "keyboard" /\ lock["keyboard"] # NoThread =>
          lock["keyboard"] # t /\ lock["keyboard"] \in Threads
    BY <1>a DEF DriverType, Holding
  <2>3. Taking' = Taking
    BY <1>6, <1>a, <2>1, <2>2 DEF Taking, Release, DriverType
  <2>. QED  BY <1>6, <1>b, <2>3 DEF Release, consoleVars
<1>7. CASE KeyboardIdle \/ DisplayInt \/ DiskInterrupt \/ UNCHANGED vars
  <2>1. UNCHANGED <<inputVars, got, lock, pc>>
    BY <1>7 DEF KeyboardIdle, DisplayInt, DiskInterrupt, PollNothing, ConsoleOutputCallBack,
                vars, driverVars, consoleVars
  <2>2. waitFor'["keyboard"] = waitFor["keyboard"]
    BY <1>7, <1>a DEF KeyboardIdle, DisplayInt, DiskInterrupt, Signal, DriverType, vars, driverVars
  <2>. QED  BY <1>b, <2>1, <2>2, Zenon DEF Taking
<1>8. CASE KeyboardInt \/ KeyboardEnd
  <2>1. polling /\ ~Full /\ ~atEnd /\ incoming = EOF /\ waitFor["keyboard"] = 0 /\ ~Taking
    BY <1>8 DEF KeyboardInt, KeyboardEnd, PollChar, PollEnd, Input, Full
  <2>2. got \o <<>> \o keyboard = typed /\ got \in Seq(M) /\ keyboard \in Seq(M)
    BY <2>1 DEF Input
  <2>3. waitFor'["keyboard"] = 0 + 1 /\ UNCHANGED <<typed, lock, pc, got>> /\ polling' = FALSE
    BY <1>8, <1>a, <2>1 DEF KeyboardInt, KeyboardEnd, PollChar, PollEnd, Signal, DriverType
  <2>4. ~Taking' /\ Full'
    BY <2>1, <2>3, SMTT(30) DEF Taking, Full
  <2>5. CASE KeyboardInt
    <3>1. /\ incoming' = Head(keyboard) /\ keyboard' = Tail(keyboard)
          /\ keyboard # <<>> /\ atEnd' = atEnd
      BY <2>5 DEF KeyboardInt, PollChar
    <3>2. EOF \in M
      OBVIOUS
    <3>3. /\ Head(keyboard) \in M /\ Tail(keyboard) \in Seq(M)
          /\ got \o <<Head(keyboard)>> \o Tail(keyboard) = got \o <<>> \o keyboard
      BY <2>2, <3>1, <3>2, BufferGoesOn
    <3>4. /\ incoming' \in M /\ keyboard' \in Seq(M)
          /\ got' \o <<incoming'>> \o keyboard' = typed'
      BY <2>2, <2>3, <3>1, <3>3, Zenon
    <3>5. ~atEnd' /\ atEnd' \in BOOLEAN
      BY <2>1, <3>1, Zenon DEF Input
    <3>6. polling' \in BOOLEAN /\ ~polling'
      BY <2>3, Zenon
    <3>7. waitFor'["keyboard"] = 1 /\ typed' \in Seq(M) /\ got' \in Seq(M)
      BY <2>2, <2>3 DEF Input
    <3>. QED  BY <2>4, <3>4, <3>5, <3>6, <3>7, Zenon DEF Input
  <2>6. CASE KeyboardEnd
    <3>1. keyboard = <<>> /\ atEnd' = TRUE /\ UNCHANGED <<keyboard, incoming>>
      BY <2>6 DEF KeyboardEnd, PollEnd
    <3>2. got = typed
      BY <2>2, <3>1
    <3>3. atEnd' /\ atEnd' \in BOOLEAN
      BY <3>1, Zenon
    <3>4. polling' \in BOOLEAN /\ ~polling'
      BY <2>3, Zenon
    <3>5. /\ waitFor'["keyboard"] = 1 /\ typed' \in Seq(M) /\ got' \in Seq(M)
          /\ keyboard' \in Seq(M) /\ incoming' = EOF /\ got' = typed'
      BY <2>1, <2>2, <2>3, <3>1, <3>2 DEF Input
    <3>. QED  BY <2>4, <3>3, <3>4, <3>5 DEF Input
  <2>. QED  BY <1>8, <2>5, <2>6
<1>. QED  BY <1>1, <1>2, <1>3, <1>4, <1>5, <1>6, <1>7, <1>8 DEF Next, Step

-----------------------------------------------------------------------------
(* The disk's times.                                                       *)

LEMMA HeadTimesKept ==
  ASSUME Locks, Handshakes, HeadTimes, [Next]_vars
  PROVE  HeadTimes'
<1> USE ThreadFacts DEF Locks
<1>1. CASE UNCHANGED diskVars
  BY <1>1 DEF diskVars, HeadTimes, DiskTimes
<1>2. ASSUME NEW t \in Clients, NEW o \in ClientOps, Call(t, o)
      PROVE  HeadTimes'
  <2>1. UNCHANGED <<lastSector, bufferInit, diskInt>>
    BY <1>2 DEF Call
  <2>2. DiskTimes'
    BY <2>1 DEF HeadTimes, DiskTimes
  <2>3. totalTicks' \in Nat /\ totalTicks <= totalTicks'
    BY <1>2, DriversAssumption DEF Call, HeadTimes
  <2>. QED  BY <2>1, <2>2, <2>3 DEF HeadTimes
<1>3. ASSUME NEW t \in Threads, DiskRequest(t)
      PROVE  HeadTimes'
  <2> DEFINE s     == op[t].sector
             w     == op[t].writing
             seek  == TimeToSeek(s)
             since == IF seek = 0 /\ ~w THEN bufferInit ELSE totalTicks + seek
             when  == totalTicks + ComputeLatency(s, w)
             B     == Boundary(totalTicks + seek)
  <2>1. s \in Nat /\ w \in BOOLEAN
    BY DEF DriverType, Ops
  <2>2. ~diskInt.pending
    <3>1. lock["disk"] = t /\ pc[t] # "wait"
      BY <1>3 DEF DiskRequest, Holding, Inside
    <3>. QED  BY <3>1, ZenonT(60) DEF Handshakes, Handshake, Waiting
  <2>3. totalTicks \in Nat /\ lastSector \in Nat /\ bufferInit \in Nat
        /\ bufferInit % RotationTime = 0 /\ bufferInit <= totalTicks
    BY <2>2 DEF HeadTimes
  <2>4. seek \in Nat
    BY <2>1, <2>3, SeekIs
  <2>5. totalTicks + seek + RotationAfter(seek) = B
    BY <2>3, <2>4, RotationIs
  <2>6. B \in Nat /\ B % RotationTime = 0
    BY <2>3, <2>4, BoundaryIs
  <2>7. /\ when \in Nat /\ (B <= when \/ seek = 0)
        /\ when = Max({totalTicks, Min(Passes(s, since))}) + RotationTime
    BY <2>1, <2>3, LatencyIs, Zenon
  <2>8. totalTicks <= when
    <3> HIDE DEF since, s, w
    <3> DEFINE F == Min(Passes(s, since))
    <3>1. since \in Nat
      BY <2>3, <2>4 DEF since
    <3>2. F \in Int
      <4>1. FirstPass(s, since) \in Nat /\ Min(Passes(s, since)) = FirstPass(s, since)
        BY <2>1, <3>1, FirstPassIs
      <4>. QED  BY <4>1
    <3> HIDE DEF F
    <3>3. Max({totalTicks, F}) >= totalTicks /\ Max({totalTicks, F}) \in Int
      BY <2>3, <3>2, MaxIs
    <3>. QED  BY <2>3, <2>7, <3>3, DiskConstants DEF F
  <2>9. /\ bufferInit' = IF seek # 0 THEN B ELSE bufferInit
        /\ lastSector' = s /\ totalTicks' = totalTicks
        /\ diskInt' = [pending |-> TRUE, when |-> when, sector |-> s, writing |-> w,
                       issued |-> totalTicks, from |-> lastSector]
    BY <1>3, <2>5, Zenon DEF DiskRequest, Request, UpdateLast
  <2>10. DiskTimes'
    <3>1. Distance(s \div SectorsPerTrack, lastSector \div SectorsPerTrack) * SeekTime = seek
      BY DEF TimeToSeek
    <3>2. (IF seek = 0 /\ ~w THEN bufferInit' ELSE totalTicks + seek) = since
      BY <2>9, ZenonT(60)
    <3> HIDE DEF seek, since, when, s, w
    <3>. QED  BY <2>7, <2>9, <3>1, <3>2, Zenon DEF DiskTimes
  <2>11. bufferInit' \in Nat /\ bufferInit' % RotationTime = 0 /\ bufferInit' <= when
    <3> HIDE DEF seek, when, B
    <3>. QED  BY <2>3, <2>6, <2>7, <2>8, <2>9
  <2> HIDE DEF when, s, w, B
  <2>12. diskInt'.pending /\ diskInt'.when = when
    BY <2>9
  <2>. QED  BY <2>1, <2>3, <2>7, <2>9, <2>10, <2>11, <2>12, Zenon DEF HeadTimes
<1>4. CASE DiskInterrupt
  <2>1. /\ UNCHANGED <<lastSector, bufferInit>> /\ diskInt.pending
        /\ diskInt'.pending = FALSE /\ totalTicks' = Max({totalTicks, diskInt.when})
    BY <1>4 DEF DiskInterrupt, DiskCallBack, NoInt
  <2>2. totalTicks \in Nat /\ diskInt.when \in Nat /\ bufferInit <= diskInt.when
        /\ bufferInit \in Nat
    BY <2>1 DEF HeadTimes
  <2>3. totalTicks' \in Nat /\ diskInt.when <= totalTicks'
    BY <2>1, <2>2, MaxIs
  <2>4. DiskTimes'
    BY <2>1 DEF DiskTimes
  <2>. QED  BY <2>1, <2>2, <2>3, <2>4 DEF HeadTimes
<1>5. ASSUME NEW t \in Threads, Step(t), ~DiskRequest(t)
      PROVE  UNCHANGED diskVars
  BY <1>5 DEF Step, Acquire, PutChar, Wait, TakeChar, Release
<1>6. CASE KeyboardIdle \/ KeyboardInt \/ KeyboardEnd \/ DisplayInt \/ UNCHANGED vars
  BY <1>1, <1>6 DEF KeyboardIdle, KeyboardInt, KeyboardEnd, DisplayInt, vars
<1>. QED  BY <1>1, <1>2, <1>3, <1>4, <1>5, <1>6 DEF Next

-----------------------------------------------------------------------------
(* The theorems.                                                           *)

LEMMA InvInit == Init => IInv
<1> SUFFICES ASSUME Init PROVE IInv
  OBVIOUS
<1> USE ThreadFacts
<1>1. DriverType
  BY OpsTyped DEF Init, DriverType, PCs
<1>2. Holding
  <2>1. \A t \in Threads : ~Inside(t) /\ (pc[t] = "acquire" => op[t] = GetCharOp)
    BY DEF Init, Inside
  <2>2. GetCharOp.dev \in Devices
    BY DEF GetCharOp, NoOp, Devices
  <2>3. \A d \in Devices : lock[d] = NoThread
    BY DEF Init
  <2>. QED  BY <2>1, <2>2, <2>3 DEF Holding, Inside
<1>3. Handshakes
  <2>1. lock["display"] = NoThread /\ lock["disk"] = NoThread
        /\ waitFor["display"] = 0 /\ waitFor["disk"] = 0
    BY DEF Init, Devices
  <2>2. putBusy = FALSE /\ putPending = FALSE /\ active = FALSE /\ diskInt.pending = FALSE
    BY Zenon DEF Init, ConsoleInit, DiskInit, NoInt
  <2>. QED  BY <2>1, <2>2, Zenon DEF Handshakes, Handshake, Waiting
<1>4. Input
  <2>1. lock["keyboard"] = NoThread /\ waitFor["keyboard"] = 0 /\ got = <<>>
    BY DEF Init, Devices
  <2>2. ~Taking /\ ~Full
    BY <2>1 DEF Taking, Full
  <2>3. /\ typed \in Seq(Chars \cup {EOF}) /\ keyboard = typed
        /\ incoming = EOF /\ polling = TRUE /\ atEnd = FALSE
    BY ConsoleAssumption DEF Init, ConsoleInit
  <2>4. <<>> \o <<>> \o typed = typed
    BY <2>3
  <2>5. atEnd \in BOOLEAN /\ polling \in BOOLEAN
    BY <2>3, Zenon
  <2>. QED  BY <2>1, <2>2, <2>3, <2>4, <2>5 DEF Input
<1>5. HeadTimes
  <2>1. totalTicks = 0 /\ lastSector = 0 /\ bufferInit = 0 /\ diskInt.pending = FALSE
    BY DEF Init, DiskInit, NoInt
  <2>2. 0 % RotationTime = 0
    <3>1. 0 = (RotationTime * 0) + 0 /\ 0 < RotationTime
      BY DiskConstants
    <3>2. ((RotationTime * 0) + 0) % RotationTime = 0
      BY <3>1, DiskConstants, DivModUnique
    <3>. QED  BY <3>1, <3>2
  <2>. QED  BY <2>1, <2>2 DEF HeadTimes, DiskTimes
<1>. QED  BY <1>1, <1>2, <1>3, <1>4, <1>5 DEF IInv

\* Every step of the threads, the keyboard, the display and the disk keeps the
\* locks, the handshakes with the devices, the input and the disk's times.
THEOREM Invariance == Spec => []IInv
<1>1. ASSUME IInv, [Next]_vars
      PROVE  IInv'
  <2>1. Locks /\ Handshakes /\ Input /\ HeadTimes /\ incoming \in Chars \cup {EOF}
    BY <1>1 DEF IInv, Locks, Input
  <2>2. Locks' /\ Handshakes' /\ Input' /\ HeadTimes'
    BY <1>1, <2>1, LocksKept, HandshakesKept, InputKept, HeadTimesKept
  <2>. QED  BY <2>2 DEF IInv, Locks
<1>. QED  BY <1>1, InvInit, PTL DEF Spec

\* For all clients and keystrokes, every keystroke reaches exactly one GetChar, in
\* the order typed, and a poll finds the buffer of ConsoleInput empty.
THEOREM InputCorrect == Spec => []InputInOrder
<1>1. ASSUME IInv
      PROVE  InputInOrder
  <2>1. Locks /\ Input /\ "keyboard" \in Devices
    BY <1>1 DEF IInv, Locks, Devices
  <2>2. \A t \in Takers : t = lock["keyboard"]
    BY <2>1, Zenon DEF Locks, Holding, Inside, Takers
  <2>3. Takers # {} <=> Taking
    <3>1. CASE Taking
      <4>1. lock["keyboard"] \in Takers
        BY <2>1, <3>1 DEF Taking, Locks, DriverType, Takers
      <4>. QED  BY <3>1, <4>1
    <3>2. CASE ~Taking
      <4>1. Takers = {}
        BY <2>1, <2>2, <3>2, ThreadFacts, Zenon DEF Taking, Takers
      <4>. QED  BY <3>2, <4>1
    <3>. QED  BY <3>1, <3>2
  <2>4. /\ waitFor["keyboard"] \in {0, 1} /\ (Takers # {} => waitFor["keyboard"] = 0)
        /\ Buffered <=> Full
    BY <2>1, <2>3 DEF Input, Full, Buffered
  <2>. QED  BY <2>1, <2>2, <2>4 DEF InputInOrder, Input
<1>. QED  BY <1>1, Invariance, PTL

\* For all clients, a call on the display or the disk returns only after the
\* interrupt for its own request, and makes its request only to a free device.
THEOREM ReturnsCorrect == Spec => []ReturnsAfterInterrupt
<1>1. ASSUME IInv
      PROVE  ReturnsAfterInterrupt
  <2> SUFFICES ASSUME NEW t \in Threads
               PROVE  /\ pc[t] = "release" /\ op[t].dev # "keyboard" => served[t]
                      /\ pc[t] = "request" /\ op[t].dev = "display" =>
                           ~putBusy /\ waitFor["display"] = 0
                      /\ pc[t] = "request" /\ op[t].dev = "disk" =>
                           ~active /\ waitFor["disk"] = 0
    BY Zenon DEF ReturnsAfterInterrupt
  <2>1. /\ Inside(t) => op[t].dev \in Devices /\ lock[op[t].dev] = t
        /\ Handshake("display", putBusy) /\ Handshake("disk", active)
    BY <1>1 DEF IInv, Holding, Handshakes
  <2>. QED  BY <2>1, ThreadFacts, Zenon DEF Inside, Handshake, Waiting, Devices
<1>. QED  BY <1>1, Invariance, PTL

\* For every disk geometry, seek and rotation time, and whatever requests came
\* before, a request ends when its sector has passed under the head.
THEOREM TimesCorrect == Spec => []DiskTimes
<1>1. IInv => DiskTimes
  BY DEF IInv, HeadTimes
<1>. QED  BY <1>1, Invariance, PTL

=============================================================================
