-------------------------- MODULE PostOfficeProofs --------------------------
(***************************************************************************)
(* Proofs about PostOffice: mail keeps its order, one send at a time, and   *)
(* an acknowledgement means that the first message was received.            *)
(*                                                                         *)
(* The inductive invariant has three parts that support one another: Output *)
(* (the send lock and the device), Mails (what kind of mail can be where)   *)
(* and Input (the way from the socket to the boxes).  ForBox is recursive;  *)
(* what it does to an appended mail is shown by induction on the position.  *)
(***************************************************************************)
EXTENDS PostOffice, WellFoundedInduction, TLAPS

-----------------------------------------------------------------------------
(* Sequences                                                                *)

\* What Append does.
LEMMA AppendIs ==
  ASSUME NEW S, NEW s \in Seq(S), NEW x \in S
  PROVE  /\ Append(s, x) \in Seq(S) /\ Len(Append(s, x)) = Len(s) + 1
         /\ Append(s, x)[Len(s) + 1] = x
         /\ \A k \in 1 .. Len(s) : Append(s, x)[k] = s[k]
OBVIOUS

\* What Head and Tail do.
LEMMA HeadTailAre ==
  ASSUME NEW S, NEW s \in Seq(S), s # <<>>
  PROVE  /\ Len(s) \in Nat \ {0} /\ Head(s) \in S
         /\ Tail(s) \in Seq(S) /\ Len(Tail(s)) = Len(s) - 1
         /\ \A k \in 1 .. Len(s) - 1 : Tail(s)[k] = s[k + 1]
OBVIOUS

\* What concatenation does.
LEMMA ConcatIs ==
  ASSUME NEW S, NEW s \in Seq(S), NEW t \in Seq(S)
  PROVE  /\ s \o t \in Seq(S) /\ Len(s \o t) = Len(s) + Len(t)
         /\ \A k \in 1 .. Len(s) + Len(t) :
              (s \o t)[k] = IF k <= Len(s) THEN s[k] ELSE t[k - Len(s)]
OBVIOUS

\* Sequences are equal when their elements are.
LEMMA SameSequence ==
  ASSUME NEW S, NEW s \in Seq(S), NEW t \in Seq(S), Len(s) = Len(t),
         \A k \in 1 .. Len(s) : s[k] = t[k]
  PROVE  s = t
OBVIOUS

LEMMA ConcatEmpty ==
  ASSUME NEW S, NEW s \in Seq(S)
  PROVE  s \o <<>> = s /\ <<>> \o s = s
OBVIOUS

LEMMA AppendConcat ==
  ASSUME NEW S, NEW s \in Seq(S), NEW x \in S
  PROVE  Append(s, x) = s \o <<x>>
OBVIOUS

LEMMA SeqOfMore ==
  ASSUME NEW S, NEW T, NEW s \in Seq(S), S \subseteq T
  PROVE  s \in Seq(T)
OBVIOUS

-----------------------------------------------------------------------------
(* Induction, and the mails for a box                                       *)

\* A set of natural numbers has a least element.
LEMMA LeastNat ==
  ASSUME NEW T, T \subseteq Nat, T # {}
  PROVE \E x \in T : \A y \in T : x <= y
<1>1. IsWellFoundedOn(OpToRel(<,Nat), Nat)
  BY NatLessThanWellFounded, Zenon
<1>2. PICK x \in T : \A y \in T : ~ (<<y, x>> \in OpToRel(<,Nat))
  BY <1>1, WFMin, Zenon
<1>3. \A y \in T : <<y,x>> \in OpToRel(<,Nat) <=> y < x
  BY <1>2 DEF OpToRel
<1>4. \A y \in T : ~(y < x)
  BY <1>2, <1>3, Zenon
<1>5. \A y \in T : y \in Nat /\ x \in Nat
  OBVIOUS
<1>6. \A y \in T : x <= y
  BY <1>4, <1>5
<1>. QED  BY <1>6

\* Induction over the natural numbers, for a set of them.
LEMMA Induction ==
  ASSUME NEW S, S \subseteq Nat, 0 \in S, \A n \in S : n+1 \in S
  PROVE  \A n \in Nat : n \in S
<1>1. SUFFICES ASSUME Nat \ S # {} PROVE FALSE
  OBVIOUS
<1>2. PICK x \in Nat \ S : \A y \in Nat \ S : x <= y
  BY <1>1, LeastNat, Zenon
<1>3. x - 1 \in S
  BY <1>2
<1>. QED  BY <1>2, <1>3

\* f is the function that ForBox(s, b) defines, up to n.
Keeps(f, s, b, n) ==
  /\ f[0] = <<>>
  /\ \A i \in 1 .. n : f[i] = IF s[i].box = b THEN Append(f[i - 1], s[i]) ELSE f[i - 1]

\* There is such a function.
LEMMA KeepsExists ==
  ASSUME NEW M, NEW s \in Seq(M), NEW b
  PROVE  \E f \in [0 .. Len(s) -> Seq(M)] : Keeps(f, s, b, Len(s))
<1> DEFINE S == {n \in Nat : n <= Len(s) => \E f \in [0 .. n -> Seq(M)] : Keeps(f, s, b, n)}
<1>1. 0 \in S
  <2> DEFINE f == [i \in 0 .. 0 |-> <<>>]
  <2>1. f \in [0 .. 0 -> Seq(M)] /\ Keeps(f, s, b, 0)
    BY DEF Keeps
  <2>. QED  BY <2>1, Zenon
<1>2. ASSUME NEW n \in S PROVE n + 1 \in S
  <2> SUFFICES ASSUME n + 1 <= Len(s)
               PROVE  \E f \in [0 .. n + 1 -> Seq(M)] : Keeps(f, s, b, n + 1)
    OBVIOUS
  <2>1. PICK f \in [0 .. n -> Seq(M)] : Keeps(f, s, b, n)
    OBVIOUS
  <2> DEFINE last == IF s[n + 1].box = b THEN Append(f[n], s[n + 1]) ELSE f[n]
             g == [i \in 0 .. n + 1 |-> IF i <= n THEN f[i] ELSE last]
  <2>2. last \in Seq(M)
    <3>1. f[n] \in Seq(M) /\ s[n + 1] \in M
      OBVIOUS
    <3>. QED  BY <3>1
  <2> HIDE DEF last
  <2>3. g \in [0 .. n + 1 -> Seq(M)]
    BY <2>2
  <2>4. g[0] = <<>> /\ g[n + 1] = last /\ g[n] = f[n]
    BY <2>1 DEF Keeps
  <2>5. \A i \in 1 .. n : g[i] = f[i] /\ g[i - 1] = f[i - 1]
    OBVIOUS
  <2>6. Keeps(g, s, b, n + 1)
    <3>1. ASSUME NEW i \in 1 .. n + 1
          PROVE  g[i] = IF s[i].box = b THEN Append(g[i - 1], s[i]) ELSE g[i - 1]
      <4>1. CASE i \in 1 .. n
        BY <4>1, <2>1, <2>5, Zenon DEF Keeps
      <4>2. CASE i = n + 1
        BY <4>2, <2>4 DEF last
      <4>. QED  BY <4>1, <4>2
    <3>. QED  BY <3>1, <2>4, Zenon DEF Keeps
  <2>. QED  BY <2>3, <2>6
<1>3. \A n \in Nat : n \in S
  <2> HIDE DEF S
  <2>1. S \subseteq Nat
    BY DEF S
  <2>. QED  BY <1>1, <1>2, <2>1, Induction, Zenon
<1>4. Len(s) \in Nat
  OBVIOUS
<1>. QED  BY <1>3, <1>4

\* ForBox is its last value.
LEMMA ForBoxKept ==
  ASSUME NEW M, NEW s \in Seq(M), NEW b
  PROVE  \E f \in [0 .. Len(s) -> Seq(M)] : Keeps(f, s, b, Len(s)) /\ ForBox(s, b) = f[Len(s)]
<1> DEFINE Body(f) == [i \in 0 .. Len(s) |-> IF i = 0 THEN <<>>
                        ELSE IF s[i].box = b THEN Append(f[i - 1], s[i]) ELSE f[i - 1]]
           g == CHOOSE f : f = Body(f)
<1>1. PICK f \in [0 .. Len(s) -> Seq(M)] : Keeps(f, s, b, Len(s))
  BY KeepsExists, Zenon
<1>2. f = Body(f)
  <2>1. \A i \in 0 .. Len(s) : i = 0 \/ i \in 1 .. Len(s)
    OBVIOUS
  <2>2. \A i \in 0 .. Len(s) : f[i] = Body(f)[i]
    BY <1>1, <2>1, Zenon DEF Keeps
  <2>. QED  BY <2>2
<1>3. g = Body(g)
  BY <1>2, Zenon
<1>4. ForBox(s, b) = g[Len(s)]
  BY DEF ForBox
<1> HIDE DEF g
<1>5. Keeps(g, s, b, Len(s))
  <2>1. \A i \in 1 .. Len(s) : i \in 0 .. Len(s) /\ i # 0
    OBVIOUS
  <2>2. \A i \in 0 .. Len(s) : g[i] = Body(g)[i]
    BY <1>3, Zenon
  <2>3. 0 \in 0 .. Len(s)
    OBVIOUS
  <2>. QED  BY <2>1, <2>2, <2>3 DEF Keeps
<1> DEFINE S == {n \in Nat : n <= Len(s) => g[n] = f[n]}
<1>6. 0 \in S
  BY <1>1, <1>5 DEF Keeps
<1>7. ASSUME NEW n \in S PROVE n + 1 \in S
  BY <1>1, <1>5 DEF Keeps
<1>8. \A n \in Nat : n \in S
  <2> HIDE DEF S
  <2>1. S \subseteq Nat
    BY DEF S
  <2>. QED  BY <1>6, <1>7, <2>1, Induction, Zenon
<1>9. g[Len(s)] = f[Len(s)]
  BY <1>8
<1>. QED  BY <1>1, <1>4, <1>9

LEMMA ForBoxType ==
  ASSUME NEW M, NEW s \in Seq(M), NEW b
  PROVE  ForBox(s, b) \in Seq(M)
<1>1. PICK f \in [0 .. Len(s) -> Seq(M)] : Keeps(f, s, b, Len(s)) /\ ForBox(s, b) = f[Len(s)]
  BY ForBoxKept
<1>. QED  BY <1>1

\* What ForBox does with a mail put behind the others.
LEMMA ForBoxAppend ==
  ASSUME NEW M, NEW s \in Seq(M), NEW x \in M, NEW b
  PROVE  /\ ForBox(s, b) \in Seq(M)
         /\ ForBox(Append(s, x), b) = IF x.box = b THEN Append(ForBox(s, b), x) ELSE ForBox(s, b)
<1> DEFINE t == Append(s, x)
<1>1. t \in Seq(M) /\ Len(t) = Len(s) + 1 /\ t[Len(s) + 1] = x /\ \A i \in 1 .. Len(s) : t[i] = s[i]
  BY AppendIs
<1>2. PICK f \in [0 .. Len(s) -> Seq(M)] : Keeps(f, s, b, Len(s)) /\ ForBox(s, b) = f[Len(s)]
  BY ForBoxKept
<1> HIDE DEF t
<1>3. PICK g \in [0 .. Len(t) -> Seq(M)] : Keeps(g, t, b, Len(t)) /\ ForBox(t, b) = g[Len(t)]
  BY <1>1, ForBoxKept
<1> DEFINE S == {n \in Nat : n <= Len(s) => g[n] = f[n]}
<1>4. 0 \in S
  BY <1>1, <1>2, <1>3 DEF Keeps
<1>5. ASSUME NEW n \in S PROVE n + 1 \in S
  <2> SUFFICES ASSUME n + 1 <= Len(s) PROVE g[n + 1] = f[n + 1]
    OBVIOUS
  <2>1. n + 1 \in 1 .. Len(s) /\ n + 1 \in 1 .. Len(t) /\ (n + 1) - 1 = n /\ g[n] = f[n]
    BY <1>1
  <2>. QED  BY <2>1, <1>1, <1>2, <1>3, ZenonT(60) DEF Keeps
<1>6. \A n \in Nat : n \in S
  <2> HIDE DEF S
  <2>1. S \subseteq Nat
    BY DEF S
  <2>. QED  BY <1>4, <1>5, <2>1, Induction, Zenon
<1>7. g[Len(s)] = ForBox(s, b) /\ Len(s) \in Nat
  BY <1>2, <1>6
<1>8. g[Len(s) + 1] = IF x.box = b THEN Append(g[Len(s)], x) ELSE g[Len(s)]
  BY <1>1, <1>3, <1>7, SMTT(30) DEF Keeps
<1>9. ForBox(s, b) \in Seq(M)
  BY <1>2
<1>. QED  BY <1>1, <1>3, <1>7, <1>8, <1>9 DEF t

\* A suffix, position by position.
LEMMA SuffixMeans ==
  ASSUME NEW M, NEW s \in Seq(M), NEW t \in Seq(M)
  PROVE  IsSuffix(s, t) <=> /\ Len(s) <= Len(t)
                            /\ \A i \in 1 .. Len(s) : s[i] = t[i + (Len(t) - Len(s))]
BY Zenon DEF IsSuffix

LEMMA SuffixEmpty ==
  ASSUME NEW M, NEW t \in Seq(M)
  PROVE  IsSuffix(<<>>, t)
<1> DEFINE e == <<>>
<1>1. e \in Seq(M) /\ Len(e) = 0 /\ Len(t) \in Nat /\ 1 .. 0 = {}
  OBVIOUS
<1> HIDE DEF e
<1>2. Len(e) <= Len(t) /\ \A i \in 1 .. Len(e) : e[i] = t[i + (Len(t) - Len(e))]
  BY <1>1
<1>3. IsSuffix(e, t)
  BY <1>1, <1>2, SuffixMeans, Zenon
<1>. QED  BY <1>3 DEF e

\* The last mail of both, and the first of the shorter one.
LEMMA SuffixSteps ==
  ASSUME NEW M, NEW s \in Seq(M), NEW t \in Seq(M), IsSuffix(s, t)
  PROVE  /\ \A x \in M : IsSuffix(Append(s, x), Append(t, x))
         /\ s # <<>> => IsSuffix(Tail(s), t)
<1>0. /\ Len(s) <= Len(t) /\ Len(s) \in Nat /\ Len(t) \in Nat
      /\ \A i \in 1 .. Len(s) : s[i] = t[i + (Len(t) - Len(s))]
  BY SuffixMeans
<1>1. ASSUME NEW x \in M PROVE IsSuffix(Append(s, x), Append(t, x))
  <2> DEFINE u == Append(s, x)
             v == Append(t, x)
  <2>1. /\ u \in Seq(M) /\ Len(u) = Len(s) + 1 /\ u[Len(s) + 1] = x
        /\ \A i \in 1 .. Len(s) : u[i] = s[i]
    BY AppendIs
  <2>2. /\ v \in Seq(M) /\ Len(v) = Len(t) + 1 /\ v[Len(t) + 1] = x
        /\ \A i \in 1 .. Len(t) : v[i] = t[i]
    BY AppendIs
  <2> HIDE DEF u, v
  <2>3. ASSUME NEW i \in 1 .. Len(u) PROVE u[i] = v[i + (Len(v) - Len(u))]
    <3>1. CASE i \in 1 .. Len(s)
      <4>1. i + (Len(v) - Len(u)) = i + (Len(t) - Len(s)) /\ i + (Len(t) - Len(s)) \in 1 .. Len(t)
        BY <3>1, <1>0, <2>1, <2>2
      <4>. QED  BY <3>1, <4>1, <1>0, <2>1, <2>2, Zenon
    <3>2. CASE i = Len(s) + 1
      BY <3>2, <1>0, <2>1, <2>2
    <3>. QED  BY <3>1, <3>2, <1>0, <2>1
  <2>4. Len(u) <= Len(v)
    BY <1>0, <2>1, <2>2
  <2>5. IsSuffix(u, v)
    BY <2>1, <2>2, <2>3, <2>4, SuffixMeans, Zenon
  <2>. QED  BY <2>5 DEF u, v
<1>2. ASSUME s # <<>> PROVE IsSuffix(Tail(s), t)
  <2>1. /\ Tail(s) \in Seq(M) /\ Len(Tail(s)) = Len(s) - 1 /\ Len(s) # 0
        /\ \A i \in 1 .. Len(s) - 1 : Tail(s)[i] = s[i + 1]
    BY <1>2, HeadTailAre
  <2>2. ASSUME NEW i \in 1 .. Len(Tail(s)) PROVE Tail(s)[i] = t[i + (Len(t) - Len(Tail(s)))]
    <3>1. i + 1 \in 1 .. Len(s) /\ (i + 1) + (Len(t) - Len(s)) = i + (Len(t) - Len(Tail(s)))
      BY <1>0, <2>1
    <3>. QED  BY <3>1, <1>0, <2>1
  <2>3. Len(Tail(s)) <= Len(t)
    BY <1>0, <2>1
  <2>. QED  BY <2>1, <2>2, <2>3, SuffixMeans, Zenon
<1>. QED  BY <1>1, <1>2

-----------------------------------------------------------------------------
(* Machines, threads and mails                                              *)

HelloTo(m) == [from |-> farHost(m), to |-> m, box |-> 0, reply |-> 1, data |-> "Hello there!"]
AckTo(m)   == [from |-> farHost(m), to |-> m, box |-> 1, reply |-> 1, data |-> "Got it!"]
ExtraTo(m) == [from |-> farHost(m), to |-> m, box |-> 2, reply |-> 1, data |-> "extra"]

MailTo(m) == {HelloTo(m), AckTo(m), ExtraTo(m)}
Mail == UNION {MailTo(m) : m \in Machines}

\* The other machine has received the first message of machine m.
Acked(m) == HelloTo(farHost(m)) \in received[farHost(m)]

\* The mails that may be under way to machine m, or have arrived there.
Legal(m) == {x \in MailTo(m) : x = AckTo(m) => Acked(m)}

LEMMA MachineFacts ==
  ASSUME NEW m \in Machines
  PROVE  farHost(m) \in Machines /\ farHost(m) # m /\ farHost(farHost(m)) = m
BY PostOfficeAssumption DEF PostOfficeAssumption, farHost

LEMMA MailFacts ==
  ASSUME NEW m \in Machines
  PROVE  /\ HelloTo(m).from = farHost(m) /\ HelloTo(m).reply = 1 /\ HelloTo(m).box = 0
         /\ AckTo(m).box = 1 /\ ExtraTo(m).box = 2
         /\ HelloTo(m).data = "Hello there!" /\ AckTo(m).data = "Got it!"
         /\ ExtraTo(m).data = "extra"
         /\ NoMail \notin MailTo(m) /\ MailTo(m) \subseteq Mail
         /\ \A x \in MailTo(m) : x.to = m /\ x.box \in Boxes
<1>1. /\ HelloTo(m).from = farHost(m) /\ HelloTo(m).reply = 1 /\ HelloTo(m).box = 0
      /\ AckTo(m).box = 1 /\ ExtraTo(m).box = 2
      /\ HelloTo(m).data = "Hello there!" /\ AckTo(m).data = "Got it!"
      /\ ExtraTo(m).data = "extra"
      /\ HelloTo(m).to = m /\ AckTo(m).to = m /\ ExtraTo(m).to = m
  BY DEF HelloTo, AckTo, ExtraTo
<1>2. NoMail.data = "none"
  BY DEF NoMail
<1>3. NoMail \notin MailTo(m)
  BY <1>1, <1>2, Zenon DEF MailTo
<1>4. \A x \in MailTo(m) : x.to = m /\ x.box \in Boxes
  <2>1. 0 \in Boxes /\ 1 \in Boxes /\ 2 \in Boxes
    BY PostOfficeAssumption DEF Boxes, PostOfficeAssumption
  <2>. QED  BY <1>1, <2>1, Zenon DEF MailTo
<1>. QED  BY <1>1, <1>3, <1>4, Zenon DEF Mail

LEMMA ThreadFacts ==
  /\ NoThread \notin Threads
  /\ \A t \in Threads : Host(t) \in Machines
  /\ \A m \in Machines : Main(m) \in Threads /\ Host(Main(m)) = m
<1>1. \A m \in Machines : m # -1
  BY PostOfficeAssumption DEF PostOfficeAssumption
<1>2. \A t \in Threads : \E m \in Machines : t = <<m, "main">> \/ t = <<m, "extra">>
  BY PostOfficeAssumption DEF PostOfficeAssumption, Threads, Main
<1>. QED  BY <1>1, <1>2 DEF Threads, NoThread, Host, Main

\* Mails once legal stay legal: what was received stays received.
LEMMA LegalGrows ==
  ASSUME \A k \in Machines : received[k] \subseteq received'[k], NEW m \in Machines
  PROVE  Legal(m) \subseteq Legal(m)'
<1>1. Acked(m) => Acked(m)'
  BY MachineFacts DEF Acked
<1>. QED  BY <1>1 DEF Legal

-----------------------------------------------------------------------------
(* The inductive invariant                                                  *)

\* A thread in Send holds the lock of its machine, and has something to send.
Output ==
  /\ pc \in [Threads -> {"ready", "send", "sent", "release"}]
  /\ sendLock \in [Machines -> Threads \cup {NoThread}]
  /\ sendInt \in [Machines -> BOOLEAN] /\ messageSent \in [Machines -> {0, 1}]
  /\ stage \in [Threads -> 1 .. 5]
  /\ \A t \in Threads :
       /\ pc[t] # "ready" <=> sendLock[Host(t)] = t
       /\ pc[t] # "ready" => Sending(t)
       /\ t # Main(Host(t)) => stage[t] \in {1, 5}
  /\ OneSendAtATime

\* Only legal mail is anywhere, and the mail answered at stage 3 is the first
\* message of the other machine.
Mails ==
  /\ socket \in [Machines -> Seq(Mail)] /\ accepted \in [Machines -> Seq(Mail)]
  /\ delivered \in [Machines -> Seq(Mail)]
  /\ inbox \in [Machines -> Mail \cup {NoMail}] /\ hand \in [Machines -> Mail \cup {NoMail}]
  /\ boxes \in [Machines -> [Boxes -> Seq(Mail)]]
  /\ received \in [Machines -> SUBSET Mail]
  /\ in \in [Threads -> Mail \cup {NoMail}]
  /\ \A m \in Machines :
       /\ socket[m] \in Seq(Legal(m))
       /\ inbox[m] \in Legal(m) \cup {NoMail} /\ hand[m] \in Legal(m) \cup {NoMail}
       /\ \A b \in Boxes : boxes[m][b] \in Seq({x \in Legal(m) : x.box = b})
       /\ received[m] \subseteq Legal(m)
       /\ stage[Main(m)] = 3 => in[Main(m)] = HelloTo(m) /\ HelloTo(m) \in received[m]

\* A buffered packet has woken the worker, once; a mail is in the worker's hand
\* exactly while it is to be put in a box.
Input ==
  /\ messageAvailable \in [Machines -> {0, 1}]
  /\ worker \in [Machines -> {"wait", "receive", "put"}]
  /\ \A m \in Machines :
       /\ hand[m] # NoMail <=> worker[m] = "put"
       /\ ~(messageAvailable[m] = 1 /\ worker[m] = "receive")
  /\ MailInOrder

IInv == Output /\ Mails /\ Input

-----------------------------------------------------------------------------
(* Output                                                                   *)

\* Nobody else is in Send on the machine of a thread that is.
LEMMA OneSender ==
  ASSUME Output, NEW t \in Threads, NEW u \in Threads, Host(u) = Host(t),
         pc[t] # "ready", pc[u] # "ready"
  PROVE  t = u
BY DEF Output

LEMMA OutputFrame ==
  ASSUME Output, UNCHANGED <<pc, stage, outputVars>>
  PROVE  Output'
BY DEF Output, OneSendAtATime, outputVars, Sending

LEMMA OutputNext == Output /\ [Next]_vars => Output'
<1> SUFFICES ASSUME Output, [Next]_vars PROVE Output'
  OBVIOUS
<1>t. /\ NoThread \notin Threads
      /\ \A t \in Threads : Host(t) \in Machines
      /\ \A m \in Machines : Main(m) \in Threads /\ Host(Main(m)) = m
  BY ThreadFacts
<1>0. CASE UNCHANGED vars
  BY <1>0, OutputFrame DEF vars, outputVars
<1>1. ASSUME NEW m \in Machines, Boot(m) \/ Kill(m) PROVE Output'
  BY <1>1, OutputFrame DEF Boot, Kill
<1>2. ASSUME NEW m \in Machines,
             NetworkCallBack(m) \/ WorkerWait(m) \/ WorkerReceive(m) \/ WorkerPut(m)
      PROVE  Output'
  BY <1>2, OutputFrame DEF NetworkCallBack, WorkerWait, WorkerReceive, WorkerPut
<1>3. ASSUME NEW m \in Machines, SendInterrupt(m) PROVE Output'
  <2>1. /\ sendInt[m] /\ messageSent[m] = 0
        /\ sendInt' = [sendInt EXCEPT ![m] = FALSE]
        /\ messageSent' = [messageSent EXCEPT ![m] = 1]
        /\ UNCHANGED <<pc, stage, sendLock>>
    <3>1. sendInt[m] /\ messageSent[m] = 0
      BY <1>3 DEF SendInterrupt, Output, OneSendAtATime
    <3>2. messageSent[m] + 1 = 1
      BY <3>1
    <3>. QED  BY <1>3, <3>1, <3>2 DEF SendInterrupt
  <2>. QED  BY <1>t, <2>1 DEF Output, OneSendAtATime, Sending
<1>4. ASSUME NEW m \in Machines, Receive(m) PROVE Output'
  <2> DEFINE t == Main(m)
  <2>1. t \in Threads /\ Host(t) = m /\ stage[t] \in {2, 4} /\ pc[t] = "ready"
    BY <1>4, <1>t DEF Receive, Output, Sending
  <2>2. stage' = [stage EXCEPT ![t] = stage[t] + 1] /\ UNCHANGED <<pc, outputVars>>
    BY <1>4 DEF Receive
  <2> HIDE DEF t
  <2>3. OneSendAtATime'
    BY <2>2 DEF Output, OneSendAtATime, outputVars
  <2>4. /\ stage' \in [Threads -> 1 .. 5] /\ \A u \in Threads \ {t} : stage'[u] = stage[u]
    BY <2>1, <2>2 DEF Output
  <2>5. t = Main(Host(t))
    BY <2>1 DEF t
  <2>. QED  BY <2>1, <2>2, <2>3, <2>4, <2>5 DEF Output, Sending, outputVars
<1>5. ASSUME NEW t \in Threads, Acquire(t) PROVE Output'
  <2>1. /\ pc' = [pc EXCEPT ![t] = "send"] /\ sendLock' = [sendLock EXCEPT ![Host(t)] = t]
        /\ UNCHANGED <<messageSent, sendInt, stage>> /\ Sending(t)
        /\ pc[t] = "ready" /\ sendLock[Host(t)] = NoThread
    BY <1>5 DEF Acquire
  <2>2. \A u \in Threads : pc[u] = "sent" => Host(u) # Host(t)
    BY <1>t, <2>1 DEF Output
  <2>3. OneSendAtATime'
    BY <1>t, <2>1, <2>2 DEF Output, OneSendAtATime
  <2>. QED  BY <1>t, <2>1, <2>3 DEF Output, Sending
<1>6. ASSUME NEW t \in Threads, NetworkSend(t) PROVE Output'
  <2>1. /\ pc' = [pc EXCEPT ![t] = "sent"] /\ sendInt' = [sendInt EXCEPT ![Host(t)] = TRUE]
        /\ UNCHANGED <<sendLock, messageSent, stage>> /\ pc[t] = "send"
    BY <1>6 DEF NetworkSend
  <2>2. \A u \in Threads : pc[u] = "sent" => Host(u) # Host(t)
    BY <2>1, OneSender
  <2>3. messageSent[Host(t)] = 0 /\ sendLock[Host(t)] = t
    BY <1>t, <2>1, <2>2 DEF Output, OneSendAtATime
  <2>4. OneSendAtATime'
    BY <1>t, <2>1, <2>2, <2>3 DEF Output, OneSendAtATime
  <2>. QED  BY <1>t, <2>1, <2>4 DEF Output, Sending
<1>7. ASSUME NEW t \in Threads, WaitSent(t) PROVE Output'
  <2>1. /\ pc' = [pc EXCEPT ![t] = "release"] /\ pc[t] = "sent" /\ messageSent[Host(t)] = 1
        /\ messageSent' = [messageSent EXCEPT ![Host(t)] = 0]
        /\ UNCHANGED <<sendLock, sendInt, stage>>
    <3>1. messageSent[Host(t)] = 1
      BY <1>7, <1>t DEF WaitSent, Output
    <3>2. messageSent[Host(t)] - 1 = 0
      BY <3>1
    <3>. QED  BY <1>7, <3>1, <3>2 DEF WaitSent
  <2>2. \A u \in Threads \ {t} : pc[u] = "sent" => Host(u) # Host(t)
    BY <2>1, OneSender
  <2>3. sendInt[Host(t)] = FALSE
    BY <1>t, <2>1 DEF Output, OneSendAtATime
  <2>4. OneSendAtATime'
    BY <1>t, <2>1, <2>2, <2>3 DEF Output, OneSendAtATime
  <2>. QED  BY <1>t, <2>1, <2>4 DEF Output, Sending
<1>8. ASSUME NEW t \in Threads, Release(t) PROVE Output'
  <2>1. /\ pc' = [pc EXCEPT ![t] = "ready"] /\ pc[t] = "release"
        /\ sendLock' = [sendLock EXCEPT ![Host(t)] = NoThread]
        /\ UNCHANGED <<messageSent, sendInt>>
        /\ stage' = [stage EXCEPT ![t] = IF t = Main(Host(t)) THEN @ + 1 ELSE 5]
    BY <1>8 DEF Release
  <2>2. \A u \in Threads \ {t} : pc[u] # "ready" => Host(u) # Host(t)
    BY <2>1, OneSender
  <2>3. OneSendAtATime'
    BY <1>t, <2>1, <2>2 DEF Output, OneSendAtATime
  <2>4. stage[t] \in {1, 3} /\ sendLock[Host(t)] = t
    BY <2>1 DEF Output, Sending
  <2>5. stage' \in [Threads -> 1 .. 5] /\ \A u \in Threads \ {t} : stage'[u] = stage[u]
        /\ (t # Main(Host(t)) => stage'[t] \in {1, 5})
    BY <2>1, <2>4 DEF Output
  <2>. QED  BY <1>t, <2>1, <2>2, <2>3, <2>5 DEF Output, Sending
<1>. QED
  BY <1>0, <1>1, <1>2, <1>3, <1>4, <1>5, <1>6, <1>7, <1>8 DEF Next, MachineStep, SendStep

-----------------------------------------------------------------------------
(* Mails                                                                    *)

\* What a thread sends is legal mail for the other machine; an acknowledgement
\* is sent by a machine that has received the message it acknowledges.
LEMMA OutgoingLegal ==
  ASSUME Output, Mails, NEW t \in Threads, pc[t] = "send"
  PROVE  /\ Outgoing(t) \in Legal(farHost(Host(t)))
         /\ Outgoing(t).to = farHost(Host(t))
         /\ farHost(Host(t)) \in Machines
<1> DEFINE m == Host(t)
           k == farHost(m)
<1>0. m \in Machines /\ k \in Machines /\ farHost(k) = m /\ k # m
  BY ThreadFacts, MachineFacts
<1>1. CASE t # Main(m)
  <2>1. Outgoing(t) = ExtraTo(k)
    BY <1>0, <1>1, Zenon DEF Outgoing, ExtraTo
  <2>2. ExtraTo(k) # AckTo(k)
    BY <1>0, MailFacts, Zenon
  <2>. QED  BY <1>0, <2>1, <2>2, MailFacts, ZenonT(60) DEF Legal, MailTo
<1>2. CASE t = Main(m) /\ stage[t] = 1
  <2>1. Outgoing(t) = HelloTo(k)
    BY <1>0, <1>2 DEF Outgoing, HelloTo
  <2>2. HelloTo(k) # AckTo(k)
    BY <1>0, MailFacts, Zenon
  <2>. QED  BY <1>0, <2>1, <2>2, MailFacts, ZenonT(60) DEF Legal, MailTo
<1>3. CASE t = Main(m) /\ stage[t] = 3
  <2>1. in[t] = HelloTo(m) /\ HelloTo(m) \in received[m]
    BY <1>0, <1>3 DEF Mails
  <2>2. Outgoing(t) = [from |-> m, to |-> in[t].from, box |-> in[t].reply, reply |-> 1,
                       data |-> "Got it!"]
    BY <1>3 DEF Outgoing
  <2>3. in[t].from = k /\ in[t].reply = 1
    <3>1. HelloTo(m).from = farHost(m) /\ HelloTo(m).reply = 1
      BY <1>0, MailFacts, Zenon
    <3>. QED  BY <2>1, <3>1
  <2>4. Outgoing(t) = AckTo(k) /\ Acked(k)
    BY <1>0, <2>1, <2>2, <2>3, Zenon DEF AckTo, Acked
  <2>. QED  BY <1>0, <2>4, MailFacts, ZenonT(60) DEF Legal, MailTo
<1>4. stage[t] \in {1, 3}
  BY DEF Output, Sending
<1>. QED  BY <1>1, <1>2, <1>3, <1>4

\* Steps that receive nothing leave the legal mails as they are.
LEMMA LegalSame ==
  ASSUME UNCHANGED received, NEW m \in Machines
  PROVE  Legal(m)' = Legal(m)
<1>1. Acked(m)' <=> Acked(m)
  BY DEF Acked
<1>. QED  BY <1>1 DEF Legal

LEMMA MailsFrame ==
  ASSUME Mails, UNCHANGED <<socket, accepted, delivered, inbox, hand, boxes, received, in>>,
         \A m \in Machines : stage'[Main(m)] = 3 => stage[Main(m)] = 3
  PROVE  Mails'
<1>1. \A m \in Machines : Legal(m)' = Legal(m)
  BY LegalSame
<1>. QED  BY <1>1, Zenon DEF Mails

LEMMA ReceiveMails ==
  ASSUME Output, Mails, NEW m \in Machines, Receive(m)
  PROVE  Mails'
<1> DEFINE t   == Main(m)
           b   == IF stage[t] = 2 THEN 0 ELSE 1
           box == boxes[m][b]
           x   == Head(box)
<1>0. t \in Threads /\ Host(t) = m /\ \A k \in Machines : Main(k) = t => k = m
  BY ThreadFacts
<1>1. b \in Boxes /\ box \in Seq({y \in Legal(m) : y.box = b}) /\ box \in Seq(Mail) /\ box # <<>>
  <2>1. 0 \in Boxes /\ 1 \in Boxes
    BY PostOfficeAssumption DEF PostOfficeAssumption, Boxes
  <2>2. b \in Boxes /\ box # <<>>
    BY <2>1 DEF Receive
  <2> HIDE DEF b
  <2>. QED  BY <2>2 DEF Mails
<1>2. x \in Legal(m) /\ x.box = b /\ x \in Mail
  <2>1. x \in {y \in Legal(m) : y.box = b} /\ x \in Mail
    BY <1>1, HeadTailAre
  <2>. QED  BY <2>1
<1>3. Tail(box) \in Seq({y \in Legal(m) : y.box = b}) /\ Tail(box) \in Seq(Mail)
  BY <1>1, HeadTailAre
<1>4. /\ in' = [in EXCEPT ![t] = x] /\ received' = [received EXCEPT ![m] = @ \cup {x}]
      /\ boxes' = [boxes EXCEPT ![m][b] = Tail(box)]
      /\ stage' = [stage EXCEPT ![t] = @ + 1] /\ stage[t] \in {2, 4}
      /\ UNCHANGED <<socket, accepted, delivered, inbox, hand>>
  BY DEF Receive
<1>5. b = 0 => x = HelloTo(m)
  <2>1. x \in {HelloTo(m), AckTo(m), ExtraTo(m)}
    BY <1>2 DEF Legal, MailTo
  <2>2. AckTo(m).box = 1 /\ ExtraTo(m).box = 2
    BY MailFacts, Zenon
  <2> HIDE DEF x, b
  <2>. QED  BY <1>2, <2>1, <2>2
<1>6. stage[t] = 2 => b = 0
  OBVIOUS
<1> HIDE DEF t, b, box, x
<1>7. \A k \in Machines : received[k] \subseteq received'[k]
  BY <1>4 DEF Mails
<1>8. \A k \in Machines : Legal(k) \subseteq Legal(k)'
  BY <1>7, LegalGrows
<1>9. /\ in' \in [Threads -> Mail \cup {NoMail}] /\ received' \in [Machines -> SUBSET Mail]
      /\ boxes' \in [Machines -> [Boxes -> Seq(Mail)]]
  BY <1>0, <1>1, <1>2, <1>3, <1>4 DEF Mails
<1>10. ASSUME NEW k \in Machines
       PROVE  /\ socket'[k] \in Seq(Legal(k)')
              /\ inbox'[k] \in Legal(k)' \cup {NoMail} /\ hand'[k] \in Legal(k)' \cup {NoMail}
              /\ received'[k] \subseteq Legal(k)'
  <2>1. socket[k] \in Seq(Legal(k)')
    BY <1>8, SeqOfMore DEF Mails
  <2>. QED  BY <2>1, <1>2, <1>4, <1>8 DEF Mails
<1>11. ASSUME NEW k \in Machines, NEW c \in Boxes
       PROVE  boxes'[k][c] \in Seq({y \in Legal(k)' : y.box = c})
  <2>1. boxes'[k][c] \in Seq({y \in Legal(k) : y.box = c})
    <3>1. boxes'[k][c] = IF k = m /\ c = b THEN Tail(box) ELSE boxes[k][c]
      BY <1>1, <1>4 DEF Mails
    <3>. QED  BY <1>3, <3>1, Zenon DEF Mails
  <2>2. {y \in Legal(k) : y.box = c} \subseteq {y \in Legal(k)' : y.box = c}
    BY <1>8
  <2>. QED  BY <2>1, <2>2, SeqOfMore
<1>12. ASSUME NEW k \in Machines, stage'[Main(k)] = 3
       PROVE  in'[Main(k)] = HelloTo(k) /\ HelloTo(k) \in received'[k]
  <2>1. CASE Main(k) = t
    <3>1. k = m /\ stage[t] = 2
      BY <1>0, <1>4, <1>12, <2>1 DEF Output
    <3>2. x = HelloTo(m)
      BY <1>5, <1>6, <3>1
    <3>. QED  BY <1>0, <1>4, <2>1, <3>1, <3>2 DEF Mails
  <2>2. CASE Main(k) # t
    <3>1. Main(k) \in Threads /\ stage[Main(k)] = 3 /\ in'[Main(k)] = in[Main(k)]
      BY <1>4, <1>12, <2>2, ThreadFacts DEF Mails, Output
    <3>. QED  BY <1>7, <3>1 DEF Mails
  <2>. QED  BY <2>1, <2>2
<1>. QED  BY <1>4, <1>9, <1>10, <1>11, <1>12, Zenon DEF Mails

LEMMA MailsNext == Output /\ Mails /\ Input /\ [Next]_vars => Mails'
<1> SUFFICES ASSUME Output, Mails, Input, [Next]_vars PROVE Mails'
  OBVIOUS
<1>0. CASE UNCHANGED vars
  BY <1>0, MailsFrame DEF vars
<1>1. ASSUME NEW m \in Machines, Boot(m) \/ Kill(m) \/ SendInterrupt(m) \/ WorkerWait(m)
      PROVE  Mails'
  BY <1>1, MailsFrame DEF Boot, Kill, SendInterrupt, WorkerWait, inputVars
<1>2. ASSUME NEW t \in Threads, Acquire(t) \/ WaitSent(t) PROVE Mails'
  BY <1>2, MailsFrame DEF Acquire, WaitSent, inputVars
<1>3. ASSUME NEW t \in Threads, Release(t) PROVE Mails'
  <2>1. stage[t] \in {1, 3}
    BY <1>3 DEF Release, Output, Sending
  <2>2. \A m \in Machines : Main(m) \in Threads
    BY ThreadFacts
  <2>3. \A m \in Machines : stage'[Main(m)] = 3 => stage[Main(m)] = 3
    BY <1>3, <2>1, <2>2 DEF Release, Output
  <2>. QED  BY <1>3, <2>3, MailsFrame DEF Release, inputVars
<1>4. ASSUME NEW t \in Threads, NetworkSend(t) PROVE Mails'
  <2> DEFINE k == farHost(Host(t))
             x == Outgoing(t)
  <2>1. x \in Legal(k) /\ x.to = k /\ k \in Machines /\ x \in Mail
    <3>1. x \in Legal(k) /\ x.to = k /\ k \in Machines
      BY <1>4, OutgoingLegal, ZenonT(60) DEF NetworkSend
    <3>. QED  BY <3>1, MailFacts, Zenon DEF Legal
  <2>2. CASE UNCHANGED <<socket, accepted>>
    BY <1>4, <2>2, MailsFrame, Zenon DEF NetworkSend, inputVars
  <2>3. CASE /\ socket' = [socket EXCEPT ![k] = Append(socket[k], x)]
             /\ accepted' = [accepted EXCEPT ![k] = Append(accepted[k], x)]
    <3>1. UNCHANGED <<delivered, inbox, hand, boxes, received, in, stage>>
      BY <1>4, Zenon DEF NetworkSend, inputVars
    <3>2. \A m \in Machines : Legal(m)' = Legal(m)
      BY <3>1, LegalSame
    <3> HIDE DEF k, x
    <3>3. Append(socket[k], x) \in Seq(Legal(k)) /\ Append(socket[k], x) \in Seq(Mail)
          /\ Append(accepted[k], x) \in Seq(Mail)
      BY <2>1, AppendIs DEF Mails
    <3>4. \A m \in Machines : socket'[m] \in Seq(Legal(m))
      BY <2>1, <2>3, <3>3 DEF Mails
    <3>5. socket' \in [Machines -> Seq(Mail)] /\ accepted' \in [Machines -> Seq(Mail)]
      BY <2>1, <2>3, <3>3 DEF Mails
    <3>. QED  BY <3>1, <3>2, <3>4, <3>5, ZenonT(60) DEF Mails
  <2>. QED  BY <1>4, <2>1, <2>2, <2>3, Zenon DEF NetworkSend
<1>5. ASSUME NEW m \in Machines, NetworkCallBack(m) PROVE Mails'
  <2>1. \A k \in Machines : Legal(k)' = Legal(k)
    BY <1>5, LegalSame, Zenon DEF NetworkCallBack
  <2>2. /\ Head(socket[m]) \in Legal(m) /\ Head(socket[m]) \in Mail
        /\ Tail(socket[m]) \in Seq(Legal(m)) /\ Tail(socket[m]) \in Seq(Mail)
    BY <1>5, HeadTailAre DEF Mails, NetworkCallBack
  <2>3. /\ inbox' \in [Machines -> Mail \cup {NoMail}] /\ socket' \in [Machines -> Seq(Mail)]
        /\ \A k \in Machines : socket'[k] \in Seq(Legal(k)) /\ inbox'[k] \in Legal(k) \cup {NoMail}
    BY <1>5, <2>2 DEF NetworkCallBack, Mails
  <2>a. /\ UNCHANGED <<accepted, delivered, hand, boxes, received, in, stage>>
        /\ \A k \in Machines, c \in Boxes : {y \in Legal(k)' : y.box = c} = {y \in Legal(k) : y.box = c}
    BY <1>5, <2>1, Zenon DEF NetworkCallBack
  <2>b. ASSUME NEW k \in Machines
        PROVE  /\ socket'[k] \in Seq(Legal(k)') /\ inbox'[k] \in Legal(k)' \cup {NoMail}
               /\ hand'[k] \in Legal(k)' \cup {NoMail} /\ received'[k] \subseteq Legal(k)'
    BY <2>a, <2>1, <2>3 DEF Mails
  <2>c. ASSUME NEW k \in Machines, NEW c \in Boxes
        PROVE  boxes'[k][c] \in Seq({y \in Legal(k)' : y.box = c})
    BY <2>a, <2>1, <2>3, ZenonT(60) DEF Mails
  <2>. QED  BY <2>a, <2>b, <2>c, <2>1, <2>3 DEF Mails
<1>6. ASSUME NEW m \in Machines, WorkerReceive(m) PROVE Mails'
  <2>1. \A k \in Machines : Legal(k)' = Legal(k)
    BY <1>6, LegalSame DEF WorkerReceive
  <2>2. /\ inbox' \in [Machines -> Mail \cup {NoMail}] /\ hand' \in [Machines -> Mail \cup {NoMail}]
        /\ \A k \in Machines : /\ hand'[k] \in Legal(k) \cup {NoMail}
                               /\ inbox'[k] \in Legal(k) \cup {NoMail}
    BY <1>6 DEF WorkerReceive, Mails
  <2>a. /\ UNCHANGED <<accepted, delivered, socket, boxes, received, in, stage>>
        /\ \A k \in Machines, c \in Boxes : {y \in Legal(k)' : y.box = c} = {y \in Legal(k) : y.box = c}
    BY <1>6, <2>1 DEF WorkerReceive
  <2>b. ASSUME NEW k \in Machines
        PROVE  /\ socket'[k] \in Seq(Legal(k)') /\ inbox'[k] \in Legal(k)' \cup {NoMail}
               /\ hand'[k] \in Legal(k)' \cup {NoMail} /\ received'[k] \subseteq Legal(k)'
    BY <2>a, <2>1, <2>2 DEF Mails
  <2>c. ASSUME NEW k \in Machines, NEW c \in Boxes
        PROVE  boxes'[k][c] \in Seq({y \in Legal(k)' : y.box = c})
    BY <2>a, <2>1, <2>2, Zenon DEF Mails
  <2>. QED  BY <2>a, <2>b, <2>c, <2>1, <2>2 DEF Mails
<1>7. ASSUME NEW m \in Machines, WorkerPut(m) PROVE Mails'
  <2> DEFINE x == hand[m]
             b == x.box
  <2>1. x \in Legal(m) /\ x \in Mail /\ b \in Boxes
    BY <1>7 DEF WorkerPut, Input, Mails
  <2>2. /\ boxes' = [boxes EXCEPT ![m][b] = Append(boxes[m][b], x)]
        /\ delivered' = [delivered EXCEPT ![m] = Append(delivered[m], x)]
        /\ hand' = [hand EXCEPT ![m] = NoMail]
        /\ UNCHANGED <<socket, inbox, stage, in, accepted, received>>
    BY <1>7 DEF WorkerPut
  <2>3. \A k \in Machines : Legal(k)' = Legal(k)
    BY <2>2, LegalSame
  <2>4. x \in {y \in Legal(m) : y.box = b}
    BY <2>1
  <2> HIDE DEF x, b
  <2>5. /\ Append(boxes[m][b], x) \in Seq({y \in Legal(m) : y.box = b})
        /\ Append(boxes[m][b], x) \in Seq(Mail) /\ Append(delivered[m], x) \in Seq(Mail)
    BY <2>1, <2>4, AppendIs, SMTT(30) DEF Mails
  <2>6. /\ boxes' \in [Machines -> [Boxes -> Seq(Mail)]]
        /\ delivered' \in [Machines -> Seq(Mail)]
        /\ hand' \in [Machines -> Mail \cup {NoMail}]
    BY <2>1, <2>2, <2>5 DEF Mails
  <2>7. ASSUME NEW k \in Machines, NEW c \in Boxes
        PROVE  boxes'[k][c] \in Seq({y \in Legal(k) : y.box = c})
    <3>1. boxes'[k][c] = IF k = m /\ c = b THEN Append(boxes[m][b], x) ELSE boxes[k][c]
      BY <2>1, <2>2, Zenon DEF Mails
    <3>. QED  BY <3>1, <2>5, Zenon DEF Mails
  <2>8. \A k \in Machines : hand'[k] \in Legal(k) \cup {NoMail}
    BY <2>2 DEF Mails
  <2>a. /\ UNCHANGED <<accepted, socket, inbox, received, in, stage>>
        /\ \A k \in Machines, c \in Boxes : {y \in Legal(k)' : y.box = c} = {y \in Legal(k) : y.box = c}
    BY <2>2, <2>3
  <2>b. ASSUME NEW k \in Machines
        PROVE  /\ socket'[k] \in Seq(Legal(k)') /\ inbox'[k] \in Legal(k)' \cup {NoMail}
               /\ hand'[k] \in Legal(k)' \cup {NoMail} /\ received'[k] \subseteq Legal(k)'
    BY <2>a, <2>3, <2>6, <2>7, <2>8 DEF Mails
  <2>c. ASSUME NEW k \in Machines, NEW c \in Boxes
        PROVE  boxes'[k][c] \in Seq({y \in Legal(k)' : y.box = c})
    BY <2>a, <2>3, <2>6, <2>7, <2>8, Zenon DEF Mails
  <2>. QED  BY <2>a, <2>b, <2>c, <2>3, <2>6, <2>7, <2>8 DEF Mails
<1>8. ASSUME NEW m \in Machines, Receive(m) PROVE Mails'
  BY <1>8, ReceiveMails
<1>. QED
  BY <1>0, <1>1, <1>2, <1>3, <1>4, <1>5, <1>6, <1>7, <1>8 DEF Next, MachineStep, SendStep

-----------------------------------------------------------------------------
(* Input                                                                    *)

\* MailInOrder and the rest of Input for one machine.
Chain(m) == delivered[m] \o One(hand[m]) \o One(inbox[m]) \o socket[m] = accepted[m]

Wakes(m) ==
  /\ (inbox[m] # NoMail) <=> (messageAvailable[m] = 1 \/ worker[m] = "receive")
  /\ hand[m] # NoMail <=> worker[m] = "put"
  /\ ~(messageAvailable[m] = 1 /\ worker[m] = "receive")

InBoxes(m) == \A b \in Boxes : IsSuffix(boxes[m][b], ForBox(delivered[m], b))

InputType ==
  /\ messageAvailable \in [Machines -> {0, 1}]
  /\ worker \in [Machines -> {"wait", "receive", "put"}]

LEMMA InputParts ==
  /\ Input <=> InputType /\ \A m \in Machines : Chain(m) /\ Wakes(m) /\ InBoxes(m)
  /\ Input' <=> InputType' /\ \A m \in Machines : Chain(m)' /\ Wakes(m)' /\ InBoxes(m)'
BY Zenon DEF Input, MailInOrder, InputType, Chain, Wakes, InBoxes

\* Moving a mail along the chain.
LEMMA ChainSteps ==
  ASSUME NEW a \in Seq(Mail), NEW c \in Seq(Mail), NEW x \in Mail
  PROVE  /\ a \o Append(c, x) = Append(a \o c, x)
         /\ (a \o <<>>) \o <<x>> = (a \o <<x>>) \o <<>>
         /\ Append(a, x) \o <<>> = a \o <<x>>
         /\ a \o <<>> = a
         /\ (a \o <<x>>) \o c = a \o (<<x>> \o c)
<1>0. <<x>> \in Seq(Mail)
  OBVIOUS
<1>1. a \o c \in Seq(Mail) /\ Append(a, x) \in Seq(Mail) /\ a \o <<x>> \in Seq(Mail)
  BY <1>0, ConcatIs, AppendIs
<1>2. Append(c, x) = c \o <<x>> /\ Append(a \o c, x) = (a \o c) \o <<x>>
      /\ Append(a, x) = a \o <<x>>
  BY <1>0, <1>1, AppendConcat, Zenon
<1>3. (a \o c) \o <<x>> = a \o (c \o <<x>>) /\ (a \o <<x>>) \o c = a \o (<<x>> \o c)
  <2> DEFINE w == <<x>>
  <2>1. w \in Seq(Mail)
    BY <1>0
  <2> HIDE DEF w
  <2>2. (a \o c) \o w = a \o (c \o w)
    BY <2>1
  <2>3. (a \o w) \o c = a \o (w \o c)
    BY <2>1, SMTT(30)
  <2>. QED  BY <2>2, <2>3 DEF w
<1>4. a \o <<>> = a /\ (a \o <<x>>) \o <<>> = a \o <<x>>
  BY <1>1, ConcatEmpty
<1>. QED  BY <1>2, <1>3, <1>4, Zenon

LEMMA HeadFirst ==
  ASSUME NEW s \in Seq(Mail), s # <<>>
  PROVE  <<Head(s)>> \o Tail(s) = s
<1> DEFINE u == <<Head(s)>>
<1>1. /\ Head(s) \in Mail /\ Tail(s) \in Seq(Mail) /\ Len(s) \in Nat \ {0}
      /\ Len(Tail(s)) = Len(s) - 1 /\ \A i \in 1 .. Len(s) - 1 : Tail(s)[i] = s[i + 1]
  BY HeadTailAre
<1>2. u \in Seq(Mail) /\ Len(u) = 1 /\ u[1] = s[1]
  BY <1>1
<1> HIDE DEF u
<1>3. /\ u \o Tail(s) \in Seq(Mail) /\ Len(u \o Tail(s)) = Len(s)
      /\ \A i \in 1 .. Len(s) : (u \o Tail(s))[i] = IF i <= 1 THEN u[i] ELSE Tail(s)[i - 1]
  <2>1. /\ u \o Tail(s) \in Seq(Mail) /\ Len(u \o Tail(s)) = Len(u) + Len(Tail(s))
        /\ \A i \in 1 .. Len(u) + Len(Tail(s)) :
             (u \o Tail(s))[i] = IF i <= Len(u) THEN u[i] ELSE Tail(s)[i - Len(u)]
    BY <1>1, <1>2, ConcatIs, ZenonT(60)
  <2>2. Len(u) + Len(Tail(s)) = Len(s)
    BY <1>1, <1>2
  <2>. QED  BY <1>2, <2>1, <2>2
<1>4. ASSUME NEW i \in 1 .. Len(s) PROVE (u \o Tail(s))[i] = s[i]
  <2>1. CASE i = 1
    BY <2>1, <1>1, <1>2, <1>3
  <2>2. CASE i # 1
    <3>1. i - 1 \in 1 .. Len(s) - 1 /\ (i - 1) + 1 = i
      BY <2>2, <1>1
    <3>. QED  BY <3>1, <2>2, <1>1, <1>3
  <2>. QED  BY <2>1, <2>2, Zenon
<1>5. u \o Tail(s) = s
  BY <1>3, <1>4, SameSequence, Zenon
<1>. QED  BY <1>5 DEF u

\* A machine that a step leaves alone.
LEMMA InputFrame ==
  ASSUME NEW m \in Machines, Chain(m), Wakes(m), InBoxes(m),
         delivered'[m] = delivered[m], hand'[m] = hand[m], inbox'[m] = inbox[m],
         socket'[m] = socket[m], accepted'[m] = accepted[m], boxes'[m] = boxes[m],
         messageAvailable'[m] = messageAvailable[m], worker'[m] = worker[m]
  PROVE  Chain(m)' /\ Wakes(m)' /\ InBoxes(m)'
BY Zenon DEF Chain, Wakes, InBoxes

LEMMA NetworkSendInput ==
  ASSUME Output, Mails, Input, NEW t \in Threads, NetworkSend(t)
  PROVE  Input'
<1> DEFINE k == farHost(Host(t))
           x == Outgoing(t)
<1>1. x \in Mail /\ x.to = k /\ k \in Machines
  <2>1. x \in Legal(k) /\ x.to = k /\ k \in Machines
    BY OutgoingLegal, Zenon DEF NetworkSend
  <2>. QED  BY <2>1, MailFacts, Zenon DEF Legal
<1>2. UNCHANGED <<delivered, hand, inbox, boxes, messageAvailable, worker>>
  BY DEF NetworkSend, inputVars
<1>3. \A m \in Machines : Wakes(m)' /\ InBoxes(m)'
  BY <1>2, InputParts, Zenon DEF Wakes, InBoxes
<1>4. ASSUME NEW m \in Machines PROVE Chain(m)'
  <2>1. CASE socket'[m] = socket[m] /\ accepted'[m] = accepted[m]
    BY <1>2, <2>1, InputParts, Zenon DEF Chain
  <2>2. CASE /\ socket'[m] = Append(socket[m], x) /\ accepted'[m] = Append(accepted[m], x)
    <3> DEFINE a == delivered[m] \o One(hand[m]) \o One(inbox[m])
    <3>1. a \in Seq(Mail) /\ socket[m] \in Seq(Mail)
      BY DEF Mails, One
    <3> HIDE DEF a
    <3>2. a \o Append(socket[m], x) = Append(a \o socket[m], x)
      BY <1>1, <3>1, ChainSteps, Zenon
    <3>3. a \o socket[m] = accepted[m]
      BY InputParts, Zenon DEF Chain, a
    <3>. QED  BY <1>2, <2>2, <3>2, <3>3, Zenon DEF Chain, a
  <2> HIDE DEF x, k
  <2>3. \/ UNCHANGED <<socket, accepted>>
        \/ /\ socket' = [socket EXCEPT ![k] = Append(socket[k], x)]
           /\ accepted' = [accepted EXCEPT ![k] = Append(accepted[k], x)]
    BY <1>1 DEF NetworkSend, x
  <2>. QED  BY <1>1, <2>1, <2>2, <2>3 DEF Mails
<1>. QED  BY <1>2, <1>3, <1>4, InputParts DEF InputType

LEMMA NetworkCallBackInput ==
  ASSUME Mails, Input, NEW m \in Machines, NetworkCallBack(m)
  PROVE  Input'
<1>1. /\ inbox[m] = NoMail /\ socket[m] # <<>> /\ socket[m] \in Seq(Mail)
      /\ inbox' = [inbox EXCEPT ![m] = Head(socket[m])]
      /\ socket' = [socket EXCEPT ![m] = Tail(socket[m])]
      /\ messageAvailable' = [messageAvailable EXCEPT ![m] = messageAvailable[m] + 1]
      /\ UNCHANGED <<delivered, hand, boxes, worker, accepted>>
  BY DEF NetworkCallBack, Mails
<1>2. messageAvailable[m] = 0 /\ worker[m] # "receive"
  BY <1>1, Zenon DEF Input, MailInOrder
<1>3. Head(socket[m]) \in Mail /\ Head(socket[m]) # NoMail /\ Tail(socket[m]) \in Seq(Mail)
  <2>1. Head(socket[m]) \in Legal(m) /\ Tail(socket[m]) \in Seq(Mail)
    BY <1>1, HeadTailAre DEF Mails
  <2>. QED  BY <2>1, MailFacts, Zenon DEF Legal
<1>4. InputType' /\ Wakes(m)' /\ InBoxes(m)'
  <2>1. messageAvailable' = [messageAvailable EXCEPT ![m] = 1]
    BY <1>1, <1>2
  <2>. QED  BY <1>1, <1>2, <1>3, <2>1, InputParts DEF Mails, InputType, Wakes, InBoxes
<1>5. Chain(m)'
  <2> DEFINE a == delivered[m] \o One(hand[m])
             h == Head(socket[m])
             c == Tail(socket[m])
  <2>1. a \in Seq(Mail)
    BY DEF Mails, One
  <2>2. (a \o <<>>) \o socket[m] = accepted[m]
    BY <1>1, InputParts, Zenon DEF Chain, One
  <2>3. One(inbox'[m]) = <<h>> /\ socket'[m] = c
    BY <1>1, <1>3 DEF One, Mails
  <2>4. <<h>> \o c = socket[m]
    BY <1>1, HeadFirst
  <2> HIDE DEF a, h, c
  <2>5. a \o <<>> = a
    BY <2>1, ConcatEmpty
  <2>6. (a \o <<h>>) \o c = a \o (<<h>> \o c)
    BY <1>3, <2>1, ChainSteps, ZenonT(60) DEF h, c
  <2>. QED  BY <1>1, <2>2, <2>3, <2>4, <2>5, <2>6, Zenon DEF Chain, a
<1>6. ASSUME NEW k \in Machines, k # m PROVE Chain(k)' /\ Wakes(k)' /\ InBoxes(k)'
  BY <1>1, <1>6, InputFrame, InputParts DEF Mails, InputType
<1>. QED  BY <1>4, <1>5, <1>6, InputParts

LEMMA WorkerReceiveInput ==
  ASSUME Mails, Input, NEW m \in Machines, WorkerReceive(m)
  PROVE  Input'
<1> DEFINE x == inbox[m]
<1>1. /\ worker[m] = "receive" /\ hand' = [hand EXCEPT ![m] = x]
      /\ inbox' = [inbox EXCEPT ![m] = NoMail] /\ worker' = [worker EXCEPT ![m] = "put"]
      /\ UNCHANGED <<socket, messageAvailable, boxes, delivered, accepted>>
  BY DEF WorkerReceive
<1>2. x # NoMail /\ x \in Mail /\ messageAvailable[m] = 0 /\ hand[m] = NoMail
  BY <1>1 DEF Input, MailInOrder, Mails
<1> HIDE DEF x
<1>3. InputType' /\ Wakes(m)' /\ InBoxes(m)'
  BY <1>1, <1>2, InputParts DEF Mails, InputType, Wakes, InBoxes
<1>4. Chain(m)'
  <2>1. (delivered[m] \o <<>>) \o <<x>> = (delivered[m] \o <<x>>) \o <<>>
    <3>1. delivered[m] \in Seq(Mail)
      BY DEF Mails
    <3>. QED  BY <1>2, <3>1, ChainSteps
  <2>2. ((delivered[m] \o <<>>) \o <<x>>) \o socket[m] = accepted[m]
    BY <1>2, InputParts, Zenon DEF Chain, One, x
  <2>3. One(hand'[m]) = <<x>> /\ One(inbox'[m]) = <<>>
    BY <1>1, <1>2 DEF One, Mails
  <2>. QED  BY <1>1, <2>1, <2>2, <2>3, Zenon DEF Chain
<1>5. ASSUME NEW k \in Machines, k # m PROVE Chain(k)' /\ Wakes(k)' /\ InBoxes(k)'
  BY <1>1, <1>5, InputFrame, InputParts DEF Mails, InputType
<1>. QED  BY <1>3, <1>4, <1>5, InputParts

LEMMA WorkerPutInput ==
  ASSUME Mails, Input, NEW m \in Machines, WorkerPut(m)
  PROVE  Input'
<1> DEFINE x == hand[m]
           b == x.box
<1>1. /\ worker[m] = "put" /\ b \in Boxes /\ hand' = [hand EXCEPT ![m] = NoMail]
      /\ boxes' = [boxes EXCEPT ![m][b] = Append(boxes[m][b], x)]
      /\ delivered' = [delivered EXCEPT ![m] = Append(delivered[m], x)]
      /\ worker' = [worker EXCEPT ![m] = "wait"]
      /\ UNCHANGED <<socket, messageAvailable, inbox, accepted>>
  BY DEF WorkerPut
<1>2. x # NoMail /\ x \in Mail
  BY <1>1 DEF Input, Mails
<1>3. x.box = b
  OBVIOUS
<1> HIDE DEF x, b
<1>4. InputType' /\ Wakes(m)'
  BY <1>1, <1>2, InputParts, Zenon DEF Mails, InputType, Wakes
<1>5. delivered[m] \in Seq(Mail) /\ delivered'[m] = Append(delivered[m], x)
  BY <1>1 DEF Mails
<1>6. Chain(m)'
  <2>1. Append(delivered[m], x) \o <<>> = delivered[m] \o <<x>>
    BY <1>2, <1>5, ChainSteps
  <2>2. ((delivered[m] \o <<x>>) \o One(inbox[m])) \o socket[m] = accepted[m]
    BY <1>2, InputParts, Zenon DEF Chain, One, x
  <2>3. One(hand'[m]) = <<>>
    BY <1>1 DEF One, Mails
  <2>. QED  BY <1>1, <1>5, <2>1, <2>2, <2>3, Zenon DEF Chain
<1>7. ASSUME NEW c \in Boxes PROVE IsSuffix(boxes'[m][c], ForBox(delivered'[m], c))
  <2>1. IsSuffix(boxes[m][c], ForBox(delivered[m], c)) /\ boxes[m][c] \in Seq(Mail)
    BY InputParts, Zenon DEF InBoxes, Mails
  <2>2. /\ ForBox(delivered[m], c) \in Seq(Mail)
        /\ ForBox(delivered'[m], c) = IF x.box = c THEN Append(ForBox(delivered[m], c), x)
                                                   ELSE ForBox(delivered[m], c)
    <3> DEFINE d == delivered[m]
    <3>1. d \in Seq(Mail)
      BY <1>5
    <3> HIDE DEF d
    <3>2. ForBox(d, c) \in Seq(Mail)
      BY <3>1, ForBoxType
    <3>3. ForBox(Append(d, x), c) = IF x.box = c THEN Append(ForBox(d, c), x) ELSE ForBox(d, c)
      BY <1>2, <3>1, ForBoxAppend
    <3>. QED  BY <1>5, <3>2, <3>3, Zenon DEF d
  <2>3. boxes'[m][c] = IF c = b THEN Append(boxes[m][c], x) ELSE boxes[m][c]
    BY <1>1 DEF Mails
  <2>. QED  BY <1>2, <1>3, <2>1, <2>2, <2>3, SuffixSteps, Zenon
<1>8. ASSUME NEW k \in Machines, k # m PROVE Chain(k)' /\ Wakes(k)' /\ InBoxes(k)'
  BY <1>1, <1>8, InputFrame, InputParts, Zenon DEF Mails, InputType
<1>. QED  BY <1>4, <1>6, <1>7, <1>8, InputParts, Zenon DEF InBoxes

LEMMA ReceiveInput ==
  ASSUME Mails, Input, NEW m \in Machines, Receive(m)
  PROVE  Input'
<1> DEFINE b == IF stage[Main(m)] = 2 THEN 0 ELSE 1
<1>1. /\ boxes[m][b] # <<>> /\ boxes' = [boxes EXCEPT ![m][b] = Tail(boxes[m][b])]
      /\ UNCHANGED <<socket, messageAvailable, inbox, accepted, worker, hand, delivered>>
  BY DEF Receive
<1>2. b \in Boxes
  BY PostOfficeAssumption DEF PostOfficeAssumption, Boxes
<1> HIDE DEF b
<1>3. \A k \in Machines : Chain(k)' /\ Wakes(k)'
  BY <1>1, InputParts, Zenon DEF Chain, Wakes
<1>4. ASSUME NEW k \in Machines, NEW c \in Boxes
      PROVE  IsSuffix(boxes'[k][c], ForBox(delivered'[k], c))
  <2>1. IsSuffix(boxes[k][c], ForBox(delivered[k], c)) /\ boxes[k][c] \in Seq(Mail)
    BY InputParts, ZenonT(60) DEF InBoxes, Mails
  <2>2. ForBox(delivered[k], c) \in Seq(Mail)
    <3>1. delivered[k] \in Seq(Mail)
      BY DEF Mails
    <3>. QED  BY <3>1, ForBoxType
  <2>3. boxes'[k][c] = IF k = m /\ c = b THEN Tail(boxes[k][c]) ELSE boxes[k][c]
    BY <1>1, <1>2 DEF Mails
  <2>4. delivered'[k] = delivered[k]
    BY <1>1
  <2>5. CASE k = m /\ c = b
    BY <1>1, <2>1, <2>2, <2>3, <2>4, <2>5, SuffixSteps
  <2>6. CASE ~(k = m /\ c = b)
    BY <2>1, <2>3, <2>4, <2>6, Zenon
  <2>. QED  BY <2>5, <2>6
<1>. QED  BY <1>1, <1>3, <1>4, InputParts DEF InputType, InBoxes

LEMMA InputNext == Output /\ Mails /\ Input /\ [Next]_vars => Input'
<1> SUFFICES ASSUME Output, Mails, Input, [Next]_vars PROVE Input'
  OBVIOUS
<1>0. ASSUME UNCHANGED <<socket, accepted, inputVars>> PROVE Input'
  BY <1>0, Zenon DEF Input, MailInOrder, inputVars
<1>1. CASE UNCHANGED vars
  BY <1>0, <1>1 DEF vars, inputVars
<1>2. ASSUME NEW m \in Machines, Boot(m) \/ Kill(m) \/ SendInterrupt(m) PROVE Input'
  BY <1>0, <1>2 DEF Boot, Kill, SendInterrupt
<1>3. ASSUME NEW t \in Threads, Acquire(t) \/ WaitSent(t) \/ Release(t) PROVE Input'
  BY <1>0, <1>3 DEF Acquire, WaitSent, Release
<1>4. ASSUME NEW m \in Machines, WorkerWait(m) PROVE Input'
  <2> DEFINE v == messageAvailable[m]
  <2>1. /\ worker[m] = "wait" /\ v > 0 /\ worker' = [worker EXCEPT ![m] = "receive"]
        /\ messageAvailable' = [messageAvailable EXCEPT ![m] = v - 1]
        /\ UNCHANGED <<socket, accepted, delivered, hand, inbox, boxes>>
    BY <1>4, Zenon DEF WorkerWait
  <2>2. v \in {0, 1} /\ InputType
    BY InputParts, Zenon DEF InputType
  <2> HIDE DEF v
  <2>3. v = 1 /\ v - 1 = 0
    BY <2>1, <2>2
  <2>4. messageAvailable' = [messageAvailable EXCEPT ![m] = 0]
    BY <2>1, <2>3, Zenon
  <2>5. \A k \in Machines : Chain(k)' /\ InBoxes(k)'
    BY <2>1, InputParts, Zenon DEF Chain, InBoxes
  <2>6. InputType'
    BY <2>1, <2>2, <2>4, Zenon DEF InputType
  <2>7. ASSUME NEW k \in Machines PROVE Wakes(k)'
    <3>1. Wakes(k)
      BY InputParts, Zenon
    <3>2. CASE k = m
      <4>1. messageAvailable'[m] = 0 /\ worker'[m] = "receive" /\ messageAvailable[m] = 1
        BY <2>1, <2>2, <2>3, <2>4, Zenon DEF InputType, v
      <4>. QED  BY <2>1, <3>1, <3>2, <4>1 DEF Wakes
    <3>3. CASE k # m
      <4>1. messageAvailable'[k] = messageAvailable[k] /\ worker'[k] = worker[k]
        BY <2>1, <2>2, <2>4, <3>3, Zenon DEF InputType
      <4>. QED  BY <2>1, <3>1, <4>1, Zenon DEF Wakes
    <3>. QED  BY <3>2, <3>3
  <2>. QED  BY <2>5, <2>6, <2>7, InputParts, Zenon
<1>5. ASSUME NEW t \in Threads, NetworkSend(t) PROVE Input'
  BY <1>5, NetworkSendInput
<1>6. ASSUME NEW m \in Machines,
             NetworkCallBack(m) \/ WorkerReceive(m) \/ WorkerPut(m) \/ Receive(m)
      PROVE  Input'
  BY <1>6, NetworkCallBackInput, WorkerReceiveInput, WorkerPutInput, ReceiveInput
<1>. QED
  BY <1>1, <1>2, <1>3, <1>4, <1>5, <1>6 DEF Next, MachineStep, SendStep

-----------------------------------------------------------------------------
(* Theorems                                                                 *)

LEMMA InvInit == Init => IInv
<1> SUFFICES ASSUME Init PROVE IInv
  OBVIOUS
<1> USE ThreadFacts DEF Init
<1>1. Output
  BY DEF Output, OneSendAtATime, Sending
<1>2. Mails
  BY SMTT(30) DEF Mails
<1>3. Input
  <2>1. \A b \in Boxes : IsSuffix(<<>>, ForBox(<<>>, b))
    <3> TAKE b \in Boxes
    <3>1. <<>> \in Seq(Mail)
      OBVIOUS
    <3>2. ForBox(<<>>, b) \in Seq(Mail)
      BY <3>1, ForBoxType, Zenon
    <3>. QED  BY <3>2, SuffixEmpty
  <2>. QED  BY <2>1, SMTT(30) DEF Input, MailInOrder, One
<1>. QED  BY <1>1, <1>2, <1>3 DEF IInv

\* The post office and the network always satisfy the inductive invariant.
THEOREM Invariance == Spec => []IInv
<1>1. IInv /\ [Next]_vars => IInv'
  BY OutputNext, MailsNext, InputNext DEF IInv
<1>. QED  BY <1>1, InvInit, PTL DEF Spec

\* From the socket to the boxes no mail is lost, duplicated or reordered, and
\* the postal worker is woken once for each packet.
THEOREM MailCorrect == Spec => []MailInOrder
<1>1. IInv => MailInOrder
  BY DEF IInv, Input
<1>. QED  BY <1>1, Invariance, PTL

\* The send lock and messageSent keep the device to one packet at a time, and a
\* Send waits for the interrupt of its own packet.
THEOREM SendCorrect == Spec => []OneSendAtATime
<1>1. IInv => OneSendAtATime
  BY DEF IInv, Output
<1>. QED  BY <1>1, Invariance, PTL

\* A machine that has received the acknowledgement knows that its first message
\* was received, whatever was lost and whoever was killed.
THEOREM AckCorrect == Spec => []AckMeansReceived
<1>1. ASSUME IInv PROVE AckMeansReceived
  <2> SUFFICES ASSUME NEW m \in Machines, NEW r \in received[m], r.data = "Got it!"
               PROVE  \E h \in received[farHost(m)] : h.from = m /\ h.data = "Hello there!"
    BY Zenon DEF AckMeansReceived
  <2>1. r \in Legal(m)
    BY <1>1, Zenon DEF IInv, Mails
  <2>2. r = AckTo(m)
    BY <2>1, MailFacts, Zenon DEF Legal, MailTo
  <2>3. HelloTo(farHost(m)) \in received[farHost(m)]
    BY <2>1, <2>2, Zenon DEF Legal, Acked
  <2>4. farHost(m) \in Machines /\ farHost(farHost(m)) = m
    BY MachineFacts, Zenon
  <2>5. HelloTo(farHost(m)).from = m /\ HelloTo(farHost(m)).data = "Hello there!"
    BY <2>4, MailFacts, Zenon
  <2>. QED  BY <2>3, <2>5, Zenon
<1>. QED  BY <1>1, Invariance, PTL
=============================================================================
