------------------------------ MODULE PostOffice ------------------------------
(***************************************************************************)
(* The network (machine/network.cc over UNIX datagram sockets) and the     *)
(* post office (network/post.cc), on machines that run Kernel::NetworkTest *)
(* of threads/kernel.cc: send a mail to the other machine's box 0, wait    *)
(* for its mail, acknowledge that to the box it names, wait for the        *)
(* acknowledgement.  Some machines have a thread more, which sends one     *)
(* mail to box 2.                                                          *)
(*                                                                         *)
(* A mail is lost when the sender's network drops it, and when the other   *)
(* machine is not there: not started yet or killed.  Mail boxes are        *)
(* SynchLists, one atomic Append or RemoveFront each (module SynchList).   *)
(***************************************************************************)
EXTENDS Integers, Sequences

CONSTANTS
  Machines,       \* {0, 1}: the machines NetworkTest runs on
  Extras,         \* the machines with a second sender
  numBoxes        \* mail boxes of a post office

ASSUME PostOfficeAssumption ==
  /\ Machines = {0, 1} /\ Extras \subseteq Machines
  /\ numBoxes \in Nat /\ numBoxes > 2

VARIABLES
  status,         \* machine |-> "off", "on" or "dead"
  socket,         \* machine |-> mails in its socket
  inbox,          \* machine |-> the packet NetworkInput has buffered, if any
  messageAvailable,  \* machine |-> semaphore
  worker,         \* machine |-> the postal worker: "wait", "receive" or "put"
  hand,           \* machine |-> the mail the worker is delivering
  boxes,          \* machine |-> box |-> mails
  sendLock,       \* machine |-> thread that holds it
  messageSent,    \* machine |-> semaphore
  sendInt,        \* machine |-> a NetworkSendInt is pending
  stage,          \* thread |-> how far its program is
  pc,             \* thread |-> where it is in a Send
  in,             \* thread |-> the mail it received last
  lost,           \* has a mail been lost
  accepted,       \* ghost: machine |-> mails that reached its socket
  delivered,      \* ghost: machine |-> mails put in its boxes
  received        \* ghost: machine |-> mails its program received

vars == <<status, socket, inbox, messageAvailable, worker, hand, boxes, sendLock,
          messageSent, sendInt, stage, pc, in, lost, accepted, delivered, received>>

inputVars == <<inbox, messageAvailable, worker, hand, boxes, delivered>>

outputVars == <<sendLock, messageSent, sendInt>>

Main(m) == <<m, "main">>

Threads == {Main(m) : m \in Machines} \cup {<<m, "extra">> : m \in Extras}

Host(t) == t[1]

NoThread == <<-1, "none">>

farHost(m) == 1 - m

NoMail == [from |-> -1, to |-> -1, box |-> 0, reply |-> 0, data |-> "none"]

Boxes == 0 .. numBoxes - 1

\* What a thread sends at its stage: the first message, the acknowledgement to
\* the reply box of the mail it got, or the second sender's mail.
Outgoing(t) ==
  LET first == [from |-> Host(t), to |-> farHost(Host(t)), box |-> 0, reply |-> 1,
                data |-> "Hello there!"]
  IN  IF t # Main(Host(t)) THEN [first EXCEPT !.box = 2, !.data = "extra"]
      ELSE IF stage[t] = 1 THEN first
      ELSE [from |-> Host(t), to |-> in[t].from, box |-> in[t].reply, reply |-> 1,
            data |-> "Got it!"]

Sending(t) == stage[t] \in {1, 3}

Init ==
  /\ status = [m \in Machines |-> "off"]
  /\ socket = [m \in Machines |-> <<>>]
  /\ inbox = [m \in Machines |-> NoMail]
  /\ messageAvailable = [m \in Machines |-> 0]
  /\ worker = [m \in Machines |-> "wait"]
  /\ hand = [m \in Machines |-> NoMail]
  /\ boxes = [m \in Machines |-> [b \in Boxes |-> <<>>]]
  /\ sendLock = [m \in Machines |-> NoThread]
  /\ messageSent = [m \in Machines |-> 0]
  /\ sendInt = [m \in Machines |-> FALSE]
  /\ stage = [t \in Threads |-> 1]
  /\ pc = [t \in Threads |-> "ready"]
  /\ in = [t \in Threads |-> NoMail]
  /\ lost = FALSE
  /\ accepted = [m \in Machines |-> <<>>]
  /\ delivered = [m \in Machines |-> <<>>]
  /\ received = [m \in Machines |-> {}]

-----------------------------------------------------------------------------
(* Machines come and go. *)

\* Kernel::Initialize: the socket gets its name.
Boot(m) ==
  /\ status[m] = "off"
  /\ status' = [status EXCEPT ![m] = "on"]
  /\ UNCHANGED <<socket, inputVars, outputVars, stage, pc, in, lost, accepted, received>>

\* The user stops the simulator; its socket is gone.
Kill(m) ==
  /\ status[m] = "on"
  /\ status' = [status EXCEPT ![m] = "dead"]
  /\ UNCHANGED <<socket, inputVars, outputVars, stage, pc, in, lost, accepted, received>>

-----------------------------------------------------------------------------
(* PostOfficeOutput::Send. *)

On(t) == status[Host(t)] = "on"

\* As Acquire, without waiting for the lock.
AcquireNoLock(t) ==
  /\ On(t) /\ Sending(t) /\ pc[t] = "ready"
  /\ sendLock' = [sendLock EXCEPT ![Host(t)] = t]
  /\ pc' = [pc EXCEPT ![t] = "send"]
  /\ UNCHANGED <<status, socket, inputVars, messageSent, sendInt, stage, in, lost,
                 accepted, received>>

\* sendLock->Acquire()
Acquire(t) ==
  /\ On(t) /\ Sending(t) /\ pc[t] = "ready" /\ sendLock[Host(t)] = NoThread
  /\ sendLock' = [sendLock EXCEPT ![Host(t)] = t]
  /\ pc' = [pc EXCEPT ![t] = "send"]
  /\ UNCHANGED <<status, socket, inputVars, messageSent, sendInt, stage, in, lost,
                 accepted, received>>

\* NetworkOutput::Send schedules the interrupt whether or not the packet is
\* dropped; SendToSocket gives up after ten tries when nobody is there.
NetworkSend(t) ==
  LET mail == Outgoing(t) IN
  /\ On(t) /\ pc[t] = "send"
  /\ sendInt' = [sendInt EXCEPT ![Host(t)] = TRUE]
  /\ pc' = [pc EXCEPT ![t] = "sent"]
  /\ \/ /\ status[mail.to] = "on"
        /\ socket' = [socket EXCEPT ![mail.to] = Append(@, mail)]
        /\ accepted' = [accepted EXCEPT ![mail.to] = Append(@, mail)]
        /\ UNCHANGED lost
     \/ /\ lost' = TRUE
        /\ UNCHANGED <<socket, accepted>>
  /\ UNCHANGED <<status, inputVars, sendLock, messageSent, stage, in, received>>

\* NetworkOutput::CallBack, then PostOfficeOutput::CallBack.
SendInterrupt(m) ==
  /\ status[m] = "on" /\ sendInt[m]
  /\ sendInt' = [sendInt EXCEPT ![m] = FALSE]
  /\ messageSent' = [messageSent EXCEPT ![m] = @ + 1]
  /\ UNCHANGED <<status, socket, inputVars, sendLock, stage, pc, in, lost, accepted,
                 received>>

\* messageSent->P()
WaitSent(t) ==
  /\ On(t) /\ pc[t] = "sent" /\ messageSent[Host(t)] > 0
  /\ messageSent' = [messageSent EXCEPT ![Host(t)] = @ - 1]
  /\ pc' = [pc EXCEPT ![t] = "release"]
  /\ UNCHANGED <<status, socket, inputVars, sendLock, sendInt, stage, in, lost,
                 accepted, received>>

Release(t) ==
  /\ On(t) /\ pc[t] = "release"
  /\ sendLock' = [sendLock EXCEPT ![Host(t)] = NoThread]
  /\ pc' = [pc EXCEPT ![t] = "ready"]
  /\ stage' = [stage EXCEPT ![t] = IF t = Main(Host(t)) THEN @ + 1 ELSE 5]
  /\ UNCHANGED <<status, socket, inputVars, messageSent, sendInt, in, lost, accepted,
                 received>>

-----------------------------------------------------------------------------
(* NetworkInput, the postal worker, and PostOfficeInput::Receive. *)

\* As NetworkCallBack, whether or not a packet is buffered.
NetworkCallBackOverwrites(m) ==
  /\ status[m] = "on"
  /\ socket[m] # <<>>
  /\ inbox' = [inbox EXCEPT ![m] = Head(socket[m])]
  /\ socket' = [socket EXCEPT ![m] = Tail(@)]
  /\ messageAvailable' = [messageAvailable EXCEPT ![m] = @ + 1]
  /\ UNCHANGED <<status, worker, hand, boxes, delivered, outputVars, stage, pc, in,
                 lost, accepted, received>>

\* NetworkInput::CallBack, which always schedules the next poll: a packet is
\* taken only when none is buffered; then PostOfficeInput::CallBack.
NetworkCallBack(m) ==
  /\ status[m] = "on"
  /\ inbox[m] = NoMail /\ socket[m] # <<>>
  /\ inbox' = [inbox EXCEPT ![m] = Head(socket[m])]
  /\ socket' = [socket EXCEPT ![m] = Tail(@)]
  /\ messageAvailable' = [messageAvailable EXCEPT ![m] = @ + 1]
  /\ UNCHANGED <<status, worker, hand, boxes, delivered, outputVars, stage, pc, in,
                 lost, accepted, received>>

\* PostalDelivery: messageAvailable->P()
WorkerWait(m) ==
  /\ status[m] = "on" /\ worker[m] = "wait" /\ messageAvailable[m] > 0
  /\ messageAvailable' = [messageAvailable EXCEPT ![m] = @ - 1]
  /\ worker' = [worker EXCEPT ![m] = "receive"]
  /\ UNCHANGED <<status, socket, inbox, hand, boxes, delivered, outputVars, stage, pc,
                 in, lost, accepted, received>>

\* As WorkerReceive, without inHdr.length = 0.
WorkerReceiveKeeps(m) ==
  /\ status[m] = "on" /\ worker[m] = "receive"
  /\ hand' = [hand EXCEPT ![m] = inbox[m]]
  /\ worker' = [worker EXCEPT ![m] = "put"]
  /\ UNCHANGED <<status, socket, inbox, messageAvailable, boxes, delivered, outputVars,
                 stage, pc, in, lost, accepted, received>>

\* NetworkInput::Receive empties the buffer.
WorkerReceive(m) ==
  /\ status[m] = "on" /\ worker[m] = "receive"
  /\ hand' = [hand EXCEPT ![m] = inbox[m]]
  /\ inbox' = [inbox EXCEPT ![m] = NoMail]
  /\ worker' = [worker EXCEPT ![m] = "put"]
  /\ UNCHANGED <<status, socket, messageAvailable, boxes, delivered, outputVars, stage,
                 pc, in, lost, accepted, received>>

\* As WorkerPut, always into the first box.
WorkerPutFirstBox(m) ==
  /\ status[m] = "on" /\ worker[m] = "put" /\ hand[m].box \in Boxes
  /\ boxes' = [boxes EXCEPT ![m][0] = Append(@, hand[m])]
  /\ delivered' = [delivered EXCEPT ![m] = Append(@, hand[m])]
  /\ hand' = [hand EXCEPT ![m] = NoMail]
  /\ worker' = [worker EXCEPT ![m] = "wait"]
  /\ UNCHANGED <<status, socket, inbox, messageAvailable, outputVars, stage, pc, in,
                 lost, accepted, received>>

\* boxes[mailHdr.to].Put, after the ASSERT that there is such a box.
WorkerPut(m) ==
  /\ status[m] = "on" /\ worker[m] = "put" /\ hand[m].box \in Boxes
  /\ boxes' = [boxes EXCEPT ![m][hand[m].box] = Append(@, hand[m])]
  /\ delivered' = [delivered EXCEPT ![m] = Append(@, hand[m])]
  /\ hand' = [hand EXCEPT ![m] = NoMail]
  /\ worker' = [worker EXCEPT ![m] = "wait"]
  /\ UNCHANGED <<status, socket, inbox, messageAvailable, outputVars, stage, pc, in,
                 lost, accepted, received>>

\* Receive(0, ...) at stage 2 and Receive(1, ...) at stage 4 of NetworkTest.
Receive(m) ==
  LET t   == Main(m)
      box == IF stage[t] = 2 THEN 0 ELSE 1
  IN  /\ On(t) /\ stage[t] \in {2, 4} /\ boxes[m][box] # <<>>
      /\ in' = [in EXCEPT ![t] = Head(boxes[m][box])]
      /\ received' = [received EXCEPT ![m] = @ \cup {Head(boxes[m][box])}]
      /\ boxes' = [boxes EXCEPT ![m][box] = Tail(@)]
      /\ stage' = [stage EXCEPT ![t] = @ + 1]
      /\ UNCHANGED <<status, socket, inbox, messageAvailable, worker, hand, delivered,
                     outputVars, pc, lost, accepted>>

-----------------------------------------------------------------------------

SendStep(t) == Acquire(t) \/ NetworkSend(t) \/ WaitSent(t) \/ Release(t)

MachineStep(m) ==
  \/ SendInterrupt(m) \/ NetworkCallBack(m)
  \/ WorkerWait(m) \/ WorkerReceive(m) \/ WorkerPut(m)
  \/ Receive(m)

Next ==
  \/ \E m \in Machines : Boot(m) \/ Kill(m) \/ MachineStep(m)
  \/ \E t \in Threads : SendStep(t)

\* Machines are started, threads that can run do, interrupts come due.
Fairness ==
  /\ \A m \in Machines :
       /\ WF_vars(Boot(m)) /\ WF_vars(SendInterrupt(m)) /\ WF_vars(NetworkCallBack(m))
       /\ WF_vars(WorkerWait(m) \/ WorkerReceive(m) \/ WorkerPut(m))
       /\ WF_vars(Receive(m))
  /\ \A t \in Threads : WF_vars(SendStep(t))

Spec == Init /\ [][Next]_vars /\ Fairness

-----------------------------------------------------------------------------
(* Properties. *)

One(mail) == IF mail = NoMail THEN <<>> ELSE <<mail>>

\* s is what is left of t once mails have been taken from its front.
IsSuffix(s, t) ==
  /\ Len(s) <= Len(t)
  /\ \A i \in 1 .. Len(s) : s[i] = t[i + (Len(t) - Len(s))]

\* The mails of s for box b, in their order.
ForBox(s, b) ==
  LET kept[i \in 0 .. Len(s)] ==
        IF i = 0 THEN <<>>
        ELSE IF s[i].box = b THEN Append(kept[i - 1], s[i]) ELSE kept[i - 1]
  IN  kept[Len(s)]

\* Nothing that reached a machine is lost, duplicated or reordered on its way
\* from the socket through the one-packet buffer and the postal worker to the
\* boxes, whenever the network interrupts the worker (network.cc:60-103,
\* post.cc:97-137, :190-216); and the worker is woken once per packet.
MailInOrder ==
  \A m \in Machines :
    /\ delivered[m] \o One(hand[m]) \o One(inbox[m]) \o socket[m] = accepted[m]
    /\ (inbox[m] # NoMail) <=> (messageAvailable[m] = 1 \/ worker[m] = "receive")
    /\ \A b \in Boxes : IsSuffix(boxes[m][b], ForBox(delivered[m], b))

\* Only one thread has a packet in the network device at a time, and a Send
\* returns only after the interrupt for its own packet (post.cc:299-343;
\* sendBusy is never set, so the ASSERT of network.cc:164 would not notice).
OneSendAtATime ==
  \A m \in Machines :
    LET out == {t \in Threads : Host(t) = m /\ pc[t] = "sent"}
    IN  /\ (sendInt[m] \/ messageSent[m] > 0) <=> out # {}
        /\ \A t \in out : sendLock[m] = t /\ (sendInt[m] <=> messageSent[m] = 0)

\* The purpose of NetworkTest (kernel.cc:200-244): a machine that has received
\* the acknowledgement knows that its first message was received, whatever was
\* lost and whoever was killed.
AckMeansReceived ==
  \A m \in Machines :
    (\E r \in received[m] : r.data = "Got it!") =>
      \E r \in received[farHost(m)] : r.from = m /\ r.data = "Hello there!"

\* The test ends on both machines unless a mail is lost or a machine killed.
TestEnds ==
  <>( \/ lost
      \/ \E m \in Machines : status[m] = "dead"
      \/ \A t \in Threads : stage[t] = 5 )

=============================================================================
