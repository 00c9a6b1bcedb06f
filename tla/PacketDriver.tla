---------------------------- MODULE PacketDriver ----------------------------
(***************************************************************************)
(* The packet driver of HellfireOS Lite (ukernel/hal/mips/plasma/mpsoc.c): *)
(* tasks on different cores exchange messages that are cut into packets.   *)
(*                                                                         *)
(* An action is a stretch of driver code between two places where another  *)
(* task of the core or an interrupt can change what it reads: the copying  *)
(* of a packet to or from the hardware is a critical section; the waiting  *)
(* loops are not.  pktdrv_mutex is the semaphore that HFKernel is shown to *)
(* implement: its holder is the head of a first-come first-served line.    *)
(* The network of mpsoc_sim moves whole packets here; each interface has   *)
(* room for one packet each way.                                           *)
(*                                                                         *)
(* Left out: the packet counters kept for statistics, the contents of the  *)
(* packets beyond the message they belong to, NOC_CRC16 (never defined)    *)
(* and the messed up packet, whose payload field no sender writes.         *)
(***************************************************************************)
EXTENDS Integers, Sequences

CONSTANTS Cores,
          Tasks,                \* that use the driver
          NoTask,               \* an id for which a core has no task
          Home,                 \* task or missing task -> its core
          HF_PACKET_SLOTS,      \* packets the software queue of a task holds
          PAYLOAD_BYTES,        \* of one packet
          Bodies,               \* contents of messages
          Sizes,                \* of messages, in bytes
          Routes,               \* <<sender, receiver>> pairs of the application
          DEBUG,                \* is the macro DEBUG defined
          NoPacket

ASSUME DriverAssumption == /\ HF_PACKET_SLOTS \in Nat \ {0}
                           /\ PAYLOAD_BYTES \in Nat \ {0}
                           /\ Sizes \subseteq Nat \ {0}
                           /\ DEBUG \in BOOLEAN
                           /\ NoTask \notin Tasks
                           /\ Routes \subseteq Tasks \X (Tasks \cup {NoTask})
                           /\ Home \in [Tasks \cup {NoTask} -> Cores]

VARIABLES packet_in,    \* task -> slot -> packet
          start, end,   \* task -> first used slot, first free slot
          in_packet,    \* task -> number of used slots
          ni_out,       \* core -> packet in its outgoing hardware queue
          ni_in,        \* core -> packet in its incoming hardware queue
          jammed,       \* core -> flits nobody read block the incoming queue
          pktdrv_mutex, \* core -> tasks that hold or wait for the driver
          sending,      \* task -> the HF_NB_Send it is in
          receiving,    \* task -> is it in HF_NB_Receive, and with a timeout
          buf,          \* task -> packets its last receive call has copied
          returned      \* task -> what that call returned

queueVars == <<packet_in, start, end, in_packet>>
niVars    == <<ni_out, ni_in, jammed>>
sendVars  == <<pktdrv_mutex, sending>>
recvVars  == <<receiving, buf, returned>>
driverVars == <<queueVars, niVars, sendVars, recvVars>>

Slot == 0 .. HF_PACKET_SLOTS - 1

Messages == [from : Tasks, body : Bodies, size : Sizes]
Packets  == [to : Tasks \cup {NoTask}, message : Messages, seq : 1 .. HF_PACKET_SLOTS]

ASSUME PacketAssumption == NoPacket \notin Packets

HF_OK == 0
HF_COMM_TIMEOUT == -108
HF_SEQ_ERROR == -109 % 256      \* "error" is a uint8_t in HF_NB_Receive
NotReturned == 1

NotSending == [to |-> NoTask]
Sends == [to : Tasks \cup {NoTask}, message : Messages, packet : 1 .. HF_PACKET_SLOTS,
          timed : BOOLEAN, ready : BOOLEAN]

PacketCount(size) == (size + PAYLOAD_BYTES - 1) \div PAYLOAD_BYTES

\* More than the queue of the target could ever hold is HF_COMM_UNFEASIBLE.
Feasible(size) == size \div PAYLOAD_BYTES + 1 <= HF_PACKET_SLOTS

TypeOK ==
    /\ packet_in \in [Tasks -> [Slot -> Packets \cup {NoPacket}]]
    /\ start \in [Tasks -> Slot]
    /\ end \in [Tasks -> Slot]
    /\ in_packet \in [Tasks -> 0 .. HF_PACKET_SLOTS]
    /\ ni_out \in [Cores -> Packets \cup {NoPacket}]
    /\ ni_in \in [Cores -> Packets \cup {NoPacket}]
    /\ jammed \in [Cores -> BOOLEAN]
    /\ pktdrv_mutex \in [Cores -> Seq(Tasks)]
    /\ sending \in [Tasks -> {NotSending} \cup Sends]
    /\ receiving \in [Tasks -> {"no", "untimed", "timed"}]
    /\ buf \in [Tasks -> Seq(Packets)]
    /\ returned \in [Tasks -> {NotReturned, HF_OK, HF_SEQ_ERROR, HF_COMM_TIMEOUT}]

DriverInit ==
    /\ packet_in = [t \in Tasks |-> [k \in Slot |-> NoPacket]]
    /\ start = [t \in Tasks |-> 0]
    /\ end = [t \in Tasks |-> 0]
    /\ in_packet = [t \in Tasks |-> 0]
    /\ ni_out = [c \in Cores |-> NoPacket]
    /\ ni_in = [c \in Cores |-> NoPacket]
    /\ jammed = [c \in Cores |-> FALSE]
    /\ pktdrv_mutex = [c \in Cores |-> << >>]
    /\ sending = [t \in Tasks |-> NotSending]
    /\ receiving = [t \in Tasks |-> "no"]
    /\ buf = [t \in Tasks |-> << >>]
    /\ returned = [t \in Tasks |-> NotReturned]

\* A task is in at most one driver call.
Outside(t) == sending[t] = NotSending /\ receiving[t] = "no"
-----------------------------------------------------------------------------
(* Sending *)

\* HF_SemWait(&pktdrv_mutex) and HF_SemPost(&pktdrv_mutex).
Acquire(t) == pktdrv_mutex' = [pktdrv_mutex EXCEPT ![Home[t]] = Append(@, t)]
ReleaseForgotten(t) == UNCHANGED pktdrv_mutex       \* mutant: no HF_SemPost
Release(t) == pktdrv_mutex' = [pktdrv_mutex EXCEPT ![Home[t]] = Tail(@)]

\* Mutant: the driver is entered without waiting for the semaphore.
HoldsAnyway(t) == sending[t] # NotSending
Holds(t) == sending[t] # NotSending /\ Head(pktdrv_mutex[Home[t]]) = t

HF_NB_Send(t, to, message, timed) ==
    /\ Outside(t)
    /\ Feasible(message.size)
    /\ Acquire(t)
    /\ sending' = [sending EXCEPT ![t] = [to |-> to, message |-> message, packet |-> 1,
                                          timed |-> timed, ready |-> FALSE]]
    /\ UNCHANGED <<queueVars, niVars, recvVars>>

\* The call of t, at a packet, with or without the interface.
At(t, packet, ready) == [to |-> sending[t].to, message |-> sending[t].message,
                         packet |-> packet, timed |-> sending[t].timed, ready |-> ready]

\* The waiting loop sees NOC_STATUS: the outgoing queue is empty.
InterfaceReady(t) ==
    /\ Holds(t)
    /\ ~sending[t].ready
    /\ ni_out[Home[t]] = NoPacket
    /\ sending' = [sending EXCEPT ![t] = At(t, sending[t].packet, TRUE)]
    /\ UNCHANGED <<queueVars, niVars, pktdrv_mutex, recvVars>>

LastPacket(t) == sending[t].packet >= PacketCount(sending[t].message.size)

\* Mutant: the sequence number is not advanced.
OutgoingRepeated(t) == [to |-> sending[t].to, message |-> sending[t].message, seq |-> 1]

Outgoing(t) == [to |-> sending[t].to, message |-> sending[t].message,
                seq |-> sending[t].packet]

\* The packet is written in a critical section; HF_OK after the last one.
WritePacket(t) ==
    /\ Holds(t)
    /\ sending[t].ready
    /\ ni_out' = [ni_out EXCEPT ![Home[t]] = Outgoing(t)]
    /\ IF LastPacket(t)
       THEN /\ sending' = [sending EXCEPT ![t] = NotSending]
            /\ Release(t)
       ELSE /\ sending' = [sending EXCEPT ![t] = At(t, sending[t].packet + 1, FALSE)]
            /\ UNCHANGED pktdrv_mutex
    /\ UNCHANGED <<queueVars, ni_in, jammed, recvVars>>

\* HF_IF_NOT_READY: what is left of the message is never sent.  The step is placed
\* at the last look at NOC_STATUS, and so is ReceiveTimeout at that of in_packet.
SendTimeout(t) ==
    /\ Holds(t)
    /\ sending[t].timed
    /\ ~sending[t].ready
    /\ ni_out[Home[t]] # NoPacket
    /\ sending' = [sending EXCEPT ![t] = NotSending]
    /\ Release(t)
    /\ UNCHANGED <<queueVars, niVars, recvVars>>
-----------------------------------------------------------------------------
(* The network and the receive interrupt *)

\* The network delivers the packet of core c when its target has room.
Transfer(c) ==
    /\ ni_out[c] # NoPacket
    /\ ni_in[Home[ni_out[c].to]] = NoPacket
    /\ ni_in' = [ni_in EXCEPT ![Home[ni_out[c].to]] = ni_out[c]]
    /\ ni_out' = [ni_out EXCEPT ![c] = NoPacket]
    /\ UNCHANGED <<queueVars, jammed, sendVars, recvVars>>

\* Mutant: the queue is not checked for room.
HasRoomAlways(t) == TRUE

HasRoom(t) == in_packet[t] < HF_PACKET_SLOTS

NextSlot(k) == (k + 1) % HF_PACKET_SLOTS

Store(t, packet) ==
    /\ packet_in' = [packet_in EXCEPT ![t][end[t]] = packet]
    /\ end' = [end EXCEPT ![t] = NextSlot(@)]
    /\ in_packet' = [in_packet EXCEPT ![t] = @ + 1]
    /\ UNCHANGED start

\* Mutant: the flits of a packet for a full queue are left in the hardware.
DrainedIfStored(packet) == packet.to \in Tasks /\ HasRoom(packet.to)
Drained(packet) == packet.to \in Tasks \/ DEBUG

\* A packet for a full queue is dropped.  So is one for a task that does not
\* exist, but without DEBUG its flits are left in the hardware queue.
RecvCommServiceISR(c) ==
    /\ ni_in[c] # NoPacket
    /\ ~jammed[c]
    /\ LET packet == ni_in[c]
       IN  /\ IF packet.to \in Tasks /\ HasRoom(packet.to)
              THEN Store(packet.to, packet)
              ELSE UNCHANGED queueVars
           /\ ni_in' = IF Drained(packet) THEN [ni_in EXCEPT ![c] = NoPacket] ELSE ni_in
           /\ jammed' = [jammed EXCEPT ![c] = ~Drained(packet)]
    /\ UNCHANGED <<ni_out, sendVars, recvVars>>
-----------------------------------------------------------------------------
(* Receiving *)

HF_NB_Receive(t, timed) ==
    /\ Outside(t)
    /\ receiving' = [receiving EXCEPT ![t] = IF timed THEN "timed" ELSE "untimed"]
    /\ buf' = [buf EXCEPT ![t] = << >>]
    /\ returned' = [returned EXCEPT ![t] = NotReturned]
    /\ UNCHANGED <<queueVars, niVars, sendVars>>

\* Mutant: the last packet of a message is left in the queue.
CompleteEarly(packets) == Len(packets) >= PacketCount(packets[1].message.size) - 1

\* The header of the first packet tells the size of the message and the sequence
\* number to start from.
Complete(packets) == Len(packets) >= PacketCount(packets[1].message.size)

InSequence(packets) ==
    \A k \in 1 .. Len(packets) : packets[k].seq = packets[1].seq + k - 1

TakePacket(t) ==
    /\ receiving[t] # "no"
    /\ in_packet[t] > 0
    /\ start' = [start EXCEPT ![t] = NextSlot(@)]
    /\ in_packet' = [in_packet EXCEPT ![t] = @ - 1]
    /\ LET packets == Append(buf[t], packet_in[t][start[t]])
       IN  /\ buf' = [buf EXCEPT ![t] = packets]
           /\ IF Complete(packets)
              THEN /\ receiving' = [receiving EXCEPT ![t] = "no"]
                   /\ returned' = [returned EXCEPT ![t] =
                         IF DEBUG /\ ~InSequence(packets) THEN HF_SEQ_ERROR ELSE HF_OK]
              ELSE UNCHANGED <<receiving, returned>>
    /\ UNCHANGED <<packet_in, end, niVars, sendVars>>

\* Before the first packet or in the middle of a message: what was copied is gone.
ReceiveTimeout(t) ==
    /\ receiving[t] = "timed"
    /\ in_packet[t] = 0
    /\ receiving' = [receiving EXCEPT ![t] = "no"]
    /\ returned' = [returned EXCEPT ![t] = HF_COMM_TIMEOUT]
    /\ UNCHANGED <<queueVars, niVars, sendVars, buf>>
-----------------------------------------------------------------------------
(* The driver with tasks that send and receive as they like *)

Interrupts == \E c \in Cores : Transfer(c) \/ RecvCommServiceISR(c)

DriverStep(t) == \/ InterfaceReady(t)
                 \/ WritePacket(t)
                 \/ TakePacket(t)

Timeout(t) == SendTimeout(t) \/ ReceiveTimeout(t)

Receivers == { r[2] : r \in Routes } \ {NoTask}

Next == \/ Interrupts
        \/ \E t \in Tasks : DriverStep(t) \/ Timeout(t)
        \/ \E t \in Receivers, timed \in BOOLEAN : HF_NB_Receive(t, timed)
        \/ \E m \in Messages, to \in Tasks \cup {NoTask}, timed \in BOOLEAN :
              <<m.from, to>> \in Routes /\ HF_NB_Send(m.from, to, m, timed)

(***************************************************************************)
(* Interrupts are served and the routers' arbiters are round robin, so     *)
(* every interface that has a packet gets its turn; a task inside a driver *)
(* call is scheduled again and again.                                      *)
(***************************************************************************)
Fairness == /\ \A c \in Cores : /\ SF_driverVars(Transfer(c))
                                /\ WF_driverVars(RecvCommServiceISR(c))
            /\ \A t \in Tasks : WF_driverVars(DriverStep(t))

Spec == DriverInit /\ [][Next]_driverVars /\ Fairness

Queue(t) == [k \in 1 .. in_packet[t] |->
                packet_in[t][(start[t] + k - 1) % HF_PACKET_SLOTS]]

OneOf(S) == IF S = {} THEN << >> ELSE << CHOOSE x \in S : TRUE >>

InInterfaces(ni, t) == OneOf({ ni[c] : c \in {d \in Cores : ni[d] # NoPacket /\ ni[d].to = t} })

Unsent(t) == IF sending[t] = NotSending THEN << >>
             ELSE [k \in 1 .. PacketCount(sending[t].message.size) - sending[t].packet + 1 |->
                      [to |-> sending[t].to, message |-> sending[t].message,
                       seq |-> sending[t].packet + k - 1]]

\* All packets on their way to t, the next to be copied first.
Path(t) == Queue(t) \o InInterfaces(ni_in, t) \o InInterfaces(ni_out, t)
              \o LET S == {u \in Tasks : sending[u].to = t}
                 IN  IF S = {} THEN << >> ELSE Unsent(CHOOSE u \in S : TRUE)

(***************************************************************************)
(* The flow control the driver leaves to the applications: a task is sent  *)
(* to by one task at a time, and no more than its queue holds.  No call    *)
(* times out.                                                              *)
(***************************************************************************)
Window(t, to, size) ==
    /\ \A k \in DOMAIN Path(to) : Path(to)[k].message.from = t
    /\ Len(Path(to)) + PacketCount(size) <= HF_PACKET_SLOTS

PairNext == \/ Interrupts
            \/ \E t \in Tasks : DriverStep(t)
            \/ \E t \in Receivers, timed \in BOOLEAN : HF_NB_Receive(t, timed)
            \/ \E m \in Messages, to \in Tasks, timed \in BOOLEAN :
                  /\ <<m.from, to>> \in Routes
                  /\ Window(m.from, to, m.size)
                  /\ HF_NB_Send(m.from, to, m, timed)

PairSpec == DriverInit /\ [][PairNext]_driverVars /\ Fairness
-----------------------------------------------------------------------------
(* Properties *)

\* The three fields of a software queue, moved by the interrupt and by the task,
\* describe the same queue: no slot is used twice, none is lost.
RingSpan == \A t \in Tasks : /\ in_packet[t] \in 0 .. HF_PACKET_SLOTS
                             /\ end[t] = (start[t] + in_packet[t]) % HF_PACKET_SLOTS

\* The status of the interface is read before the critical section and used in
\* it: the outgoing queue is still empty then, although the core has other tasks.
InterfaceFree == \A t \in Tasks : sending[t] # NotSending =>
                    (sending[t].ready => ni_out[Home[t]] = NoPacket)

\* A send always comes to its end, even to a task that never receives: the
\* interrupt drops what it cannot store instead of blocking the network.
SendsFinish == \A t \in Tasks : sending[t] # NotSending ~> sending[t] = NotSending

Whole(packets) ==
    /\ Len(packets) = PacketCount(packets[1].message.size)
    /\ \A k \in 1 .. Len(packets) : /\ packets[k].message = packets[1].message
                                    /\ packets[k].seq = k

\* "Data is split into packets, and must be reconstructed": a receive call that
\* reports no error has copied one message, whole.
Reconstructed == \A t \in Tasks : returned[t] = HF_OK => Whole(buf[t])

\* The messages whose first packet is in a sequence of packets.
Begun(packets) ==
    LET F[k \in 0 .. Len(packets)] ==
            IF k = 0 THEN << >>
            ELSE IF packets[k].seq = 1 THEN Append(F[k - 1], packets[k].message)
            ELSE F[k - 1]
    IN  F[Len(packets)]

\* Messages on their way to t, the one being received included.
Pending(t) == Begun((IF receiving[t] = "no" THEN << >> ELSE buf[t]) \o Path(t))

Port == INSTANCE Channel WITH
           NoMessage <- NoPacket,
           port      <- [t \in Tasks |-> Pending(t)],
           received  <- [t \in Tasks |->
                            IF returned[t] = NotReturned THEN NoPacket
                            ELSE IF Whole(buf[t]) THEN buf[t][1].message ELSE << >>]

\* With that flow control a task's port is a reliable first-in first-out channel:
\* this is Port!Spec in a form TLC can check.
ImplementsChannel == Port!Init /\ [][Port!Step]_driverVars

\* A receive call returns when a message for the task was sent.
ReceiveReturns == \A t \in Tasks : receiving[t] # "no" /\ Pending(t) # << >>
                                      ~> receiving[t] = "no"
=============================================================================
