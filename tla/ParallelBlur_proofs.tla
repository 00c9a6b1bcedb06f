------------------------ MODULE ParallelBlur_proofs ------------------------
(***************************************************************************)
(* The packet driver for any set of cores and tasks, any queue and payload *)
(* size and any routes between the tasks, and the filter's tasks of        *)
(* ParallelBlur over it.                                                   *)
(*                                                                         *)
(* The driver first: its types and its ring buffers, whoever calls; and,   *)
(* while the tasks use it in the way of PairNext, that it delivers         *)
(* messages whole and in order, as module Channel says.                    *)
(*                                                                         *)
(* BlurInv is inductive: the two packets of a message stay together in     *)
(* every queue (PairInv), every slave is at a point of its exchange with   *)
(* the reader of the image (Good), and n counts the parts that are stored. *)
(* From it: no task sends while its neighbour has no room for the two      *)
(* packets of a message, so that the tasks use the driver in the only way  *)
(* in which it keeps messages whole (UsesPair); and the image is complete, *)
(* and right, when mestre is let through (ImageAlwaysComplete).            *)
(***************************************************************************)
EXTENDS ParallelBlur, SequenceTheorems, FiniteSetTheorems, ModLemmas

USE DriverAssumption, PacketAssumption

-----------------------------------------------------------------------------
(* Operators *)

\* A call is never taken for no call.
LEMMA SendsDiffer == \A s \in Sends : s # NotSending
<1> TAKE s \in Sends
<1>1. "ready" \in DOMAIN s
  BY DEF Sends
<1>2. "ready" \notin DOMAIN NotSending
  BY DEF NotSending
<1> QED BY <1>1, <1>2

\* A message that is let through fits the queue, and has a first packet.
LEMMA FeasibleFits ==
    ASSUME NEW size \in Sizes, Feasible(size)
    PROVE  PacketCount(size) \in 1 .. HF_PACKET_SLOTS
<1> DEFINE P == PAYLOAD_BYTES
           q == size \div P
           r == size % P
<1>1. size \in Nat \ {0} /\ P \in Nat \ {0}
  OBVIOUS
<1>2. q \in Nat /\ r \in 0 .. P - 1 /\ size = q * P + r
  BY <1>1, ModDivision, ModRange
<1>3. q + 1 <= HF_PACKET_SLOTS
  BY DEF Feasible
<1> HIDE DEF q, r
<1>4. CASE r = 0
  <2>1. size + P - 1 = q * P + (P - 1) /\ P - 1 \in 0 .. P - 1
    BY <1>1, <1>2, <1>4
  <2>2. (size + P - 1) \div P = q
    BY <2>1, <1>1, <1>2
  <2>3. q # 0
    BY <1>1, <1>2, <1>4
  <2> QED BY <2>2, <2>3, <1>2, <1>3 DEF PacketCount
<1>5. CASE r # 0
  <2>1. size + P - 1 = (q + 1) * P + (r - 1) /\ r - 1 \in 0 .. P - 1
    BY <1>1, <1>2, <1>5
  <2>2. (size + P - 1) \div P = q + 1
    BY <2>1, <1>1, <1>2
  <2> QED BY <2>2, <1>2, <1>3 DEF PacketCount
<1> QED BY <1>4, <1>5

LEMMA NextSlotType == \A k \in Slot : NextSlot(k) \in Slot
BY ModRange DEF NextSlot, Slot

-----------------------------------------------------------------------------
(* The inductive invariant *)

\* Every used slot of a queue holds a packet.
SlotsUsed == \A t \in Tasks : \A k \in 0 .. in_packet[t] - 1 :
                packet_in[t][(start[t] + k) % HF_PACKET_SLOTS] # NoPacket

\* The packet being sent is one of the message's, and they all fit a queue.
PacketsLeft == \A t \in Tasks : sending[t] # NotSending =>
                  /\ sending[t].packet <= PacketCount(sending[t].message.size)
                  /\ PacketCount(sending[t].message.size) \in 1 .. HF_PACKET_SLOTS

\* A sender stands in the line of its core's driver.
InLine == \A t \in Tasks : sending[t] # NotSending =>
             \E k \in 1 .. Len(pktdrv_mutex[Home[t]]) : pktdrv_mutex[Home[t]][k] = t

\* Who saw the interface empty is first in that line.
ReadyIsFirst == \A t \in Tasks : sending[t] # NotSending /\ sending[t].ready =>
                   Head(pktdrv_mutex[Home[t]]) = t

RingInv == TypeOK /\ RingSpan /\ SlotsUsed
TypeInv == RingInv /\ PacketsLeft /\ InLine

-----------------------------------------------------------------------------
(* The rings *)

LEMMA RingInit == DriverInit => RingInv
<1> SUFFICES ASSUME DriverInit PROVE RingInv
  OBVIOUS
<1>1. 0 \in Slot /\ 0 \in 0 .. HF_PACKET_SLOTS /\ (0 + 0) % HF_PACKET_SLOTS = 0
  BY DEF Slot
<1>2. /\ packet_in \in [Tasks -> [Slot -> Packets \cup {NoPacket}]]
      /\ ni_out \in [Cores -> Packets \cup {NoPacket}]
      /\ ni_in \in [Cores -> Packets \cup {NoPacket}]
  BY DEF DriverInit
<1>3. /\ start \in [Tasks -> Slot]
      /\ end \in [Tasks -> Slot]
      /\ in_packet \in [Tasks -> 0 .. HF_PACKET_SLOTS]
  BY <1>1 DEF DriverInit
<1>4. jammed \in [Cores -> BOOLEAN]
  BY Zenon DEF DriverInit
<1>5. << >> \in Seq(Tasks) /\ << >> \in Seq(Packets)
  OBVIOUS
<1>6. /\ pktdrv_mutex \in [Cores -> Seq(Tasks)]
      /\ buf \in [Tasks -> Seq(Packets)]
  BY <1>5 DEF DriverInit
<1>7. /\ sending \in [Tasks -> {NotSending} \cup Sends]
      /\ receiving \in [Tasks -> {"no", "untimed", "timed"}]
      /\ returned \in [Tasks -> {NotReturned, HF_OK, HF_SEQ_ERROR, HF_COMM_TIMEOUT}]
  BY DEF DriverInit
<1>8. TypeOK
  BY <1>2, <1>3, <1>4, <1>6, <1>7, Zenon DEF TypeOK
<1>9. RingSpan /\ SlotsUsed
  BY <1>1 DEF DriverInit, RingSpan, SlotsUsed
<1> QED BY <1>8, <1>9 DEF RingInv

\* Storing a packet where there is room overwrites no used slot.
LEMMA StoreKeepsRing ==
    ASSUME RingInv, NEW t \in Tasks, NEW packet \in Packets, HasRoom(t), Store(t, packet)
    PROVE  /\ packet_in' \in [Tasks -> [Slot -> Packets \cup {NoPacket}]]
           /\ start' \in [Tasks -> Slot]
           /\ end' \in [Tasks -> Slot]
           /\ in_packet' \in [Tasks -> 0 .. HF_PACKET_SLOTS]
           /\ RingSpan'
           /\ SlotsUsed'
<1>1. /\ packet_in \in [Tasks -> [Slot -> Packets \cup {NoPacket}]]
      /\ start \in [Tasks -> Slot]
      /\ end \in [Tasks -> Slot]
      /\ in_packet \in [Tasks -> 0 .. HF_PACKET_SLOTS]
  BY DEF RingInv, TypeOK
<1>2. packet_in' \in [Tasks -> [Slot -> Packets \cup {NoPacket}]]
  BY <1>1 DEF Store
<1>3. start' = start /\ start' \in [Tasks -> Slot]
  BY <1>1 DEF Store
<1>4. end' = [end EXCEPT ![t] = NextSlot(@)] /\ end' \in [Tasks -> Slot]
  BY <1>1, NextSlotType DEF Store
<1>5. /\ in_packet' = [in_packet EXCEPT ![t] = @ + 1]
      /\ in_packet' \in [Tasks -> 0 .. HF_PACKET_SLOTS]
      /\ in_packet[t] < HF_PACKET_SLOTS
  BY <1>1 DEF Store, HasRoom
<1>6. end[t] = (start[t] + in_packet[t]) % HF_PACKET_SLOTS
  BY DEF RingInv, RingSpan
<1>7. end'[t] = (start[t] + in_packet[t] + 1) % HF_PACKET_SLOTS
  <2>1. end'[t] = (end[t] + 1) % HF_PACKET_SLOTS
    BY <1>1, <1>4 DEF NextSlot
  <2>2. start[t] \in 0 .. HF_PACKET_SLOTS - 1 /\ in_packet[t] \in Nat
    BY <1>1 DEF Slot
  <2> QED BY <2>1, <2>2, <1>6, ModSuccessor
<1>8. RingSpan'
  <2> SUFFICES ASSUME NEW u \in Tasks
               PROVE  /\ in_packet'[u] \in 0 .. HF_PACKET_SLOTS
                      /\ end'[u] = (start'[u] + in_packet'[u]) % HF_PACKET_SLOTS
    BY DEF RingSpan
  <2>1. CASE u = t
    <3>1. in_packet'[t] = in_packet[t] + 1 /\ start[t] \in Int /\ in_packet[t] \in Int
      BY <1>1, <1>5 DEF Slot
    <3>2. start[t] + in_packet[t] + 1 = start[t] + (in_packet[t] + 1)
      BY <3>1
    <3> QED BY <2>1, <3>1, <3>2, <1>3, <1>5, <1>7
  <2>2. CASE u # t
    BY <2>2, <1>1, <1>3, <1>4, <1>5 DEF RingInv, RingSpan
  <2> QED BY <2>1, <2>2
<1>9. SlotsUsed'
  <2> SUFFICES ASSUME NEW u \in Tasks, NEW k \in 0 .. in_packet'[u] - 1
               PROVE  packet_in'[u][(start[u] + k) % HF_PACKET_SLOTS] # NoPacket
    BY <1>3 DEF SlotsUsed
  <2>1. CASE u # t
    <3>1. packet_in'[u] = packet_in[u] /\ in_packet'[u] = in_packet[u]
      BY <2>1, <1>1, <1>5 DEF Store
    <3> QED BY <3>1 DEF RingInv, SlotsUsed
  <2>2. CASE u = t
    <3> DEFINE cell == (start[t] + k) % HF_PACKET_SLOTS
    <3>1. /\ start[t] \in 0 .. HF_PACKET_SLOTS - 1
          /\ in_packet[t] \in 0 .. HF_PACKET_SLOTS - 1
          /\ k \in 0 .. in_packet[t]
      BY <2>2, <1>1, <1>5 DEF Slot
    <3>2. cell \in Slot
      <4>1. start[t] + k \in Nat
        BY <3>1
      <4> QED BY <4>1, ModRange DEF Slot
    <3>3. packet_in'[t] = [packet_in[t] EXCEPT ![end[t]] = packet]
      BY <1>1 DEF Store
    <3> HIDE DEF cell
    <3>4. CASE k = in_packet[t]
      <4>1. cell = end[t]
        BY <3>4, <1>6 DEF cell
      <4>2. packet_in'[t][cell] = packet
        BY <3>2, <3>3, <4>1, <1>1
      <4> QED BY <4>2, <2>2 DEF cell
    <3>5. CASE k # in_packet[t]
      <4>1. k \in 0 .. in_packet[t] - 1 /\ k \in 0 .. HF_PACKET_SLOTS - 1
        BY <3>1, <3>5
      <4>2. cell # end[t]
        BY <3>1, <3>5, <4>1, <1>6, ModDistinct DEF cell
      <4>3. packet_in'[t][cell] = packet_in[t][cell]
        BY <3>2, <3>3, <4>2, <1>1
      <4>4. packet_in[t][cell] # NoPacket
        BY <4>1 DEF RingInv, SlotsUsed, cell
      <4> QED BY <4>3, <4>4, <2>2 DEF cell
    <3> QED BY <3>4, <3>5
  <2> QED BY <2>1, <2>2
<1> QED BY <1>2, <1>3, <1>4, <1>5, <1>8, <1>9

\* Taking the first packet of a queue keeps the others.
LEMMA TakeKeepsRing ==
    ASSUME RingInv, NEW t \in Tasks, TakePacket(t)
    PROVE  /\ start' \in [Tasks -> Slot]
           /\ in_packet' \in [Tasks -> 0 .. HF_PACKET_SLOTS]
           /\ packet_in[t][start[t]] \in Packets
           /\ RingSpan'
           /\ SlotsUsed'
<1>1. /\ packet_in \in [Tasks -> [Slot -> Packets \cup {NoPacket}]]
      /\ start \in [Tasks -> Slot]
      /\ end \in [Tasks -> Slot]
      /\ in_packet \in [Tasks -> 0 .. HF_PACKET_SLOTS]
  BY DEF RingInv, TypeOK
<1>2. start' = [start EXCEPT ![t] = NextSlot(@)] /\ start' \in [Tasks -> Slot]
  BY <1>1, NextSlotType DEF TakePacket
<1>3. /\ in_packet' = [in_packet EXCEPT ![t] = @ - 1]
      /\ in_packet' \in [Tasks -> 0 .. HF_PACKET_SLOTS]
      /\ in_packet[t] > 0
  BY <1>1 DEF TakePacket
<1>4. packet_in' = packet_in /\ end' = end
  BY DEF TakePacket
<1>5. /\ start[t] \in 0 .. HF_PACKET_SLOTS - 1
      /\ start'[t] = (start[t] + 1) % HF_PACKET_SLOTS
      /\ in_packet[t] \in Nat \ {0}
      /\ in_packet'[t] = in_packet[t] - 1
  BY <1>1, <1>2, <1>3 DEF Slot, NextSlot
<1>6. packet_in[t][start[t]] \in Packets
  <2>1. 0 \in 0 .. in_packet[t] - 1 /\ (start[t] + 0) % HF_PACKET_SLOTS = start[t]
    BY <1>5
  <2>2. packet_in[t][start[t]] # NoPacket
    BY <2>1 DEF RingInv, SlotsUsed
  <2> QED BY <2>2, <1>1
<1>7. RingSpan'
  <2> SUFFICES ASSUME NEW u \in Tasks
               PROVE  /\ in_packet'[u] \in 0 .. HF_PACKET_SLOTS
                      /\ end[u] = (start'[u] + in_packet'[u]) % HF_PACKET_SLOTS
    BY <1>4 DEF RingSpan
  <2>1. CASE u = t
    <3>1. (((start[t] + 1) % HF_PACKET_SLOTS) + (in_packet[t] - 1)) % HF_PACKET_SLOTS
             = (start[t] + in_packet[t]) % HF_PACKET_SLOTS
      BY <1>5, ModShift
    <3>2. end[t] = (start[t] + in_packet[t]) % HF_PACKET_SLOTS
      BY DEF RingInv, RingSpan
    <3> QED BY <2>1, <3>1, <3>2, <1>3, <1>5
  <2>2. CASE u # t
    BY <2>2, <1>1, <1>2, <1>3 DEF RingInv, RingSpan
  <2> QED BY <2>1, <2>2
<1>8. SlotsUsed'
  <2> SUFFICES ASSUME NEW u \in Tasks, NEW k \in 0 .. in_packet'[u] - 1
               PROVE  packet_in[u][(start'[u] + k) % HF_PACKET_SLOTS] # NoPacket
    BY <1>4 DEF SlotsUsed
  <2>1. CASE u # t
    <3>1. start'[u] = start[u] /\ in_packet'[u] = in_packet[u]
      BY <2>1, <1>1, <1>2, <1>3
    <3> QED BY <3>1 DEF RingInv, SlotsUsed
  <2>2. CASE u = t
    <3> DEFINE j == k + 1
    <3>1. j \in Nat \ {0} /\ j \in 0 .. in_packet[t] - 1 /\ k = j - 1
      BY <2>2, <1>5
    <3> HIDE DEF j
    <3>2. (start'[t] + k) % HF_PACKET_SLOTS = (start[t] + j) % HF_PACKET_SLOTS
      BY <3>1, <1>5, ModShift
    <3>3. packet_in[t][(start[t] + j) % HF_PACKET_SLOTS] # NoPacket
      BY <3>1 DEF RingInv, SlotsUsed
    <3> QED BY <2>2, <3>2, <3>3
  <2> QED BY <2>1, <2>2
<1> QED BY <1>2, <1>3, <1>6, <1>7, <1>8

\* No other step touches a queue.
LEMMA RingUnchanged ==
    ASSUME RingInv, UNCHANGED queueVars
    PROVE  RingSpan' /\ SlotsUsed'
BY DEF RingInv, RingSpan, SlotsUsed, queueVars

-----------------------------------------------------------------------------
(* The line of senders of a core *)

LEMMA HomeType == \A t \in Tasks : Home[t] \in Cores
OBVIOUS

\* A task that joins the line is in it, and nobody leaves it.
LEMMA AcquireKeepsLine ==
    ASSUME TypeInv, NEW t \in Tasks, NEW s, Acquire(t),
           sending' = [sending EXCEPT ![t] = s]
    PROVE  pktdrv_mutex' \in [Cores -> Seq(Tasks)] /\ InLine'
<1> DEFINE line == pktdrv_mutex[Home[t]]
<1>1. /\ pktdrv_mutex \in [Cores -> Seq(Tasks)]
      /\ pktdrv_mutex' = [pktdrv_mutex EXCEPT ![Home[t]] = Append(line, t)]
  BY DEF Acquire, TypeInv, RingInv, TypeOK
<1>2. line \in Seq(Tasks)
  BY <1>1, HomeType
<1> HIDE DEF line
<1>3. /\ Append(line, t) \in Seq(Tasks)
      /\ Len(Append(line, t)) = Len(line) + 1
      /\ Append(line, t)[Len(line) + 1] = t
      /\ \A k \in 1 .. Len(line) : Append(line, t)[k] = line[k]
      /\ Len(line) \in Nat
  BY <1>2
<1>4. pktdrv_mutex' \in [Cores -> Seq(Tasks)]
  BY <1>1, <1>3
<1>5. ASSUME NEW u \in Tasks, sending'[u] # NotSending
      PROVE  \E k \in 1 .. Len(pktdrv_mutex'[Home[u]]) : pktdrv_mutex'[Home[u]][k] = u
  <2>1. CASE u = t
    <3>1. pktdrv_mutex'[Home[u]] = Append(line, t)
      BY <2>1, <1>1, HomeType
    <3>2. Len(line) + 1 \in 1 .. Len(Append(line, t))
      BY <1>3
    <3> QED BY <2>1, <3>1, <3>2, <1>3
  <2>2. CASE u # t
    <3>1. sending[u] # NotSending
      BY <2>2, <1>5 DEF TypeInv, RingInv, TypeOK
    <3>2. PICK k \in 1 .. Len(pktdrv_mutex[Home[u]]) : pktdrv_mutex[Home[u]][k] = u
      BY <3>1 DEF TypeInv, InLine
    <3>3. CASE Home[u] = Home[t]
      <4>1. pktdrv_mutex'[Home[u]] = Append(line, t) /\ pktdrv_mutex[Home[u]] = line
        BY <3>3, <1>1, HomeType DEF line
      <4>2. k \in 1 .. Len(line) /\ k \in 1 .. Len(Append(line, t))
        BY <3>2, <4>1, <1>3
      <4> QED BY <4>1, <4>2, <3>2, <1>3
    <3>4. CASE Home[u] # Home[t]
      <4>1. pktdrv_mutex'[Home[u]] = pktdrv_mutex[Home[u]]
        BY <3>4, <1>1, HomeType
      <4> QED BY <4>1, <3>2
    <3> QED BY <3>3, <3>4
  <2> QED BY <2>1, <2>2
<1> QED BY <1>4, <1>5 DEF InLine

\* The first of the line leaves it, and the others move up.
LEMMA ReleaseKeepsLine ==
    ASSUME TypeInv, NEW t \in Tasks, Holds(t), Release(t),
           sending' = [sending EXCEPT ![t] = NotSending]
    PROVE  pktdrv_mutex' \in [Cores -> Seq(Tasks)] /\ InLine'
<1> DEFINE line == pktdrv_mutex[Home[t]]
<1>1. /\ pktdrv_mutex \in [Cores -> Seq(Tasks)]
      /\ pktdrv_mutex' = [pktdrv_mutex EXCEPT ![Home[t]] = Tail(line)]
  BY DEF Release, TypeInv, RingInv, TypeOK
<1>2. line \in Seq(Tasks) /\ Head(line) = t /\ line # << >>
  <2>1. line \in Seq(Tasks)
    BY <1>1, HomeType
  <2>2. \E k \in 1 .. Len(line) : line[k] = t
    BY DEF Holds, TypeInv, InLine
  <2> QED BY <2>1, <2>2 DEF Holds
<1> HIDE DEF line
<1>3. /\ Tail(line) \in Seq(Tasks)
      /\ Len(Tail(line)) = Len(line) - 1
      /\ Len(line) \in Nat \ {0}
      /\ \A k \in 1 .. Len(line) - 1 : Tail(line)[k] = line[k + 1]
      /\ line[1] = t
  BY <1>2
<1>4. pktdrv_mutex' \in [Cores -> Seq(Tasks)]
  BY <1>1, <1>3
<1>5. ASSUME NEW u \in Tasks, sending'[u] # NotSending
      PROVE  \E k \in 1 .. Len(pktdrv_mutex'[Home[u]]) : pktdrv_mutex'[Home[u]][k] = u
  <2>1. u # t /\ sending[u] # NotSending
    BY <1>5 DEF TypeInv, RingInv, TypeOK
  <2>2. PICK k \in 1 .. Len(pktdrv_mutex[Home[u]]) : pktdrv_mutex[Home[u]][k] = u
    BY <2>1 DEF TypeInv, InLine
  <2>3. CASE Home[u] = Home[t]
    <3>1. pktdrv_mutex'[Home[u]] = Tail(line) /\ pktdrv_mutex[Home[u]] = line
      BY <2>3, <1>1, HomeType DEF line
    <3>2. k # 1 /\ k \in 1 .. Len(line)
      BY <2>1, <2>2, <3>1, <1>3
    <3>3. k - 1 \in 1 .. Len(line) - 1 /\ (k - 1) + 1 = k
      BY <3>2, <1>3
    <3>4. Tail(line)[k - 1] = line[k]
      BY <3>3, <1>3
    <3> QED BY <3>1, <3>3, <3>4, <2>2, <1>3
  <2>4. CASE Home[u] # Home[t]
    <3>1. pktdrv_mutex'[Home[u]] = pktdrv_mutex[Home[u]]
      BY <2>4, <1>1, HomeType
    <3> QED BY <3>1, <2>2
  <2> QED BY <2>3, <2>4
<1> QED BY <1>4, <1>5 DEF InLine

\* A step inside a call moves nobody in the line.
LEMMA InsideKeepsLine ==
    ASSUME TypeInv, NEW t \in Tasks, NEW s, sending[t] # NotSending,
           UNCHANGED pktdrv_mutex, sending' = [sending EXCEPT ![t] = s]
    PROVE  pktdrv_mutex' \in [Cores -> Seq(Tasks)] /\ InLine'
BY DEF TypeInv, RingInv, TypeOK, InLine

-----------------------------------------------------------------------------
(* Type correctness, one lemma per action *)

LEMMA SendTypes ==
    ASSUME TypeInv, NEW t \in Tasks, NEW to \in Tasks \cup {NoTask}, NEW m \in Messages,
           NEW timed \in BOOLEAN, HF_NB_Send(t, to, m, timed)
    PROVE  TypeInv'
<1> DEFINE s == [to |-> to, message |-> m, packet |-> 1, timed |-> timed, ready |-> FALSE]
<1>1. s \in Sends
  BY DEF Sends
<1>2. sending' = [sending EXCEPT ![t] = s]
  BY DEF HF_NB_Send
<1>3. s.packet = 1 /\ s.message = m
  OBVIOUS
<1> HIDE DEF s
<1>4. sending' \in [Tasks -> {NotSending} \cup Sends]
  BY <1>1, <1>2 DEF TypeInv, RingInv, TypeOK
<1>5. pktdrv_mutex' \in [Cores -> Seq(Tasks)] /\ InLine'
  BY <1>2, AcquireKeepsLine DEF HF_NB_Send
<1>6. UNCHANGED <<queueVars, niVars, recvVars>>
  BY DEF HF_NB_Send
<1>7. TypeOK'
  BY <1>4, <1>5, <1>6 DEF TypeInv, RingInv, TypeOK, queueVars, niVars, recvVars
<1>8. PacketsLeft'
  <2>1. m.size \in Sizes /\ Feasible(m.size)
    BY DEF Messages, HF_NB_Send
  <2>2. PacketCount(m.size) \in 1 .. HF_PACKET_SLOTS
    BY <2>1, FeasibleFits
  <2> SUFFICES ASSUME NEW u \in Tasks, sending'[u] # NotSending
               PROVE  /\ sending'[u].packet <= PacketCount(sending'[u].message.size)
                      /\ PacketCount(sending'[u].message.size) \in 1 .. HF_PACKET_SLOTS
    BY DEF PacketsLeft
  <2>3. CASE u = t
    <3>1. sending'[u] = s
      BY <1>2, <2>3 DEF TypeInv, RingInv, TypeOK
    <3>2. 1 <= PacketCount(m.size)
      BY <2>2
    <3> QED BY <3>1, <3>2, <2>2, <1>3
  <2>4. CASE u # t
    <3>1. sending'[u] = sending[u]
      BY <1>2, <2>4 DEF TypeInv, RingInv, TypeOK
    <3> QED BY <3>1 DEF TypeInv, PacketsLeft
  <2> QED BY <2>3, <2>4
<1> QED BY <1>5, <1>6, <1>7, <1>8, RingUnchanged DEF TypeInv, RingInv

\* A step that leaves the calls of the senders alone, and keeps the rest typed.
LEMMA SendersUnchanged ==
    ASSUME TypeInv, RingInv', UNCHANGED sendVars
    PROVE  TypeInv'
BY DEF TypeInv, PacketsLeft, InLine, sendVars

LEMMA ReadyTypes ==
    ASSUME TypeInv, NEW t \in Tasks, InterfaceReady(t)
    PROVE  TypeInv'
<1>1. sending[t] \in Sends
  BY DEF InterfaceReady, Holds, TypeInv, RingInv, TypeOK
<1> DEFINE s == At(t, sending[t].packet, TRUE)
<1>2. s \in Sends /\ s.packet = sending[t].packet /\ s.message = sending[t].message
  BY <1>1 DEF Sends, At
<1>3. sending' = [sending EXCEPT ![t] = s]
  BY DEF InterfaceReady
<1>4. sending[t] # NotSending
  BY DEF InterfaceReady, Holds
<1> HIDE DEF s
<1>5. sending' \in [Tasks -> {NotSending} \cup Sends] /\ InLine'
  <2>1. sending' \in [Tasks -> {NotSending} \cup Sends]
    BY <1>2, <1>3 DEF TypeInv, RingInv, TypeOK
  <2>2. InLine'
    BY <1>3, <1>4, InsideKeepsLine DEF InterfaceReady
  <2> QED BY <2>1, <2>2
<1>6. UNCHANGED <<queueVars, niVars, pktdrv_mutex, recvVars>>
  BY DEF InterfaceReady
<1>7. TypeOK'
  BY <1>5, <1>6 DEF TypeInv, RingInv, TypeOK, queueVars, niVars, recvVars
<1>8. PacketsLeft'
  BY <1>2, <1>3, <1>4 DEF TypeInv, RingInv, TypeOK, PacketsLeft
<1> QED BY <1>5, <1>6, <1>7, <1>8, RingUnchanged DEF TypeInv, RingInv

LEMMA WriteTypes ==
    ASSUME TypeInv, NEW t \in Tasks, WritePacket(t)
    PROVE  TypeInv'
<1>1. sending[t] \in Sends /\ sending[t] # NotSending
  BY DEF WritePacket, Holds, TypeInv, RingInv, TypeOK
<1>2. Outgoing(t) \in Packets
  BY <1>1 DEF Outgoing, Packets, Sends
<1>3. ni_out' \in [Cores -> Packets \cup {NoPacket}]
  BY <1>2 DEF WritePacket, TypeInv, RingInv, TypeOK
<1>4. pktdrv_mutex' \in [Cores -> Seq(Tasks)] /\ InLine'
  <2>1. CASE LastPacket(t)
    BY <2>1, ReleaseKeepsLine DEF WritePacket
  <2>2. CASE ~LastPacket(t)
    BY <2>2, <1>1, InsideKeepsLine DEF WritePacket
  <2> QED BY <2>1, <2>2
<1>5. UNCHANGED <<queueVars, ni_in, jammed, recvVars>>
  BY DEF WritePacket
<1>6. sending' \in [Tasks -> {NotSending} \cup Sends] /\ PacketsLeft'
  <2>1. CASE LastPacket(t)
    <3>1. sending' = [sending EXCEPT ![t] = NotSending]
      BY <2>1 DEF WritePacket
    <3> QED BY <3>1 DEF TypeInv, RingInv, TypeOK, PacketsLeft
  <2>2. CASE ~LastPacket(t)
    <3> DEFINE k == sending[t].packet
               s == At(t, k + 1, FALSE)
               pieces == PacketCount(sending[t].message.size)
    <3>1. k \in 1 .. HF_PACKET_SLOTS /\ pieces \in 1 .. HF_PACKET_SLOTS /\ k < pieces
      BY <1>1, <2>2 DEF LastPacket, Sends, TypeInv, PacketsLeft
    <3>2. k + 1 \in 1 .. HF_PACKET_SLOTS /\ k + 1 <= pieces
      BY <3>1
    <3>3. s \in Sends /\ s.packet = k + 1 /\ s.message = sending[t].message
      BY <1>1, <3>2 DEF Sends, At
    <3>4. sending' = [sending EXCEPT ![t] = s]
      BY <2>2 DEF WritePacket
    <3> HIDE DEF s
    <3>5. sending' \in [Tasks -> {NotSending} \cup Sends]
      BY <3>3, <3>4 DEF TypeInv, RingInv, TypeOK
    <3>6. PacketsLeft'
      BY <1>1, <3>1, <3>2, <3>3, <3>4 DEF TypeInv, RingInv, TypeOK, PacketsLeft
    <3> QED BY <3>5, <3>6
  <2> QED BY <2>1, <2>2
<1>7. TypeOK'
  BY <1>3, <1>4, <1>5, <1>6 DEF TypeInv, RingInv, TypeOK, queueVars, recvVars
<1> QED BY <1>4, <1>5, <1>6, <1>7, RingUnchanged DEF TypeInv, RingInv

LEMMA SendTimeoutTypes ==
    ASSUME TypeInv, NEW t \in Tasks, SendTimeout(t)
    PROVE  TypeInv'
<1>1. sending' = [sending EXCEPT ![t] = NotSending]
  BY DEF SendTimeout
<1>2. sending' \in [Tasks -> {NotSending} \cup Sends] /\ PacketsLeft'
  BY <1>1 DEF TypeInv, RingInv, TypeOK, PacketsLeft
<1>3. pktdrv_mutex' \in [Cores -> Seq(Tasks)] /\ InLine'
  BY <1>1, ReleaseKeepsLine DEF SendTimeout
<1>4. UNCHANGED <<queueVars, niVars, recvVars>>
  BY DEF SendTimeout
<1>5. TypeOK'
  BY <1>2, <1>3, <1>4 DEF TypeInv, RingInv, TypeOK, queueVars, niVars, recvVars
<1> QED BY <1>2, <1>3, <1>4, <1>5, RingUnchanged DEF TypeInv, RingInv

LEMMA TransferTypes ==
    ASSUME TypeInv, NEW c \in Cores, Transfer(c)
    PROVE  TypeInv'
<1>1. ni_out[c] \in Packets
  BY DEF Transfer, TypeInv, RingInv, TypeOK
<1>2. /\ ni_in' \in [Cores -> Packets \cup {NoPacket}]
      /\ ni_out' \in [Cores -> Packets \cup {NoPacket}]
  BY <1>1 DEF Transfer, TypeInv, RingInv, TypeOK
<1>3. UNCHANGED <<queueVars, jammed, sendVars, recvVars>>
  BY DEF Transfer
<1>4. TypeOK'
  BY <1>2, <1>3 DEF TypeInv, RingInv, TypeOK, queueVars, sendVars, recvVars
<1> QED BY <1>3, <1>4, RingUnchanged, SendersUnchanged DEF TypeInv, RingInv

LEMMA ISRTypes ==
    ASSUME TypeInv, NEW c \in Cores, RecvCommServiceISR(c)
    PROVE  TypeInv'
<1> DEFINE packet == ni_in[c]
<1>1. packet \in Packets
  BY DEF RecvCommServiceISR, TypeInv, RingInv, TypeOK
<1>2. Drained(packet) \in BOOLEAN
  BY DEF Drained
<1>3. ni_in' \in [Cores -> Packets \cup {NoPacket}]
  BY DEF RecvCommServiceISR, TypeInv, RingInv, TypeOK
<1>4. jammed' \in [Cores -> BOOLEAN]
  <2>1. jammed' = [jammed EXCEPT ![c] = ~Drained(packet)]
    BY DEF RecvCommServiceISR
  <2>2. jammed \in [Cores -> BOOLEAN]
    BY DEF TypeInv, RingInv, TypeOK
  <2> QED BY <2>1, <2>2, Zenon
<1>5. UNCHANGED <<ni_out, sendVars, recvVars>>
  BY DEF RecvCommServiceISR
<1>6. /\ packet_in' \in [Tasks -> [Slot -> Packets \cup {NoPacket}]]
      /\ start' \in [Tasks -> Slot]
      /\ end' \in [Tasks -> Slot]
      /\ in_packet' \in [Tasks -> 0 .. HF_PACKET_SLOTS]
      /\ RingSpan'
      /\ SlotsUsed'
  <2>1. CASE packet.to \in Tasks /\ HasRoom(packet.to)
    <3>1. Store(packet.to, packet)
      BY <2>1 DEF RecvCommServiceISR
    <3> QED BY <2>1, <3>1, <1>1, StoreKeepsRing DEF TypeInv
  <2>2. CASE ~(packet.to \in Tasks /\ HasRoom(packet.to))
    <3>1. UNCHANGED queueVars
      BY <2>2 DEF RecvCommServiceISR
    <3> QED BY <3>1, RingUnchanged DEF TypeInv, RingInv, TypeOK, queueVars
  <2> QED BY <2>1, <2>2
<1>7. /\ ni_out' \in [Cores -> Packets \cup {NoPacket}]
      /\ pktdrv_mutex' \in [Cores -> Seq(Tasks)]
      /\ sending' \in [Tasks -> {NotSending} \cup Sends]
      /\ receiving' \in [Tasks -> {"no", "untimed", "timed"}]
      /\ buf' \in [Tasks -> Seq(Packets)]
      /\ returned' \in [Tasks -> {NotReturned, HF_OK, HF_SEQ_ERROR, HF_COMM_TIMEOUT}]
  BY <1>5 DEF TypeInv, RingInv, TypeOK, sendVars, recvVars
<1>8. TypeOK'
  BY <1>3, <1>4, <1>6, <1>7, Zenon DEF TypeOK
<1> QED BY <1>5, <1>6, <1>8, SendersUnchanged DEF RingInv

LEMMA ReceiveTypes ==
    ASSUME TypeInv, NEW t \in Tasks, NEW timed \in BOOLEAN, HF_NB_Receive(t, timed)
    PROVE  TypeInv'
<1>1. /\ receiving' \in [Tasks -> {"no", "untimed", "timed"}]
      /\ returned' \in [Tasks -> {NotReturned, HF_OK, HF_SEQ_ERROR, HF_COMM_TIMEOUT}]
  BY DEF HF_NB_Receive, TypeInv, RingInv, TypeOK
<1>2. buf' \in [Tasks -> Seq(Packets)]
  <2>1. << >> \in Seq(Packets)
    OBVIOUS
  <2> QED BY <2>1 DEF HF_NB_Receive, TypeInv, RingInv, TypeOK
<1>3. UNCHANGED <<queueVars, niVars, sendVars>>
  BY DEF HF_NB_Receive
<1>4. TypeOK'
  BY <1>1, <1>2, <1>3 DEF TypeInv, RingInv, TypeOK, queueVars, niVars, sendVars
<1> QED BY <1>3, <1>4, RingUnchanged, SendersUnchanged DEF TypeInv, RingInv

LEMMA TakeTypes ==
    ASSUME TypeInv, NEW t \in Tasks, TakePacket(t)
    PROVE  TypeInv'
<1> DEFINE packets == Append(buf[t], packet_in[t][start[t]])
<1>1. /\ start' \in [Tasks -> Slot]
      /\ in_packet' \in [Tasks -> 0 .. HF_PACKET_SLOTS]
      /\ packet_in[t][start[t]] \in Packets
      /\ RingSpan'
      /\ SlotsUsed'
  BY TakeKeepsRing DEF TypeInv
<1>2. packets \in Seq(Packets)
  BY <1>1 DEF TypeInv, RingInv, TypeOK
<1>3. buf' = [buf EXCEPT ![t] = packets]
  BY DEF TakePacket
<1> HIDE DEF packets
<1>4. buf' \in [Tasks -> Seq(Packets)]
  BY <1>2, <1>3 DEF TypeInv, RingInv, TypeOK
<1>5. /\ receiving' \in [Tasks -> {"no", "untimed", "timed"}]
      /\ returned' \in [Tasks -> {NotReturned, HF_OK, HF_SEQ_ERROR, HF_COMM_TIMEOUT}]
  <2>1. CASE Complete(packets)
    <3>1. receiving' = [receiving EXCEPT ![t] = "no"]
      BY <2>1 DEF TakePacket, packets
    <3>2. \E r \in {HF_SEQ_ERROR, HF_OK} : returned' = [returned EXCEPT ![t] = r]
      BY <2>1 DEF TakePacket, packets
    <3> QED BY <3>1, <3>2 DEF TypeInv, RingInv, TypeOK
  <2>2. CASE ~Complete(packets)
    BY <2>2 DEF TakePacket, packets, TypeInv, RingInv, TypeOK
  <2> QED BY <2>1, <2>2
<1>6. UNCHANGED <<packet_in, end, niVars, sendVars>>
  BY DEF TakePacket
<1>7. TypeOK'
  BY <1>1, <1>4, <1>5, <1>6 DEF TypeInv, RingInv, TypeOK, niVars, sendVars
<1> QED BY <1>1, <1>6, <1>7, SendersUnchanged DEF RingInv

LEMMA ReceiveTimeoutTypes ==
    ASSUME TypeInv, NEW t \in Tasks, ReceiveTimeout(t)
    PROVE  TypeInv'
<1>1. /\ receiving' \in [Tasks -> {"no", "untimed", "timed"}]
      /\ returned' \in [Tasks -> {NotReturned, HF_OK, HF_SEQ_ERROR, HF_COMM_TIMEOUT}]
  BY DEF ReceiveTimeout, TypeInv, RingInv, TypeOK
<1>2. UNCHANGED <<queueVars, niVars, sendVars, buf>>
  BY DEF ReceiveTimeout
<1>3. TypeOK'
  BY <1>1, <1>2 DEF TypeInv, RingInv, TypeOK, queueVars, niVars, sendVars
<1> QED BY <1>2, <1>3, RingUnchanged, SendersUnchanged DEF TypeInv, RingInv

LEMMA InitTypes == DriverInit => TypeInv
BY RingInit DEF TypeInv, DriverInit, PacketsLeft, InLine

LEMMA NextTypes == TypeInv /\ [Next]_driverVars => TypeInv'
<1> SUFFICES ASSUME TypeInv, [Next]_driverVars PROVE TypeInv'
  OBVIOUS
<1>1. ASSUME NEW c \in Cores, Transfer(c) PROVE TypeInv'
  BY <1>1, TransferTypes
<1>2. ASSUME NEW c \in Cores, RecvCommServiceISR(c) PROVE TypeInv'
  BY <1>2, ISRTypes
<1>3. ASSUME NEW t \in Tasks, DriverStep(t) PROVE TypeInv'
  BY <1>3, ReadyTypes, WriteTypes, TakeTypes DEF DriverStep
<1>4. ASSUME NEW t \in Tasks, Timeout(t) PROVE TypeInv'
  BY <1>4, SendTimeoutTypes, ReceiveTimeoutTypes DEF Timeout
<1>5. ASSUME NEW t \in Receivers, NEW timed \in BOOLEAN, HF_NB_Receive(t, timed)
      PROVE  TypeInv'
  BY <1>5, ReceiveTypes DEF Receivers
<1>6. ASSUME NEW m \in Messages, NEW to \in Tasks \cup {NoTask}, NEW timed \in BOOLEAN,
             HF_NB_Send(m.from, to, m, timed)
      PROVE  TypeInv'
  <2>1. m.from \in Tasks
    BY DEF Messages
  <2> QED BY <2>1, <1>6, SendTypes
<1>7. CASE UNCHANGED driverVars
  <2>1. UNCHANGED <<queueVars, niVars, sendVars, recvVars>>
    BY <1>7 DEF driverVars
  <2>2. TypeOK'
    BY <2>1 DEF TypeInv, RingInv, TypeOK, queueVars, niVars, sendVars, recvVars
  <2> QED BY <2>1, <2>2, RingUnchanged, SendersUnchanged DEF TypeInv, RingInv
<1> QED BY <1>1, <1>2, <1>3, <1>4, <1>5, <1>6, <1>7 DEF Next, Interrupts

LEMMA TypeInvariant == Spec => []TypeInv
BY InitTypes, NextTypes, PTL DEF Spec

\* Every reachable state of the driver is type correct: no packet number exceeds
\* the message, no index leaves its ring, no empty slot is copied to a task.
THEOREM DriverTypeCorrect == Spec => []TypeOK
<1>1. TypeInv => TypeOK
  BY DEF TypeInv, RingInv
<1> QED BY <1>1, TypeInvariant, PTL

\* The start, the end and the number of packets of a software queue agree, whatever
\* the interrupt, the task and the network do between two of them.
THEOREM RingSpanAlways == Spec => []RingSpan
<1>1. TypeInv => RingSpan
  BY DEF TypeInv, RingInv
<1> QED BY <1>1, TypeInvariant, PTL

-----------------------------------------------------------------------------
(* The interface a sender has seen empty *)

\* Whoever saw it empty is first in line, so nobody else can fill it.
ReadyInv == ReadyIsFirst /\ InterfaceFree

\* Two senders of one core have not both seen it empty.
LEMMA OneReady ==
    ASSUME ReadyInv, NEW t \in Tasks, NEW u \in Tasks, Home[u] = Home[t], Holds(t),
           sending[u] # NotSending, sending[u].ready
    PROVE  u = t
BY DEF ReadyInv, ReadyIsFirst, Holds

LEMMA ReadySame ==
    ASSUME ReadyInv, UNCHANGED sendVars,
           \A c \in Cores : ni_out'[c] = ni_out[c] \/ ni_out'[c] = NoPacket
    PROVE  ReadyInv'
BY HomeType DEF ReadyInv, ReadyIsFirst, InterfaceFree, sendVars

LEMMA ReadyNext == TypeInv /\ ReadyInv /\ [Next]_driverVars => ReadyInv'
<1> SUFFICES ASSUME TypeInv, ReadyInv, [Next]_driverVars PROVE ReadyInv'
  OBVIOUS
<1> DEFINE Kept == ReadyIsFirst' /\ InterfaceFree'
<1>0. /\ sending \in [Tasks -> {NotSending} \cup Sends]
      /\ pktdrv_mutex \in [Cores -> Seq(Tasks)]
      /\ ni_out \in [Cores -> Packets \cup {NoPacket}]
  BY DEF TypeInv, RingInv, TypeOK
<1>1. ASSUME NEW c \in Cores, Transfer(c) PROVE Kept
  BY <1>0, <1>1, ReadySame DEF Transfer, ReadyInv
<1>2. ASSUME NEW c \in Cores, RecvCommServiceISR(c) PROVE Kept
  BY <1>2, ReadySame DEF RecvCommServiceISR, ReadyInv
<1>3. ASSUME NEW t \in Tasks, InterfaceReady(t) PROVE Kept
  <2>1. sending' = [sending EXCEPT ![t] = At(t, sending[t].packet, TRUE)]
    BY <1>3 DEF InterfaceReady
  <2>2. /\ UNCHANGED <<pktdrv_mutex, ni_out>>
        /\ Head(pktdrv_mutex[Home[t]]) = t
        /\ ni_out[Home[t]] = NoPacket
    BY <1>3 DEF InterfaceReady, niVars, Holds
  <2> SUFFICES ASSUME NEW u \in Tasks, sending'[u] # NotSending, sending'[u].ready
               PROVE  /\ Head(pktdrv_mutex[Home[u]]) = u
                      /\ ni_out[Home[u]] = NoPacket
    BY <2>2 DEF ReadyIsFirst, InterfaceFree
  <2>3. CASE u = t
    BY <2>2, <2>3
  <2>4. CASE u # t
    <3>1. sending'[u] = sending[u]
      BY <1>0, <2>1, <2>4
    <3> QED BY <3>1 DEF ReadyInv, ReadyIsFirst, InterfaceFree
  <2> QED BY <2>3, <2>4
<1>4. ASSUME NEW t \in Tasks, WritePacket(t) PROVE Kept
  <2>1. Holds(t) /\ sending[t] # NotSending
    BY <1>4 DEF WritePacket, Holds
  <2>2. \A c \in Cores \ {Home[t]} : ni_out'[c] = ni_out[c]
    BY <1>0, <1>4 DEF WritePacket
  <2>3. \A c \in Cores \ {Home[t]} : pktdrv_mutex'[c] = pktdrv_mutex[c]
    BY <1>0, <1>4 DEF WritePacket, Release
  <2>4. \E s : sending' = [sending EXCEPT ![t] = s]
               /\ (s = NotSending \/ s = At(t, sending[t].packet + 1, FALSE))
    BY <1>4, Zenon DEF WritePacket
  <2> SUFFICES ASSUME NEW u \in Tasks, sending'[u] # NotSending, sending'[u].ready
               PROVE  /\ Head(pktdrv_mutex'[Home[u]]) = u
                      /\ ni_out'[Home[u]] = NoPacket
    BY DEF ReadyIsFirst, InterfaceFree
  <2>5. u # t
    BY <1>0, <2>4 DEF At
  <2>6. sending'[u] = sending[u]
    BY <1>0, <2>4, <2>5
  <2>7. Home[u] # Home[t]
    BY <2>1, <2>5, <2>6, OneReady
  <2> QED BY <2>2, <2>3, <2>6, <2>7, HomeType DEF ReadyInv, ReadyIsFirst, InterfaceFree
<1>5. ASSUME NEW t \in Tasks, SendTimeout(t) PROVE Kept
  <2>1. Holds(t) /\ sending' = [sending EXCEPT ![t] = NotSending] /\ ni_out' = ni_out
    BY <1>5 DEF SendTimeout, niVars
  <2>2. \A c \in Cores \ {Home[t]} : pktdrv_mutex'[c] = pktdrv_mutex[c]
    BY <1>0, <1>5 DEF SendTimeout, Release
  <2> SUFFICES ASSUME NEW u \in Tasks, sending'[u] # NotSending, sending'[u].ready
               PROVE  /\ Head(pktdrv_mutex'[Home[u]]) = u
                      /\ ni_out[Home[u]] = NoPacket
    BY <2>1 DEF ReadyIsFirst, InterfaceFree
  <2>3. u # t /\ sending'[u] = sending[u]
    BY <1>0, <2>1
  <2>4. Home[u] # Home[t]
    BY <2>1, <2>3, OneReady
  <2> QED BY <2>2, <2>3, <2>4, HomeType DEF ReadyInv, ReadyIsFirst, InterfaceFree
<1>6. ASSUME NEW t \in Tasks, TakePacket(t) \/ ReceiveTimeout(t) PROVE Kept
  BY <1>6, ReadySame DEF TakePacket, ReceiveTimeout, niVars, ReadyInv
<1>7. ASSUME NEW t \in Receivers, NEW timed \in BOOLEAN, HF_NB_Receive(t, timed) PROVE Kept
  BY <1>7, ReadySame DEF HF_NB_Receive, niVars, ReadyInv
<1>8. ASSUME NEW m \in Messages, NEW to \in Tasks \cup {NoTask}, NEW timed \in BOOLEAN,
             HF_NB_Send(m.from, to, m, timed)
      PROVE  Kept
  <2> DEFINE t == m.from
             line == pktdrv_mutex[Home[t]]
  <2>1. t \in Tasks
    BY DEF Messages
  <2>2. /\ sending' = [sending EXCEPT ![t] = [to |-> to, message |-> m, packet |-> 1,
                                              timed |-> timed, ready |-> FALSE]]
        /\ pktdrv_mutex' = [pktdrv_mutex EXCEPT ![Home[t]] = Append(line, t)]
        /\ ni_out' = ni_out
    BY <1>8 DEF HF_NB_Send, Acquire, niVars
  <2> HIDE DEF t
  <2> SUFFICES ASSUME NEW u \in Tasks, sending'[u] # NotSending, sending'[u].ready
               PROVE  /\ Head(pktdrv_mutex'[Home[u]]) = u
                      /\ ni_out[Home[u]] = NoPacket
    BY <2>2 DEF ReadyIsFirst, InterfaceFree
  <2>3. u # t
    BY <1>0, <2>1, <2>2
  <2>4. sending'[u] = sending[u]
    BY <1>0, <2>2, <2>3
  <2>5. /\ Head(pktdrv_mutex[Home[u]]) = u
        /\ ni_out[Home[u]] = NoPacket
        /\ pktdrv_mutex[Home[u]] # << >>
    BY <2>4, HomeType, <1>0 DEF ReadyInv, ReadyIsFirst, InterfaceFree, TypeInv, InLine
  <2>6. Head(pktdrv_mutex'[Home[u]]) = Head(pktdrv_mutex[Home[u]])
    <3>1. CASE Home[u] = Home[t]
      <4>1. line \in Seq(Tasks) /\ line # << >>
        BY <3>1, <2>5, <1>0, <2>1, HomeType
      <4>2. Head(Append(line, t)) = Head(line)
        BY <4>1
      <4> QED BY <4>2, <3>1, <2>2, <1>0, HomeType
    <3>2. CASE Home[u] # Home[t]
      BY <3>2, <2>2, <1>0, HomeType
    <3> QED BY <3>1, <3>2
  <2> QED BY <2>5, <2>6
<1>9. CASE UNCHANGED driverVars
  BY <1>9, ReadySame DEF driverVars, niVars, ReadyInv
<1> QED
  BY <1>1, <1>2, <1>3, <1>4, <1>5, <1>6, <1>7, <1>8, <1>9
  DEF ReadyInv, Next, Interrupts, DriverStep, Timeout

\* The status of an interface is read with interrupts on and used with them off:
\* the outgoing queue is still empty then, because nobody else of the core gets
\* past the semaphore and the network only empties it.
THEOREM InterfaceFreeAlways == Spec => []InterfaceFree
<1>1. DriverInit => ReadyInv
  BY DEF DriverInit, ReadyInv, ReadyIsFirst, InterfaceFree
<1>2. ReadyInv => InterfaceFree
  BY DEF ReadyInv
<1> QED BY <1>1, <1>2, ReadyNext, TypeInvariant, PTL DEF Spec
-----------------------------------------------------------------------------

(***************************************************************************)
(* What the packets for a task look like while PairNext runs.  The stream  *)
(* of a task is what its receive call has copied, followed by its path.    *)
(***************************************************************************)

PCount(p) == PacketCount(p.message.size)

\* q may come after p: it continues the message of p, or begins another.
Follows(p, q) == IF p.seq < PCount(p) THEN q.message = p.message /\ q.seq = p.seq + 1 ELSE q.seq = 1

\* Whole messages, one after the other.
Chain(s) ==
    /\ s # << >> => s[1].seq = 1 /\ s[Len(s)].seq = PCount(s[Len(s)])
    /\ \A k \in 1 .. Len(s) - 1 : Follows(s[k], s[k + 1])

\* By the receive call in progress.
CopiedSoFar(t) == IF receiving[t] = "no" THEN << >> ELSE buf[t]
Remaining(t) == LET S == {u \in Tasks : sending[u].to = t}
                IN  IF S = {} THEN << >> ELSE Unsent(CHOOSE u \in S : TRUE)
Stream(t) == CopiedSoFar(t) \o Path(t)

SendingTo(u, t) == sending[u] # NotSending /\ sending[u].to = t
CarriesTo(packet, t) == packet # NoPacket /\ packet.to = t

\* Everything under way to t comes from f, through one interface on each side.
Single(t, f) ==
    /\ \A k \in 1 .. in_packet[t] : Queue(t)[k].message.from = f
    /\ \A c \in Cores : CarriesTo(ni_in[c], t) => c = Home[t] /\ ni_in[c].message.from = f
    /\ \A c \in Cores : CarriesTo(ni_out[c], t) => c = Home[f] /\ ni_out[c].message.from = f
    /\ \A u \in Tasks : SendingTo(u, t) => u = f

OneSender == \A t \in Tasks : \E f \in Tasks : Single(t, f)

\* Nothing is sent to a task that does not exist, or in another's name.
Real ==
    /\ \A c \in Cores : ni_in[c] # NoPacket => ni_in[c].to \in Tasks
    /\ \A c \in Cores : ni_out[c] # NoPacket => ni_out[c].to \in Tasks
    /\ \A u \in Tasks : sending[u] # NotSending => sending[u].to \in Tasks /\ sending[u].message.from = u

Chained == \A t \in Tasks : Chain(Stream(t)) /\ Len(Path(t)) <= HF_PACKET_SLOTS

\* The beginning of a message, not all of it.
Partial(s) ==
    /\ s # << >> => Len(s) < PCount(s[1])
    /\ \A k \in 1 .. Len(s) : s[k].seq = k /\ s[k].message = s[1].message

Receiving == \A t \in Tasks : receiving[t] # "no" => returned[t] = NotReturned /\ Partial(buf[t])

\* The inductive invariant.  Chained is what makes Reconstructed last: a call
\* takes packets until it has as many as its first one says, so the stream must
\* begin with a message; HasRoom follows from the length of the path, so that
\* the interrupt drops nothing out of a chain.
PairInv == TypeInv /\ ReadyInv /\ OneSender /\ Real /\ Chained /\ Receiving /\ Reconstructed
-----------------------------------------------------------------------------
(* Sequences *)

LEMMA Joined ==
    ASSUME NEW S, NEW q \in Seq(S), NEW i \in Seq(S), NEW o \in Seq(S), NEW u \in Seq(S),
           NEW w, w = q \o i \o o \o u
    PROVE  /\ w \in Seq(S)
           /\ Len(w) = Len(q) + Len(i) + Len(o) + Len(u)
           /\ \A k \in 1 .. Len(q) : w[k] = q[k]
           /\ \A k \in 1 .. Len(i) : w[Len(q) + k] = i[k]
           /\ \A k \in 1 .. Len(o) : w[Len(q) + Len(i) + k] = o[k]
           /\ \A k \in 1 .. Len(u) : w[Len(q) + Len(i) + Len(o) + k] = u[k]
<1>1. q \o i \in Seq(S) /\ Len(q \o i) = Len(q) + Len(i) /\ q \o i \o o \in Seq(S)
      /\ Len(q \o i \o o) = Len(q) + Len(i) + Len(o) /\ q \o i \o o \o u \in Seq(S)
      /\ Len(q \o i \o o \o u) = Len(q) + Len(i) + Len(o) + Len(u)
  BY ConcatProperties
<1>2. Len(q) \in Nat /\ Len(i) \in Nat /\ Len(o) \in Nat /\ Len(u) \in Nat
  OBVIOUS
<1>3. \A k \in 1 .. Len(q) + Len(i) : (q \o i)[k] = IF k <= Len(q) THEN q[k] ELSE i[k - Len(q)]
  BY ConcatProperties
<1>4. \A k \in 1 .. Len(q) + Len(i) + Len(o) : (q \o i \o o)[k] =
          IF k <= Len(q) + Len(i) THEN (q \o i)[k] ELSE o[k - (Len(q) + Len(i))]
  <2> DEFINE a == q \o i
  <2>1. a \in Seq(S) /\ Len(a) = Len(q) + Len(i)
    BY <1>1
  <2> HIDE DEF a
  <2>2. \A k \in 1 .. Len(a) + Len(o) : (a \o o)[k] = IF k <= Len(a) THEN a[k] ELSE o[k - Len(a)]
    BY <2>1, ConcatProperties
  <2> QED BY <2>1, <2>2 DEF a
<1>5. \A k \in 1 .. Len(q) + Len(i) + Len(o) + Len(u) : (q \o i \o o \o u)[k] =
          IF k <= Len(q) + Len(i) + Len(o) THEN (q \o i \o o)[k] ELSE u[k - (Len(q) + Len(i) + Len(o))]
  <2> DEFINE a == q \o i \o o
  <2>1. a \in Seq(S) /\ Len(a) = Len(q) + Len(i) + Len(o)
    BY <1>1
  <2> HIDE DEF a
  <2>2. \A k \in 1 .. Len(a) + Len(u) : (a \o u)[k] = IF k <= Len(a) THEN a[k] ELSE u[k - Len(a)]
    BY <2>1, ConcatProperties
  <2> QED BY <2>1, <2>2 DEF a
<1>6. ASSUME NEW k \in 1 .. Len(q) PROVE w[k] = q[k]
  BY <1>2, <1>3, <1>4, <1>5
<1>7. ASSUME NEW k \in 1 .. Len(i) PROVE w[Len(q) + k] = i[k]
  <2> DEFINE m == Len(q) + k
  <2>1. m \in 1 .. Len(q) + Len(i) /\ ~(m <= Len(q)) /\ m - Len(q) = k
    BY <1>2
  <2>2. m \in 1 .. Len(q) + Len(i) + Len(o) /\ m \in 1 .. Len(q) + Len(i) + Len(o) + Len(u)
        /\ m <= Len(q) + Len(i) /\ m <= Len(q) + Len(i) + Len(o)
    BY <1>2
  <2> HIDE DEF m
  <2> QED BY <2>1, <2>2, <1>3, <1>4, <1>5 DEF m
<1>8. ASSUME NEW k \in 1 .. Len(o) PROVE w[Len(q) + Len(i) + k] = o[k]
  <2> DEFINE m == Len(q) + Len(i) + k
  <2>1. /\ m \in 1 .. Len(q) + Len(i) + Len(o) /\ m \in 1 .. Len(q) + Len(i) + Len(o) + Len(u)
        /\ ~(m <= Len(q) + Len(i)) /\ m <= Len(q) + Len(i) + Len(o) /\ m - (Len(q) + Len(i)) = k
    BY <1>2
  <2> HIDE DEF m
  <2> QED BY <2>1, <1>4, <1>5 DEF m
<1>9. ASSUME NEW k \in 1 .. Len(u) PROVE w[Len(q) + Len(i) + Len(o) + k] = u[k]
  <2> DEFINE m == Len(q) + Len(i) + Len(o) + k
  <2>1. /\ m \in 1 .. Len(q) + Len(i) + Len(o) + Len(u)
        /\ ~(m <= Len(q) + Len(i) + Len(o)) /\ m - (Len(q) + Len(i) + Len(o)) = k
    BY <1>2
  <2> HIDE DEF m
  <2> QED BY <2>1, <1>5 DEF m
<1> QED BY <1>1, <1>6, <1>7, <1>8, <1>9

LEMMA Counted ==
    ASSUME NEW S
    PROVE  \A q, o, u \in Seq(S), x \in S :
              Len(q \o <<x>> \o o \o u) = Len(q) + 1 + Len(o) + Len(u)
<1>1. \A q, i, o, u \in Seq(S) : Len(q \o i \o o \o u) = Len(q) + Len(i) + Len(o) + Len(u)
  BY Joined
<1>2. ASSUME NEW x \in S
      PROVE  \A q, o, u \in Seq(S) : Len(q \o <<x>> \o o \o u) = Len(q) + 1 + Len(o) + Len(u)
  <2>1. <<x>> \in Seq(S) /\ Len(<<x>>) = 1
    OBVIOUS
  <2> QED BY <2>1, <1>1
<1> QED BY <1>2

LEMMA MovesIn ==
    ASSUME NEW S
    PROVE  \A q, o, u \in Seq(S), x \in S :
              q \o <<x>> \o o \o u = Append(q, x) \o << >> \o o \o u
<1> SUFFICES ASSUME NEW q \in Seq(S), NEW o \in Seq(S), NEW u \in Seq(S), NEW x \in S
             PROVE  q \o <<x>> \o o \o u = Append(q, x) \o << >> \o o \o u
  OBVIOUS
<1>1. Append(q, x) = q \o <<x>> /\ Append(q, x) \in Seq(S)
  BY AppendIsConcat, AppendProperties
<1>2. Append(q, x) \o << >> = Append(q, x)
  BY <1>1, ConcatEmptySeq
<1> QED BY <1>1, <1>2

LEMMA MovesOut ==
    ASSUME NEW S
    PROVE  \A q, i, u \in Seq(S), x \in S :
              q \o i \o << >> \o (<<x>> \o u) = q \o i \o <<x>> \o u
<1> SUFFICES ASSUME NEW q \in Seq(S), NEW i \in Seq(S), NEW u \in Seq(S), NEW x \in S
             PROVE  q \o i \o << >> \o (<<x>> \o u) = q \o i \o <<x>> \o u
  OBVIOUS
<1>1. q \o i \in Seq(S) /\ <<x>> \in Seq(S)
  BY ConcatProperties
<1>2. (q \o i) \o << >> = q \o i
  BY <1>1, ConcatEmptySeq
<1>3. (q \o i) \o (<<x>> \o u) = q \o i \o <<x>> \o u
  BY <1>1, ConcatAssociative
<1> QED BY <1>2, <1>3

\* A message behind a chain makes a chain.
LEMMA ChainGrows ==
    ASSUME NEW s \in Seq(Packets), NEW u \in Seq(Packets), Chain(s), Chain(u)
    PROVE  Chain(s \o u)
<1> DEFINE w == s \o u
<1>1. /\ w \in Seq(Packets) /\ Len(w) = Len(s) + Len(u)
      /\ \A k \in 1 .. Len(s) + Len(u) : w[k] = IF k <= Len(s) THEN s[k] ELSE u[k - Len(s)]
      /\ Len(s) \in Nat /\ Len(u) \in Nat
  BY ConcatProperties
<1>2. (s = << >> <=> Len(s) = 0) /\ (u = << >> <=> Len(u) = 0) /\ (w = << >> <=> Len(w) = 0)
  BY <1>1
<1> HIDE DEF w
<1>3. w # << >> => w[1].seq = 1 /\ w[Len(w)].seq = PCount(w[Len(w)])
  <2> SUFFICES ASSUME w # << >> PROVE w[1].seq = 1 /\ w[Len(w)].seq = PCount(w[Len(w)])
    OBVIOUS
  <2>1. CASE Len(s) = 0
    <3>1. Len(w) = Len(u) /\ Len(u) # 0 /\ w[1] = u[1] /\ w[Len(w)] = u[Len(u)]
      BY <2>1, <1>1, <1>2
    <3> QED BY <3>1, <1>2 DEF Chain
  <2>2. CASE Len(s) # 0
    <3>1. w[1] = s[1] /\ w[Len(w)] = IF Len(u) = 0 THEN s[Len(s)] ELSE u[Len(u)]
      <4>1. 1 \in 1 .. Len(s) + Len(u) /\ 1 <= Len(s)
        BY <2>2, <1>1
      <4>2. CASE Len(u) = 0
        BY <4>1, <4>2, <2>2, <1>1
      <4>3. CASE Len(u) # 0
        <5>1. /\ Len(w) \in 1 .. Len(s) + Len(u) /\ ~(Len(w) <= Len(s))
              /\ Len(w) - Len(s) = Len(u)
          BY <4>3, <1>1
        <5> QED BY <4>1, <4>3, <5>1, <1>1
      <4> QED BY <4>2, <4>3
    <3> QED BY <2>2, <3>1, <1>2 DEF Chain
  <2> QED BY <2>1, <2>2
<1>4. ASSUME NEW k \in 1 .. Len(w) - 1
      PROVE  Follows(w[k], w[k + 1])
  <2>1. k \in Nat \ {0} /\ k + 1 \in 1 .. Len(s) + Len(u) /\ k \in 1 .. Len(s) + Len(u)
    BY <1>1
  <2>2. CASE k + 1 <= Len(s)
    <3>1. w[k] = s[k] /\ w[k + 1] = s[k + 1] /\ k \in 1 .. Len(s) - 1
      BY <2>1, <2>2, <1>1
    <3> QED BY <3>1 DEF Chain
  <2>3. CASE k = Len(s)
    <3>1. w[k] = s[Len(s)] /\ w[k + 1] = u[1] /\ s # << >> /\ u # << >>
      BY <2>1, <2>3, <1>1, <1>2
    <3>2. s[Len(s)] \in Packets
      BY <3>1
    <3>3. s[Len(s)].seq \in Nat
      BY <3>2 DEF Packets
    <3>4. s[Len(s)].seq = PCount(s[Len(s)]) /\ u[1].seq = 1
      BY <3>1 DEF Chain
    <3>5. ~(s[Len(s)].seq < PCount(s[Len(s)]))
      BY <3>3, <3>4
    <3> QED BY <3>1, <3>4, <3>5 DEF Follows
  <2>4. CASE k > Len(s)
    <3> DEFINE j == k - Len(s)
    <3>1. w[k] = u[j] /\ w[k + 1] = u[j + 1] /\ j \in 1 .. Len(u) - 1
      <4>1. k + 1 - Len(s) = j + 1 /\ ~(k <= Len(s)) /\ ~(k + 1 <= Len(s))
        BY <2>1, <2>4, <1>1
      <4>2. j \in 1 .. Len(u) - 1
        BY <2>1, <2>4, <1>1
      <4> QED BY <4>1, <4>2, <2>1, <1>1
    <3> HIDE DEF j
    <3> QED BY <3>1 DEF Chain
  <2> QED BY <2>1, <2>2, <2>3, <2>4, <1>1
<1> QED BY <1>3, <1>4 DEF Chain, w

\* What comes next continues the message or begins one, and behind a last packet
\* there is a chain.
LEMMA ChainNext ==
    ASSUME NEW b \in Seq(Packets), NEW x \in Packets, NEW p \in Seq(Packets), Chain(b \o (<<x>> \o p))
    PROVE  /\ b = << >> => x.seq = 1
           /\ b # << >> => Follows(b[Len(b)], x)
           /\ ~(x.seq < PCount(x)) => Chain(p)
<1> DEFINE w == b \o (<<x>> \o p)
           y == <<x>> \o p
<1>1. /\ <<x>> \in Seq(Packets) /\ Len(<<x>>) = 1 /\ <<x>>[1] = x
      /\ y \in Seq(Packets) /\ Len(y) = 1 + Len(p)
      /\ \A k \in 1 .. 1 + Len(p) : y[k] = IF k <= 1 THEN <<x>>[k] ELSE p[k - 1]
      /\ Len(b) \in Nat /\ Len(p) \in Nat
  BY ConcatProperties
<1>2. \A k \in 1 .. 1 + Len(p) : y[k] = IF k = 1 THEN x ELSE p[k - 1]
  BY <1>1
<1> HIDE DEF y
<1>3. /\ w \in Seq(Packets) /\ Len(w) = Len(b) + 1 + Len(p)
      /\ \A k \in 1 .. Len(b) + 1 + Len(p) : w[k] = IF k <= Len(b) THEN b[k] ELSE y[k - Len(b)]
  BY <1>1, ConcatProperties DEF y
<1>4. Chain(w)
  BY DEF w, y
<1> HIDE DEF w
<1>5. w # << >>
  BY <1>1, <1>3
<1>6. w[Len(b) + 1] = x
  <2>1. Len(b) + 1 \in 1 .. Len(b) + 1 + Len(p) /\ ~(Len(b) + 1 <= Len(b)) /\ Len(b) + 1 - Len(b) = 1
        /\ 1 \in 1 .. 1 + Len(p)
    BY <1>1
  <2> QED BY <2>1, <1>2, <1>3
<1>7. b = << >> => x.seq = 1
  <2>1. b = << >> => Len(b) + 1 = 1
    BY <1>1
  <2> QED BY <2>1, <1>4, <1>5, <1>6 DEF Chain
<1>8. b # << >> => Follows(b[Len(b)], x)
  <2> SUFFICES ASSUME b # << >> PROVE Follows(b[Len(b)], x)
    OBVIOUS
  <2>1. Len(b) # 0 /\ Len(b) \in 1 .. Len(w) - 1 /\ w[Len(b)] = b[Len(b)]
    BY <1>1, <1>3
  <2> QED BY <2>1, <1>4, <1>6 DEF Chain
<1>9. ASSUME NEW k \in 1 .. Len(p) PROVE w[Len(b) + 1 + k] = p[k]
  <2>1. /\ Len(b) + 1 + k \in 1 .. Len(b) + 1 + Len(p) /\ ~(Len(b) + 1 + k <= Len(b))
        /\ Len(b) + 1 + k - Len(b) = k + 1 /\ k + 1 \in 1 .. 1 + Len(p) /\ k + 1 # 1 /\ k + 1 - 1 = k
    BY <1>1
  <2>2. PICK l, m : l = Len(b) + 1 + k /\ m = k + 1
    OBVIOUS
  <2>3. l \in 1 .. Len(b) + 1 + Len(p) /\ ~(l <= Len(b)) /\ l - Len(b) = m
    BY <2>1, <2>2
  <2>4. w[l] = y[m]
    BY <2>3, <1>3
  <2>5. y[m] = p[k]
    BY <2>1, <2>2, <1>2
  <2> QED BY <2>2, <2>4, <2>5
<1>10. ASSUME ~(x.seq < PCount(x)) PROVE Chain(p)
  <2>1. p # << >> => p[1].seq = 1 /\ p[Len(p)].seq = PCount(p[Len(p)])
    <3> SUFFICES ASSUME p # << >> PROVE p[1].seq = 1 /\ p[Len(p)].seq = PCount(p[Len(p)])
      OBVIOUS
    <3>1. Len(p) # 0 /\ 1 \in 1 .. Len(p) /\ Len(p) \in 1 .. Len(p)
      BY <1>1
    <3>2. /\ w[Len(b) + 1 + 1] = p[1] /\ w[Len(w)] = p[Len(p)]
      BY <3>1, <1>3, <1>9
    <3>3. Len(b) + 1 \in 1 .. Len(w) - 1 /\ (Len(b) + 1) + 1 = Len(b) + 1 + 1
      BY <3>1, <1>1, <1>3
    <3>4. Follows(x, p[1])
      BY <3>2, <3>3, <1>4, <1>6 DEF Chain
    <3> QED BY <3>2, <3>4, <1>4, <1>5, <1>10 DEF Chain, Follows
  <2>2. ASSUME NEW k \in 1 .. Len(p) - 1 PROVE Follows(p[k], p[k + 1])
    <3>1. k \in 1 .. Len(p) /\ k + 1 \in 1 .. Len(p)
      BY <1>1
    <3> DEFINE j == Len(b) + 1 + k
    <3>2. j \in 1 .. Len(w) - 1 /\ j + 1 = Len(b) + 1 + (k + 1)
      BY <1>1, <1>3
    <3>3. w[j] = p[k] /\ w[j + 1] = p[k + 1]
      BY <3>1, <3>2, <1>9
    <3> HIDE DEF j
    <3> QED BY <3>2, <3>3, <1>4 DEF Chain
  <2> QED BY <2>1, <2>2 DEF Chain
<1> QED BY <1>7, <1>8, <1>10

-----------------------------------------------------------------------------
(* The messages begun in a sequence of packets *)

BegunSteps(s, F) == F = [k \in 0 .. Len(s) |->
                           IF k = 0 THEN << >>
                           ELSE IF s[k].seq = 1 THEN Append(F[k - 1], s[k].message)
                           ELSE F[k - 1]]

\* The recursion has a solution.
LEMMA BegunSolved ==
    ASSUME NEW s, Len(s) \in Nat
    PROVE  \E F : BegunSteps(s, F) /\ Begun(s) = F[Len(s)]
<1> DEFINE Step(F, k) == IF s[k].seq = 1 THEN Append(F[k - 1], s[k].message) ELSE F[k - 1]
           Body(F, d) == [k \in 0 .. d |-> IF k = 0 THEN << >> ELSE Step(F, k)]
           S == {d \in Nat : \E F : F = Body(F, d)}
<1>1. 0 \in S
  <2>1. [k \in 0 .. 0 |-> << >>] = Body([k \in 0 .. 0 |-> << >>], 0)
    OBVIOUS
  <2> QED BY <2>1
<1>2. ASSUME NEW d \in Nat, d \in S PROVE d + 1 \in S
  <2>1. PICK F : F = Body(F, d)
    BY <1>2
  <2> DEFINE G == [k \in 0 .. d + 1 |-> IF k <= d THEN F[k] ELSE Step(F, k)]
  <2>2. ASSUME NEW k \in 0 .. d + 1 PROVE G[k] = IF k = 0 THEN << >> ELSE Step(G, k)
    <3>1. k = 0 => G[k] = << >>
      BY <2>1
    <3>2. ASSUME k # 0 PROVE G[k] = Step(F, k) /\ G[k - 1] = F[k - 1]
      <4>1. k - 1 \in 0 .. d + 1 /\ k - 1 <= d
        BY <3>2
      <4>2. G[k - 1] = F[k - 1]
        BY <4>1
      <4>3. CASE k <= d
        <5>1. k \in 0 .. d
          BY <4>3
        <5>2. F[k] = IF k = 0 THEN << >> ELSE Step(F, k)
          BY <5>1, <2>1
        <5> QED BY <4>2, <4>3, <5>2, <3>2
      <4>4. CASE ~(k <= d)
        BY <4>2, <4>4
      <4> QED BY <4>3, <4>4
    <3> HIDE DEF G
    <3> QED BY <3>1, <3>2
  <2>3. G = [k \in 0 .. d + 1 |-> G[k]]
    OBVIOUS
  <2> HIDE DEF G
  <2>4. G = Body(G, d + 1)
    BY <2>2, <2>3
  <2> QED BY <2>4
<1> HIDE DEF S
<1>3. Nat \subseteq S
  BY <1>1, <1>2, Induct
<1>4. PICK F : F = Body(F, Len(s))
  BY <1>3 DEF S
<1> DEFINE H == CHOOSE G : G = Body(G, Len(s))
<1>5. H = Body(H, Len(s))
  BY <1>4
<1>6. Begun(s) = H[Len(s)]
  BY DEF Begun
<1> HIDE DEF H
<1>7. BegunSteps(s, H)
  BY <1>5 DEF BegunSteps
<1> QED BY <1>6, <1>7

LEMMA BegunAt ==
    ASSUME NEW s, Len(s) \in Nat, NEW F, BegunSteps(s, F)
    PROVE  /\ F[0] = << >>
           /\ \A d \in Nat : d + 1 <= Len(s) =>
                 F[d + 1] = IF s[d + 1].seq = 1 THEN Append(F[d], s[d + 1].message) ELSE F[d]
<1> DEFINE Value(k) == IF k = 0 THEN << >>
                       ELSE IF s[k].seq = 1 THEN Append(F[k - 1], s[k].message)
                       ELSE F[k - 1]
<1>1. F = [k \in 0 .. Len(s) |-> Value(k)]
  BY DEF BegunSteps
<1> HIDE DEF Value
<1>2. \A k \in 0 .. Len(s) : F[k] = Value(k)
  BY <1>1
<1>3. F[0] = << >>
  BY <1>2 DEF Value
<1>4. ASSUME NEW d \in Nat, d + 1 <= Len(s)
      PROVE  F[d + 1] = IF s[d + 1].seq = 1 THEN Append(F[d], s[d + 1].message) ELSE F[d]
  <2>1. d + 1 \in 0 .. Len(s) /\ d + 1 # 0 /\ (d + 1) - 1 = d
    BY <1>4
  <2>2. F[d + 1] = Value(d + 1)
    BY <2>1, <1>2
  <2> QED BY <2>1, <2>2 DEF Value
<1> QED BY <1>3, <1>4

LEMMA BegunTyped ==
    ASSUME NEW s \in Seq(Packets), NEW F, BegunSteps(s, F)
    PROVE  \A k \in 0 .. Len(s) : F[k] \in Seq(Messages)
<1> DEFINE Q(d) == d <= Len(s) => F[d] \in Seq(Messages)
           S == {d \in Nat : Q(d)}
<1>0. /\ Len(s) \in Nat /\ F[0] = << >>
      /\ \A d \in Nat : d + 1 <= Len(s) =>
            F[d + 1] = IF s[d + 1].seq = 1 THEN Append(F[d], s[d + 1].message) ELSE F[d]
  BY BegunAt
<1>1. Q(0)
  BY <1>0
<1>2. ASSUME NEW d \in Nat, Q(d) PROVE Q(d + 1)
  <2> SUFFICES ASSUME d + 1 <= Len(s) PROVE F[d + 1] \in Seq(Messages)
    OBVIOUS
  <2>1. F[d] \in Seq(Messages)
    BY <1>0, <1>2
  <2>2. s[d + 1].message \in Messages
    <3>1. s[d + 1] \in Packets
      BY <1>0
    <3> QED BY <3>1 DEF Packets
  <2>3. F[d + 1] = IF s[d + 1].seq = 1 THEN Append(F[d], s[d + 1].message) ELSE F[d]
    BY <1>0
  <2> HIDE DEF Messages
  <2> QED BY <2>1, <2>2, <2>3
<1> HIDE DEF Q
<1>3. 0 \in S /\ \A d \in Nat : d \in S => d + 1 \in S
  BY <1>1, <1>2
<1> HIDE DEF S
<1>4. Nat \subseteq S
  BY <1>3, Induct
<1> QED BY <1>0, <1>4 DEF S, Q

LEMMA BegunJoined ==
    ASSUME NEW s \in Seq(Packets), NEW u \in Seq(Packets)
    PROVE  Begun(s \o u) = Begun(s) \o Begun(u)
<1>1. PICK w, ls, lu : w = s \o u /\ ls = Len(s) /\ lu = Len(u)
  OBVIOUS
<1>2. /\ w \in Seq(Packets) /\ Len(w) = ls + lu
      /\ \A k \in 1 .. ls : w[k] = s[k]
      /\ \A k \in 1 .. lu : w[ls + k] = u[k]
      /\ ls \in Nat /\ lu \in Nat /\ Len(w) \in Nat
  <2>1. /\ \A k \in 1 .. ls + lu : w[k] = IF k <= ls THEN s[k] ELSE u[k - ls]
        /\ w \in Seq(Packets) /\ Len(w) = ls + lu /\ ls \in Nat /\ lu \in Nat
    BY <1>1, ConcatProperties
  <2>2. ASSUME NEW k \in 1 .. lu PROVE w[ls + k] = u[k]
    <3>1. ls + k \in 1 .. ls + lu /\ ~(ls + k <= ls) /\ ls + k - ls = k
      BY <2>1
    <3> QED BY <3>1, <2>1
  <2>3. ASSUME NEW k \in 1 .. ls PROVE w[k] = s[k]
    BY <2>1
  <2> QED BY <2>1, <2>2, <2>3
<1>3. PICK F : BegunSteps(s, F) /\ Begun(s) = F[ls]
  BY <1>1, <1>2, BegunSolved
<1>4. PICK G : BegunSteps(u, G) /\ Begun(u) = G[lu]
  BY <1>1, <1>2, BegunSolved
<1>5. PICK H : BegunSteps(w, H) /\ Begun(w) = H[ls + lu]
  <2>1. \E H : BegunSteps(w, H) /\ Begun(w) = H[Len(w)]
    <3>1. Len(w) \in Nat
      BY <1>2
    <3> QED BY <3>1, BegunSolved
  <2> QED BY <2>1, <1>2
<1>6. /\ \A k \in 0 .. ls : F[k] \in Seq(Messages)
      /\ \A k \in 0 .. lu : G[k] \in Seq(Messages)
  BY <1>1, <1>3, <1>4, BegunTyped
<1>7. /\ F[0] = << >> /\ G[0] = << >> /\ H[0] = << >>
      /\ \A d \in Nat : d + 1 <= ls =>
            F[d + 1] = IF s[d + 1].seq = 1 THEN Append(F[d], s[d + 1].message) ELSE F[d]
      /\ \A d \in Nat : d + 1 <= lu =>
            G[d + 1] = IF u[d + 1].seq = 1 THEN Append(G[d], u[d + 1].message) ELSE G[d]
      /\ \A d \in Nat : d + 1 <= ls + lu =>
            H[d + 1] = IF w[d + 1].seq = 1 THEN Append(H[d], w[d + 1].message) ELSE H[d]
  <2>1. /\ F[0] = << >>
        /\ \A d \in Nat : d + 1 <= ls =>
              F[d + 1] = IF s[d + 1].seq = 1 THEN Append(F[d], s[d + 1].message) ELSE F[d]
    <3>1. Len(s) \in Nat /\ Len(s) = ls
      BY <1>1, <1>2
    <3>2. BegunSteps(s, F)
      BY <1>3
    <3> QED BY <3>1, <3>2, BegunAt
  <2>2. /\ G[0] = << >>
        /\ \A d \in Nat : d + 1 <= lu =>
              G[d + 1] = IF u[d + 1].seq = 1 THEN Append(G[d], u[d + 1].message) ELSE G[d]
    <3>1. Len(u) \in Nat /\ Len(u) = lu
      BY <1>1, <1>2
    <3>2. BegunSteps(u, G)
      BY <1>4
    <3> QED BY <3>1, <3>2, BegunAt
  <2>3. /\ H[0] = << >>
        /\ \A d \in Nat : d + 1 <= Len(w) =>
              H[d + 1] = IF w[d + 1].seq = 1 THEN Append(H[d], w[d + 1].message) ELSE H[d]
    <3>1. Len(w) \in Nat /\ BegunSteps(w, H)
      BY <1>2, <1>5
    <3> QED BY <3>1, BegunAt
  <2>4. Len(w) = ls + lu
    BY <1>2
  <2> QED BY <2>1, <2>2, <2>3, <2>4
<1> DEFINE Q(d) == d <= ls => H[d] = F[d]
           R(d) == d <= lu => H[ls + d] = F[ls] \o G[d]
           S == {d \in Nat : Q(d)}
           T == {d \in Nat : R(d)}
<1>8. \A d \in Nat : Q(d)
  <2>1. Q(0)
    BY <1>7
  <2>2. ASSUME NEW d \in Nat, Q(d) PROVE Q(d + 1)
    <3> SUFFICES ASSUME d + 1 <= ls PROVE H[d + 1] = F[d + 1]
      OBVIOUS
    <3>1. H[d] = F[d] /\ w[d + 1] = s[d + 1] /\ d + 1 <= ls + lu
      BY <2>2, <1>2
    <3> QED BY <3>1, <1>7
  <2> HIDE DEF Q
  <2>3. 0 \in S /\ \A d \in Nat : d \in S => d + 1 \in S
    BY <2>1, <2>2
  <2> HIDE DEF S
  <2>4. Nat \subseteq S
    BY <2>3, Induct
  <2> QED BY <2>4 DEF S
<1>9. \A d \in Nat : R(d)
  <2>1. R(0)
    <3>1. H[ls] = F[ls] /\ ls + 0 = ls
      BY <1>2, <1>8
    <3>2. F[ls] \in Seq(Messages)
      BY <1>2, <1>6
    <3>3. F[ls] \o << >> = F[ls]
      BY <3>2, ConcatEmptySeq
    <3> QED BY <3>1, <3>3, <1>7
  <2>2. ASSUME NEW d \in Nat, R(d) PROVE R(d + 1)
    <3> SUFFICES ASSUME d + 1 <= lu PROVE H[ls + (d + 1)] = F[ls] \o G[d + 1]
      OBVIOUS
    <3>1. d + 1 \in 1 .. lu /\ d \in 0 .. lu /\ d <= lu /\ ls \in 0 .. ls
      BY <1>2
    <3>2. PICK k : k = ls + d
      OBVIOUS
    <3>3. k \in Nat /\ k + 1 <= ls + lu /\ k + 1 = ls + (d + 1)
      BY <3>1, <3>2, <1>2
    <3>4. PICK a, b, x : a = F[ls] /\ b = G[d] /\ x = u[d + 1]
      OBVIOUS
    <3>5. H[k] = a \o b /\ w[k + 1] = x
      <4>1. w[k + 1] = x
        <5>1. \A i \in 1 .. lu : w[ls + i] = u[i]
          BY <1>2
        <5>2. w[ls + (d + 1)] = u[d + 1]
          BY <3>1, <5>1
        <5> QED BY <5>2, <3>3, <3>4
      <4> QED BY <4>1, <2>2, <3>1, <3>2, <3>4
    <3>6. G[d + 1] = IF x.seq = 1 THEN Append(b, x.message) ELSE b
      BY <3>4, <1>7
    <3>7. H[k + 1] = IF x.seq = 1 THEN Append(a \o b, x.message) ELSE a \o b
      <4>1. H[k + 1] = IF w[k + 1].seq = 1 THEN Append(H[k], w[k + 1].message) ELSE H[k]
        BY <3>3, <1>7
      <4> QED BY <4>1, <3>5
    <3>8. PICK m : m = x.message
      OBVIOUS
    <3>9. a \in Seq(Messages) /\ b \in Seq(Messages)
      BY <3>1, <3>4, <1>6
    <3>10. m \in Messages
      <4>1. x \in Packets
        BY <3>1, <3>4, <1>1
      <4> QED BY <4>1, <3>8 DEF Packets
    <3>11. Append(a \o b, m) = a \o Append(b, m)
      <4>1. PICK y : y = <<m>>
        OBVIOUS
      <4>2. y \in Seq(Messages) /\ a \o b \in Seq(Messages)
        BY <4>1, <3>9, <3>10, ConcatProperties
      <4>3. Append(b, m) = b \o y
        BY <4>1, <3>9, <3>10, AppendIsConcat
      <4>4. Append(a \o b, m) = (a \o b) \o y
        BY <4>1, <4>2, <3>10, AppendIsConcat
      <4>5. (a \o b) \o y = a \o (b \o y)
        BY <4>2, <3>9, ConcatAssociative
      <4> QED BY <4>3, <4>4, <4>5
    <3>12. H[k + 1] = a \o G[d + 1]
      BY <3>6, <3>7, <3>8, <3>11
    <3> QED BY <3>3, <3>4, <3>12
  <2> HIDE DEF R
  <2>3. 0 \in T /\ \A d \in Nat : d \in T => d + 1 \in T
    BY <2>1, <2>2
  <2> HIDE DEF T
  <2>4. Nat \subseteq T
    BY <2>3, Induct
  <2> QED BY <2>4 DEF T
<1>10. H[ls + lu] = F[ls] \o G[lu]
  <2>1. lu \in Nat /\ lu <= lu
    BY <1>2
  <2> HIDE DEF R
  <2>2. R(lu)
    BY <2>1, <1>9
  <2> QED BY <2>1, <2>2 DEF R
<1> QED BY <1>1, <1>3, <1>4, <1>5, <1>10

LEMMA BegunNone == Begun(<< >>) = << >>
<1>1. PICK F : BegunSteps(<< >>, F) /\ Begun(<< >>) = F[Len(<< >>)]
  BY BegunSolved
<1>2. Len(<< >>) = 0
  OBVIOUS
<1> QED BY <1>1, <1>2 DEF BegunSteps

\* The packets of one message, or the first of them, begin one.
LEMMA BegunOne ==
    ASSUME NEW s \in Seq(Packets), s # << >>, \A k \in 1 .. Len(s) : s[k].seq = k
    PROVE  Begun(s) = <<s[1].message>>
<1>1. PICK F : BegunSteps(s, F) /\ Begun(s) = F[Len(s)]
  BY BegunSolved
<1>2. Len(s) \in Nat /\ Len(s) # 0
  OBVIOUS
<1> DEFINE S == {d \in Nat : d + 1 <= Len(s) => F[d + 1] = <<s[1].message>>}
<1>3. 0 \in S
  <2>1. F[0] = << >> /\ F[1] = IF s[1].seq = 1 THEN Append(F[0], s[1].message) ELSE F[0]
    <3>1. 0 + 1 <= Len(s)
      BY <1>2
    <3> QED BY <3>1, <1>1, <1>2, BegunAt
  <2>2. s[1].seq = 1
    BY <1>2
  <2> QED BY <2>1, <2>2
<1>4. ASSUME NEW d \in Nat, d \in S PROVE d + 1 \in S
  <2> SUFFICES ASSUME d + 1 + 1 <= Len(s) PROVE F[d + 1 + 1] = <<s[1].message>>
    OBVIOUS
  <2>1. F[d + 1] = <<s[1].message>>
    BY <1>2, <1>4
  <2>2. PICK k : k = d + 1
    OBVIOUS
  <2>3. k \in Nat /\ k + 1 \in 1 .. Len(s) /\ k + 1 # 1 /\ k + 1 <= Len(s)
    BY <2>2, <1>2
  <2>4. F[k + 1] = IF s[k + 1].seq = 1 THEN Append(F[k], s[k + 1].message) ELSE F[k]
    BY <2>3, <1>1, <1>2, BegunAt
  <2>5. s[k + 1].seq # 1
    BY <2>3
  <2> QED BY <2>1, <2>2, <2>3, <2>4, <2>5
<1> HIDE DEF S
<1>5. Nat \subseteq S
  BY <1>3, <1>4, Induct
<1>6. Len(s) - 1 \in Nat /\ Len(s) - 1 + 1 = Len(s)
  BY <1>2
<1>7. Len(s) - 1 \in S
  BY <1>5, <1>6
<1> QED BY <1>1, <1>2, <1>6, <1>7 DEF S

-----------------------------------------------------------------------------
(* The path of a task *)

LEMMA CountType == \A m \in Messages : PacketCount(m.size) \in Nat
<1> TAKE m \in Messages
<1>1. m.size \in Nat \ {0} /\ PAYLOAD_BYTES \in Nat \ {0}
  BY DEF Messages
<1> DEFINE a == m.size + PAYLOAD_BYTES - 1
<1>2. a \in Nat
  BY <1>1
<1> HIDE DEF a
<1>3. a \div PAYLOAD_BYTES \in Nat
  BY <1>1, <1>2, ModDivision
<1> QED BY <1>3 DEF PacketCount, a

LEMMA UnsentTyped ==
    ASSUME TypeInv, NEW u \in Tasks, sending[u] # NotSending
    PROVE  /\ sending[u] \in Sends
           /\ Unsent(u) \in Seq(Packets)
           /\ Len(Unsent(u)) = PacketCount(sending[u].message.size) - sending[u].packet + 1
           /\ Unsent(u) # << >>
           /\ \A k \in 1 .. Len(Unsent(u)) :
                 Unsent(u)[k] = [to |-> sending[u].to, message |-> sending[u].message,
                                 seq |-> sending[u].packet + k - 1]
<1> DEFINE d == PacketCount(sending[u].message.size)
           p == sending[u].packet
           P(k) == [to |-> sending[u].to, message |-> sending[u].message, seq |-> p + k - 1]
<1>1. sending[u] \in Sends
  BY DEF TypeInv, RingInv, TypeOK
<1>2. p \in Nat \ {0} /\ d \in 1 .. HF_PACKET_SLOTS /\ p <= d
  BY <1>1 DEF TypeInv, PacketsLeft, Sends
<1>3. sending[u].to \in Tasks \cup {NoTask} /\ sending[u].message \in Messages
  BY <1>1 DEF Sends
<1> HIDE DEF p, d
<1>4. \A k \in 1 .. d - p + 1 : P(k) \in Packets
  <2> SUFFICES ASSUME NEW k \in 1 .. d - p + 1 PROVE P(k) \in Packets
    OBVIOUS
  <2>1. p + k - 1 \in 1 .. HF_PACKET_SLOTS
    BY <1>2
  <2> QED BY <2>1, <1>3 DEF Packets
<1>5. Unsent(u) = [k \in 1 .. d - p + 1 |-> P(k)]
  BY DEF Unsent, d, p
<1>6. d - p + 1 \in Nat \ {0}
  BY <1>2
<1> HIDE DEF P
<1>7. Unsent(u) \in [1 .. d - p + 1 -> Packets]
  BY <1>4, <1>5
<1>8. Unsent(u) \in Seq(Packets) /\ Len(Unsent(u)) = d - p + 1
  <2> HIDE DEF Packets
  <2> QED BY <1>6, <1>7
<1>9. \A k \in 1 .. Len(Unsent(u)) : Unsent(u)[k] = P(k)
  BY <1>5, <1>8
<1>10. Unsent(u) # << >>
  BY <1>6, <1>8
<1> QED BY <1>1, <1>8, <1>9, <1>10 DEF d, p, P

LEMMA QueueTyped ==
    ASSUME TypeInv, NEW t \in Tasks
    PROVE  /\ Queue(t) \in Seq(Packets)
           /\ Len(Queue(t)) = in_packet[t] /\ in_packet[t] \in Nat
           /\ \A k \in 1 .. in_packet[t] :
                 Queue(t)[k] = packet_in[t][(start[t] + k - 1) % HF_PACKET_SLOTS]
<1>1. /\ packet_in \in [Tasks -> [Slot -> Packets \cup {NoPacket}]]
      /\ start[t] \in 0 .. HF_PACKET_SLOTS - 1
      /\ in_packet[t] \in 0 .. HF_PACKET_SLOTS
  BY DEF TypeInv, RingInv, TypeOK, Slot
<1>2. ASSUME NEW k \in 1 .. in_packet[t]
      PROVE  packet_in[t][(start[t] + k - 1) % HF_PACKET_SLOTS] \in Packets
  <2>1. k - 1 \in 0 .. in_packet[t] - 1 /\ start[t] + (k - 1) \in Nat /\ start[t] + k - 1 = start[t] + (k - 1)
    BY <1>1
  <2>2. (start[t] + (k - 1)) % HF_PACKET_SLOTS \in Slot
    BY <2>1, ModRange DEF Slot
  <2>3. packet_in[t][(start[t] + (k - 1)) % HF_PACKET_SLOTS] # NoPacket
    BY <2>1 DEF TypeInv, RingInv, SlotsUsed
  <2> QED BY <2>1, <2>2, <2>3, <1>1
<1>3. Queue(t) \in [1 .. in_packet[t] -> Packets]
  BY <1>2 DEF Queue
<1>4. Queue(t) \in Seq(Packets) /\ Len(Queue(t)) = in_packet[t]
  <2> HIDE DEF Packets
  <2> QED BY <1>1, <1>3
<1> QED BY <1>1, <1>4 DEF Queue

Carriers(ni, t) == {d \in Cores : CarriesTo(ni[d], t)}

LEMMA InterfaceOf ==
    ASSUME NEW ni \in [Cores -> Packets \cup {NoPacket}], NEW t
    PROVE  /\ InInterfaces(ni, t) \in Seq(Packets)
           /\ Carriers(ni, t) = {} => InInterfaces(ni, t) = << >>
           /\ \A c \in Cores : Carriers(ni, t) = {c} => InInterfaces(ni, t) = <<ni[c]>>
<1> DEFINE S == {ni[c] : c \in Carriers(ni, t)}
<1>1. InInterfaces(ni, t) = OneOf(S)
  BY DEF InInterfaces, Carriers, CarriesTo
<1>2. \A x \in S : x \in Packets
  BY DEF Carriers, CarriesTo
<1>3. \A c \in Cores : Carriers(ni, t) = {c} => S = {ni[c]}
  OBVIOUS
<1>4. Carriers(ni, t) = {} => S = {}
  OBVIOUS
<1> HIDE DEF S
<1>5. InInterfaces(ni, t) \in Seq(Packets)
  <2>1. CASE S = {}
    BY <2>1, <1>1 DEF OneOf
  <2>2. CASE S # {}
    <3>1. (CHOOSE x \in S : TRUE) \in S
      BY <2>2
    <3>2. InInterfaces(ni, t) = <<CHOOSE x \in S : TRUE>>
      BY <2>2, <1>1 DEF OneOf
    <3> HIDE DEF Packets
    <3> QED BY <3>1, <3>2, <1>2
  <2> QED BY <2>1, <2>2
<1>6. \A y : S = {y} => OneOf(S) = <<y>>
  <2> SUFFICES ASSUME NEW y, S = {y} PROVE OneOf(S) = <<y>>
    OBVIOUS
  <2>1. (CHOOSE x \in S : TRUE) = y
    BY Zenon
  <2> QED BY <2>1 DEF OneOf
<1>7. S = {} => OneOf(S) = << >>
  BY DEF OneOf
<1> QED BY <1>1, <1>3, <1>4, <1>5, <1>6, <1>7

LEMMA InterfaceSame ==
    ASSUME NEW ni, NEW ni2, NEW t, Carriers(ni2, t) = Carriers(ni, t),
           \A c \in Carriers(ni, t) : ni2[c] = ni[c]
    PROVE  InInterfaces(ni2, t) = InInterfaces(ni, t)
<1>1. {ni2[c] : c \in Carriers(ni2, t)} = {ni[c] : c \in Carriers(ni, t)}
  OBVIOUS
<1> QED BY <1>1 DEF InInterfaces, Carriers, CarriesTo

LEMMA SenderOf ==
    ASSUME TypeInv, NEW t \in Tasks
    PROVE  /\ \A u \in Tasks : sending[u].to = t <=> SendingTo(u, t)
           /\ Remaining(t) \in Seq(Packets)
           /\ (\A u \in Tasks : ~SendingTo(u, t)) => Remaining(t) = << >>
           /\ \A f \in Tasks : SendingTo(f, t) /\ (\A u \in Tasks : SendingTo(u, t) => u = f)
                                  => Remaining(t) = Unsent(f)
<1> DEFINE S == {u \in Tasks : sending[u].to = t}
<1>1. \A u \in Tasks : sending[u].to = t <=> SendingTo(u, t)
  BY DEF SendingTo, NotSending
<1>2. Remaining(t) = IF S = {} THEN << >> ELSE Unsent(CHOOSE u \in S : TRUE)
  BY DEF Remaining
<1>3. \A u \in S : u \in Tasks /\ SendingTo(u, t)
  BY <1>1
<1>4. \A f \in Tasks : SendingTo(f, t) /\ (\A u \in Tasks : SendingTo(u, t) => u = f) => S = {f}
  BY <1>1
<1>5. (\A u \in Tasks : ~SendingTo(u, t)) => S = {}
  BY <1>1
<1> HIDE DEF S
<1>6. Remaining(t) \in Seq(Packets)
  <2>1. CASE S = {}
    BY <2>1, <1>2
  <2>2. CASE S # {}
    <3>1. (CHOOSE u \in S : TRUE) \in S
      BY <2>2
    <3> QED BY <3>1, <2>2, <1>2, <1>3, UnsentTyped DEF SendingTo
  <2> QED BY <2>1, <2>2
<1>7. \A f : S = {f} => Remaining(t) = Unsent(f)
  <2> SUFFICES ASSUME NEW f, S = {f} PROVE Remaining(t) = Unsent(f)
    OBVIOUS
  <2>1. (CHOOSE u \in S : TRUE) = f
    BY Zenon
  <2> QED BY <2>1, <1>2
<1> QED BY <1>1, <1>2, <1>4, <1>5, <1>6, <1>7

LEMMA PathOf ==
    ASSUME TypeInv, NEW t \in Tasks
    PROVE  /\ Path(t) = Queue(t) \o InInterfaces(ni_in, t) \o InInterfaces(ni_out, t) \o Remaining(t)
           /\ InInterfaces(ni_in, t) \in Seq(Packets) /\ InInterfaces(ni_out, t) \in Seq(Packets)
           /\ Path(t) \in Seq(Packets)
<1>1. ni_in \in [Cores -> Packets \cup {NoPacket}] /\ ni_out \in [Cores -> Packets \cup {NoPacket}]
  BY DEF TypeInv, RingInv, TypeOK
<1>2. InInterfaces(ni_in, t) \in Seq(Packets) /\ InInterfaces(ni_out, t) \in Seq(Packets)
  BY <1>1, InterfaceOf
<1>3. Path(t) = Queue(t) \o InInterfaces(ni_in, t) \o InInterfaces(ni_out, t) \o Remaining(t)
  BY DEF Path, Remaining
<1>4. Queue(t) \in Seq(Packets) /\ Remaining(t) \in Seq(Packets)
  BY QueueTyped, SenderOf
<1> HIDE DEF Packets
<1> QED BY <1>2, <1>3, <1>4, Joined

LEMMA PathKept ==
    ASSUME NEW t, Queue(t)' = Queue(t), InInterfaces(ni_in', t) = InInterfaces(ni_in, t),
           InInterfaces(ni_out', t) = InInterfaces(ni_out, t), Remaining(t)' = Remaining(t)
    PROVE  Path(t)' = Path(t)
BY DEF Path, Remaining

LEMMA QueueKept ==
    ASSUME UNCHANGED queueVars
    PROVE  \A t \in Tasks : Queue(t)' = Queue(t)
BY DEF Queue, queueVars

LEMMA RemainingKept ==
    ASSUME UNCHANGED sending
    PROVE  \A t \in Tasks : Remaining(t)' = Remaining(t)
BY DEF Remaining, Unsent

\* A step that adds nothing to a stream, takes nothing from it and reorders nothing.
Forwards == UNCHANGED recvVars /\ \A t \in Tasks : Stream(t)' = Stream(t)

\* A receive call copies a packet, and returns if its message is complete.
Taken(t) ==
    /\ \A r \in Tasks \ {t} : /\ Stream(r)' = Stream(r) /\ receiving'[r] = receiving[r]
                               /\ buf'[r] = buf[r] /\ returned'[r] = returned[r]
    /\ receiving[t] # "no" /\ returned[t] = NotReturned
    /\ \/ /\ Stream(t)' = Stream(t)
          /\ receiving'[t] = receiving[t] /\ returned'[t] = NotReturned
       \/ \E w, p \in Seq(Packets) :
             /\ Stream(t) = w \o p /\ Stream(t)' = p
             /\ buf'[t] = w /\ w # << >> /\ Whole(w)
             /\ receiving'[t] = "no" /\ returned'[t] # NotReturned

\* A send call puts the packets of message m behind all others for t.
Sent(t, m) ==
    /\ UNCHANGED recvVars
    /\ \A r \in Tasks \ {t} : Stream(r)' = Stream(r)
    /\ \E u \in Seq(Packets) :
          /\ Stream(t)' = Stream(t) \o u
          /\ u # << >> /\ u[1].message = m
          /\ \A k \in 1 .. Len(u) : u[k].seq = k

LEMMA Forwarded ==
    ASSUME Chained, Receiving, Reconstructed, UNCHANGED recvVars,
           \A t \in Tasks : Path(t)' = Path(t)
    PROVE  Chained' /\ Receiving' /\ Reconstructed' /\ Forwards
<1>1. \A t \in Tasks : Stream(t)' = Stream(t)
  BY DEF Stream, CopiedSoFar, recvVars
<1>2. \A t \in Tasks : Chain(Stream(t)')
  BY <1>1 DEF Chained
<1>3. Chained'
  BY <1>2 DEF Chained, Chain, Follows, PCount
<1>4. Receiving' /\ Reconstructed'
  BY DEF Receiving, Reconstructed, Partial, PCount, Whole, recvVars
<1> QED BY <1>1, <1>3, <1>4 DEF Forwards

-----------------------------------------------------------------------------
(* What the steps do to the parts of a path *)

LEMMA CountPositive == \A m \in Messages : PacketCount(m.size) \in Nat \ {0}
<1> TAKE m \in Messages
<1>1. m.size \in Nat \ {0} /\ PAYLOAD_BYTES \in Nat \ {0}
  BY DEF Messages
<1> DEFINE a == m.size + PAYLOAD_BYTES - 1
<1>2. a \in Nat /\ a >= PAYLOAD_BYTES
  BY <1>1
<1> HIDE DEF a
<1>3. /\ a \div PAYLOAD_BYTES \in Nat /\ a % PAYLOAD_BYTES \in 0 .. PAYLOAD_BYTES - 1
      /\ a = (a \div PAYLOAD_BYTES) * PAYLOAD_BYTES + (a % PAYLOAD_BYTES)
  BY <1>1, <1>2, ModDivision, ModRange
<1>4. a \div PAYLOAD_BYTES # 0
  BY <1>1, <1>2, <1>3
<1> QED BY <1>3, <1>4 DEF PacketCount, a

\* What is said of a state above, in a form that can be said of the next one.
Shaped(t) ==
    /\ Queue(t) \in Seq(Packets)
    /\ Len(Queue(t)) = in_packet[t]
    /\ \A k \in 1 .. in_packet[t] :
          Queue(t)[k] = packet_in[t][(start[t] + k - 1) % HF_PACKET_SLOTS]
    /\ InInterfaces(ni_in, t) \in Seq(Packets)
    /\ InInterfaces(ni_out, t) \in Seq(Packets)
    /\ Remaining(t) \in Seq(Packets)
    /\ \A f \in Tasks : SendingTo(f, t) /\ (\A u \in Tasks : SendingTo(u, t) => u = f)
                           => Remaining(t) = Unsent(f)
    /\ Path(t) = Queue(t) \o InInterfaces(ni_in, t) \o InInterfaces(ni_out, t) \o Remaining(t)
    /\ Path(t) \in Seq(Packets)

UnsentShaped(u) ==
    sending[u] # NotSending =>
        /\ Unsent(u) \in Seq(Packets)
        /\ Len(Unsent(u)) = PacketCount(sending[u].message.size) - sending[u].packet + 1
        /\ \A k \in 1 .. Len(Unsent(u)) :
              Unsent(u)[k] = [to |-> sending[u].to, message |-> sending[u].message,
                              seq |-> sending[u].packet + k - 1]

Shapes == \A t \in Tasks : Shaped(t) /\ UnsentShaped(t)

LEMMA TypedShapes == TypeInv => Shapes
BY QueueTyped, SenderOf, PathOf, UnsentTyped DEF Shapes, Shaped, UnsentShaped

LEMMA ShapesNext == TypeInv' => Shapes'
BY TypedShapes, PTL

LEMMA RemainingSame ==
    ASSUME NEW t \in Tasks,
           \A u \in Tasks : sending'[u].to = t <=> sending[u].to = t,
           \A u \in Tasks : sending[u].to = t => Unsent(u)' = Unsent(u)
    PROVE  Remaining(t)' = Remaining(t)
<1> DEFINE S == {u \in Tasks : sending[u].to = t}
           T == {u \in Tasks : sending'[u].to = t}
<1>1. T = S
  OBVIOUS
<1>2. Remaining(t) = IF S = {} THEN << >> ELSE Unsent(CHOOSE u \in S : TRUE)
  BY DEF Remaining
<1>3. \A w : w = (CHOOSE u \in T : TRUE) =>
              Remaining(t)' = IF T = {} THEN << >> ELSE Unsent(w)'
  BY DEF Remaining, Unsent
<1>4. \A u \in S : Unsent(u)' = Unsent(u)
  OBVIOUS
<1> HIDE DEF S, T
<1>5. CASE S = {}
  BY <1>1, <1>2, <1>3, <1>5
<1>6. CASE S # {}
  <2>1. PICK w : w = CHOOSE u \in S : TRUE
    OBVIOUS
  <2>2. w \in S
    BY <2>1, <1>6
  <2>3. Remaining(t) = Unsent(w)
    BY <2>1, <1>2, <1>6
  <2>4. Remaining(t)' = Unsent(w)'
    BY <2>1, <1>1, <1>3, <1>6
  <2> QED BY <2>2, <2>3, <2>4, <1>4
<1> QED BY <1>5, <1>6

LEMMA QueueStores ==
    ASSUME TypeInv, TypeInv', NEW t \in Tasks, NEW packet \in Packets, HasRoom(t), Store(t, packet)
    PROVE  /\ Queue(t)' = Append(Queue(t), packet)
           /\ \A u \in Tasks \ {t} : Queue(u)' = Queue(u)
<1> DEFINE d == in_packet[t]
<1>1. /\ packet_in \in [Tasks -> [Slot -> Packets \cup {NoPacket}]]
      /\ start \in [Tasks -> Slot] /\ end \in [Tasks -> Slot]
      /\ in_packet \in [Tasks -> 0 .. HF_PACKET_SLOTS]
      /\ d < HF_PACKET_SLOTS
      /\ end[t] = (start[t] + d) % HF_PACKET_SLOTS
  BY DEF TypeInv, RingInv, TypeOK, RingSpan, HasRoom
<1>2. /\ packet_in' = [packet_in EXCEPT ![t][end[t]] = packet]
      /\ in_packet' = [in_packet EXCEPT ![t] = @ + 1]
      /\ start' = start
  BY DEF Store
<1>3. /\ Queue(t) \in Seq(Packets) /\ Len(Queue(t)) = d /\ d \in Nat
      /\ \A k \in 1 .. d : Queue(t)[k] = packet_in[t][(start[t] + k - 1) % HF_PACKET_SLOTS]
  BY QueueTyped
<1>4. in_packet'[t] = d + 1 /\ start'[t] = start[t]
  BY <1>1, <1>2
<1>5. /\ Queue(t)' \in Seq(Packets) /\ Len(Queue(t)') = d + 1
      /\ \A k \in 1 .. d + 1 : Queue(t)'[k] = packet_in'[t][(start[t] + k - 1) % HF_PACKET_SLOTS]
  <2>1. /\ Queue(t)' \in Seq(Packets)
        /\ Len(Queue(t)') = in_packet'[t]
        /\ \A k \in 1 .. in_packet'[t] :
             Queue(t)'[k] = packet_in'[t][(start'[t] + k - 1) % HF_PACKET_SLOTS]
    BY ShapesNext DEF Shapes, Shaped
  <2> QED BY <2>1, <1>4
<1>6. ASSUME NEW k \in 1 .. d PROVE Queue(t)'[k] = Queue(t)[k]
  <2> DEFINE s == (start[t] + k - 1) % HF_PACKET_SLOTS
  <2>0. start[t] \in 0 .. HF_PACKET_SLOTS - 1 /\ d \in 0 .. HF_PACKET_SLOTS - 1
    BY <1>1, <1>3 DEF Slot
  <2>1. /\ k - 1 \in 0 .. HF_PACKET_SLOTS - 1 /\ k - 1 # d
        /\ start[t] + (k - 1) = start[t] + k - 1 /\ start[t] + k - 1 \in Nat
    BY <2>0
  <2>2. s # end[t]
    BY <2>0, <2>1, <1>1, ModDistinct
  <2>3. s \in Slot
    BY <2>1, ModRange DEF Slot
  <2> HIDE DEF s
  <2>4. packet_in'[t][s] = packet_in[t][s]
    BY <2>2, <2>3, <1>1, <1>2
  <2> QED BY <2>4, <1>3, <1>5 DEF s
<1>7. Queue(t)'[d + 1] = packet
  <2>1. d + 1 \in 1 .. d + 1 /\ start[t] + (d + 1) - 1 = start[t] + d
    BY <1>1, <1>3 DEF Slot
  <2>2. packet_in'[t][end[t]] = packet
    BY <1>1, <1>2
  <2> QED BY <2>1, <2>2, <1>1, <1>5
<1>8. Queue(t)' = Append(Queue(t), packet)
  <2> DEFINE a == Append(Queue(t), packet)
             b == Queue(t)'
  <2>1. /\ a \in Seq(Packets) /\ Len(a) = d + 1
        /\ \A k \in 1 .. d : a[k] = Queue(t)[k]
        /\ a[d + 1] = packet
    BY <1>3, AppendProperties
  <2>2. b \in Seq(Packets) /\ Len(b) = Len(a)
    BY <2>1, <1>5
  <2>3. \A k \in 1 .. Len(a) : b[k] = a[k]
    BY <2>1, <1>3, <1>6, <1>7
  <2> HIDE DEF a, b
  <2>4. a = b
    BY <2>1, <2>2, <2>3, SeqEqual
  <2> QED BY <2>4 DEF a, b
<1>9. ASSUME NEW u \in Tasks \ {t} PROVE Queue(u)' = Queue(u)
  <2>1. packet_in'[u] = packet_in[u] /\ in_packet'[u] = in_packet[u] /\ start'[u] = start[u]
    BY <1>1, <1>2
  <2> QED BY <2>1 DEF Queue
<1> QED BY <1>8, <1>9

LEMMA QueueTakes ==
    ASSUME TypeInv, TypeInv', NEW t \in Tasks, TakePacket(t)
    PROVE  /\ packet_in[t][start[t]] \in Packets
           /\ Queue(t) = <<packet_in[t][start[t]]>> \o Queue(t)'
           /\ \A u \in Tasks \ {t} : Queue(u)' = Queue(u)
<1> DEFINE d == in_packet[t]
           x == packet_in[t][start[t]]
<1>1. /\ start \in [Tasks -> Slot]
      /\ in_packet \in [Tasks -> 0 .. HF_PACKET_SLOTS]
      /\ d > 0
  BY DEF TypeInv, RingInv, TypeOK, TakePacket
<1>2. /\ packet_in' = packet_in
      /\ in_packet' = [in_packet EXCEPT ![t] = @ - 1]
      /\ start' = [start EXCEPT ![t] = NextSlot(@)]
  BY DEF TakePacket
<1>3. /\ Queue(t) \in Seq(Packets) /\ Len(Queue(t)) = d /\ d \in Nat
      /\ \A k \in 1 .. d : Queue(t)[k] = packet_in[t][(start[t] + k - 1) % HF_PACKET_SLOTS]
  BY QueueTyped
<1>4. in_packet'[t] = d - 1 /\ start'[t] = (start[t] + 1) % HF_PACKET_SLOTS
  BY <1>1, <1>2 DEF NextSlot
<1>5. /\ Queue(t)' \in Seq(Packets) /\ Len(Queue(t)') = d - 1
      /\ \A k \in 1 .. d - 1 :
           Queue(t)'[k] = packet_in[t][(((start[t] + 1) % HF_PACKET_SLOTS) + k - 1) % HF_PACKET_SLOTS]
  <2>1. /\ Queue(t)' \in Seq(Packets)
        /\ Len(Queue(t)') = in_packet'[t]
        /\ \A k \in 1 .. in_packet'[t] :
             Queue(t)'[k] = packet_in'[t][(start'[t] + k - 1) % HF_PACKET_SLOTS]
    BY ShapesNext DEF Shapes, Shaped
  <2> QED BY <2>1, <1>2, <1>4
<1>6. x \in Packets
  BY TakeKeepsRing DEF TypeInv
<1>7. Queue(t)[1] = x
  <2>1. 1 \in 1 .. d /\ start[t] \in 0 .. HF_PACKET_SLOTS - 1 /\ start[t] + 1 - 1 = start[t]
    BY <1>1, <1>3 DEF Slot
  <2>2. start[t] % HF_PACKET_SLOTS = start[t]
    BY <2>1
  <2> QED BY <2>1, <2>2, <1>3
<1>8. ASSUME NEW k \in 1 .. d - 1 PROVE Queue(t)'[k] = Queue(t)[k + 1]
  <2>0. start[t] \in Nat /\ start[t] \in 0 .. HF_PACKET_SLOTS - 1 /\ d \in Nat
    BY <1>1, <1>3 DEF Slot
  <2>1. /\ start[t] \in 0 .. HF_PACKET_SLOTS - 1 /\ k \in Nat \ {0} /\ k + 1 \in 1 .. d
        /\ start[t] + (k + 1) - 1 = start[t] + k
        /\ start[t] + 1 \in Nat
    BY <2>0
  <2>2. (((start[t] + 1) % HF_PACKET_SLOTS) + (k - 1)) % HF_PACKET_SLOTS = (start[t] + k) % HF_PACKET_SLOTS
    BY <2>1, ModShift
  <2>3. ((start[t] + 1) % HF_PACKET_SLOTS) + (k - 1) = ((start[t] + 1) % HF_PACKET_SLOTS) + k - 1
    <3>1. (start[t] + 1) % HF_PACKET_SLOTS \in 0 .. HF_PACKET_SLOTS - 1
      BY <2>1, ModRange
    <3> QED BY <3>1, <2>1
  <2>4. Queue(t)[k + 1] = packet_in[t][(start[t] + k) % HF_PACKET_SLOTS]
    BY <2>1, <1>3
  <2>5. Queue(t)'[k] = packet_in[t][(((start[t] + 1) % HF_PACKET_SLOTS) + (k - 1)) % HF_PACKET_SLOTS]
    BY <2>3, <1>5
  <2> QED BY <2>2, <2>4, <2>5
<1>9. Queue(t) = <<x>> \o Queue(t)'
  <2> DEFINE a == <<x>> \o Queue(t)'
             b == Queue(t)
             r == Queue(t)'
  <2>1. <<x>> \in Seq(Packets) /\ Len(<<x>>) = 1 /\ <<x>>[1] = x
    BY <1>6
  <2>2. r \in Seq(Packets) /\ Len(r) = d - 1
    BY <1>5
  <2> HIDE DEF x, r
  <2>3. /\ a \in Seq(Packets) /\ Len(a) = d
        /\ \A k \in 1 .. d : a[k] = IF k <= 1 THEN <<x>>[k] ELSE r[k - 1]
    BY <2>1, <2>2, <1>3, ConcatProperties DEF r
  <2>4. b \in Seq(Packets) /\ Len(b) = Len(a)
    BY <2>3, <1>3
  <2>5. ASSUME NEW k \in 1 .. Len(a) PROVE b[k] = a[k]
    <3>1. CASE k = 1
      BY <3>1, <2>1, <2>3, <1>7 DEF x
    <3>2. CASE k # 1
      <4>1. k - 1 \in 1 .. d - 1 /\ (k - 1) + 1 = k /\ ~(k <= 1) /\ k \in 1 .. d
        BY <3>2, <2>3, <1>3
      <4>2. r[k - 1] = b[k]
        BY <4>1, <1>8 DEF r
      <4> QED BY <4>1, <4>2, <2>3
    <3> QED BY <3>1, <3>2
  <2> HIDE DEF a, b
  <2>6. a = b
    BY <2>3, <2>4, <2>5, SeqEqual
  <2> QED BY <2>6 DEF a, b, x, r
<1>10. ASSUME NEW u \in Tasks \ {t} PROVE Queue(u)' = Queue(u)
  <2>1. packet_in'[u] = packet_in[u] /\ in_packet'[u] = in_packet[u] /\ start'[u] = start[u]
    BY <1>1, <1>2
  <2> QED BY <2>1 DEF Queue
<1> QED BY <1>6, <1>9, <1>10

\* Writing a packet takes the first of those that are left.
LEMMA UnsentHead ==
    ASSUME TypeInv, TypeInv', NEW u \in Tasks, WritePacket(u)
    PROVE  /\ Outgoing(u) \in Packets
           /\ LastPacket(u) => sending'[u] = NotSending /\ Unsent(u) = <<Outgoing(u)>>
           /\ ~LastPacket(u) => /\ sending'[u] # NotSending /\ sending'[u].to = sending[u].to
                                /\ sending'[u].message = sending[u].message
                                /\ Unsent(u) = <<Outgoing(u)>> \o Unsent(u)'
<1> DEFINE d == PacketCount(sending[u].message.size)
           p == sending[u].packet
           P(k) == [to |-> sending[u].to, message |-> sending[u].message, seq |-> p + k - 1]
<1>0. sending[u] # NotSending /\ sending \in [Tasks -> {NotSending} \cup Sends]
  BY DEF WritePacket, Holds, TypeInv, RingInv, TypeOK
<1>1. /\ sending[u] \in Sends
      /\ Unsent(u) \in Seq(Packets)
      /\ Len(Unsent(u)) = d - p + 1
      /\ Unsent(u) # << >>
      /\ \A k \in 1 .. Len(Unsent(u)) : Unsent(u)[k] = P(k)
  BY <1>0, UnsentTyped
<1>2. p \in Nat \ {0} /\ d \in Nat /\ p <= d
  BY <1>0, <1>1 DEF TypeInv, PacketsLeft, Sends
<1>3. Outgoing(u) = P(1)
  BY <1>2 DEF Outgoing
<1>4. Unsent(u)[1] = Outgoing(u) /\ Outgoing(u) \in Packets
  <2>1. 1 \in 1 .. Len(Unsent(u))
    BY <1>1, <1>2
  <2>2. Unsent(u)[1] \in Packets
    BY <2>1, <1>1
  <2> QED BY <2>1, <2>2, <1>1, <1>3
<1> HIDE DEF P, d, p
<1>5. ASSUME LastPacket(u) PROVE sending'[u] = NotSending /\ Unsent(u) = <<Outgoing(u)>>
  <2>1. sending'[u] = NotSending
    BY <1>0, <1>5 DEF WritePacket
  <2>2. d = p
    BY <1>2, <1>5 DEF LastPacket, d, p
  <2>3. Len(Unsent(u)) = 1
    BY <2>2, <1>1, <1>2
  <2>4. <<Outgoing(u)>> \in Seq(Packets) /\ Len(<<Outgoing(u)>>) = 1 /\ <<Outgoing(u)>>[1] = Outgoing(u)
    BY <1>4
  <2>5. \A k \in 1 .. 1 : Unsent(u)[k] = <<Outgoing(u)>>[k]
    BY <2>4, <1>4
  <2> HIDE DEF Unsent, Outgoing
  <2>6. Unsent(u) = <<Outgoing(u)>>
    BY <2>3, <2>4, <2>5, <1>1, SeqEqual
  <2> QED BY <2>1, <2>6
<1>6. ASSUME ~LastPacket(u)
      PROVE  /\ sending'[u] # NotSending /\ sending'[u].to = sending[u].to
             /\ sending'[u].message = sending[u].message
             /\ Unsent(u) = <<Outgoing(u)>> \o Unsent(u)'
  <2>1. p < d
    BY <1>2, <1>6 DEF LastPacket, d, p
  <2>2. sending'[u] = [to |-> sending[u].to, message |-> sending[u].message, packet |-> p + 1,
                       timed |-> sending[u].timed, ready |-> FALSE]
    BY <1>0, <1>6 DEF WritePacket, At, p
  <2>3. sending'[u] # NotSending
    <3>1. "ready" \in DOMAIN sending'[u] /\ "ready" \notin DOMAIN NotSending
      BY <2>2 DEF NotSending
    <3> QED BY <3>1
  <2>4. /\ Unsent(u)' \in Seq(Packets)
        /\ Len(Unsent(u)') = d - (p + 1) + 1
        /\ \A k \in 1 .. Len(Unsent(u)') :
             Unsent(u)'[k] = [to |-> sending[u].to, message |-> sending[u].message, seq |-> p + 1 + k - 1]
    <3>1. (sending[u] # NotSending)' =>
           /\ Unsent(u)' \in Seq(Packets)
           /\ Len(Unsent(u)') = PacketCount(sending'[u].message.size) - sending'[u].packet + 1
           /\ \A k \in 1 .. Len(Unsent(u)') :
                 Unsent(u)'[k] = [to |-> sending'[u].to, message |-> sending'[u].message,
                                 seq |-> sending'[u].packet + k - 1]
      BY ShapesNext DEF Shapes, UnsentShaped
    <3>2. sending'[u].message = sending[u].message /\ sending'[u].to = sending[u].to /\ sending'[u].packet = p + 1
      BY <2>2
    <3> QED BY <3>1, <3>2, <2>3 DEF d
  <2> DEFINE r == Unsent(u)'
             b == Unsent(u)
             x == Outgoing(u)
             a == <<x>> \o r
  <2>5. r \in Seq(Packets) /\ Len(r) = d - p /\ <<x>> \in Seq(Packets) /\ Len(<<x>>) = 1
    BY <2>1, <2>4, <1>2, <1>4
  <2>6. \A k \in 1 .. d - p : r[k] = P(k + 1)
    <3>1. \A k \in 1 .. d - p : p + 1 + k - 1 = p + (k + 1) - 1
      BY <1>2
    <3> QED BY <3>1, <2>4, <2>5 DEF P
  <2>7. b \in Seq(Packets) /\ Len(b) = d - p + 1 /\ b[1] = x /\ \A k \in 1 .. d - p + 1 : b[k] = P(k)
    BY <1>1, <1>4
  <2>8. d - p \in Nat
    BY <1>2, <2>1
  <2> HIDE DEF r, b, x, P
  <2>9. a \in Seq(Packets) /\ Len(a) = d - p + 1
        /\ \A k \in 1 .. d - p + 1 : a[k] = IF k <= 1 THEN <<x>>[k] ELSE r[k - 1]
    BY <2>5, <2>8, ConcatProperties
  <2>10. ASSUME NEW k \in 1 .. d - p + 1 PROVE b[k] = a[k]
    <3>1. CASE k = 1
      BY <3>1, <2>7, <2>9, <2>8
    <3>2. CASE k # 1
      <4>1. k - 1 \in 1 .. d - p /\ (k - 1) + 1 = k /\ ~(k <= 1)
        BY <3>2, <2>8
      <4> QED BY <4>1, <2>6, <2>7, <2>9
    <3> QED BY <3>1, <3>2
  <2> HIDE DEF a
  <2>11. a = b
    BY <2>7, <2>9, <2>10, SeqEqual
  <2> QED BY <2>11, <2>2, <2>3 DEF a, b, x, r
<1> QED BY <1>4, <1>5, <1>6

-----------------------------------------------------------------------------
(* One lemma per action *)

Flows == OneSender /\ Real /\ Chained /\ Receiving /\ Reconstructed

LEMMA AtDiffers == \A u, p, r : At(u, p, r) # NotSending
<1> TAKE u, p, r
<1>1. "ready" \in DOMAIN At(u, p, r) /\ "ready" \notin DOMAIN NotSending
  BY DEF At, NotSending
<1> QED BY <1>1

LEMMA ReadyFlows ==
    ASSUME PairInv, NEW t \in Tasks, InterfaceReady(t)
    PROVE  Flows' /\ Forwards
<1>1. /\ sending \in [Tasks -> {NotSending} \cup Sends]
      /\ sending[t] # NotSending
      /\ sending' = [sending EXCEPT ![t] = At(t, sending[t].packet, TRUE)]
      /\ UNCHANGED <<queueVars, ni_in, ni_out, recvVars>>
  BY DEF InterfaceReady, Holds, niVars, PairInv, TypeInv, RingInv, TypeOK
<1>2. /\ sending'[t] # NotSending
      /\ sending'[t].to = sending[t].to /\ sending'[t].message = sending[t].message
      /\ sending'[t].packet = sending[t].packet
  <2>1. sending'[t] = At(t, sending[t].packet, TRUE)
    BY <1>1
  <2> QED BY <2>1, AtDiffers DEF At
<1>3. ASSUME NEW u \in Tasks
      PROVE  /\ sending'[u] = NotSending <=> sending[u] = NotSending
             /\ sending'[u].to = sending[u].to
             /\ sending[u] # NotSending => sending'[u].message = sending[u].message
             /\ Unsent(u)' = Unsent(u)
  <2>1. CASE u = t
    BY <2>1, <1>1, <1>2 DEF Unsent
  <2>2. CASE u # t
    <3>1. sending'[u] = sending[u]
      BY <2>2, <1>1
    <3> QED BY <3>1 DEF Unsent
  <2> QED BY <2>1, <2>2
<1>4. \A r \in Tasks : Remaining(r)' = Remaining(r)
  BY <1>3, RemainingSame
<1>5. \A r \in Tasks : Queue(r)' = Queue(r)
  BY <1>1, QueueKept
<1>6. \A r \in Tasks : Path(r)' = Path(r)
  BY <1>1, <1>4, <1>5, PathKept
<1>7. Chained' /\ Receiving' /\ Reconstructed' /\ Forwards
  BY <1>1, <1>6, Forwarded DEF PairInv
<1>8. Real'
  <2>1. \A u \in Tasks : sending'[u] # NotSending => sending'[u].to \in Tasks /\ sending'[u].message.from = u
    BY <1>3 DEF PairInv, Real
  <2> QED BY <2>1, <1>1 DEF PairInv, Real
<1>9. OneSender'
  <2> SUFFICES ASSUME NEW r \in Tasks PROVE \E f \in Tasks : Single(r, f)'
    BY DEF OneSender
  <2>1. PICK f \in Tasks : Single(r, f)
    BY DEF PairInv, OneSender
  <2>2. in_packet' = in_packet
    BY <1>1 DEF queueVars
  <2>3. Single(r, f)'
    BY <2>1, <2>2, <1>1, <1>3, <1>5 DEF Single, CarriesTo, SendingTo
  <2> QED BY <2>3
<1> QED BY <1>7, <1>8, <1>9 DEF Flows

LEMMA TransferFlows ==
    ASSUME PairInv, TypeInv', NEW c \in Cores, Transfer(c)
    PROVE  Flows' /\ Forwards
<1>0. PICK x : x = ni_out[c]
  OBVIOUS
<1>a. PICK t : t = x.to
  OBVIOUS
<1>b. PICK d : d = Home[t]
  OBVIOUS
<1>1. /\ ni_in \in [Cores -> Packets \cup {NoPacket}]
      /\ ni_out \in [Cores -> Packets \cup {NoPacket}]
      /\ x # NoPacket /\ x \in Packets
      /\ ni_in[d] = NoPacket
      /\ ni_in' = [ni_in EXCEPT ![d] = x]
      /\ ni_out' = [ni_out EXCEPT ![c] = NoPacket]
      /\ UNCHANGED <<queueVars, sending, recvVars>>
  BY <1>0, <1>a, <1>b DEF Transfer, PairInv, TypeInv, RingInv, TypeOK, sendVars
<1>2. t \in Tasks /\ d \in Cores
  BY <1>0, <1>a, <1>b, <1>1 DEF PairInv, Real
<1>3. ni_in' \in [Cores -> Packets \cup {NoPacket}] /\ ni_out' \in [Cores -> Packets \cup {NoPacket}]
  BY DEF TypeInv, RingInv, TypeOK
<1>4. PICK f \in Tasks : Single(t, f)
  BY <1>2 DEF PairInv, OneSender
<1>5. /\ ni_in'[d] = x /\ ni_out'[c] = NoPacket /\ x.to = t /\ d = Home[t] /\ ni_out[c] = x
      /\ \A e \in Cores \ {d} : ni_in'[e] = ni_in[e]
      /\ \A e \in Cores \ {c} : ni_out'[e] = ni_out[e]
  BY <1>0, <1>a, <1>b, <1>1, <1>2
<1>6. \A r \in Tasks : Remaining(r)' = Remaining(r)
  BY <1>1, RemainingKept
<1>7. \A r \in Tasks : Queue(r)' = Queue(r)
  BY <1>1, QueueKept
<1>8. ASSUME NEW r \in Tasks \ {t}
      PROVE  Path(r)' = Path(r)
  <2>1. Carriers(ni_in', r) = Carriers(ni_in, r) /\ \A e \in Carriers(ni_in, r) : ni_in'[e] = ni_in[e]
    BY <1>1, <1>5 DEF Carriers, CarriesTo
  <2>2. Carriers(ni_out', r) = Carriers(ni_out, r) /\ \A e \in Carriers(ni_out, r) : ni_out'[e] = ni_out[e]
    BY <1>1, <1>5 DEF Carriers, CarriesTo
  <2> QED BY <2>1, <2>2, <1>6, <1>7, InterfaceSame, PathKept
<1>9. /\ Carriers(ni_in, t) = {} /\ Carriers(ni_in', t) = {d}
      /\ Carriers(ni_out, t) = {c} /\ Carriers(ni_out', t) = {}
  <2>1. \A e \in Cores : CarriesTo(ni_in[e], t) => e = d
    BY <1>4, <1>5 DEF Single
  <2>2. \A e \in Cores : CarriesTo(ni_out[e], t) => e = Home[f]
    BY <1>4 DEF Single
  <2>3. CarriesTo(ni_out[c], t) /\ c = Home[f] /\ CarriesTo(ni_in'[d], t)
    BY <2>2, <1>1, <1>5 DEF CarriesTo
  <2>4. \A e \in Cores : ~CarriesTo(ni_in[e], t)
    BY <2>1, <1>1 DEF CarriesTo
  <2>5. \A e \in Cores : ~CarriesTo(ni_out'[e], t)
    BY <2>2, <2>3, <1>5 DEF CarriesTo
  <2>6. \A e \in Cores : CarriesTo(ni_in'[e], t) => e = d
    BY <2>4, <1>5
  <2> QED BY <2>2, <2>3, <2>4, <2>5, <2>6, <1>2 DEF Carriers
<1>10. /\ InInterfaces(ni_in, t) = << >> /\ InInterfaces(ni_in', t) = <<x>>
       /\ InInterfaces(ni_out, t) = <<x>> /\ InInterfaces(ni_out', t) = << >>
  <2>1. InInterfaces(ni_in, t) = << >>
    BY <1>1, <1>9, InterfaceOf
  <2>2. InInterfaces(ni_in', t) = <<x>>
    BY <1>2, <1>3, <1>5, <1>9, InterfaceOf
  <2>3. InInterfaces(ni_out, t) = <<x>>
    BY <1>1, <1>5, <1>9, InterfaceOf
  <2>4. InInterfaces(ni_out', t) = << >>
    BY <1>3, <1>9, InterfaceOf
  <2> QED BY <2>1, <2>2, <2>3, <2>4
<1>11. Path(t)' = Path(t)
  <2>1. /\ Path(t) = Queue(t) \o InInterfaces(ni_in, t) \o InInterfaces(ni_out, t) \o Remaining(t)
        /\ Path(t)' = Queue(t)' \o InInterfaces(ni_in', t) \o InInterfaces(ni_out', t) \o Remaining(t)'
        /\ Queue(t) \in Seq(Packets) /\ Remaining(t) \in Seq(Packets)
    BY <1>2, TypedShapes, ShapesNext DEF PairInv, Shapes, Shaped
  <2>2. Queue(t) \o << >> \o <<x>> \o Remaining(t) = Queue(t) \o <<x>> \o << >> \o Remaining(t)
    <3>1. Queue(t) \o << >> = Queue(t)
      BY <2>1, ConcatEmptySeq
    <3>2. Queue(t) \o <<x>> \in Seq(Packets)
      BY <2>1, <1>1, ConcatProperties
    <3>3. (Queue(t) \o <<x>>) \o << >> = Queue(t) \o <<x>>
      BY <3>2, ConcatEmptySeq
    <3> QED BY <3>1, <3>3
  <2> QED BY <2>1, <2>2, <1>2, <1>6, <1>7, <1>10
<1>12. \A r \in Tasks : Path(r)' = Path(r)
  BY <1>8, <1>11
<1>13. Chained' /\ Receiving' /\ Reconstructed' /\ Forwards
  BY <1>1, <1>12, Forwarded DEF PairInv
<1>14. Real'
  <2>1. \A e \in Cores : ni_in'[e] # NoPacket => ni_in'[e].to \in Tasks
    BY <1>2, <1>5 DEF PairInv, Real
  <2>2. \A e \in Cores : ni_out'[e] # NoPacket => ni_out'[e].to \in Tasks
    BY <1>5 DEF PairInv, Real
  <2> QED BY <2>1, <2>2, <1>1 DEF PairInv, Real
<1>15. OneSender'
  <2> SUFFICES ASSUME NEW r \in Tasks PROVE \E g \in Tasks : Single(r, g)'
    BY DEF OneSender
  <2>1. PICK g \in Tasks : Single(r, g)
    BY DEF PairInv, OneSender
  <2>2. in_packet' = in_packet /\ sending' = sending
    BY <1>1 DEF queueVars
  <2>3. \A e \in Cores : CarriesTo(ni_in'[e], r) => e = Home[r] /\ ni_in'[e].message.from = g
    <3> SUFFICES ASSUME NEW e \in Cores, CarriesTo(ni_in'[e], r)
                 PROVE  e = Home[r] /\ ni_in'[e].message.from = g
      OBVIOUS
    <3>1. CASE e = d
      <4>1. r = t /\ CarriesTo(ni_out[c], r) /\ ni_out[c] = ni_in'[e]
        BY <3>1, <1>5 DEF CarriesTo
      <4> QED BY <4>1, <3>1, <2>1, <1>5 DEF Single
    <3>2. CASE e # d
      BY <3>2, <2>1, <1>5 DEF Single
    <3> QED BY <3>1, <3>2
  <2>4. \A e \in Cores : CarriesTo(ni_out'[e], r) => e = Home[g] /\ ni_out'[e].message.from = g
    BY <2>1, <1>5 DEF Single, CarriesTo
  <2>5. Single(r, g)'
    BY <2>1, <2>2, <2>3, <2>4, <1>7 DEF Single, CarriesTo, SendingTo
  <2> QED BY <2>5
<1> QED BY <1>13, <1>14, <1>15 DEF Flows

LEMMA ISRFlows ==
    ASSUME PairInv, TypeInv', NEW c \in Cores, RecvCommServiceISR(c)
    PROVE  Flows' /\ Forwards
<1>0. PICK x : x = ni_in[c]
  OBVIOUS
<1>a. PICK t : t = x.to
  OBVIOUS
<1>1. /\ ni_in \in [Cores -> Packets \cup {NoPacket}]
      /\ ni_out \in [Cores -> Packets \cup {NoPacket}]
      /\ x # NoPacket /\ x \in Packets
      /\ UNCHANGED <<ni_out, sending, recvVars>>
  BY <1>0 DEF RecvCommServiceISR, PairInv, TypeInv, RingInv, TypeOK, sendVars
<1>2. t \in Tasks
  BY <1>0, <1>a, <1>1 DEF PairInv, Real
<1>3. PICK f \in Tasks : Single(t, f)
  BY <1>2 DEF PairInv, OneSender
<1>4. c = Home[t] /\ x.message.from = f
  BY <1>0, <1>a, <1>1, <1>3 DEF Single, CarriesTo
<1>5. Carriers(ni_in, t) = {c}
  BY <1>0, <1>a, <1>1, <1>3, <1>4 DEF Single, CarriesTo, Carriers
<1>6. InInterfaces(ni_in, t) = <<x>>
  BY <1>0, <1>1, <1>5, InterfaceOf
<1>7. /\ Path(t) = Queue(t) \o InInterfaces(ni_in, t) \o InInterfaces(ni_out, t) \o Remaining(t)
      /\ Path(t)' = Queue(t)' \o InInterfaces(ni_in', t) \o InInterfaces(ni_out', t) \o Remaining(t)'
      /\ Queue(t) \in Seq(Packets) /\ Remaining(t) \in Seq(Packets)
      /\ InInterfaces(ni_out, t) \in Seq(Packets)
      /\ Len(Queue(t)) = in_packet[t]
  BY <1>2, TypedShapes, ShapesNext DEF PairInv, Shapes, Shaped
<1>8. in_packet[t] + 1 <= HF_PACKET_SLOTS /\ in_packet[t] \in Nat
  <2>1. <<x>> \in Seq(Packets) /\ Len(<<x>>) = 1
    BY <1>1
  <2>2. Len(Path(t)) = Len(Queue(t)) + 1 + Len(InInterfaces(ni_out, t)) + Len(Remaining(t))
    <3>1. Path(t) = Queue(t) \o <<x>> \o InInterfaces(ni_out, t) \o Remaining(t)
      BY <1>6, <1>7
    <3>2. Len(Queue(t) \o <<x>> \o InInterfaces(ni_out, t) \o Remaining(t))
             = Len(Queue(t)) + 1 + Len(InInterfaces(ni_out, t)) + Len(Remaining(t))
      <4>1. \A q, w, u \in Seq(Packets), y \in Packets :
               Len(q \o <<y>> \o w \o u) = Len(q) + 1 + Len(w) + Len(u)
        BY Counted
      <4>2. /\ Queue(t) \in Seq(Packets) /\ Remaining(t) \in Seq(Packets)
            /\ InInterfaces(ni_out, t) \in Seq(Packets) /\ x \in Packets
        BY <1>1, <1>7
      <4> QED BY <4>1, <4>2
    <3> QED BY <3>1, <3>2
  <2>3. Len(Path(t)) <= HF_PACKET_SLOTS
    BY <1>2 DEF PairInv, Chained
  <2>4. /\ Len(Queue(t)) \in Nat /\ Len(InInterfaces(ni_out, t)) \in Nat /\ Len(Remaining(t)) \in Nat
    BY <1>7
  <2> QED BY <2>2, <2>3, <2>4, <1>7
<1>9. HasRoom(t)
  BY <1>8 DEF HasRoom
<1>10. /\ Store(t, x)
       /\ ni_in' = [ni_in EXCEPT ![c] = NoPacket]
  BY <1>0, <1>a, <1>1, <1>2, <1>9 DEF RecvCommServiceISR, Drained
<1>11. /\ Queue(t)' = Append(Queue(t), x)
       /\ \A r \in Tasks \ {t} : Queue(r)' = Queue(r)
  BY <1>1, <1>2, <1>9, <1>10, QueueStores DEF PairInv
<1>12. /\ ni_in'[c] = NoPacket /\ x.to = t /\ ni_in[c] = x
       /\ \A e \in Cores \ {c} : ni_in'[e] = ni_in[e]
       /\ ni_in' \in [Cores -> Packets \cup {NoPacket}]
  BY <1>0, <1>a, <1>1, <1>10
<1>13. \A r \in Tasks : Remaining(r)' = Remaining(r)
  BY <1>1, RemainingKept
<1>14. ASSUME NEW r \in Tasks \ {t}
       PROVE  Path(r)' = Path(r)
  <2>1. Carriers(ni_in', r) = Carriers(ni_in, r) /\ \A e \in Carriers(ni_in, r) : ni_in'[e] = ni_in[e]
    BY <1>1, <1>12 DEF Carriers, CarriesTo
  <2> QED BY <2>1, <1>1, <1>11, <1>13, InterfaceSame, PathKept
<1>15. Path(t)' = Path(t)
  <2>1. Carriers(ni_in', t) = {}
    BY <1>5, <1>12 DEF Carriers, CarriesTo
  <2>2. InInterfaces(ni_in', t) = << >>
    BY <2>1, <1>12, InterfaceOf
  <2>3. Queue(t) \o <<x>> \o InInterfaces(ni_out, t) \o Remaining(t)
           = Append(Queue(t), x) \o << >> \o InInterfaces(ni_out, t) \o Remaining(t)
    <3>1. \A q, w, u \in Seq(Packets), y \in Packets :
             q \o <<y>> \o w \o u = Append(q, y) \o << >> \o w \o u
      BY MovesIn
    <3>2. /\ Queue(t) \in Seq(Packets) /\ Remaining(t) \in Seq(Packets)
          /\ InInterfaces(ni_out, t) \in Seq(Packets) /\ x \in Packets
      BY <1>1, <1>7
    <3> QED BY <3>1, <3>2
  <2>4. ni_out' = ni_out
    BY <1>1
  <2> QED BY <2>2, <2>3, <2>4, <1>2, <1>6, <1>7, <1>11, <1>13
<1>16. \A r \in Tasks : Path(r)' = Path(r)
  BY <1>14, <1>15
<1>17. Chained' /\ Receiving' /\ Reconstructed' /\ Forwards
  BY <1>1, <1>16, Forwarded DEF PairInv
<1>18. Real'
  <2>1. \A e \in Cores : ni_in'[e] # NoPacket => ni_in'[e].to \in Tasks
    BY <1>12 DEF PairInv, Real
  <2> QED BY <2>1, <1>1 DEF PairInv, Real
<1>19. OneSender'
  <2> SUFFICES ASSUME NEW r \in Tasks PROVE \E g \in Tasks : Single(r, g)'
    BY DEF OneSender
  <2>1. PICK g \in Tasks : Single(r, g)
    BY DEF PairInv, OneSender
  <2>2. ASSUME NEW k \in 1 .. in_packet'[r] PROVE Queue(r)'[k].message.from = g
    <3>1. CASE r = t
      <4>1. CarriesTo(ni_in[c], r)
        BY <3>1, <1>1, <1>12 DEF CarriesTo
      <4>2. x.message.from = g
        BY <4>1, <2>1, <1>12 DEF Single
      <4>3. in_packet'[t] = in_packet[t] + 1
        BY <1>2, <1>10 DEF Store, PairInv, TypeInv, RingInv, TypeOK
      <4>4. k \in 1 .. in_packet[t] + 1
        BY <4>3, <3>1
      <4>5. \A j \in 1 .. in_packet[t] : Append(Queue(t), x)[j] = Queue(t)[j]
        BY <1>1, <1>7, AppendProperties
      <4>6. Append(Queue(t), x)[in_packet[t] + 1] = x
        BY <1>1, <1>7, AppendProperties
      <4>7. CASE k = in_packet[t] + 1
        BY <4>2, <4>6, <4>7, <3>1, <1>11
      <4>8. CASE k # in_packet[t] + 1
        <5>1. k \in 1 .. in_packet[t]
          BY <4>4, <4>8, <1>8
        <5> QED BY <5>1, <4>5, <3>1, <1>11, <2>1 DEF Single
      <4> QED BY <4>7, <4>8
    <3>2. CASE r # t
      <4>1. Queue(r)' = Queue(r) /\ in_packet'[r] = in_packet[r]
        BY <3>2, <1>2, <1>10, <1>11 DEF Store, PairInv, TypeInv, RingInv, TypeOK
      <4> QED BY <4>1, <2>1 DEF Single
    <3> QED BY <3>1, <3>2
  <2>3. \A e \in Cores : CarriesTo(ni_in'[e], r) => e = Home[r] /\ ni_in'[e].message.from = g
    BY <2>1, <1>12 DEF Single, CarriesTo
  <2>4. Single(r, g)'
    BY <2>1, <2>2, <2>3, <1>1 DEF Single, CarriesTo, SendingTo
  <2> QED BY <2>4
<1> QED BY <1>17, <1>18, <1>19 DEF Flows

LEMMA WriteFlows ==
    ASSUME PairInv, TypeInv', NEW s \in Tasks, WritePacket(s)
    PROVE  Flows' /\ Forwards
<1>1. PICK t : t = sending[s].to
  OBVIOUS
<1>2. PICK x : x = Outgoing(s)
  OBVIOUS
<1>3. PICK c : c = Home[s]
  OBVIOUS
<1>4. /\ ni_out \in [Cores -> Packets \cup {NoPacket}]
      /\ ni_out' = [ni_out EXCEPT ![c] = x]
      /\ sending \in [Tasks -> {NotSending} \cup Sends]
      /\ sending[s] # NotSending /\ sending[s].ready
      /\ \A u \in Tasks \ {s} : sending'[u] = sending[u]
      /\ UNCHANGED <<queueVars, ni_in, recvVars>>
  BY <1>2, <1>3 DEF WritePacket, Holds, PairInv, TypeInv, RingInv, TypeOK
<1>5. /\ t \in Tasks /\ c \in Cores /\ ni_out[c] = NoPacket
      /\ sending[s].message.from = s
  BY <1>1, <1>3, <1>4, HomeType DEF PairInv, Real, ReadyInv, InterfaceFree
<1>6. /\ x \in Packets /\ x # NoPacket
      /\ x.to = t /\ x.message = sending[s].message
      /\ LastPacket(s) => sending'[s] = NotSending /\ Unsent(s) = <<x>>
      /\ ~LastPacket(s) => /\ sending'[s] # NotSending /\ sending'[s].to = t
                           /\ sending'[s].message = sending[s].message
                           /\ Unsent(s) = <<x>> \o Unsent(s)'
  BY <1>1, <1>2, UnsentHead DEF PairInv, Outgoing
<1>7. ni_out' \in [Cores -> Packets \cup {NoPacket}]
  BY DEF TypeInv, RingInv, TypeOK
<1>8. /\ ni_out'[c] = x
      /\ \A e \in Cores \ {c} : ni_out'[e] = ni_out[e]
  BY <1>4, <1>5
<1>9. Single(t, s)
  <2>1. PICK f \in Tasks : Single(t, f)
    BY <1>5 DEF PairInv, OneSender
  <2>2. f = s
    BY <2>1, <1>1, <1>4 DEF Single, SendingTo
  <2> QED BY <2>1, <2>2
<1>10. \A u \in Tasks : SendingTo(u, t) <=> u = s
  BY <1>1, <1>4, <1>9 DEF Single, SendingTo
<1>11. \A r \in Tasks : Queue(r)' = Queue(r)
  BY <1>4, QueueKept
<1>12. ASSUME NEW r \in Tasks \ {t}
       PROVE  Path(r)' = Path(r)
  <2>1. Carriers(ni_out', r) = Carriers(ni_out, r) /\ \A e \in Carriers(ni_out, r) : ni_out'[e] = ni_out[e]
    BY <1>5, <1>6, <1>8 DEF Carriers, CarriesTo
  <2>2. \A u \in Tasks : sending'[u].to = r <=> sending[u].to = r
    <3>1. NotSending.to # r
      BY DEF NotSending
    <3> QED BY <3>1, <1>1, <1>4, <1>6
  <2>3. \A u \in Tasks : sending[u].to = r => Unsent(u)' = Unsent(u)
    BY <1>1, <1>4 DEF Unsent
  <2>4. Remaining(r)' = Remaining(r)
    BY <2>2, <2>3, RemainingSame
  <2>5. InInterfaces(ni_out', r) = InInterfaces(ni_out, r)
    BY <2>1, InterfaceSame
  <2>6. InInterfaces(ni_in', r) = InInterfaces(ni_in, r)
    BY <1>4
  <2> QED BY <2>4, <2>5, <2>6, <1>11, PathKept
<1>13. Carriers(ni_out, t) = {} /\ Carriers(ni_out', t) = {c}
  <2>1. \A e \in Cores : CarriesTo(ni_out[e], t) => e = c
    BY <1>3, <1>9 DEF Single
  <2>2. \A e \in Cores : ~CarriesTo(ni_out[e], t)
    BY <2>1, <1>5 DEF CarriesTo
  <2>3. \A e \in Cores : CarriesTo(ni_out'[e], t) <=> e = c
    BY <2>2, <1>6, <1>8 DEF CarriesTo
  <2> QED BY <2>2, <2>3, <1>5 DEF Carriers
<1>14. InInterfaces(ni_out, t) = << >> /\ InInterfaces(ni_out', t) = <<x>>
  <2>1. InInterfaces(ni_out, t) = << >>
    BY <1>4, <1>13, InterfaceOf
  <2>2. InInterfaces(ni_out', t) = <<ni_out'[c]>>
    BY <1>5, <1>7, <1>13, InterfaceOf
  <2> QED BY <2>1, <2>2, <1>8
<1>15. /\ Path(t) = Queue(t) \o InInterfaces(ni_in, t) \o << >> \o Unsent(s)
       /\ Path(t)' = Queue(t) \o InInterfaces(ni_in, t) \o <<x>> \o Remaining(t)'
       /\ Queue(t) \in Seq(Packets) /\ InInterfaces(ni_in, t) \in Seq(Packets)
       /\ Remaining(t)' \in Seq(Packets)
  <2>1. /\ Path(t) = Queue(t) \o InInterfaces(ni_in, t) \o InInterfaces(ni_out, t) \o Remaining(t)
        /\ Queue(t) \in Seq(Packets) /\ InInterfaces(ni_in, t) \in Seq(Packets)
        /\ Remaining(t) = Unsent(s)
    BY <1>5, <1>10, TypedShapes DEF PairInv, Shapes, Shaped
  <2>2. /\ Path(t)' = Queue(t)' \o InInterfaces(ni_in', t) \o InInterfaces(ni_out', t) \o Remaining(t)'
        /\ Remaining(t)' \in Seq(Packets)
    BY <1>5, ShapesNext DEF Shapes, Shaped
  <2> QED BY <2>1, <2>2, <1>4, <1>5, <1>11, <1>14
<1>16. Unsent(s) = <<x>> \o Remaining(t)'
  <2>1. CASE LastPacket(s)
    <3>1. \A u \in Tasks : sending'[u].to # t
      <4>1. NotSending.to # t
        BY <1>5 DEF NotSending
      <4>2. \A u \in Tasks \ {s} : sending[u].to # t
        BY <4>1, <1>10 DEF SendingTo
      <4> QED BY <4>1, <4>2, <2>1, <1>4, <1>6
    <3>2. Remaining(t)' = << >>
      BY <3>1 DEF Remaining
    <3>3. <<x>> \in Seq(Packets)
      BY <1>6
    <3>4. <<x>> \o << >> = <<x>>
      BY <3>3, ConcatEmptySeq
    <3> QED BY <3>2, <3>4, <2>1, <1>6
  <2>2. CASE ~LastPacket(s)
    <3>1. SendingTo(s, t)' /\ \A u \in Tasks : SendingTo(u, t)' => u = s
      BY <2>2, <1>4, <1>6, <1>10 DEF SendingTo
    <3>2. Remaining(t)' = Unsent(s)'
      BY <3>1, <1>5, ShapesNext DEF Shapes, Shaped
    <3> QED BY <3>2, <2>2, <1>6
  <2> QED BY <2>1, <2>2
<1>17. Path(t)' = Path(t)
  <2>1. \A q, i, u \in Seq(Packets), y \in Packets :
           q \o i \o << >> \o (<<y>> \o u) = q \o i \o <<y>> \o u
    BY MovesOut
  <2>2. \A q, i, u \in Seq(Packets) : q \o i \o << >> \o (<<x>> \o u) = q \o i \o <<x>> \o u
    BY <2>1, <1>6
  <2>3. Queue(t) \o InInterfaces(ni_in, t) \o << >> \o (<<x>> \o Remaining(t)')
          = Queue(t) \o InInterfaces(ni_in, t) \o <<x>> \o Remaining(t)'
    BY <2>2, <1>15
  <2> QED BY <2>3, <1>15, <1>16
<1>18. \A r \in Tasks : Path(r)' = Path(r)
  BY <1>12, <1>17
<1>19. Chained' /\ Receiving' /\ Reconstructed' /\ Forwards
  BY <1>4, <1>18, Forwarded DEF PairInv
<1>20. Real'
  <2>1. \A u \in Tasks : sending'[u] # NotSending => sending'[u].to \in Tasks /\ sending'[u].message.from = u
    BY <1>4, <1>5, <1>6 DEF PairInv, Real
  <2>2. \A e \in Cores : ni_out'[e] # NoPacket => ni_out'[e].to \in Tasks
    BY <1>5, <1>6, <1>8 DEF PairInv, Real
  <2> QED BY <2>1, <2>2, <1>4 DEF PairInv, Real
<1>21. OneSender'
  <2> SUFFICES ASSUME NEW r \in Tasks PROVE \E g \in Tasks : Single(r, g)'
    BY DEF OneSender
  <2>1. PICK g \in Tasks : Single(r, g)
    BY DEF PairInv, OneSender
  <2>2. in_packet' = in_packet
    BY <1>4 DEF queueVars
  <2>3. r = t => g = s
    BY <2>1, <1>1, <1>4 DEF Single, SendingTo
  <2>4. \A e \in Cores : CarriesTo(ni_out'[e], r) => e = Home[g] /\ ni_out'[e].message.from = g
    BY <2>1, <2>3, <1>3, <1>5, <1>6, <1>8 DEF Single, CarriesTo
  <2>5. \A u \in Tasks : SendingTo(u, r)' => u = g
    BY <2>1, <2>3, <1>4, <1>6 DEF Single, SendingTo
  <2>6. Single(r, g)'
    BY <2>1, <2>2, <2>4, <2>5, <1>4, <1>11 DEF Single, CarriesTo
  <2> QED BY <2>6
<1> QED BY <1>19, <1>20, <1>21 DEF Flows

LEMMA ReceiveFlows ==
    ASSUME PairInv, NEW t \in Tasks, NEW timed \in BOOLEAN, HF_NB_Receive(t, timed)
    PROVE  Flows' /\ \A r \in Tasks : Stream(r)' = Stream(r)
<1>1. /\ receiving[t] = "no"
      /\ receiving \in [Tasks -> {"no", "untimed", "timed"}]
      /\ buf \in [Tasks -> Seq(Packets)]
      /\ returned \in [Tasks -> {NotReturned, HF_OK, HF_SEQ_ERROR, HF_COMM_TIMEOUT}]
      /\ UNCHANGED <<queueVars, ni_in, ni_out, sending>>
      /\ buf'[t] = << >> /\ returned'[t] = NotReturned
      /\ \A r \in Tasks \ {t} : receiving'[r] = receiving[r] /\ buf'[r] = buf[r] /\ returned'[r] = returned[r]
  BY DEF HF_NB_Receive, Outside, niVars, sendVars, PairInv, TypeInv, RingInv, TypeOK
<1>2. \A r \in Tasks : Path(r)' = Path(r)
  BY <1>1, QueueKept, RemainingKept, PathKept
<1>3. \A r \in Tasks : CopiedSoFar(r)' = CopiedSoFar(r)
  BY <1>1 DEF CopiedSoFar
<1>8. \A r \in Tasks : Stream(r)' = Stream(r)
  BY <1>2, <1>3 DEF Stream
<1>4. Chained'
  BY <1>8, <1>2 DEF PairInv, Chained, Chain, Follows, PCount
<1>5. Receiving'
  <2> SUFFICES ASSUME NEW r \in Tasks, receiving'[r] # "no"
               PROVE  returned'[r] = NotReturned /\ Partial(buf[r])'
    BY DEF Receiving
  <2>1. CASE r = t
    <3>1. Len(buf'[r]) = 0
      BY <2>1, <1>1
    <3> QED BY <3>1, <2>1, <1>1 DEF Partial
  <2>2. CASE r # t
    <3>1. /\ receiving'[r] = receiving[r] /\ buf'[r] = buf[r] /\ returned'[r] = returned[r]
      BY <2>2, <1>1
    <3>2. returned[r] = NotReturned /\ Partial(buf[r])
      BY <3>1 DEF PairInv, Receiving
    <3> QED BY <3>1, <3>2 DEF Partial, PCount
  <2> QED BY <2>1, <2>2
<1>6. Reconstructed'
  <2>1. NotReturned # HF_OK
    BY DEF NotReturned, HF_OK
  <2>2. ASSUME NEW r \in Tasks, returned'[r] = HF_OK PROVE Whole(buf[r])'
    <3>1. r # t
      BY <2>1, <2>2, <1>1
    <3>2. buf'[r] = buf[r] /\ returned'[r] = returned[r]
      BY <3>1, <1>1
    <3>3. Whole(buf[r])
      BY <3>2, <2>2 DEF PairInv, Reconstructed
    <3> QED BY <3>2, <3>3 DEF Whole
  <2> QED BY <2>2 DEF Reconstructed
<1>7. OneSender' /\ Real'
  <2>1. ASSUME NEW r \in Tasks, NEW f \in Tasks, Single(r, f) PROVE Single(r, f)'
    <3>1. Queue(r)' = Queue(r) /\ in_packet' = in_packet
      BY <1>1, QueueKept DEF queueVars
    <3> QED BY <3>1, <2>1, <1>1 DEF Single, CarriesTo, SendingTo
  <2>2. OneSender'
    BY <2>1 DEF PairInv, OneSender
  <2> QED BY <2>2, <1>1 DEF PairInv, Real
<1> QED BY <1>4, <1>5, <1>6, <1>7, <1>8 DEF Flows

\* A packet that continues what was copied, or begins a message.
LEMMA Continued ==
    ASSUME NEW b \in Seq(Packets), NEW x \in Packets, Partial(b),
           b = << >> => x.seq = 1, b # << >> => Follows(b[Len(b)], x)
    PROVE  LET w == Append(b, x)
           IN  /\ w \in Seq(Packets)
               /\ w # << >> /\ w[1].message = x.message
               /\ Len(w) \in Nat /\ x.seq = Len(w) /\ Len(w) <= PCount(x)
               /\ \A k \in 1 .. Len(w) : w[k].seq = k /\ w[k].message = w[1].message
<1> DEFINE w == Append(b, x)
           d == Len(b)
<1>1. /\ w \in Seq(Packets) /\ Len(w) = d + 1 /\ d \in Nat
      /\ \A k \in 1 .. d : w[k] = b[k]
      /\ w[d + 1] = x
  BY AppendProperties
<1>2. x.message \in Messages /\ PCount(x) \in Nat \ {0}
  BY CountPositive DEF Packets, PCount
<1>3. (b = << >> <=> d = 0) /\ (w = << >> <=> Len(w) = 0)
  BY <1>1
<1> HIDE DEF w, d
<1>4. \A k \in 1 .. d : b[k].seq = k /\ b[k].message = b[1].message
  BY DEF Partial, d
<1>5. w[1].message = x.message /\ x.seq = d + 1 /\ d + 1 <= PCount(x)
  <2>1. CASE d = 0
    BY <2>1, <1>1, <1>2, <1>3
  <2>2. CASE d # 0
    <3>1. d \in 1 .. d /\ 1 \in 1 .. d
      BY <2>2, <1>1
    <3>2. b[d].seq = d /\ b[d].message = b[1].message /\ w[1] = b[1]
      BY <3>1, <1>1, <1>4
    <3>3. d < PCount(b[1]) /\ PCount(b[d]) = PCount(b[1])
      BY <3>2, <2>2, <1>3 DEF Partial, PCount, d
    <3>4. x.message = b[d].message /\ x.seq = d + 1
      BY <3>2, <3>3, <2>2, <1>3 DEF Follows, d
    <3>5. PCount(x) = PCount(b[1])
      BY <3>2, <3>4 DEF PCount
    <3> QED BY <3>2, <3>3, <3>4, <3>5, <1>1, <1>2
  <2> QED BY <2>1, <2>2
<1>6. ASSUME NEW k \in 1 .. d + 1 PROVE w[k].seq = k /\ w[k].message = w[1].message
  <2>1. CASE k = d + 1
    BY <2>1, <1>1, <1>5
  <2>2. CASE k # d + 1
    <3>1. k \in 1 .. d /\ 1 \in 1 .. d
      BY <2>2, <1>1
    <3> QED BY <3>1, <1>1, <1>4
  <2> QED BY <2>1, <2>2
<1> QED BY <1>1, <1>3, <1>5, <1>6 DEF w

LEMMA TakeFlows ==
    ASSUME PairInv, TypeInv', NEW t \in Tasks, TakePacket(t)
    PROVE  Flows' /\ Taken(t)
<1>1. PICK x : x = packet_in[t][start[t]]
  OBVIOUS
<1>2. PICK b : b = buf[t]
  OBVIOUS
<1>3. PICK w : w = Append(b, x)
  OBVIOUS
<1>4. PICK p : p = Path(t)'
  OBVIOUS
<1>5. /\ receiving \in [Tasks -> {"no", "untimed", "timed"}]
      /\ buf \in [Tasks -> Seq(Packets)]
      /\ returned \in [Tasks -> {NotReturned, HF_OK, HF_SEQ_ERROR, HF_COMM_TIMEOUT}]
      /\ b \in Seq(Packets)
      /\ receiving[t] # "no"
      /\ returned[t] = NotReturned /\ Partial(b)
  BY <1>2 DEF TakePacket, PairInv, TypeInv, RingInv, TypeOK, Receiving
<1>6. /\ UNCHANGED <<ni_in, ni_out, sending>>
      /\ in_packet' = [in_packet EXCEPT ![t] = @ - 1]
      /\ buf'[t] = w
      /\ Complete(w) => receiving'[t] = "no"
      /\ ~Complete(w) => receiving'[t] = receiving[t] /\ returned'[t] = returned[t]
      /\ \A r \in Tasks \ {t} : receiving'[r] = receiving[r] /\ buf'[r] = buf[r] /\ returned'[r] = returned[r]
  <2>1. /\ UNCHANGED <<ni_in, ni_out, sending>>
        /\ in_packet' = [in_packet EXCEPT ![t] = @ - 1]
        /\ buf' = [buf EXCEPT ![t] = w]
    BY <1>1, <1>2, <1>3 DEF TakePacket, niVars, sendVars
  <2>2. CASE Complete(w)
    <3>1. receiving' = [receiving EXCEPT ![t] = "no"]
      BY <2>2, <1>1, <1>2, <1>3 DEF TakePacket
    <3>2. \A r \in Tasks \ {t} : returned'[r] = returned[r]
      BY <2>2, <1>1, <1>2, <1>3, <1>5 DEF TakePacket
    <3> QED BY <3>1, <3>2, <2>1, <2>2, <1>5
  <2>3. CASE ~Complete(w)
    <3>1. UNCHANGED <<receiving, returned>>
      BY <2>3, <1>1, <1>2, <1>3 DEF TakePacket
    <3> QED BY <3>1, <2>1, <2>3, <1>5
  <2> QED BY <2>2, <2>3
<1>7. /\ x \in Packets
      /\ Queue(t) = <<x>> \o Queue(t)'
      /\ \A r \in Tasks \ {t} : Queue(r)' = Queue(r)
  BY <1>1, QueueTakes DEF PairInv
<1>8. \A r \in Tasks : Remaining(r)' = Remaining(r)
  BY <1>6, RemainingKept
<1>9. \A r \in Tasks \ {t} : Path(r)' = Path(r)
  BY <1>6, <1>7, <1>8, PathKept
<1>10. p \in Seq(Packets) /\ Path(t) = <<x>> \o p
  <2>1. /\ Path(t) = Queue(t) \o InInterfaces(ni_in, t) \o InInterfaces(ni_out, t) \o Remaining(t)
        /\ InInterfaces(ni_in, t) \in Seq(Packets) /\ InInterfaces(ni_out, t) \in Seq(Packets)
        /\ Remaining(t) \in Seq(Packets)
    BY TypedShapes DEF PairInv, Shapes, Shaped
  <2>2. /\ Path(t)' = Queue(t)' \o InInterfaces(ni_in', t) \o InInterfaces(ni_out', t) \o Remaining(t)'
        /\ Path(t)' \in Seq(Packets) /\ Queue(t)' \in Seq(Packets)
    BY ShapesNext DEF Shapes, Shaped
  <2>3. p = Queue(t)' \o InInterfaces(ni_in, t) \o InInterfaces(ni_out, t) \o Remaining(t)
    BY <2>2, <1>4, <1>6, <1>8
  <2>4. Path(t) = (<<x>> \o Queue(t)') \o InInterfaces(ni_in, t) \o InInterfaces(ni_out, t) \o Remaining(t)
    BY <2>1, <1>7
  <2>5. PICK q, i, o, u : /\ q = Queue(t)' /\ i = InInterfaces(ni_in, t)
                          /\ o = InInterfaces(ni_out, t) /\ u = Remaining(t)
    OBVIOUS
  <2>6. q \in Seq(Packets) /\ i \in Seq(Packets) /\ o \in Seq(Packets) /\ u \in Seq(Packets)
    BY <2>1, <2>2, <2>5
  <2>7. (<<x>> \o q) \o i \o o \o u = <<x>> \o (q \o i \o o \o u)
    <3>1. PICK y : y = <<x>>
      OBVIOUS
    <3>2. y \in Seq(Packets)
      BY <3>1, <1>7
    <3>3. PICK qi : qi = q \o i
      OBVIOUS
    <3>4. PICK qio : qio = qi \o o
      OBVIOUS
    <3>5. qi \in Seq(Packets)
      BY <3>3, <2>6, ConcatProperties
    <3>6. qio \in Seq(Packets)
      BY <3>4, <3>5, <2>6, ConcatProperties
    <3>7. (y \o q) \o i = y \o qi
      BY <3>2, <3>3, <2>6, ConcatAssociative
    <3>8. (y \o qi) \o o = y \o qio
      BY <3>2, <3>4, <3>5, <2>6, ConcatAssociative
    <3>9. (y \o qio) \o u = y \o (qio \o u)
      <4>1. u \in Seq(Packets)
        BY <2>6
      <4> QED BY <3>2, <3>6, <4>1, ConcatAssociative
    <3> QED BY <3>1, <3>3, <3>4, <3>7, <3>8, <3>9
  <2> QED BY <2>2, <2>3, <2>4, <2>5, <2>7, <1>4
<1>11. Chain(b \o (<<x>> \o p)) /\ Len(<<x>> \o p) <= HF_PACKET_SLOTS
  BY <1>2, <1>5, <1>10 DEF PairInv, Chained, Stream, CopiedSoFar
<1>12. /\ b = << >> => x.seq = 1
       /\ b # << >> => Follows(b[Len(b)], x)
       /\ ~(x.seq < PCount(x)) => Chain(p)
  BY <1>5, <1>7, <1>10, <1>11, ChainNext
<1>13. /\ w \in Seq(Packets)
       /\ w # << >> /\ w[1].message = x.message
       /\ Len(w) \in Nat /\ x.seq = Len(w) /\ Len(w) <= PCount(x)
       /\ \A k \in 1 .. Len(w) : w[k].seq = k /\ w[k].message = w[1].message
  BY <1>3, <1>5, <1>7, <1>12, Continued
<1>14. PCount(x) \in Nat /\ PacketCount(w[1].message.size) = PCount(x)
  <2>1. x.message \in Messages
    BY <1>7 DEF Packets
  <2> QED BY <2>1, <1>13, CountType DEF PCount
<1>15. Chain(Stream(t)')
  <2>1. Stream(t)' = IF receiving'[t] = "no" THEN << >> \o p ELSE w \o p
    BY <1>4, <1>6 DEF Stream, CopiedSoFar
  <2>2. CASE Complete(w)
    <3>1. Stream(t)' = p
      BY <2>1, <2>2, <1>6, <1>10, ConcatEmptySeq
    <3>2. ~(x.seq < PCount(x))
      BY <2>2, <1>13, <1>14 DEF Complete
    <3> QED BY <3>1, <3>2, <1>12
  <2>3. CASE ~Complete(w)
    <3>1. Stream(t)' = w \o p
      BY <2>1, <2>3, <1>5, <1>6
    <3>2. w = b \o <<x>> /\ <<x>> \in Seq(Packets)
      BY <1>3, <1>5, <1>7, AppendIsConcat
    <3>3. w \o p = b \o (<<x>> \o p)
      BY <3>2, <1>5, <1>10, ConcatAssociative
    <3> QED BY <3>1, <3>3, <1>11
  <2> QED BY <2>2, <2>3
<1>16. Chained'
  <2>1. \A r \in Tasks : Chain(Stream(r)')
    <3> SUFFICES ASSUME NEW r \in Tasks \ {t} PROVE Chain(Stream(r)')
      BY <1>15
    <3>1. Stream(r)' = Stream(r)
      BY <1>6, <1>9 DEF Stream, CopiedSoFar
    <3> QED BY <3>1 DEF PairInv, Chained
  <2>2. Len(p) <= HF_PACKET_SLOTS
    <3>1. Len(<<x>>) = 1 /\ <<x>> \in Seq(Packets) /\ Len(p) \in Nat
      BY <1>7, <1>10
    <3>2. Len(<<x>> \o p) = 1 + Len(p)
      BY <3>1, <1>10, ConcatProperties
    <3> QED BY <3>1, <3>2, <1>11
  <2>3. \A r \in Tasks : Len(Path(r)') <= HF_PACKET_SLOTS
    BY <2>2, <1>4, <1>9 DEF PairInv, Chained
  <2> QED BY <2>1, <2>3 DEF Chained, Chain, Follows, PCount
<1>17. Receiving'
  <2> SUFFICES ASSUME NEW r \in Tasks, receiving'[r] # "no"
               PROVE  returned'[r] = NotReturned /\ Partial(buf[r])'
    BY DEF Receiving
  <2>1. CASE r = t
    <3>1. ~Complete(w)
      BY <2>1, <1>6
    <3>2. Len(w) < PCount(w[1])
      BY <3>1, <1>13, <1>14 DEF Complete, PCount
    <3> QED BY <3>1, <3>2, <2>1, <1>5, <1>6, <1>13 DEF Partial, PCount
  <2>2. CASE r # t
    <3>1. /\ receiving'[r] = receiving[r] /\ buf'[r] = buf[r] /\ returned'[r] = returned[r]
      BY <2>2, <1>6
    <3>2. returned[r] = NotReturned /\ Partial(buf[r])
      BY <3>1 DEF PairInv, Receiving
    <3> QED BY <3>1, <3>2 DEF Partial, PCount
  <2> QED BY <2>1, <2>2
<1>18. Reconstructed'
  <2> SUFFICES ASSUME NEW r \in Tasks, returned'[r] = HF_OK
               PROVE  Whole(buf[r])'
    BY DEF Reconstructed
  <2>1. CASE r = t
    <3>1. Complete(w)
      BY <2>1, <1>5, <1>6 DEF NotReturned, HF_OK
    <3>2. Len(w) = PacketCount(w[1].message.size)
      BY <3>1, <1>13, <1>14 DEF Complete
    <3> QED BY <3>2, <2>1, <1>6, <1>13 DEF Whole
  <2>2. CASE r # t
    <3>1. buf'[r] = buf[r] /\ returned'[r] = returned[r]
      BY <2>2, <1>6
    <3> QED BY <3>1 DEF PairInv, Reconstructed, Whole
  <2> QED BY <2>1, <2>2
<1>19. Real'
  BY <1>6 DEF PairInv, Real
<1>20. OneSender'
  <2> SUFFICES ASSUME NEW r \in Tasks PROVE \E g \in Tasks : Single(r, g)'
    BY DEF OneSender
  <2>1. PICK g \in Tasks : Single(r, g)
    BY DEF PairInv, OneSender
  <2>2. \A k \in 1 .. in_packet'[r] : Queue(r)'[k].message.from = g
    <3>1. CASE r = t
      <4>1. PICK q : q = Queue(t)'
        OBVIOUS
      <4>2. q \in Seq(Packets) /\ Len(q) = in_packet'[t] /\ Len(q) \in Nat
        BY <4>1, ShapesNext DEF Shapes, Shaped
      <4>3. Len(Queue(t)) = in_packet[t] /\ in_packet[t] \in Nat
        BY QueueTyped DEF PairInv
      <4>4. /\ <<x>> \in Seq(Packets) /\ Len(<<x>>) = 1
            /\ Queue(t) = <<x>> \o q
        BY <4>1, <1>7
      <4>5. /\ Len(<<x>> \o q) = 1 + Len(q)
            /\ \A k \in 1 .. 1 + Len(q) : (<<x>> \o q)[k] = IF k <= 1 THEN <<x>>[k] ELSE q[k - 1]
        BY <4>2, <4>4, ConcatProperties
      <4>6. ASSUME NEW k \in 1 .. Len(q) PROVE q[k].message.from = g
        <5>1. k + 1 \in 1 .. 1 + Len(q) /\ ~(k + 1 <= 1) /\ k + 1 - 1 = k
          BY <4>2
        <5>2. Queue(t)[k + 1] = q[k] /\ k + 1 \in 1 .. in_packet[t]
          BY <5>1, <4>3, <4>4, <4>5
        <5> QED BY <5>2, <3>1, <2>1 DEF Single
      <4> QED BY <4>1, <4>2, <4>6, <3>1
    <3>2. CASE r # t
      <4>1. in_packet'[r] = in_packet[r] /\ Queue(r)' = Queue(r)
        BY <3>2, <1>6, <1>7 DEF PairInv, TypeInv, RingInv, TypeOK
      <4> QED BY <4>1, <2>1 DEF Single
    <3> QED BY <3>1, <3>2
  <2>3. Single(r, g)'
    BY <2>1, <2>2, <1>6 DEF Single, CarriesTo, SendingTo
  <2> QED BY <2>3
<1>21. Taken(t)
  <2>1. \A r \in Tasks \ {t} : Stream(r)' = Stream(r)
    BY <1>6, <1>9 DEF Stream, CopiedSoFar
  <2>2. Stream(t) = b \o (<<x>> \o p)
    BY <1>2, <1>5, <1>10 DEF Stream, CopiedSoFar
  <2>3. w = b \o <<x>> /\ <<x>> \in Seq(Packets)
    BY <1>3, <1>5, <1>7, AppendIsConcat
  <2>4. w \o p = b \o (<<x>> \o p)
    BY <2>3, <1>5, <1>10, ConcatAssociative
  <2>5. Stream(t) = w \o p
    BY <2>2, <2>4
  <2>6. Stream(t)' = IF receiving'[t] = "no" THEN << >> \o p ELSE w \o p
    BY <1>4, <1>6 DEF Stream, CopiedSoFar
  <2>7. CASE Complete(w)
    <3>1. Stream(t)' = p
      BY <2>6, <2>7, <1>6, <1>10, ConcatEmptySeq
    <3>2. receiving'[t] = "no" /\ returned'[t] # NotReturned
      <4>1. returned'[t] = IF DEBUG /\ ~InSequence(w) THEN HF_SEQ_ERROR ELSE HF_OK
        BY <2>7, <1>1, <1>2, <1>3, <1>5 DEF TakePacket
      <4>2. HF_OK # NotReturned /\ HF_SEQ_ERROR # NotReturned
        BY DEF HF_OK, HF_SEQ_ERROR, NotReturned
      <4> QED BY <4>1, <4>2, <2>7, <1>6
    <3>3. Whole(w)
      <4>1. Len(w) = PacketCount(w[1].message.size)
        BY <2>7, <1>13, <1>14 DEF Complete
      <4> QED BY <4>1, <1>13 DEF Whole
    <3> QED BY <3>1, <3>2, <3>3, <2>1, <2>5, <1>5, <1>6, <1>10, <1>13 DEF Taken
  <2>8. CASE ~Complete(w)
    <3>1. /\ Stream(t)' = Stream(t)
          /\ receiving'[t] = receiving[t] /\ returned'[t] = NotReturned
      BY <2>5, <2>6, <2>8, <1>5, <1>6
    <3> QED BY <3>1, <2>1, <1>5, <1>6 DEF Taken
  <2> QED BY <2>7, <2>8
<1> QED BY <1>16, <1>17, <1>18, <1>19, <1>20, <1>21 DEF Flows

\* Everything under way to the target of a call that Window lets through is the
\* caller's own, and none of it is left with a sender.
LEMMA WindowSingle ==
    ASSUME PairInv, NEW f \in Tasks, NEW t \in Tasks, NEW size, Window(f, t, size), sending[f] = NotSending
    PROVE  Single(t, f) /\ \A u \in Tasks : ~SendingTo(u, t)
<1>1. PICK g \in Tasks : Single(t, g)
  BY DEF PairInv, OneSender
<1>2. PICK q, i, o, r : /\ q = Queue(t) /\ i = InInterfaces(ni_in, t)
                        /\ o = InInterfaces(ni_out, t) /\ r = Remaining(t)
  OBVIOUS
<1>3. /\ q \in Seq(Packets) /\ i \in Seq(Packets) /\ o \in Seq(Packets) /\ r \in Seq(Packets)
      /\ Len(q) = in_packet[t]
      /\ Path(t) = q \o i \o o \o r
  BY <1>2, TypedShapes DEF PairInv, Shapes, Shaped
<1>4. /\ Path(t) \in Seq(Packets)
      /\ Len(Path(t)) = Len(q) + Len(i) + Len(o) + Len(r)
      /\ \A k \in 1 .. Len(q) : Path(t)[k] = q[k]
      /\ \A k \in 1 .. Len(i) : Path(t)[Len(q) + k] = i[k]
      /\ \A k \in 1 .. Len(o) : Path(t)[Len(q) + Len(i) + k] = o[k]
      /\ \A k \in 1 .. Len(r) : Path(t)[Len(q) + Len(i) + Len(o) + k] = r[k]
  <2>1. PICK w : w = q \o i \o o \o r
    OBVIOUS
  <2>2. q \in Seq(Packets) /\ i \in Seq(Packets) /\ o \in Seq(Packets) /\ r \in Seq(Packets)
    BY <1>3
  <2>3. /\ w \in Seq(Packets)
        /\ Len(w) = Len(q) + Len(i) + Len(o) + Len(r)
        /\ \A k \in 1 .. Len(q) : w[k] = q[k]
        /\ \A k \in 1 .. Len(i) : w[Len(q) + k] = i[k]
        /\ \A k \in 1 .. Len(o) : w[Len(q) + Len(i) + k] = o[k]
        /\ \A k \in 1 .. Len(r) : w[Len(q) + Len(i) + Len(o) + k] = r[k]
    BY <2>1, <2>2, Joined
  <2> QED BY <2>1, <2>3, <1>3
<1>5. /\ Len(q) \in Nat /\ Len(i) \in Nat /\ Len(o) \in Nat /\ Len(r) \in Nat
      /\ \A k \in 1 .. Len(Path(t)) : Path(t)[k].message.from = f
  <2>1. DOMAIN Path(t) = 1 .. Len(Path(t))
    BY <1>4
  <2>2. \A k \in DOMAIN Path(t) : Path(t)[k].message.from = f
    BY DEF Window
  <2>3. \A k \in 1 .. Len(Path(t)) : Path(t)[k].message.from = f
    BY <2>1, <2>2
  <2>4. /\ Len(q) \in Nat /\ Len(i) \in Nat /\ Len(o) \in Nat /\ Len(r) \in Nat
    BY <1>3
  <2> QED BY <2>3, <2>4
<1>6. ni_in \in [Cores -> Packets \cup {NoPacket}] /\ ni_out \in [Cores -> Packets \cup {NoPacket}]
  BY DEF PairInv, TypeInv, RingInv, TypeOK
<1>7. \A k \in 1 .. in_packet[t] : Queue(t)[k].message.from = f
  <2> SUFFICES ASSUME NEW k \in 1 .. Len(q) PROVE q[k].message.from = f
    BY <1>2, <1>3
  <2>1. k \in 1 .. Len(Path(t))
    BY <1>4, <1>5
  <2> QED BY <2>1, <1>4, <1>5
<1>8. ASSUME NEW c \in Cores, CarriesTo(ni_in[c], t)
      PROVE  c = Home[t] /\ ni_in[c].message.from = f
  <2>1. Carriers(ni_in, t) = {c} /\ c = Home[t]
    BY <1>1, <1>8 DEF Single, Carriers
  <2>2. i = <<ni_in[c]>>
    BY <2>1, <1>2, <1>6, InterfaceOf
  <2>3. Len(i) = 1 /\ i[1] = ni_in[c]
    BY <2>2
  <2>4. Len(q) + 1 \in 1 .. Len(Path(t)) /\ 1 \in 1 .. Len(i)
    BY <2>3, <1>4, <1>5
  <2> QED BY <2>1, <2>3, <2>4, <1>4, <1>5
<1>9. ASSUME NEW c \in Cores, CarriesTo(ni_out[c], t)
      PROVE  c = Home[f] /\ ni_out[c].message.from = f
  <2>1. Carriers(ni_out, t) = {c} /\ c = Home[g] /\ ni_out[c].message.from = g
    BY <1>1, <1>9 DEF Single, Carriers
  <2>2. o = <<ni_out[c]>>
    BY <2>1, <1>2, <1>6, InterfaceOf
  <2>3. Len(o) = 1 /\ o[1] = ni_out[c]
    BY <2>2
  <2>4. Len(q) + Len(i) + 1 \in 1 .. Len(Path(t)) /\ 1 \in 1 .. Len(o)
    BY <2>3, <1>4, <1>5
  <2> QED BY <2>1, <2>3, <2>4, <1>4, <1>5
<1>10. ASSUME NEW u \in Tasks, SendingTo(u, t)
       PROVE  FALSE
  <2>1. \A v \in Tasks : SendingTo(v, t) => v = u
    BY <1>1, <1>10 DEF Single
  <2>2. r = Unsent(u)
    BY <2>1, <1>2, <1>10, SenderOf DEF PairInv
  <2>3. Unsent(u) \in Seq(Packets) /\ Unsent(u) # << >>
        /\ \A k \in 1 .. Len(Unsent(u)) : Unsent(u)[k].message = sending[u].message
    <3>1. /\ Unsent(u) \in Seq(Packets) /\ Unsent(u) # << >>
          /\ \A k \in 1 .. Len(Unsent(u)) :
                Unsent(u)[k] = [to |-> sending[u].to, message |-> sending[u].message,
                                seq |-> sending[u].packet + k - 1]
      BY <1>10, UnsentTyped DEF PairInv, SendingTo
    <3>2. \A k \in 1 .. Len(Unsent(u)) : Unsent(u)[k].message = sending[u].message
      <4> SUFFICES ASSUME NEW k \in 1 .. Len(Unsent(u))
                   PROVE  Unsent(u)[k].message = sending[u].message
        OBVIOUS
      <4>1. Unsent(u)[k] = [to |-> sending[u].to, message |-> sending[u].message,
                            seq |-> sending[u].packet + k - 1]
        BY <3>1
      <4> HIDE DEF Unsent
      <4> QED BY <4>1
    <3> QED BY <3>1, <3>2
  <2>4. Len(r) # 0 /\ 1 \in 1 .. Len(r) /\ r[1].message = sending[u].message
    BY <2>2, <2>3, <1>5
  <2>5. Len(q) + Len(i) + Len(o) + 1 \in 1 .. Len(Path(t))
    BY <2>4, <1>4, <1>5
  <2>6. sending[u].message.from = f
    BY <2>4, <2>5, <1>4, <1>5
  <2>7. u = f
    BY <2>6, <1>10 DEF PairInv, Real, SendingTo
  <2> QED BY <2>7, <1>10 DEF SendingTo
<1> QED BY <1>7, <1>8, <1>9, <1>10 DEF Single

LEMMA SendFlows ==
    ASSUME PairInv, TypeInv', NEW m \in Messages, NEW t \in Tasks, NEW timed \in BOOLEAN,
           Window(m.from, t, m.size), HF_NB_Send(m.from, t, m, timed)
    PROVE  Flows' /\ Sent(t, m)
<1>1. PICK f : f = m.from
  OBVIOUS
<1>2. /\ f \in Tasks
      /\ sending \in [Tasks -> {NotSending} \cup Sends]
      /\ sending[f] = NotSending
      /\ sending' = [sending EXCEPT ![f] = [to |-> t, message |-> m, packet |-> 1,
                                            timed |-> timed, ready |-> FALSE]]
      /\ UNCHANGED <<queueVars, ni_in, ni_out, recvVars>>
  BY <1>1 DEF HF_NB_Send, Outside, niVars, Messages, PairInv, TypeInv, RingInv, TypeOK
<1>3. /\ sending'[f].to = t /\ sending'[f].message = m /\ sending'[f].packet = 1
      /\ sending'[f] # NotSending
      /\ \A u \in Tasks \ {f} : sending'[u] = sending[u]
  <2>1. sending'[f] = [to |-> t, message |-> m, packet |-> 1, timed |-> timed, ready |-> FALSE]
    BY <1>2
  <2>2. "ready" \in DOMAIN sending'[f] /\ "ready" \notin DOMAIN NotSending
    BY <2>1 DEF NotSending
  <2>3. sending'[f] # NotSending
    BY <2>2
  <2> QED BY <2>1, <2>3, <1>2
<1>4. Single(t, f) /\ \A u \in Tasks : ~SendingTo(u, t)
  BY <1>1, <1>2, WindowSingle
<1>5. NotSending.to = NoTask
  BY DEF NotSending
<1>6. \A r \in Tasks : Queue(r)' = Queue(r)
  BY <1>2, QueueKept
<1>7. ASSUME NEW r \in Tasks \ {t} PROVE Path(r)' = Path(r)
  <2>1. \A u \in Tasks : sending'[u].to = r <=> sending[u].to = r
    BY <1>2, <1>3, <1>5
  <2>2. \A u \in Tasks : sending[u].to = r => Unsent(u)' = Unsent(u)
    BY <1>2, <1>3, <1>5 DEF Unsent
  <2>3. Remaining(r)' = Remaining(r)
    BY <2>1, <2>2, RemainingSame
  <2> QED BY <2>3, <1>2, <1>6, PathKept
<1>8. PICK p, u : p = Path(t) /\ u = Unsent(f)'
  OBVIOUS
<1>9. /\ p \in Seq(Packets) /\ u \in Seq(Packets) /\ u # << >>
      /\ Len(u) = PacketCount(m.size)
      /\ \A k \in 1 .. Len(u) : u[k] = [to |-> t, message |-> m, seq |-> k]
  <2>1. p \in Seq(Packets)
    BY <1>8, PathOf DEF PairInv
  <2>2. /\ u \in Seq(Packets)
        /\ Len(u) = PacketCount(sending'[f].message.size) - sending'[f].packet + 1
        /\ \A k \in 1 .. Len(u) :
              u[k] = [to |-> sending'[f].to, message |-> sending'[f].message,
                      seq |-> sending'[f].packet + k - 1]
    BY <1>2, <1>3, <1>8, ShapesNext DEF Shapes, UnsentShaped
  <2>3. PacketCount(m.size) \in Nat \ {0}
    BY CountPositive
  <2>4. Len(u) = PacketCount(m.size)
    BY <2>2, <2>3, <1>3
  <2>5. \A k \in 1 .. Len(u) : sending'[f].packet + k - 1 = k
    BY <1>3
  <2>6. \A k \in 1 .. Len(u) : u[k] = [to |-> t, message |-> m, seq |-> k]
    BY <2>2, <2>5, <1>3
  <2>7. u # << >>
    BY <2>3, <2>4
  <2> QED BY <2>1, <2>2, <2>4, <2>6, <2>7
<1>10. Path(t)' = p \o u
  <2>1. Remaining(t) = << >>
    BY <1>4, SenderOf DEF PairInv
  <2>2. /\ Path(t) = Queue(t) \o InInterfaces(ni_in, t) \o InInterfaces(ni_out, t) \o Remaining(t)
        /\ Queue(t) \in Seq(Packets)
        /\ InInterfaces(ni_in, t) \in Seq(Packets) /\ InInterfaces(ni_out, t) \in Seq(Packets)
    BY TypedShapes DEF PairInv, Shapes, Shaped
  <2>3. PICK a : a = Queue(t) \o InInterfaces(ni_in, t) \o InInterfaces(ni_out, t)
    OBVIOUS
  <2>4. a \in Seq(Packets)
    BY <2>2, <2>3, ConcatProperties
  <2>5. p = a
    BY <2>1, <2>2, <2>3, <2>4, <1>8, ConcatEmptySeq
  <2>6. SendingTo(f, t)' /\ \A v \in Tasks : SendingTo(v, t)' => v = f
    BY <1>3, <1>4 DEF SendingTo
  <2>7. Remaining(t)' = u
    BY <2>6, <1>2, <1>8, ShapesNext DEF Shapes, Shaped
  <2>8. Path(t)' = Queue(t)' \o InInterfaces(ni_in', t) \o InInterfaces(ni_out', t) \o Remaining(t)'
    BY ShapesNext DEF Shapes, Shaped
  <2>9. InInterfaces(ni_in', t) = InInterfaces(ni_in, t) /\ InInterfaces(ni_out', t) = InInterfaces(ni_out, t)
    BY <1>2
  <2> QED BY <2>3, <2>5, <2>7, <2>8, <2>9, <1>6
<1>11. Chain(u)
  <2>1. PacketCount(m.size) \in Nat \ {0}
    BY CountPositive
  <2>2. \A k \in 1 .. Len(u) : u[k].message = m /\ u[k].seq = k /\ PCount(u[k]) = Len(u)
    BY <1>9 DEF PCount
  <2>3. u[1].seq = 1 /\ u[Len(u)].seq = PCount(u[Len(u)])
    BY <2>1, <2>2, <1>9
  <2>4. ASSUME NEW k \in 1 .. Len(u) - 1 PROVE Follows(u[k], u[k + 1])
    <3>1. k \in 1 .. Len(u) /\ k + 1 \in 1 .. Len(u) /\ k < Len(u)
      BY <2>1, <1>9
    <3> QED BY <3>1, <2>2 DEF Follows
  <2> QED BY <2>3, <2>4 DEF Chain
<1>12. Chained'
  <2>1. \A r \in Tasks : CopiedSoFar(r)' = CopiedSoFar(r) /\ CopiedSoFar(r) \in Seq(Packets)
    <3>1. << >> \in Seq(Packets)
      OBVIOUS
    <3> QED BY <3>1, <1>2 DEF CopiedSoFar, recvVars, PairInv, TypeInv, RingInv, TypeOK
  <2>2. Chain(Stream(t)')
    <3>1. PICK b : b = CopiedSoFar(t)
      OBVIOUS
    <3>2. b \in Seq(Packets) /\ Chain(b \o p)
      BY <2>1, <3>1, <1>8 DEF PairInv, Chained, Stream
    <3>3. PICK s : s = b \o p
      OBVIOUS
    <3>4. s \in Seq(Packets) /\ Chain(s)
      BY <3>2, <3>3, <1>9, ConcatProperties
    <3>5. Chain(s \o u)
      BY <3>4, <1>9, <1>11, ChainGrows
    <3>6. (b \o p) \o u = b \o (p \o u)
      BY <3>2, <1>9, ConcatAssociative
    <3>7. Stream(t)' = b \o (p \o u)
      BY <2>1, <3>1, <1>10 DEF Stream
    <3> QED BY <3>3, <3>5, <3>6, <3>7
  <2>3. \A r \in Tasks : Chain(Stream(r)')
    <3> SUFFICES ASSUME NEW r \in Tasks \ {t} PROVE Chain(Stream(r)')
      BY <2>2
    <3>1. Stream(r)' = Stream(r)
      BY <2>1, <1>7 DEF Stream
    <3> QED BY <3>1 DEF PairInv, Chained
  <2>4. Len(Path(t)') <= HF_PACKET_SLOTS
    <3>1. Len(p \o u) = Len(p) + Len(u)
      BY <1>9, ConcatProperties
    <3>2. Len(p) + PacketCount(m.size) <= HF_PACKET_SLOTS
      BY <1>8 DEF Window
    <3> QED BY <3>1, <3>2, <1>9, <1>10
  <2>5. \A r \in Tasks : Len(Path(r)') <= HF_PACKET_SLOTS
    BY <2>4, <1>7 DEF PairInv, Chained
  <2> QED BY <2>3, <2>5 DEF Chained, Chain, Follows, PCount
<1>16. Sent(t, m)
  <2>1. \A r \in Tasks : CopiedSoFar(r)' = CopiedSoFar(r) /\ CopiedSoFar(r) \in Seq(Packets)
    <3>1. << >> \in Seq(Packets)
      OBVIOUS
    <3> QED BY <3>1, <1>2 DEF CopiedSoFar, recvVars, PairInv, TypeInv, RingInv, TypeOK
  <2>2. \A r \in Tasks \ {t} : Stream(r)' = Stream(r)
    BY <2>1, <1>7 DEF Stream
  <2>3. Stream(t)' = Stream(t) \o u
    <3>1. PICK b : b = CopiedSoFar(t)
      OBVIOUS
    <3>2. (b \o p) \o u = b \o (p \o u)
      BY <2>1, <3>1, <1>9, ConcatAssociative
    <3>3. Stream(t)' = b \o (p \o u)
      BY <2>1, <3>1, <1>10 DEF Stream
    <3> QED BY <3>1, <3>2, <3>3, <1>8 DEF Stream
  <2>4. 1 \in 1 .. Len(u)
    BY <1>9
  <2>5. u[1].message = m /\ \A k \in 1 .. Len(u) : u[k].seq = k
    BY <2>4, <1>9
  <2>6. UNCHANGED recvVars
    BY <1>2
  <2> QED BY <2>2, <2>3, <2>5, <2>6, <1>9 DEF Sent
<1>13. Receiving' /\ Reconstructed'
  BY <1>2 DEF PairInv, Receiving, Reconstructed, Partial, PCount, Whole, recvVars
<1>14. Real'
  <2>1. \A v \in Tasks : sending'[v] # NotSending => sending'[v].to \in Tasks /\ sending'[v].message.from = v
    BY <1>1, <1>3 DEF PairInv, Real
  <2> QED BY <2>1, <1>2 DEF PairInv, Real
<1>15. OneSender'
  <2> SUFFICES ASSUME NEW r \in Tasks PROVE \E g \in Tasks : Single(r, g)'
    BY DEF OneSender
  <2>1. PICK g \in Tasks : Single(r, g) /\ (r = t => g = f)
    BY <1>2, <1>4 DEF PairInv, OneSender
  <2>2. in_packet' = in_packet
    BY <1>2 DEF queueVars
  <2>3. \A v \in Tasks : SendingTo(v, r)' => v = g
    BY <2>1, <1>3 DEF Single, SendingTo
  <2>4. Single(r, g)'
    BY <2>1, <2>2, <2>3, <1>2, <1>6 DEF Single, CarriesTo
  <2> QED BY <2>4
<1> QED BY <1>12, <1>13, <1>14, <1>15, <1>16 DEF Flows

LEMMA StillFlows ==
    ASSUME PairInv, UNCHANGED driverVars
    PROVE  Flows' /\ Forwards
<1>1. UNCHANGED <<queueVars, ni_in, ni_out, sending, recvVars>>
  BY DEF driverVars, niVars, sendVars
<1>2. \A r \in Tasks : Path(r)' = Path(r)
  BY <1>1, QueueKept, RemainingKept, PathKept
<1>3. Chained' /\ Receiving' /\ Reconstructed' /\ Forwards
  BY <1>1, <1>2, Forwarded DEF PairInv
<1>4. ASSUME NEW r \in Tasks, NEW f \in Tasks, Single(r, f) PROVE Single(r, f)'
  <2>1. Queue(r)' = Queue(r) /\ in_packet' = in_packet
    BY <1>1, QueueKept DEF queueVars
  <2> QED BY <2>1, <1>4, <1>1 DEF Single, CarriesTo, SendingTo
<1>5. OneSender'
  BY <1>4 DEF PairInv, OneSender
<1>6. Real'
  BY <1>1 DEF PairInv, Real
<1> QED BY <1>3, <1>5, <1>6 DEF Flows

LEMMA PairStep == PairNext => Next
BY DEF PairNext, Next

LEMMA PairNextInv == PairInv /\ [PairNext]_driverVars => PairInv'
<1> SUFFICES ASSUME PairInv, [PairNext]_driverVars PROVE PairInv'
  OBVIOUS
<1>1. TypeInv /\ ReadyInv
  BY DEF PairInv
<1>2. [Next]_driverVars
  BY PairStep
<1>3. TypeInv' /\ ReadyInv'
  BY <1>1, <1>2, NextTypes, ReadyNext
<1>4. ASSUME NEW c \in Cores, Transfer(c) PROVE Flows'
  BY <1>3, <1>4, TransferFlows
<1>5. ASSUME NEW c \in Cores, RecvCommServiceISR(c) PROVE Flows'
  BY <1>3, <1>5, ISRFlows
<1>6. ASSUME NEW t \in Tasks, DriverStep(t) PROVE Flows'
  BY <1>3, <1>6, ReadyFlows, WriteFlows, TakeFlows DEF DriverStep
<1>7. ASSUME NEW t \in Receivers, NEW timed \in BOOLEAN, HF_NB_Receive(t, timed) PROVE Flows'
  <2>1. t \in Tasks
    BY DEF Receivers
  <2> QED BY <2>1, <1>7, ReceiveFlows
<1>8. ASSUME NEW m \in Messages, NEW to \in Tasks, NEW timed \in BOOLEAN,
             Window(m.from, to, m.size), HF_NB_Send(m.from, to, m, timed)
      PROVE  Flows'
  BY <1>3, <1>8, SendFlows
<1>9. ASSUME UNCHANGED driverVars PROVE Flows'
  BY <1>9, StillFlows
<1>10. Flows'
  <2>1. CASE PairNext
    BY <2>1, <1>4, <1>5, <1>6, <1>7, <1>8, Zenon DEF PairNext, Interrupts
  <2> QED BY <2>1, <1>9
<1> QED BY <1>3, <1>10 DEF PairInv, Flows

LEMMA EmptyStream ==
    ASSUME DriverInit, NEW t \in Tasks
    PROVE  Path(t) = << >> /\ Stream(t) = << >>
<1>0. TypeInv
  BY InitTypes
<1>1. Queue(t) \in Seq(Packets) /\ Len(Queue(t)) = 0
  BY <1>0, QueueTyped DEF DriverInit
<1>2. Queue(t) = << >>
  BY <1>1
<1>3. Carriers(ni_in, t) = {} /\ Carriers(ni_out, t) = {}
  BY DEF DriverInit, Carriers, CarriesTo
<1>4. InInterfaces(ni_in, t) = << >> /\ InInterfaces(ni_out, t) = << >>
  BY <1>3, <1>0, InterfaceOf DEF TypeInv, RingInv, TypeOK
<1>5. Remaining(t) = << >>
  BY <1>0, SenderOf DEF SendingTo, DriverInit
<1>6. Path(t) = << >>
  BY <1>2, <1>4, <1>5, <1>0, PathOf
<1> QED BY <1>6 DEF Stream, CopiedSoFar, DriverInit

LEMMA PairInit == DriverInit => PairInv
<1> SUFFICES ASSUME DriverInit PROVE PairInv
  OBVIOUS
<1>1. TypeInv
  BY InitTypes
<1>2. ReadyInv
  BY DEF DriverInit, ReadyInv, ReadyIsFirst, InterfaceFree
<1>3. \A t \in Tasks, f \in Tasks : Single(t, f)
  BY DEF DriverInit, Single, CarriesTo, SendingTo
<1>4. OneSender /\ Real
  BY <1>3 DEF OneSender, Real, DriverInit
<1>5. Receiving /\ Reconstructed
  BY DEF DriverInit, Receiving, Reconstructed, NotReturned, HF_OK
<1>6. \A t \in Tasks : Path(t) = << >> /\ Stream(t) = << >>
  BY EmptyStream
<1>7. Chained
  <2>1. Chain(<< >>) /\ Len(<< >>) = 0
    BY DEF Chain
  <2> QED BY <2>1, <1>6 DEF Chained
<1> QED BY <1>1, <1>2, <1>4, <1>5, <1>7 DEF PairInv

\* With the flow control the applications keep, a receive call that reports no
\* error has copied one message, all its packets in order, for any number of
\* tasks, cores and slots and any size of packet: no order of the steps of tasks,
\* interrupts and network mixes two messages.
THEOREM ReconstructedAlways == PairSpec => []Reconstructed
<1>1. PairInv => Reconstructed
  BY DEF PairInv
<1> QED BY <1>1, PairInit, PairNextInv, PTL DEF PairSpec
-----------------------------------------------------------------------------
(* The channel *)

LEMMA PendingOf ==
    ASSUME NEW t \in Tasks
    PROVE  Pending(t) = Begun(Stream(t)) /\ Pending(t)' = Begun(Stream(t)')
BY DEF Pending, Stream, CopiedSoFar

\* What the refinement mapping makes of the last call of t.
LastReceived(t) == IF returned[t] = NotReturned THEN NoPacket
               ELSE IF Whole(buf[t]) THEN buf[t][1].message ELSE << >>

LEMMA StreamTyped ==
    ASSUME TypeInv, NEW t \in Tasks
    PROVE  Stream(t) \in Seq(Packets)
<1>1. Path(t) \in Seq(Packets)
  BY PathOf
<1>2. CopiedSoFar(t) \in Seq(Packets)
  <2>1. << >> \in Seq(Packets)
    OBVIOUS
  <2> QED BY <2>1 DEF CopiedSoFar, TypeInv, RingInv, TypeOK
<1> QED BY <1>1, <1>2, ConcatProperties DEF Stream

PortSame(r) == Pending(r)' = Pending(r) /\ LastReceived(r)' = LastReceived(r)
PortSend(t, m) == Pending(t)' = Append(Pending(t), m) /\ LastReceived(t)' = LastReceived(t)
PortCall(t) == Pending(t)' = Pending(t) /\ LastReceived(t)' = NoPacket
PortReturn(t) == /\ Pending(t) # << >>
                 /\ LastReceived(t)' = Head(Pending(t))
                 /\ Pending(t)' = Tail(Pending(t))

\* The steps of Channel, task by task.
LEMMA PortSteps ==
    /\ (\A r \in Tasks : PortSame(r)) => Port!Step
    /\ \A t \in Tasks, m \in Messages :
          (\A r \in Tasks \ {t} : PortSame(r)) /\ PortSend(t, m) => Port!Step
    /\ \A t \in Tasks : (\A r \in Tasks \ {t} : PortSame(r)) /\ PortCall(t) => Port!Step
    /\ \A t \in Tasks : (\A r \in Tasks \ {t} : PortSame(r)) /\ PortReturn(t) => Port!Step
<1> DEFINE P == [r \in Tasks |-> Pending(r)]
           R == [r \in Tasks |-> LastReceived(r)]
<1>1. Port!Step = ((\E t \in Tasks :
                      \/ /\ \E m \in Messages : P' = [P EXCEPT ![t] = Append(@, m)]
                         /\ R' = R
                      \/ R' = [R EXCEPT ![t] = NoPacket] /\ P' = P
                      \/ /\ P[t] # << >>
                         /\ R' = [R EXCEPT ![t] = Head(P[t])]
                         /\ P' = [P EXCEPT ![t] = Tail(@)])
                   \/ <<P, R>>' = <<P, R>>)
  BY DEF Port!Step, Port!Next, Port!Send, Port!Call, Port!Return, Port!vars, LastReceived
<1>2. /\ DOMAIN P = Tasks /\ \A r \in Tasks : P[r] = Pending(r)
      /\ DOMAIN R = Tasks /\ \A r \in Tasks : R[r] = LastReceived(r)
  OBVIOUS
<1>3. PICK p, q : p = P' /\ q = R'
  OBVIOUS
<1>4. /\ p = [r \in Tasks |-> p[r]] /\ \A r \in Tasks : p[r] = Pending(r)'
      /\ q = [r \in Tasks |-> q[r]] /\ \A r \in Tasks : q[r] = LastReceived(r)'
  BY <1>3
<1>5. P = [r \in Tasks |-> P[r]] /\ R = [r \in Tasks |-> R[r]]
  OBVIOUS
<1> HIDE DEF P, R
<1>6. ASSUME \A r \in Tasks : PortSame(r) PROVE Port!Step
  <2>1. p = P /\ q = R
    BY <1>2, <1>4, <1>5, <1>6 DEF PortSame
  <2> QED BY <2>1, <1>1, <1>3
<1>7. ASSUME NEW t \in Tasks, \A r \in Tasks \ {t} : PortSame(r)
      PROVE  /\ \A v : Pending(t)' = v => p = [P EXCEPT ![t] = v]
             /\ \A v : LastReceived(t)' = v => q = [R EXCEPT ![t] = v]
  <2>1. ASSUME NEW v, Pending(t)' = v PROVE p = [P EXCEPT ![t] = v]
    BY <2>1, <1>2, <1>4, <1>5, <1>7 DEF PortSame
  <2>2. ASSUME NEW v, LastReceived(t)' = v PROVE q = [R EXCEPT ![t] = v]
    BY <2>2, <1>2, <1>4, <1>5, <1>7 DEF PortSame
  <2> QED BY <2>1, <2>2
<1>8. \A t \in Tasks : P = [P EXCEPT ![t] = Pending(t)] /\ R = [R EXCEPT ![t] = LastReceived(t)]
  BY <1>2, <1>5
<1>9. ASSUME NEW t \in Tasks, NEW m \in Messages, \A r \in Tasks \ {t} : PortSame(r), PortSend(t, m)
      PROVE  Port!Step
  <2>1. p = [P EXCEPT ![t] = Append(Pending(t), m)] /\ q = R
    BY <1>7, <1>8, <1>9 DEF PortSend
  <2> QED BY <2>1, <1>1, <1>2, <1>3
<1>10. ASSUME NEW t \in Tasks, \A r \in Tasks \ {t} : PortSame(r), PortCall(t)
       PROVE  Port!Step
  <2>1. p = P /\ q = [R EXCEPT ![t] = NoPacket]
    BY <1>7, <1>8, <1>10 DEF PortCall
  <2> QED BY <2>1, <1>1, <1>2, <1>3
<1>11. ASSUME NEW t \in Tasks, \A r \in Tasks \ {t} : PortSame(r), PortReturn(t)
       PROVE  Port!Step
  <2>1. /\ Pending(t) # << >>
        /\ p = [P EXCEPT ![t] = Tail(Pending(t))] /\ q = [R EXCEPT ![t] = Head(Pending(t))]
    BY <1>7, <1>11 DEF PortReturn
  <2> QED BY <2>1, <1>1, <1>2, <1>3
<1> QED BY <1>6, <1>9, <1>10, <1>11

LEMMA ForwardsPort ==
    ASSUME Forwards
    PROVE  Port!Step
<1>1. ASSUME NEW r \in Tasks PROVE PortSame(r)
  <2>1. Stream(r)' = Stream(r)
    BY DEF Forwards
  <2>2. Pending(r)' = Pending(r)
    BY <2>1, PendingOf
  <2> QED BY <2>2 DEF Forwards, PortSame, LastReceived, recvVars, Whole
<1> QED BY <1>1, PortSteps

LEMMA ReceivePort ==
    ASSUME PairInv, NEW t \in Tasks, NEW timed \in BOOLEAN, HF_NB_Receive(t, timed)
    PROVE  Port!Step
<1>1. \A r \in Tasks : Pending(r)' = Pending(r)
  <2> TAKE r \in Tasks
  <2>1. Stream(r)' = Stream(r)
    BY ReceiveFlows
  <2> QED BY <2>1, PendingOf
<1>2. /\ returned'[t] = NotReturned
      /\ \A r \in Tasks \ {t} : buf'[r] = buf[r] /\ returned'[r] = returned[r]
  BY DEF HF_NB_Receive, PairInv, TypeInv, RingInv, TypeOK
<1>3. PortCall(t)
  BY <1>1, <1>2 DEF PortCall, LastReceived
<1>4. \A r \in Tasks \ {t} : PortSame(r)
  BY <1>1, <1>2 DEF PortSame, LastReceived, Whole
<1> QED BY <1>3, <1>4, PortSteps

\* A send call puts its message behind the others for its target.
LEMMA SendAppends ==
    ASSUME PairInv, TypeInv', NEW m \in Messages, NEW t \in Tasks, NEW timed \in BOOLEAN,
           Window(m.from, t, m.size), HF_NB_Send(m.from, t, m, timed)
    PROVE  Sent(t, m) /\ PortSend(t, m) /\ \A r \in Tasks \ {t} : PortSame(r)
<1>1. Sent(t, m)
  BY SendFlows
<1>2. PICK u \in Seq(Packets) :
          /\ Stream(t)' = Stream(t) \o u
          /\ u # << >> /\ u[1].message = m
          /\ \A k \in 1 .. Len(u) : u[k].seq = k
  BY <1>1 DEF Sent
<1>3. \A r \in Tasks : LastReceived(r)' = LastReceived(r)
  BY <1>1 DEF Sent, LastReceived, recvVars, Whole
<1>4. \A r \in Tasks \ {t} : PortSame(r)
  <2> TAKE r \in Tasks \ {t}
  <2>1. Stream(r)' = Stream(r)
    BY <1>1 DEF Sent
  <2> QED BY <2>1, <1>3, PendingOf DEF PortSame
<1>5. PICK s : s = Stream(t)
  OBVIOUS
<1>6. s \in Seq(Packets)
  BY <1>5, StreamTyped DEF PairInv
<1>7. Begun(u) = <<m>>
  BY <1>2, BegunOne
<1>8. Begun(s \o u) = Begun(s) \o <<m>>
  BY <1>2, <1>6, <1>7, BegunJoined
<1>9. Begun(s) \in Seq(Messages)
  <2>1. PICK F : BegunSteps(s, F) /\ Begun(s) = F[Len(s)]
    BY BegunSolved, <1>6
  <2>2. Len(s) \in 0 .. Len(s)
    BY <1>6
  <2> QED BY <2>1, <2>2, <1>6, BegunTyped
<1>10. Begun(s) \o <<m>> = Append(Begun(s), m)
  <2>1. PICK z : z = Begun(s)
    OBVIOUS
  <2>2. z \in Seq(Messages)
    BY <2>1, <1>9
  <2> HIDE DEF Messages
  <2>3. Append(z, m) = z \o <<m>>
    BY <2>2, AppendIsConcat
  <2> QED BY <2>1, <2>3
<1>11. PortSend(t, m)
  <2>1. Pending(t) = Begun(s) /\ Pending(t)' = Begun(s \o u)
    BY <1>2, <1>5, PendingOf
  <2> QED BY <2>1, <1>3, <1>8, <1>10 DEF PortSend
<1> QED BY <1>1, <1>4, <1>11

LEMMA SendPort ==
    ASSUME PairInv, TypeInv', NEW m \in Messages, NEW t \in Tasks, NEW timed \in BOOLEAN,
           Window(m.from, t, m.size), HF_NB_Send(m.from, t, m, timed)
    PROVE  Port!Step
BY SendAppends, PortSteps

\* Copying a packet leaves the messages under way alone, or returns the first one.
LEMMA TakeReturns ==
    ASSUME PairInv, TypeInv', NEW t \in Tasks, TakePacket(t)
    PROVE  /\ Taken(t)
           /\ \/ /\ Pending(t)' = Pending(t)
                 /\ receiving'[t] = receiving[t] /\ returned'[t] = NotReturned
              \/ /\ PortReturn(t) /\ receiving'[t] = "no"
                 /\ Whole(buf'[t]) /\ LastReceived(t)' = buf'[t][1].message
<1>1. Taken(t)
  BY TakeFlows
<1>2. ASSUME NEW w \in Seq(Packets), NEW p \in Seq(Packets),
             Stream(t) = w \o p, Stream(t)' = p, buf'[t] = w, w # << >>, Whole(w),
             receiving'[t] = "no", returned'[t] # NotReturned
      PROVE  /\ PortReturn(t) /\ receiving'[t] = "no"
             /\ Whole(buf'[t]) /\ LastReceived(t)' = buf'[t][1].message
  <2>1. Begun(w) = <<w[1].message>>
    BY <1>2, BegunOne DEF Whole
  <2>2. Pending(t) = <<w[1].message>> \o Begun(p) /\ Pending(t)' = Begun(p)
    <3>1. Begun(w \o p) = Begun(w) \o Begun(p)
      BY BegunJoined
    <3> QED BY <3>1, <2>1, <1>2, PendingOf
  <2>3. PICK m : m = w[1].message
    OBVIOUS
  <2>4. m \in Messages
    <3>1. w[1] \in Packets
      BY <1>2
    <3> QED BY <3>1, <2>3 DEF Packets
  <2>5. Begun(p) \in Seq(Messages)
    <3>1. PICK F : BegunSteps(p, F) /\ Begun(p) = F[Len(p)]
      BY BegunSolved
    <3>2. Len(p) \in 0 .. Len(p)
      OBVIOUS
    <3> QED BY <3>1, <3>2, BegunTyped
  <2>6. PICK z : z = Begun(p)
    OBVIOUS
  <2>7. /\ <<m>> \o z # << >> /\ Head(<<m>> \o z) = m /\ Tail(<<m>> \o z) = z
    <3>1. z \in Seq(Messages) /\ <<m>> \in Seq(Messages)
      BY <2>4, <2>5, <2>6
    <3> HIDE DEF Messages
    <3>2. PICK y : y = <<m>> \o z
      OBVIOUS
    <3>3. /\ y \in Seq(Messages) /\ Len(y) = 1 + Len(z) /\ Len(z) \in Nat
          /\ \A k \in 1 .. 1 + Len(z) : y[k] = IF k <= 1 THEN <<m>>[k] ELSE z[k - 1]
      <4>1. Len(<<m>>) = 1
        OBVIOUS
      <4> QED BY <4>1, <3>1, <3>2, ConcatProperties
    <3>4. y # << >> /\ Head(y) = m
      BY <3>3
    <3>5. Tail(y) \in Seq(Messages) /\ Len(Tail(y)) = Len(z)
          /\ \A k \in 1 .. Len(z) : Tail(y)[k] = y[k + 1]
      BY <3>3, <3>4, HeadTailProperties
    <3>6. \A k \in 1 .. Len(z) : Tail(y)[k] = z[k]
      <4> SUFFICES ASSUME NEW k \in 1 .. Len(z) PROVE Tail(y)[k] = z[k]
        OBVIOUS
      <4>1. k + 1 \in 1 .. 1 + Len(z) /\ ~(k + 1 <= 1) /\ k + 1 - 1 = k
        BY <3>3
      <4> QED BY <4>1, <3>3, <3>5
    <3>7. Tail(y) = z
      BY <3>1, <3>5, <3>6, SeqEqual
    <3> QED BY <3>2, <3>4, <3>7
  <2>8. LastReceived(t)' = m
    BY <2>3, <1>2 DEF LastReceived, Whole
  <2>9. PortReturn(t)
    BY <2>2, <2>3, <2>6, <2>7, <2>8 DEF PortReturn
  <2> QED BY <2>3, <2>8, <2>9, <1>2
<1>3. ASSUME Stream(t)' = Stream(t) PROVE Pending(t)' = Pending(t)
  BY <1>3, PendingOf
<1> QED BY <1>1, <1>2, <1>3 DEF Taken

LEMMA TakePort ==
    ASSUME PairInv, TypeInv', NEW t \in Tasks, TakePacket(t)
    PROVE  Port!Step
<1>1. Taken(t)
  BY TakeReturns
<1>2. \A r \in Tasks \ {t} : PortSame(r)
  <2> TAKE r \in Tasks \ {t}
  <2>1. Stream(r)' = Stream(r) /\ buf'[r] = buf[r] /\ returned'[r] = returned[r]
    BY <1>1 DEF Taken
  <2>2. Pending(r)' = Pending(r)
    BY <2>1, PendingOf
  <2> QED BY <2>1, <2>2 DEF PortSame, LastReceived, Whole
<1>3. ASSUME Pending(t)' = Pending(t), returned'[t] = NotReturned
      PROVE  Port!Step
  <2>1. LastReceived(t)' = NoPacket
    BY <1>3 DEF LastReceived
  <2> QED BY <2>1, <1>2, <1>3, PortSteps DEF PortCall
<1>4. ASSUME PortReturn(t) PROVE Port!Step
  BY <1>2, <1>4, PortSteps
<1> QED BY <1>3, <1>4, TakeReturns

LEMMA PortInit == DriverInit => Port!Init
<1> SUFFICES ASSUME DriverInit PROVE Port!Init
  OBVIOUS
<1>1. \A t \in Tasks : Pending(t) = << >>
  <2> TAKE t \in Tasks
  <2>1. Stream(t) = << >>
    BY EmptyStream
  <2> QED BY <2>1, PendingOf, BegunNone
<1>2. \A t \in Tasks : returned[t] = NotReturned
  BY DEF DriverInit
<1> QED BY <1>1, <1>2 DEF Port!Init

\* For any number of tasks, cores and slots and any size of packet the driver is,
\* under the flow control of the applications, a reliable first-in first-out
\* channel to each task: cutting messages into packets, storing them in an
\* interrupt and copying them out again loses, repeats and reorders nothing.
THEOREM ChannelImplemented == PairSpec => ImplementsChannel
<1>1. PairInv /\ PairInv' /\ [PairNext]_driverVars => [Port!Step]_driverVars
  <2> SUFFICES ASSUME PairInv, PairInv', PairNext PROVE Port!Step
    OBVIOUS
  <2>1. TypeInv'
    BY DEF PairInv
  <2>2. ASSUME NEW c \in Cores, Transfer(c) \/ RecvCommServiceISR(c) PROVE Port!Step
    BY <2>1, <2>2, TransferFlows, ISRFlows, ForwardsPort
  <2>3. ASSUME NEW t \in Tasks, DriverStep(t) PROVE Port!Step
    BY <2>1, <2>3, ReadyFlows, WriteFlows, ForwardsPort, TakePort DEF DriverStep
  <2>4. ASSUME NEW t \in Receivers, NEW timed \in BOOLEAN, HF_NB_Receive(t, timed) PROVE Port!Step
    <3>1. t \in Tasks
      BY DEF Receivers
    <3> QED BY <3>1, <2>4, ReceivePort
  <2>5. ASSUME NEW m \in Messages, NEW to \in Tasks, NEW timed \in BOOLEAN,
               Window(m.from, to, m.size), HF_NB_Send(m.from, to, m, timed)
        PROVE  Port!Step
    BY <2>1, <2>5, SendPort
  <2> QED BY <2>2, <2>3, <2>4, <2>5, Zenon DEF PairNext, Interrupts
<1> QED BY <1>1, PairInit, PairNextInv, PortInit, PTL DEF PairSpec, ImplementsChannel
-----------------------------------------------------------------------------
(* What the messages under way to a task say of the packets *)

\* Every packet of whole messages belongs to one that begins among them.
LEMMA ChainBelongs ==
    ASSUME NEW s \in Seq(Packets), Chain(s), NEW F, BegunSteps(s, F), NEW k \in 1 .. Len(s)
    PROVE  /\ F[k] \in Seq(Messages) /\ F[k] # << >>
           /\ F[k][Len(F[k])] = s[k].message
           /\ s[k].seq \in 1 .. PCount(s[k])
<1> DEFINE Q(d) == d + 1 <= Len(s) =>
                      /\ F[d + 1] # << >> /\ F[d + 1][Len(F[d + 1])] = s[d + 1].message
                      /\ s[d + 1].seq \in 1 .. PCount(s[d + 1])
           S == {d \in Nat : Q(d)}
<1>1. /\ Len(s) \in Nat /\ F[0] = << >>
      /\ \A d \in Nat : d + 1 <= Len(s) =>
            F[d + 1] = IF s[d + 1].seq = 1 THEN Append(F[d], s[d + 1].message) ELSE F[d]
      /\ \A d \in 0 .. Len(s) : F[d] \in Seq(Messages)
  BY BegunAt, BegunTyped
<1>2. \A d \in 1 .. Len(s) : /\ s[d].message \in Messages /\ s[d].seq \in Nat \ {0}
                             /\ PCount(s[d]) \in Nat \ {0}
  <2> TAKE d \in 1 .. Len(s)
  <2>1. s[d] \in Packets
    OBVIOUS
  <2>2. s[d].message \in Messages /\ s[d].seq \in Nat \ {0}
    BY <2>1 DEF Packets
  <2> QED BY <2>2, CountPositive DEF PCount
<1>3. \A f \in Seq(Messages), m \in Messages :
         Append(f, m) # << >> /\ Append(f, m)[Len(Append(f, m))] = m
  <2> HIDE DEF Messages
  <2> QED OBVIOUS
<1> HIDE DEF Messages
<1>4. Q(0)
  <2> SUFFICES ASSUME 1 <= Len(s)
               PROVE  F[1] # << >> /\ F[1][Len(F[1])] = s[1].message /\ s[1].seq \in 1 .. PCount(s[1])
    OBVIOUS
  <2>1. s # << >> /\ 1 \in 1 .. Len(s) /\ 0 \in Nat /\ 0 \in 0 .. Len(s)
    BY <1>1
  <2>2. s[1].seq = 1
    BY <2>1 DEF Chain
  <2>3. F[1] = Append(F[0], s[1].message)
    <3>1. PICK z : z = 0
      OBVIOUS
    <3>2. z \in Nat /\ z + 1 = 1 /\ z + 1 <= Len(s)
      BY <3>1
    <3>3. F[z + 1] = IF s[z + 1].seq = 1 THEN Append(F[z], s[z + 1].message) ELSE F[z]
      BY <3>2, <1>1
    <3> QED BY <3>1, <3>2, <3>3, <2>2
  <2> QED BY <2>1, <2>2, <2>3, <1>1, <1>2, <1>3
<1>5. ASSUME NEW d \in Nat, Q(d) PROVE Q(d + 1)
  <2> SUFFICES ASSUME d + 1 + 1 <= Len(s)
               PROVE  /\ F[d + 1 + 1] # << >> /\ F[d + 1 + 1][Len(F[d + 1 + 1])] = s[d + 1 + 1].message
                      /\ s[d + 1 + 1].seq \in 1 .. PCount(s[d + 1 + 1])
    OBVIOUS
  <2>1. PICK p, q, f, g : p = s[d + 1] /\ q = s[d + 1 + 1] /\ f = F[d + 1] /\ g = F[d + 1 + 1]
    OBVIOUS
  <2>2. d + 1 \in 1 .. Len(s) - 1 /\ d + 1 \in 1 .. Len(s) /\ d + 1 + 1 \in 1 .. Len(s)
        /\ d + 1 \in Nat /\ d + 1 \in 0 .. Len(s)
    BY <1>1
  <2>3. Follows(p, q)
    BY <2>1, <2>2 DEF Chain
  <2>4. /\ f # << >> /\ f[Len(f)] = p.message /\ p.seq \in 1 .. PCount(p) /\ f \in Seq(Messages)
        /\ g = IF q.seq = 1 THEN Append(f, q.message) ELSE f
        /\ q.message \in Messages /\ q.seq \in Nat \ {0}
        /\ PCount(q) \in Nat \ {0} /\ PCount(p) \in Nat \ {0}
    <3>1. f # << >> /\ f[Len(f)] = p.message /\ p.seq \in 1 .. PCount(p)
      BY <2>1, <2>2, <1>1, <1>5
    <3>2. f \in Seq(Messages) /\ g = IF q.seq = 1 THEN Append(f, q.message) ELSE f
      BY <2>1, <2>2, <1>1
    <3>3. /\ q.message \in Messages /\ q.seq \in Nat \ {0}
          /\ PCount(q) \in Nat \ {0} /\ PCount(p) \in Nat \ {0}
      BY <2>1, <2>2, <1>2
    <3> QED BY <3>1, <3>2, <3>3
  <2>5. CASE p.seq < PCount(p)
    <3>1. q.message = p.message /\ q.seq = p.seq + 1 /\ PCount(q) = PCount(p)
      BY <2>3, <2>5 DEF Follows, PCount
    <3>2. g = f /\ q.seq \in 1 .. PCount(q)
      BY <3>1, <2>4, <2>5
    <3> QED BY <3>1, <3>2, <2>1, <2>4
  <2>6. CASE ~(p.seq < PCount(p))
    <3>1. q.seq = 1
      BY <2>3, <2>6 DEF Follows
    <3>2. g = Append(f, q.message) /\ q.seq \in 1 .. PCount(q)
      BY <3>1, <2>4
    <3> QED BY <3>2, <2>1, <2>4, <1>3
  <2> QED BY <2>5, <2>6
<1> HIDE DEF Q
<1>6. 0 \in S /\ \A d \in Nat : d \in S => d + 1 \in S
  BY <1>4, <1>5
<1> HIDE DEF S
<1>7. Nat \subseteq S
  BY <1>6, Induct
<1>8. k - 1 \in Nat /\ (k - 1) + 1 = k
  OBVIOUS
<1>9. Q(k - 1)
  BY <1>7, <1>8 DEF S
<1> QED BY <1>1, <1>8, <1>9 DEF Q

\* The messages begun up to a packet stay the first ones.
LEMMA BegunGrows ==
    ASSUME NEW s \in Seq(Packets), NEW F, BegunSteps(s, F), NEW k \in 0 .. Len(s)
    PROVE  /\ Len(F[k]) <= Len(F[Len(s)])
           /\ \A j \in 1 .. Len(F[k]) : F[Len(s)][j] = F[k][j]
<1> DEFINE Q(d) == k + d <= Len(s) => /\ Len(F[k]) <= Len(F[k + d])
                                      /\ \A j \in 1 .. Len(F[k]) : F[k + d][j] = F[k][j]
           S == {d \in Nat : Q(d)}
<1>1. /\ Len(s) \in Nat
      /\ \A d \in Nat : d + 1 <= Len(s) =>
            F[d + 1] = IF s[d + 1].seq = 1 THEN Append(F[d], s[d + 1].message) ELSE F[d]
      /\ \A d \in 0 .. Len(s) : F[d] \in Seq(Messages)
  BY BegunAt, BegunTyped
<1>2. \A d \in 1 .. Len(s) : s[d].message \in Messages
  <2> TAKE d \in 1 .. Len(s)
  <2>1. s[d] \in Packets
    OBVIOUS
  <2> QED BY <2>1 DEF Packets
<1> HIDE DEF Messages
<1>3. \A f \in Seq(Messages), m \in Messages :
         Len(Append(f, m)) = Len(f) + 1 /\ \A j \in 1 .. Len(f) : Append(f, m)[j] = f[j]
  OBVIOUS
<1>4. Q(0)
  BY <1>1
<1>5. ASSUME NEW d \in Nat, Q(d) PROVE Q(d + 1)
  <2> SUFFICES ASSUME k + (d + 1) <= Len(s)
               PROVE  /\ Len(F[k]) <= Len(F[k + (d + 1)])
                      /\ \A j \in 1 .. Len(F[k]) : F[k + (d + 1)][j] = F[k][j]
    OBVIOUS
  <2>1. PICK a : a = k + d
    OBVIOUS
  <2>2. /\ k + (d + 1) = a + 1 /\ a \in Nat /\ a + 1 <= Len(s) /\ a \in 0 .. Len(s) /\ a <= Len(s)
        /\ a + 1 \in 1 .. Len(s)
    BY <2>1, <1>1
  <2>3. PICK f, g, h : f = F[a] /\ g = F[a + 1] /\ h = F[k]
    OBVIOUS
  <2>4. Len(h) <= Len(f) /\ \A j \in 1 .. Len(h) : f[j] = h[j]
    BY <1>5, <2>1, <2>2, <2>3
  <2>5. /\ g = IF s[a + 1].seq = 1 THEN Append(f, s[a + 1].message) ELSE f
        /\ f \in Seq(Messages) /\ h \in Seq(Messages) /\ s[a + 1].message \in Messages
    BY <2>2, <2>3, <1>1, <1>2
  <2>6. Len(g) >= Len(f) /\ \A j \in 1 .. Len(f) : g[j] = f[j]
    BY <2>5, <1>3
  <2>7. Len(f) \in Nat /\ Len(g) \in Nat /\ Len(h) \in Nat
    BY <2>5, <1>3
  <2>8. Len(h) <= Len(g) /\ \A j \in 1 .. Len(h) : g[j] = h[j]
    BY <2>4, <2>6, <2>7
  <2> QED BY <2>2, <2>3, <2>8
<1> HIDE DEF Q
<1>6. 0 \in S /\ \A d \in Nat : d \in S => d + 1 \in S
  BY <1>4, <1>5
<1> HIDE DEF S
<1>7. Nat \subseteq S
  BY <1>6, Induct
<1>8. Len(s) - k \in Nat /\ k + (Len(s) - k) = Len(s)
  BY <1>1
<1>9. Q(Len(s) - k)
  BY <1>7, <1>8 DEF S
<1> QED BY <1>1, <1>8, <1>9 DEF Q

\* If no message has more than P packets, k packets begin at least k / P messages.
LEMMA ChainBound ==
    ASSUME NEW s \in Seq(Packets), Chain(s), NEW F, BegunSteps(s, F), NEW P \in Nat,
           \A k \in 1 .. Len(s) : PCount(s[k]) <= P
    PROVE  Len(s) <= P * Len(F[Len(s)])
<1> DEFINE Q(d) == d + 1 <= Len(s) => d + 1 <= P * (Len(F[d + 1]) - 1) + s[d + 1].seq
           S == {d \in Nat : Q(d)}
<1>1. /\ Len(s) \in Nat /\ F[0] = << >>
      /\ \A d \in Nat : d + 1 <= Len(s) =>
            F[d + 1] = IF s[d + 1].seq = 1 THEN Append(F[d], s[d + 1].message) ELSE F[d]
      /\ \A d \in 0 .. Len(s) : F[d] \in Seq(Messages)
  BY BegunAt, BegunTyped
<1>2. \A k \in 1 .. Len(s) : /\ s[k].seq \in 1 .. PCount(s[k]) /\ PCount(s[k]) \in Nat
                             /\ s[k].message \in Messages /\ F[k] \in Seq(Messages) /\ F[k] # << >>
  <2> TAKE k \in 1 .. Len(s)
  <2>1. s[k] \in Packets
    OBVIOUS
  <2>2. s[k].message \in Messages
    BY <2>1 DEF Packets
  <2> QED BY <2>2, CountPositive, ChainBelongs DEF PCount
<1> HIDE DEF Messages
<1>3. \A f \in Seq(Messages), m \in Messages : Len(Append(f, m)) = Len(f) + 1 /\ Len(f) \in Nat
  OBVIOUS
<1>4. Q(0)
  <2> SUFFICES ASSUME 1 <= Len(s) PROVE 1 <= P * (Len(F[1]) - 1) + s[1].seq
    OBVIOUS
  <2>1. s # << >> /\ 1 \in 1 .. Len(s) /\ 0 \in Nat /\ 0 \in 0 .. Len(s)
    BY <1>1
  <2>2. s[1].seq = 1
    BY <2>1 DEF Chain
  <2>3. F[1] = Append(F[0], s[1].message)
    <3>1. PICK z : z = 0
      OBVIOUS
    <3>2. z \in Nat /\ z + 1 = 1 /\ z + 1 <= Len(s)
      BY <3>1
    <3>3. F[z + 1] = IF s[z + 1].seq = 1 THEN Append(F[z], s[z + 1].message) ELSE F[z]
      BY <3>2, <1>1
    <3> QED BY <3>1, <3>2, <3>3, <2>2
  <2>4. Len(F[1]) = 1
    BY <2>1, <2>3, <1>1, <1>2, <1>3
  <2> QED BY <2>2, <2>4
<1>5. ASSUME NEW d \in Nat, Q(d) PROVE Q(d + 1)
  <2> SUFFICES ASSUME d + 1 + 1 <= Len(s)
               PROVE  d + 1 + 1 <= P * (Len(F[d + 1 + 1]) - 1) + s[d + 1 + 1].seq
    OBVIOUS
  <2>1. PICK p, q, f, g : p = s[d + 1] /\ q = s[d + 1 + 1] /\ f = F[d + 1] /\ g = F[d + 1 + 1]
    OBVIOUS
  <2>2. d + 1 \in 1 .. Len(s) - 1 /\ d + 1 \in 1 .. Len(s) /\ d + 1 + 1 \in 1 .. Len(s)
        /\ d + 1 \in Nat /\ d + 1 \in 0 .. Len(s) /\ d + 1 <= Len(s)
    BY <1>1
  <2>3. Follows(p, q)
    BY <2>1, <2>2 DEF Chain
  <2>4. /\ p.seq \in 1 .. PCount(p) /\ f \in Seq(Messages) /\ f # << >>
        /\ g = IF q.seq = 1 THEN Append(f, q.message) ELSE f
        /\ q.message \in Messages /\ q.seq \in 1 .. PCount(q)
        /\ PCount(p) \in Nat /\ PCount(p) <= P
        /\ d + 1 <= P * (Len(f) - 1) + p.seq
    BY <2>1, <2>2, <1>1, <1>2, <1>5
  <2>5. PICK l, x : l = Len(f) /\ x = P * (l - 1)
    OBVIOUS
  <2>6. l \in Nat \ {0}
    BY <2>4, <2>5, <1>3
  <2>7. x \in Int /\ P * ((l + 1) - 1) = x + P
    <3>1. PICK y : y = l - 1
      OBVIOUS
    <3>2. y \in Nat /\ (l + 1) - 1 = y + 1
      BY <3>1, <2>6
    <3>3. P * (y + 1) = P * y + P /\ P * y \in Nat
      BY <3>2
    <3> QED BY <3>1, <3>2, <3>3, <2>5
  <2>8. d + 1 <= x + p.seq
    BY <2>4, <2>5
  <2>9. CASE p.seq < PCount(p)
    <3>1. q.seq = p.seq + 1
      BY <2>3, <2>9 DEF Follows
    <3>2. g = f
      BY <3>1, <2>4
    <3>3. d + 1 + 1 <= x + q.seq
      BY <3>1, <2>4, <2>7, <2>8
    <3> QED BY <3>2, <3>3, <2>1, <2>5
  <2>10. CASE ~(p.seq < PCount(p))
    <3>1. q.seq = 1
      BY <2>3, <2>10 DEF Follows
    <3>2. g = Append(f, q.message)
      BY <3>1, <2>4
    <3>3. Len(g) = l + 1
      BY <3>2, <2>4, <2>5, <1>3
    <3>4. d + 1 + 1 <= (x + P) + 1
      BY <2>4, <2>7, <2>8, <2>10
    <3> QED BY <3>1, <3>3, <3>4, <2>1, <2>7
  <2> QED BY <2>9, <2>10
<1> HIDE DEF Q
<1>6. 0 \in S /\ \A d \in Nat : d \in S => d + 1 \in S
  BY <1>4, <1>5
<1> HIDE DEF S
<1>7. Nat \subseteq S
  BY <1>6, Induct
<1>8. CASE Len(s) = 0
  BY <1>8, <1>1, <1>3
<1>9. CASE Len(s) # 0
  <2>1. Len(s) - 1 \in Nat /\ (Len(s) - 1) + 1 = Len(s) /\ Len(s) \in 1 .. Len(s)
    BY <1>1, <1>9
  <2>2. Q(Len(s) - 1)
    BY <1>7, <2>1 DEF S
  <2>3. PICK l, x : l = Len(F[Len(s)]) /\ x = P * (l - 1)
    OBVIOUS
  <2>4. Len(s) <= x + s[Len(s)].seq /\ s[Len(s)].seq <= P
    <3>1. s[Len(s)].seq \in 1 .. PCount(s[Len(s)]) /\ PCount(s[Len(s)]) <= P /\ PCount(s[Len(s)]) \in Nat
      BY <2>1, <1>2
    <3> QED BY <3>1, <2>1, <2>2, <2>3 DEF Q
  <2>5. l \in Nat
    BY <2>1, <2>3, <1>2, <1>3
  <2>6. x \in Int /\ P * l = x + P
    <3>1. PICK y : y = l - 1
      OBVIOUS
    <3>2. y \in Int /\ P * (y + 1) = P * y + P /\ P * y \in Int /\ y + 1 = l
      BY <3>1, <2>5
    <3> QED BY <3>1, <3>2, <2>3
  <2>7. s[Len(s)].seq \in Int
    BY <2>1, <1>2
  <2> QED BY <2>3, <2>4, <2>6, <2>7, <1>1
<1> QED BY <1>8, <1>9

\* What the messages begun in a chain say of its packets.
LEMMA ChainMessages ==
    ASSUME NEW s \in Seq(Packets), Chain(s)
    PROVE  /\ Begun(s) \in Seq(Messages)
           /\ \A k \in 1 .. Len(s) : \E j \in 1 .. Len(Begun(s)) : s[k].message = Begun(s)[j]
           /\ \A P \in Nat : (\A k \in 1 .. Len(s) : PCount(s[k]) <= P) => Len(s) <= P * Len(Begun(s))
<1>1. PICK F : BegunSteps(s, F) /\ Begun(s) = F[Len(s)]
  BY BegunSolved
<1>2. PICK b : b = Begun(s)
  OBVIOUS
<1>3. Len(s) \in Nat /\ Len(s) \in 0 .. Len(s)
  OBVIOUS
<1>4. b \in Seq(Messages)
  BY <1>1, <1>2, <1>3, BegunTyped
<1>5. ASSUME NEW k \in 1 .. Len(s) PROVE \E j \in 1 .. Len(b) : s[k].message = b[j]
  <2>1. PICK g : g = F[k]
    OBVIOUS
  <2>2. g \in Seq(Messages) /\ g # << >> /\ g[Len(g)] = s[k].message
    BY <2>1, <1>1, ChainBelongs
  <2>3. k \in 0 .. Len(s)
    BY <1>3
  <2>4. Len(g) <= Len(b) /\ \A j \in 1 .. Len(g) : b[j] = g[j]
    BY <2>1, <2>3, <1>1, <1>2, BegunGrows
  <2> HIDE DEF Messages
  <2>5. Len(g) \in 1 .. Len(g) /\ Len(g) \in 1 .. Len(b)
    BY <2>2, <2>4, <1>4
  <2> QED BY <2>2, <2>4, <2>5
<1>6. ASSUME NEW P \in Nat, \A k \in 1 .. Len(s) : PCount(s[k]) <= P
      PROVE  Len(s) <= P * Len(b)
  BY <1>1, <1>2, <1>6, ChainBound
<1> QED BY <1>2, <1>4, <1>5, <1>6

\* A sender that knows which messages are pending knows that there is room.
LEMMA WindowOpen ==
    ASSUME PairInv, NEW t \in Tasks, NEW f, NEW size, NEW P \in Nat, NEW L \in Nat,
           Len(Pending(t)) <= L,
           \A j \in 1 .. Len(Pending(t)) : /\ Pending(t)[j].from = f
                                           /\ PacketCount(Pending(t)[j].size) <= P,
           PacketCount(size) \in Nat, P * L + PacketCount(size) <= HF_PACKET_SLOTS
    PROVE  Window(f, t, size)
<1>1. PICK s, c, p : s = Stream(t) /\ c = CopiedSoFar(t) /\ p = Path(t)
  OBVIOUS
<1>2. s = c \o p /\ s \in Seq(Packets) /\ p \in Seq(Packets) /\ c \in Seq(Packets) /\ Chain(s)
  <2>1. << >> \in Seq(Packets)
    OBVIOUS
  <2>2. CopiedSoFar(t) \in Seq(Packets)
    BY <2>1 DEF CopiedSoFar, PairInv, TypeInv, RingInv, TypeOK
  <2> QED BY <2>2, <1>1, StreamTyped, PathOf DEF PairInv, Chained, Stream
<1>3. /\ Len(s) = Len(c) + Len(p) /\ Len(s) \in Nat /\ Len(c) \in Nat /\ Len(p) \in Nat
      /\ \A k \in 1 .. Len(p) : Len(c) + k \in 1 .. Len(s) /\ s[Len(c) + k] = p[k]
  <2>1. Len(s) = Len(c) + Len(p) /\ Len(s) \in Nat /\ Len(c) \in Nat /\ Len(p) \in Nat
    BY <1>2, ConcatProperties
  <2>2. \A k \in 1 .. Len(c) + Len(p) : s[k] = IF k <= Len(c) THEN c[k] ELSE p[k - Len(c)]
    BY <1>2, ConcatProperties
  <2>3. ASSUME NEW k \in 1 .. Len(p) PROVE Len(c) + k \in 1 .. Len(s) /\ s[Len(c) + k] = p[k]
    <3>1. Len(c) + k \in 1 .. Len(c) + Len(p) /\ ~(Len(c) + k <= Len(c)) /\ Len(c) + k - Len(c) = k
      BY <2>1
    <3> QED BY <3>1, <2>1, <2>2
  <2> QED BY <2>1, <2>3
<1>4. PICK b : b = Pending(t) /\ b = Begun(s)
  BY <1>1, PendingOf
<1>5. /\ b \in Seq(Messages)
      /\ \A k \in 1 .. Len(s) : \E j \in 1 .. Len(b) : s[k].message = b[j]
      /\ (\A k \in 1 .. Len(s) : PCount(s[k]) <= P) => Len(s) <= P * Len(b)
  <2>1. s \in Seq(Packets) /\ Chain(s)
    BY <1>2
  <2>2. /\ Begun(s) \in Seq(Messages)
        /\ \A k \in 1 .. Len(s) : \E j \in 1 .. Len(Begun(s)) : s[k].message = Begun(s)[j]
        /\ \A Q \in Nat : (\A k \in 1 .. Len(s) : PCount(s[k]) <= Q) => Len(s) <= Q * Len(Begun(s))
    BY <2>1, ChainMessages, Zenon
  <2> QED BY <2>2, <1>4
<1>6. Len(b) \in Nat /\ Len(b) <= L
  <2> HIDE DEF Messages
  <2> QED BY <1>4, <1>5
<1>7. \A k \in 1 .. Len(s) : s[k].message.from = f /\ PCount(s[k]) <= P
  BY <1>4, <1>5 DEF PCount
<1>8. Len(s) <= P * Len(b)
  BY <1>5, <1>7
<1>9. P * Len(b) <= P * L /\ P * Len(b) \in Nat /\ P * L \in Nat
  <2>1. PICK x, d : x = Len(b) /\ d = L - x
    OBVIOUS
  <2>2. x \in Nat /\ d \in Nat /\ L = x + d
    BY <2>1, <1>6
  <2>3. P * (x + d) = P * x + P * d /\ P * x \in Nat /\ P * d \in Nat
    BY <2>2
  <2> QED BY <2>1, <2>2, <2>3
<1>10. Len(p) + PacketCount(size) <= HF_PACKET_SLOTS
  <2>1. PICK x, y, z : x = P * Len(b) /\ y = P * L /\ z = PacketCount(size)
    OBVIOUS
  <2>2. x \in Nat /\ y \in Nat /\ x <= y /\ Len(s) <= x /\ z \in Nat /\ y + z <= HF_PACKET_SLOTS
    BY <2>1, <1>8, <1>9
  <2>3. Len(p) + z <= HF_PACKET_SLOTS
    BY <2>2, <1>3
  <2> QED BY <2>1, <2>3
<1>11. \A k \in DOMAIN p : p[k].message.from = f
  <2> TAKE k \in DOMAIN p
  <2>1. k \in 1 .. Len(p)
    BY <1>2
  <2> QED BY <2>1, <1>3, <1>7
<1> QED BY <1>1, <1>10, <1>11 DEF Window

-----------------------------------------------------------------------------
(* What the two parts show: every pixel of the image, blurred.             *)

\* The pixel whose window is shown at c: do_gausian copies it there, in one step,
\* or, for the corner of the last columns and lines, in two.
Shown(c) == <<Inwards(c[1]), Inwards(c[2])>>

LEMMA InwardsType ==
    \A k \in 0 .. PART - 1 : Inwards(k) \in 3 .. PART - 4 /\ (k \in 3 .. PART - 4 => Inwards(k) = k)
BY DEF Inwards, PART

LEMMA NearestIs == \A k \in 0 .. PART - 1 : Nearest(k) = Inwards(k)
<1> TAKE k \in 0 .. PART - 1
<1>1. Inner = 3 .. PART - 4
  BY DEF Inner, PART
<1>2. Inwards(k) \in Inner /\ \A m \in Inner : Abs(k - Inwards(k)) <= Abs(k - m)
  BY <1>1 DEF Inwards, Abs, PART
<1>3. ASSUME NEW m \in Inner, \A j \in Inner : Abs(k - m) <= Abs(k - j) PROVE m = Inwards(k)
  <2>1. Abs(k - m) <= Abs(k - Inwards(k))
    BY <1>2, <1>3
  <2> QED BY <2>1, <1>1 DEF Inwards, Abs, PART
<1> QED BY <1>2, <1>3 DEF Nearest

LEMMA CopiedType ==
    \A c \in Square(PART) :
        /\ Copied(c) \in Square(PART) /\ Shown(c) \in Square(PART)
        /\ Shown(Copied(c)) = Shown(c)
        /\ ~(c[1] >= PART - 3 /\ c[2] >= PART - 3) => Copied(c) = Shown(c) /\ Copied(Copied(c)) = Copied(c)
        /\ c[1] >= PART - 3 /\ c[2] >= PART - 3 =>
              /\ Before(Copied(c), c)
              /\ ~(Copied(c)[1] >= PART - 3 /\ Copied(c)[2] >= PART - 3)
<1> TAKE c \in Square(PART)
<1>1. c[1] \in 0 .. PART - 1 /\ c[2] \in 0 .. PART - 1
  BY DEF Square
<1>2. PICK a, b : a = Inwards(c[1]) /\ b = Inwards(c[2])
  OBVIOUS
<1>3. /\ a \in 3 .. PART - 4 /\ b \in 3 .. PART - 4 /\ Inwards(a) = a /\ Inwards(b) = b
      /\ Inwards(PART - 4) = PART - 4 /\ Inwards(PART - 3) = PART - 4
      /\ c[1] >= PART - 3 => a = PART - 4
      /\ c[2] >= PART - 3 => b = PART - 4
  BY <1>1, <1>2 DEF Inwards, PART
<1>4. Shown(c) = <<a, b>> /\ Shown(c) \in Square(PART) /\ Shown(<<a, b>>) = <<a, b>>
  BY <1>2, <1>3 DEF Shown, Square, PART
<1>5. CASE c[1] >= PART - 3 /\ c[2] >= PART - 3
  <2>1. Copied(c) = <<PART - 4, PART - 3>>
    BY <1>5 DEF Copied
  <2>2. /\ Shown(Copied(c)) = <<PART - 4, PART - 4>>
        /\ Copied(c) \in Square(PART)
    BY <2>1, <1>3 DEF Shown, Square, PART
  <2>3. Before(Copied(c), c) /\ ~(Copied(c)[1] >= PART - 3)
    BY <2>1, <1>1, <1>5 DEF Before, PART
  <2> QED BY <2>2, <2>3, <1>3, <1>4, <1>5
<1>6. CASE ~(c[1] >= PART - 3 /\ c[2] >= PART - 3)
  <2>1. Copied(c) = <<a, b>>
    BY <1>2, <1>6 DEF Copied
  <2>2. ~(a >= PART - 3)
    BY <1>3 DEF PART
  <2>3. Copied(<<a, b>>) = <<a, b>>
    BY <1>3, <2>2 DEF Copied
  <2> QED BY <2>1, <2>3, <1>4, <1>6
<1> QED BY <1>5, <1>6

\* What do_gausian leaves in each pixel of a part.
LEMMA DoGausian == \A c \in Square(PART) : do_gausian[c] = image_buffer(PART, Shown(c))
<1> DEFINE Value(g, c) == IF Before(Copied(c), c) THEN g[Copied(c)] ELSE image_buffer(PART, Copied(c))
           P == Square(PART)
           G == [c \in P |-> image_buffer(PART, Shown(c))]
<1>1. G = [c \in P |-> Value(G, c)]
  <2>1. ASSUME NEW c \in P PROVE image_buffer(PART, Shown(c)) = Value(G, c)
    <3>1. /\ Copied(c) \in P /\ Shown(Copied(c)) = Shown(c)
          /\ Before(Copied(c), c) \/ Copied(c) = Shown(c)
      BY CopiedType
    <3>2. G[Copied(c)] = image_buffer(PART, Shown(c))
      BY <3>1
    <3> QED BY <3>1, <3>2
  <2> HIDE DEF Value
  <2> QED BY <2>1
<1>2. do_gausian = CHOOSE g : g = [c \in P |-> Value(g, c)]
  BY DEF do_gausian
<1> HIDE DEF G
<1>3. do_gausian = [c \in P |-> Value(do_gausian, c)]
  BY <1>1, <1>2
<1>4. \A c \in P : do_gausian[c] = Value(do_gausian, c)
  <2> HIDE DEF Value, P
  <2> QED BY <1>3
<1>5. ASSUME NEW c \in P, ~(c[1] >= PART - 3 /\ c[2] >= PART - 3)
      PROVE  do_gausian[c] = image_buffer(PART, Shown(c))
  <2>1. Copied(c) = Shown(c) /\ Copied(Copied(c)) = Copied(c) /\ Copied(c) \in P
    BY <1>5, CopiedType
  <2>2. ~Before(Copied(c), Copied(c))
    <3>1. Copied(c)[1] \in Int /\ Copied(c)[2] \in Int
      BY <2>1 DEF Square
    <3> QED BY <3>1 DEF Before
  <2>3. do_gausian[Copied(c)] = image_buffer(PART, Copied(c))
    BY <2>1, <2>2, <1>4
  <2> QED BY <2>1, <2>3, <1>4
<1>6. ASSUME NEW c \in P, c[1] >= PART - 3 /\ c[2] >= PART - 3
      PROVE  do_gausian[c] = image_buffer(PART, Shown(c))
  <2>1. /\ Copied(c) \in P /\ Before(Copied(c), c) /\ Shown(Copied(c)) = Shown(c)
        /\ ~(Copied(c)[1] >= PART - 3 /\ Copied(c)[2] >= PART - 3)
    BY <1>6, CopiedType
  <2> QED BY <2>1, <1>4, <1>5
<1> QED BY <1>5, <1>6

\* A window that does not leave a picture.
LEMMA WindowInside ==
    ASSUME NEW width \in {PART, IMAGE}, NEW x \in Nat, NEW y \in Nat,
           x - 3 >= 0, x + 3 < width, y - 3 >= 0, y + 3 < width, NEW w \in Cells
    PROVE  image_buffer(width, <<x, y>>)[w] = <<x + w[1] - 3, y + w[2] - 3>>
<1>1. w[1] \in 0 .. 6 /\ w[2] \in 0 .. 6
  BY DEF Cells, Square
<1>2. PICK a, b : a = x + w[1] - 3 /\ b = y + w[2] - 3
  OBVIOUS
<1>3. a \in 0 .. width - 1 /\ b \in 0 .. width - 1
  BY <1>1, <1>2 DEF PART, IMAGE
<1>4. PICK k : k = b * width + a
  OBVIOUS
<1>5. k \in 0 .. width * width - 1 /\ k % width = a /\ k \div width = b
  <2>1. CASE width = PART
    BY <2>1, <1>3, <1>4 DEF PART
  <2>2. CASE width = IMAGE
    BY <2>2, <1>3, <1>4 DEF IMAGE
  <2> QED BY <2>1, <2>2
<1>6. (y + w[2] - 3) * width + x + w[1] - 3 = k
  <2>1. (y + w[2] - 3) * width + x + w[1] - 3 = (y + w[2] - 3) * width + (x + w[1] - 3)
    BY <1>1 DEF PART, IMAGE
  <2> QED BY <2>1, <1>2, <1>4
<1>7. image_buffer(width, <<x, y>>)[w] = IF k \in 0 .. width * width - 1 THEN <<k % width, k \div width>> ELSE Beyond
  BY <1>6 DEF image_buffer
<1> QED BY <1>2, <1>5, <1>7

\* For all eight slaves: a part that comes back to its place shows what the
\* sequential program shows there, but for its border.
LEMMA PartsShown == \A i \in 1 .. 8, k \in {1, 2} : ShownBy(<<i, k>>, <<i, k>>)
<1> SUFFICES ASSUME NEW i \in 1 .. 8, NEW k \in {1, 2}, NEW c \in Square(PART), NEW w \in Cells
             PROVE  /\ do_gausian[c][w] # Beyond
                    /\ InImage(<<i, k>>, do_gausian[c][w])
                         = Sequential[InImage(<<i, k>>, <<Nearest(c[1]), Nearest(c[2])>>)][w]
  BY DEF ShownBy, Shows
<1>1. c[1] \in 0 .. PART - 1 /\ c[2] \in 0 .. PART - 1 /\ w[1] \in 0 .. 6 /\ w[2] \in 0 .. 6
  BY DEF Square, Cells
<1>2. PICK x, y : x = Inwards(c[1]) /\ y = Inwards(c[2])
  OBVIOUS
<1>3. x \in 3 .. PART - 4 /\ y \in 3 .. PART - 4 /\ Nearest(c[1]) = x /\ Nearest(c[2]) = y
  BY <1>1, <1>2, InwardsType, NearestIs
<1>4. PICK l, t : l = Left(<<i, k>>) /\ t = Top(<<i, k>>)
  OBVIOUS
<1>5. l \in {0, 32, 64, 96} /\ t \in {0, 32, 64, 96}
  BY <1>4 DEF Left, Top, PART, IMAGE
<1>6. do_gausian[c][w] = <<x + w[1] - 3, y + w[2] - 3>>
  <2>1. do_gausian[c] = image_buffer(PART, <<x, y>>)
    BY <1>2, DoGausian DEF Shown
  <2>2. x \in Nat /\ y \in Nat /\ x - 3 >= 0 /\ x + 3 < PART /\ y - 3 >= 0 /\ y + 3 < PART
    BY <1>3 DEF PART
  <2> QED BY <2>1, <2>2, WindowInside
<1>7. Sequential[<<l + x, t + y>>][w] = <<(l + x) + w[1] - 3, (t + y) + w[2] - 3>>
  <2>1. /\ l + x \in Nat /\ t + y \in Nat
        /\ (l + x) - 3 >= 0 /\ (l + x) + 3 < IMAGE /\ (t + y) - 3 >= 0 /\ (t + y) + 3 < IMAGE
    BY <1>3, <1>5 DEF PART, IMAGE
  <2>2. <<l + x, t + y>> \in image
    BY <2>1 DEF image, Square, IMAGE
  <2>3. Sequential[<<l + x, t + y>>] = image_buffer(IMAGE, <<l + x, t + y>>)
    BY <2>2 DEF Sequential
  <2> QED BY <2>1, <2>3, WindowInside
<1>8. InImage(<<i, k>>, <<x + w[1] - 3, y + w[2] - 3>>) = <<l + (x + w[1] - 3), t + (y + w[2] - 3)>>
  BY <1>4 DEF InImage
<1>9. InImage(<<i, k>>, <<x, y>>) = <<l + x, t + y>>
  BY <1>4 DEF InImage
<1>10. /\ l + (x + w[1] - 3) = (l + x) + w[1] - 3 /\ t + (y + w[2] - 3) = (t + y) + w[2] - 3
       /\ x + w[1] - 3 # -1
  BY <1>1, <1>3, <1>5 DEF PART
<1>11. <<x + w[1] - 3, y + w[2] - 3>> # Beyond
  BY <1>10 DEF Beyond
<1> QED BY <1>3, <1>6, <1>7, <1>8, <1>9, <1>10, <1>11

-----------------------------------------------------------------------------
(* What a task has: where it is, the call it is in, the message in its      *)
(* buffer, and those on their way to it.                                    *)

\* The messages of one slave.
query(i)   == Message(Sr(i), "query", i, 0, TASK_DESCRIPTION_SIZE)
answer(i)  == Message(Monitor(i), "reply", i, 0, TASK_DESCRIPTION_SIZE)
part(i)    == [k \in {1, 2} |-> Message(Sr(i), "part", i, k, PART_BYTES)]
blurred(i) == [k \in {1, 2} |-> Message(Escravo(i), "blurred", i, k, PART_BYTES)]

\* The messages of parts x + 1 .. y.
Run(m, x, y) == [k \in 1 .. y - x |-> m[x + k]]

\* A task v has received a message and not used it yet.
InHand(v) == v.call = "no" /\ v.pc \in {"send", "store"}
Quiet(v)  == v.pending = << >> /\ ~InHand(v)

PcsFit(S, M, E) ==
    /\ S.pc \in {"query", "answer", "part1", "part2", "receive", "store", "post"}
    /\ M.pc \in {"receive", "send"} /\ E.pc \in {"receive", "send"}
    /\ S.call # "no" => S.pc \in {"part1", "store"}
    /\ M.call # "no" => M.pc = "send"
    /\ E.call # "no" => E.pc = "send"

\* The query, or its answer, is somewhere between sr and the monitor.
Asking(i, S, M) ==
    \/ M.pending = <<query(i)>> /\ ~InHand(M) /\ S.pending = << >>
    \/ M.pending = << >> /\ InHand(M) /\ M.hand = <<query(i)>> /\ S.pending = << >>
    \/ Quiet(M) /\ S.pending = <<answer(i)>>

HasAnswer(i, S, M) == S.call = "no" /\ S.hand = <<answer(i)>> /\ Quiet(M)

Asked(i, S, M) ==
    /\ S.pc = "query" => Quiet(M) /\ S.pending = << >>
    /\ S.pc = "answer" => Asking(i, S, M)
    /\ S.pc = "part1" => \/ S.call # "no" /\ Asking(i, S, M)
                         \/ HasAnswer(i, S, M) /\ S.pending = << >>
    /\ S.pc = "part2" => HasAnswer(i, S, M)
    /\ S.pc \in {"receive", "store", "post"} => Quiet(M)

\* Parts that sr has sent, stored, and received.
sent(S)      == IF S.pc = "part2" THEN 1 ELSE 2
stored(S, c) == IF S.pc = "post" THEN c + 1 ELSE c
back(S, c)   == IF InHand(S) THEN c + 1 ELSE stored(S, c)

\* Of the parts sent, escravo has received the first b and sent back the first a.
Flow(i, S, E, c, a, b) ==
    /\ c \in 0 .. 2 /\ back(S, c) <= a /\ a <= b /\ b <= sent(S)
    /\ S.pending = Run(blurred(i), back(S, c), a)
    /\ E.pending = Run(part(i), b, sent(S))
    /\ IF InHand(E) THEN b = a + 1 /\ E.hand = <<part(i)[b]>> ELSE b = a
    /\ InHand(S) => S.hand = <<blurred(i)[back(S, c)]>>

Preparing(S) == S.pc \in {"query", "answer", "part1"}

PartsFlow(i, S, E, c) ==
    IF Preparing(S) THEN Quiet(E) /\ c = 0 ELSE \E a, b \in 0 .. 2 : Flow(i, S, E, c, a, b)

Good(i, S, M, E, c) == PcsFit(S, M, E) /\ Asked(i, S, M) /\ PartsFlow(i, S, E, c)

\* What a step does to a task.
Moves(v, w, from, to) == /\ v.pc = from /\ w.pc = to
                         /\ w.call = v.call /\ w.hand = v.hand /\ w.pending = v.pending
Calls(v, w, from, to) == /\ v.pc = from /\ w.pc = to
                         /\ v.call = "no" /\ w.call # "no" /\ w.pending = v.pending
Gets(v, w, m) == /\ w.pc = v.pc /\ w.call = v.call /\ w.hand = v.hand
                 /\ w.pending = Append(v.pending, m)
Reads(v, w) == /\ w.pc = v.pc /\ v.call # "no" /\ w.call = "no"
               /\ v.pending # << >> /\ w.hand = <<Head(v.pending)>> /\ w.pending = Tail(v.pending)

LEMMA Runs ==
    ASSUME NEW m, NEW x \in 0 .. 2, NEW y \in x .. 2
    PROVE  /\ Len(Run(m, x, y)) = y - x
           /\ \A k \in 1 .. y - x : Run(m, x, y)[k] = m[x + k]
           /\ x = y => Run(m, x, y) = << >>
           /\ x < y => /\ Run(m, x, y) # << >> /\ Head(Run(m, x, y)) = m[x + 1]
                       /\ Tail(Run(m, x, y)) = Run(m, x + 1, y)
           /\ y < 2 => Append(Run(m, x, y), m[y + 1]) = Run(m, x, y + 1)
<1>1. y - x \in Nat
  OBVIOUS
<1>2. Len(Run(m, x, y)) = y - x /\ \A k \in 1 .. y - x : Run(m, x, y)[k] = m[x + k]
  BY <1>1 DEF Run
<1>3. x = y => Run(m, x, y) = << >>
  BY <1>1 DEF Run
<1>4. ASSUME x < y
      PROVE  /\ Run(m, x, y) # << >> /\ Head(Run(m, x, y)) = m[x + 1]
             /\ Tail(Run(m, x, y)) = Run(m, x + 1, y)
  <2>1. Run(m, x, y) # << >> /\ Head(Run(m, x, y)) = m[x + 1]
    BY <1>2, <1>4
  <2>2. Tail(Run(m, x, y)) = [k \in 1 .. (y - x) - 1 |-> m[x + (k + 1)]]
    BY <1>1, <1>4 DEF Run
  <2>3. \A k \in 1 .. (y - x) - 1 : x + (k + 1) = (x + 1) + k
    OBVIOUS
  <2>4. (y - x) - 1 = y - (x + 1)
    OBVIOUS
  <2> QED BY <2>1, <2>2, <2>3, <2>4 DEF Run
<1>5. ASSUME y < 2 PROVE Append(Run(m, x, y), m[y + 1]) = Run(m, x, y + 1)
  <2>1. Append(Run(m, x, y), m[y + 1]) =
           [k \in 1 .. (y - x) + 1 |-> IF k = (y - x) + 1 THEN m[y + 1] ELSE m[x + k]]
    BY <1>1 DEF Run
  <2>2. \A k \in 1 .. (y - x) + 1 : k = (y - x) + 1 => x + k = y + 1
    OBVIOUS
  <2>3. (y - x) + 1 = (y + 1) - x
    OBVIOUS
  <2> QED BY <2>1, <2>2, <2>3 DEF Run
<1> QED BY <1>2, <1>3, <1>4, <1>5

-----------------------------------------------------------------------------
(* The steps of one slave keep this. *)

LEMMA AloneInRun ==
    \A m : /\ Append(<< >>, m) = <<m>> /\ <<m>> # << >> /\ Head(<<m>>) = m /\ Tail(<<m>>) = << >>
OBVIOUS

LEMMA GoodQuery ==
    ASSUME NEW i, NEW S, NEW M, NEW E, NEW c, NEW S2, NEW M2, Good(i, S, M, E, c),
           S.call = "no", Moves(S, S2, "query", "answer"), Gets(M, M2, query(i))
    PROVE  Good(i, S2, M2, E, c)
<1>1. PcsFit(S2, M2, E)
  BY DEF Good, PcsFit, Moves, Gets
<1>2. Asked(i, S2, M2)
  BY AloneInRun DEF Good, Asked, Asking, Moves, Gets, Quiet, InHand
<1>3. PartsFlow(i, S2, E, c)
  BY DEF Good, PartsFlow, Preparing, Moves
<1> QED BY <1>1, <1>2, <1>3 DEF Good

LEMMA GoodAnswer ==
    ASSUME NEW i, NEW S, NEW M, NEW E, NEW c, NEW S2, Good(i, S, M, E, c),
           Calls(S, S2, "answer", "part1")
    PROVE  Good(i, S2, M, E, c)
<1>1. PcsFit(S2, M, E)
  BY DEF Good, PcsFit, Calls
<1>2. Asked(i, S2, M)
  BY DEF Good, Asked, Asking, Calls
<1>3. PartsFlow(i, S2, E, c)
  BY DEF Good, PartsFlow, Preparing, Calls
<1> QED BY <1>1, <1>2, <1>3 DEF Good

LEMMA GoodSendFirst ==
    ASSUME NEW i, NEW S, NEW M, NEW E, NEW c, NEW S2, NEW E2, Good(i, S, M, E, c),
           S.call = "no", Moves(S, S2, "part1", "part2"), Gets(E, E2, part(i)[1])
    PROVE  Good(i, S2, M, E2, c)
<1>1. PcsFit(S2, M, E2)
  BY DEF Good, PcsFit, Moves, Gets
<1>2. HasAnswer(i, S, M) /\ S.pending = << >>
  BY DEF Good, Asked, Moves
<1>3. Asked(i, S2, M)
  BY <1>2 DEF Asked, HasAnswer, Moves
<1>4. Quiet(E) /\ c = 0
  BY DEF Good, PartsFlow, Preparing, Moves
<1>5. S2.pc = "part2" /\ S2.pending = << >> /\ E2.pending = <<part(i)[1]>> /\ ~InHand(E2)
  BY <1>2, <1>4, AloneInRun DEF Quiet, Moves, Gets, InHand
<1>6. Flow(i, S2, E2, c, 0, 0)
  <2>1. back(S2, c) = 0 /\ sent(S2) = 1 /\ ~InHand(S2)
    BY <1>4, <1>5 DEF back, stored, sent, InHand
  <2>2. Run(blurred(i), 0, 0) = << >> /\ Run(part(i), 0, 1) = <<part(i)[1]>>
    <3>1. Run(blurred(i), 0, 0) = << >> /\ Run(part(i), 0, 0) = << >>
      BY Runs
    <3>2. PICK z : z = 0
      OBVIOUS
    <3>3. z \in 0 .. 2 /\ z \in z .. 2 /\ z < 2 /\ z + 1 = 1
      BY <3>2
    <3>4. Append(Run(part(i), z, z), part(i)[z + 1]) = Run(part(i), z, z + 1)
      BY <3>3, Runs
    <3>5. Append(Run(part(i), 0, 0), part(i)[1]) = Run(part(i), 0, 1)
      BY <3>2, <3>3, <3>4
    <3> QED BY <3>1, <3>5, AloneInRun
  <2> QED BY <2>1, <2>2, <1>4, <1>5 DEF Flow
<1>7. PartsFlow(i, S2, E2, c)
  BY <1>5, <1>6 DEF PartsFlow, Preparing
<1> QED BY <1>1, <1>3, <1>7 DEF Good

LEMMA GoodSendSecond ==
    ASSUME NEW i, NEW S, NEW M, NEW E, NEW c, NEW S2, NEW E2, Good(i, S, M, E, c),
           S.call = "no", Moves(S, S2, "part2", "receive"), Gets(E, E2, part(i)[2])
    PROVE  Good(i, S2, M, E2, c)
<1>1. PcsFit(S2, M, E2)
  BY DEF Good, PcsFit, Moves, Gets
<1>2. Asked(i, S2, M)
  BY DEF Good, Asked, HasAnswer, Moves
<1>3. PICK a, b \in 0 .. 2 : Flow(i, S, E, c, a, b)
  BY DEF Good, PartsFlow, Preparing, Moves
<1>4. /\ ~InHand(S) /\ ~InHand(S2) /\ back(S2, c) = back(S, c)
      /\ sent(S) = 1 /\ sent(S2) = 2 /\ S2.pending = S.pending
      /\ InHand(E2) = InHand(E) /\ E2.hand = E.hand /\ E2.pending = Append(E.pending, part(i)[2])
  BY DEF InHand, back, stored, sent, Moves, Gets
<1>5. b <= 1 /\ b \in 0 .. 2 /\ 1 \in b .. 2
  BY <1>3, <1>4 DEF Flow
<1>6. Append(Run(part(i), b, 1), part(i)[1 + 1]) = Run(part(i), b, 1 + 1)
  BY <1>5, Runs
<1>7. Flow(i, S2, E2, c, a, b)
  BY <1>3, <1>4, <1>5, <1>6 DEF Flow
<1>8. PartsFlow(i, S2, E2, c)
  BY <1>7 DEF PartsFlow, Preparing, Moves
<1> QED BY <1>1, <1>2, <1>8 DEF Good

LEMMA GoodReceiveBlurred ==
    ASSUME NEW i, NEW S, NEW M, NEW E, NEW c, NEW S2, Good(i, S, M, E, c),
           Calls(S, S2, "receive", "store")
    PROVE  Good(i, S2, M, E, c)
<1>1. PcsFit(S2, M, E)
  BY DEF Good, PcsFit, Calls
<1>2. Asked(i, S2, M)
  BY DEF Good, Asked, Calls
<1>3. PICK a, b \in 0 .. 2 : Flow(i, S, E, c, a, b)
  BY DEF Good, PartsFlow, Preparing, Calls
<1>4. /\ ~InHand(S) /\ ~InHand(S2) /\ back(S2, c) = back(S, c)
      /\ sent(S2) = sent(S) /\ S2.pending = S.pending
  BY DEF InHand, back, stored, sent, Calls
<1>5. Flow(i, S2, E, c, a, b)
  BY <1>3, <1>4 DEF Flow
<1>6. PartsFlow(i, S2, E, c)
  BY <1>5 DEF PartsFlow, Preparing, Calls
<1> QED BY <1>1, <1>2, <1>6 DEF Good

LEMMA GoodStore ==
    ASSUME NEW i, NEW S, NEW M, NEW E, NEW c, NEW S2, Good(i, S, M, E, c),
           S.call = "no", Moves(S, S2, "store", "post")
    PROVE  Good(i, S2, M, E, c) /\ c \in {0, 1} /\ S.hand = <<blurred(i)[c + 1]>>
<1>1. PcsFit(S2, M, E)
  BY DEF Good, PcsFit, Moves
<1>2. Asked(i, S2, M)
  BY DEF Good, Asked, Moves
<1>3. PICK a, b \in 0 .. 2 : Flow(i, S, E, c, a, b)
  BY DEF Good, PartsFlow, Preparing, Moves
<1>4. /\ InHand(S) /\ ~InHand(S2) /\ back(S2, c) = c + 1 /\ back(S, c) = c + 1
      /\ sent(S2) = sent(S) /\ S2.pending = S.pending
  BY DEF InHand, back, stored, sent, Moves
<1>5. Flow(i, S2, E, c, a, b)
  BY <1>3, <1>4 DEF Flow
<1>6. PartsFlow(i, S2, E, c)
  BY <1>5 DEF PartsFlow, Preparing, Moves
<1>7. c \in {0, 1} /\ S.hand = <<blurred(i)[c + 1]>>
  BY <1>3, <1>4 DEF Flow
<1> QED BY <1>1, <1>2, <1>6, <1>7 DEF Good

LEMMA GoodPost ==
    ASSUME NEW i, NEW S, NEW M, NEW E, NEW c, NEW S2, Good(i, S, M, E, c),
           Moves(S, S2, "post", "receive")
    PROVE  Good(i, S2, M, E, c + 1) /\ c \in {0, 1}
<1>1. PcsFit(S2, M, E)
  BY DEF Good, PcsFit, Moves
<1>2. Asked(i, S2, M)
  BY DEF Good, Asked, Moves
<1>3. PICK a, b \in 0 .. 2 : Flow(i, S, E, c, a, b)
  BY DEF Good, PartsFlow, Preparing, Moves
<1>4. /\ ~InHand(S) /\ ~InHand(S2) /\ back(S2, c + 1) = c + 1 /\ back(S, c) = c + 1
      /\ sent(S2) = sent(S) /\ S2.pending = S.pending
  BY DEF InHand, back, stored, sent, Moves
<1>5. c \in {0, 1}
  BY <1>3, <1>4 DEF Flow
<1>6. Flow(i, S2, E, c + 1, a, b)
  BY <1>3, <1>4, <1>5 DEF Flow
<1>7. PartsFlow(i, S2, E, c + 1)
  BY <1>6 DEF PartsFlow, Preparing, Moves
<1> QED BY <1>1, <1>2, <1>5, <1>7 DEF Good

LEMMA GoodMonitorCalls ==
    ASSUME NEW i, NEW S, NEW M, NEW E, NEW c, NEW M2, Good(i, S, M, E, c),
           Calls(M, M2, "receive", "send")
    PROVE  Good(i, S, M2, E, c)
<1>1. PcsFit(S, M2, E)
  BY DEF Good, PcsFit, Calls
<1>2. ~InHand(M) /\ ~InHand(M2) /\ M2.pending = M.pending
  BY DEF InHand, Calls
<1>3. Asked(i, S, M2)
  BY <1>2 DEF Good, Asked, Asking, HasAnswer, Quiet
<1> QED BY <1>1, <1>3 DEF Good

LEMMA GoodReply ==
    ASSUME NEW i, NEW S, NEW M, NEW E, NEW c, NEW S2, NEW M2, Good(i, S, M, E, c),
           M.call = "no", M.pc = "send"
    PROVE  /\ M.hand = <<query(i)>>
           /\ Moves(M, M2, "send", "receive") /\ Gets(S, S2, answer(i)) => Good(i, S2, M2, E, c)
           /\ S.pending = << >>
<1>1. InHand(M)
  BY DEF InHand
<1>2. Asking(i, S, M) /\ (S.pc = "answer" \/ (S.pc = "part1" /\ S.call # "no"))
  BY <1>1 DEF Good, Asked, HasAnswer, Quiet, PcsFit
<1>3. M.pending = << >> /\ M.hand = <<query(i)>> /\ S.pending = << >>
  BY <1>1, <1>2, AloneInRun DEF Asking, Quiet
<1>4. ASSUME Moves(M, M2, "send", "receive"), Gets(S, S2, answer(i)) PROVE Good(i, S2, M2, E, c)
  <2>1. PcsFit(S2, M2, E)
    BY <1>4 DEF Good, PcsFit, Moves, Gets
  <2>2. Quiet(M2) /\ S2.pending = <<answer(i)>>
    BY <1>3, <1>4, AloneInRun DEF Moves, Gets, Quiet, InHand
  <2>3. Asked(i, S2, M2)
    BY <2>2, <1>2, <1>4 DEF Asked, Asking, Gets
  <2>4. PartsFlow(i, S2, E, c)
    BY <1>2, <1>4 DEF Good, PartsFlow, Preparing, Gets
  <2> QED BY <2>1, <2>3, <2>4 DEF Good
<1> QED BY <1>3, <1>4

LEMMA GoodEscravoCalls ==
    ASSUME NEW i, NEW S, NEW M, NEW E, NEW c, NEW E2, Good(i, S, M, E, c),
           Calls(E, E2, "receive", "send")
    PROVE  Good(i, S, M, E2, c)
<1>1. PcsFit(S, M, E2)
  BY DEF Good, PcsFit, Calls
<1>2. ~InHand(E) /\ ~InHand(E2) /\ E2.pending = E.pending
  BY DEF InHand, Calls
<1>3. PartsFlow(i, S, E2, c)
  BY <1>2 DEF Good, PartsFlow, Flow, Quiet
<1> QED BY <1>1, <1>3 DEF Good

\* The part that escravo sends back, and what is pending at sr then.
LEMMA GoodSendBlurred ==
    ASSUME NEW i, NEW S, NEW M, NEW E, NEW c, Good(i, S, M, E, c), E.call = "no", E.pc = "send"
    PROVE  \E b \in {1, 2} :
              /\ E.hand = <<part(i)[b]>>
              /\ \E x \in 0 .. 1 : S.pending = Run(blurred(i), x, b - 1) /\ x <= b - 1
              /\ \A S2, E2 : Moves(E, E2, "send", "receive") /\ Gets(S, S2, blurred(i)[b])
                                => Good(i, S2, M, E2, c)
<1>1. InHand(E)
  BY DEF InHand
<1>2. ~Preparing(S)
  BY <1>1 DEF Good, PartsFlow, Quiet
<1>3. PICK a, b \in 0 .. 2 : Flow(i, S, E, c, a, b)
  BY <1>2 DEF Good, PartsFlow
<1>4. PICK x : x = back(S, c)
  OBVIOUS
<1>5. x \in 0 .. 2 /\ x <= a /\ b = a + 1 /\ b \in {1, 2} /\ a < 2 /\ a \in x .. 2 /\ x \in 0 .. 1
  BY <1>1, <1>3, <1>4 DEF Flow, back, stored
<1>6. E.hand = <<part(i)[b]>> /\ S.pending = Run(blurred(i), x, b - 1) /\ x <= b - 1
  BY <1>1, <1>3, <1>4, <1>5 DEF Flow
<1>7. Append(Run(blurred(i), x, a), blurred(i)[a + 1]) = Run(blurred(i), x, a + 1)
  BY <1>5, Runs
<1>8. ASSUME NEW S2, NEW E2, Moves(E, E2, "send", "receive"), Gets(S, S2, blurred(i)[b])
      PROVE  Good(i, S2, M, E2, c)
  <2>1. PcsFit(S2, M, E2)
    BY <1>8 DEF Good, PcsFit, Moves, Gets
  <2>2. S2.pc = S.pc /\ S2.call = S.call /\ S2.hand = S.hand /\ ~Preparing(S2)
        /\ S2.pending = Run(blurred(i), x, b)
    BY <1>2, <1>3, <1>4, <1>5, <1>7, <1>8 DEF Gets, Preparing, Flow
  <2>3. Asked(i, S2, M)
    BY <2>2, <1>2 DEF Good, Asked, HasAnswer, Preparing
  <2>4. back(S2, c) = x /\ sent(S2) = sent(S) /\ InHand(S2) = InHand(S) /\ ~InHand(E2) /\ E2.pending = E.pending
    BY <2>2, <1>4, <1>8 DEF back, stored, sent, InHand, Moves
  <2>5. Flow(i, S2, E2, c, b, b)
    BY <2>2, <2>4, <1>3, <1>4, <1>5 DEF Flow
  <2>6. PartsFlow(i, S2, E2, c)
    BY <2>2, <2>5 DEF PartsFlow
  <2> QED BY <2>1, <2>3, <2>6 DEF Good
<1> QED BY <1>5, <1>6, <1>8

LEMMA GoodSrReads ==
    ASSUME NEW i, NEW S, NEW M, NEW E, NEW c, NEW S2, Good(i, S, M, E, c), Reads(S, S2)
    PROVE  Good(i, S2, M, E, c)
<1>1. PcsFit(S2, M, E)
  BY DEF Good, PcsFit, Reads
<1>2. S.pc \in {"part1", "store"} /\ S2.pc = S.pc /\ S2.call = "no" /\ ~InHand(S)
  BY DEF Good, PcsFit, Reads, InHand
<1>3. CASE S.pc = "part1"
  <2>1. Quiet(M) /\ S.pending = <<answer(i)>>
    BY <1>2, <1>3 DEF Good, Asked, Asking, HasAnswer, Reads
  <2>2. S2.hand = <<answer(i)>> /\ S2.pending = << >>
    BY <2>1, AloneInRun DEF Reads
  <2>3. Asked(i, S2, M)
    BY <2>1, <2>2, <1>2, <1>3 DEF Asked, HasAnswer
  <2>4. PartsFlow(i, S2, E, c)
    BY <1>2, <1>3 DEF Good, PartsFlow, Preparing
  <2> QED BY <2>3, <2>4, <1>1 DEF Good
<1>4. CASE S.pc = "store"
  <2>1. PICK a, b \in 0 .. 2 : Flow(i, S, E, c, a, b)
    BY <1>4 DEF Good, PartsFlow, Preparing
  <2>2. PICK x : x = back(S, c)
    OBVIOUS
  <2>3. x = c /\ x \in 0 .. 2 /\ x <= a /\ S.pending = Run(blurred(i), x, a)
    BY <2>1, <2>2, <1>2, <1>4 DEF Flow, back, stored
  <2>4. x < a
    <3>1. x = a => Run(blurred(i), x, a) = << >>
      BY <2>3, Runs
    <3> QED BY <3>1, <2>3 DEF Reads
  <2>5. S2.hand = <<blurred(i)[x + 1]>> /\ S2.pending = Run(blurred(i), x + 1, a)
    <3>1. a \in x .. 2
      BY <2>3
    <3>2. Head(Run(blurred(i), x, a)) = blurred(i)[x + 1] /\ Tail(Run(blurred(i), x, a)) = Run(blurred(i), x + 1, a)
      BY <2>3, <2>4, <3>1, Runs
    <3> QED BY <3>2, <2>3 DEF Reads
  <2>6. InHand(S2) /\ back(S2, c) = x + 1 /\ sent(S2) = sent(S)
    BY <2>3, <1>2, <1>4 DEF InHand, back, sent
  <2>7. Flow(i, S2, E, c, a, b)
    BY <2>1, <2>3, <2>4, <2>5, <2>6 DEF Flow
  <2>8. PartsFlow(i, S2, E, c)
    BY <2>7, <1>2, <1>4 DEF PartsFlow, Preparing
  <2>9. Asked(i, S2, M)
    BY <1>2, <1>4 DEF Good, Asked
  <2> QED BY <2>8, <2>9, <1>1 DEF Good
<1> QED BY <1>2, <1>3, <1>4

LEMMA GoodMonitorReads ==
    ASSUME NEW i, NEW S, NEW M, NEW E, NEW c, NEW M2, Good(i, S, M, E, c), Reads(M, M2)
    PROVE  Good(i, S, M2, E, c)
<1>1. PcsFit(S, M2, E)
  BY DEF Good, PcsFit, Reads
<1>2. M.pc = "send" /\ M.pending # << >> /\ ~InHand(M) /\ ~Quiet(M)
  BY DEF Good, PcsFit, Reads, InHand, Quiet
<1>3. Asking(i, S, M) /\ (S.pc = "answer" \/ (S.pc = "part1" /\ S.call # "no"))
  BY <1>2 DEF Good, Asked, HasAnswer, PcsFit
<1>4. M.pending = <<query(i)>> /\ S.pending = << >>
  BY <1>2, <1>3 DEF Asking
<1>5. M2.pending = << >> /\ InHand(M2) /\ M2.hand = <<query(i)>>
  BY <1>2, <1>4, AloneInRun DEF Reads, InHand
<1>6. Asked(i, S, M2)
  BY <1>3, <1>4, <1>5 DEF Asked, Asking
<1> QED BY <1>1, <1>6 DEF Good

LEMMA GoodEscravoReads ==
    ASSUME NEW i, NEW S, NEW M, NEW E, NEW c, NEW E2, Good(i, S, M, E, c), Reads(E, E2)
    PROVE  Good(i, S, M, E2, c)
<1>1. PcsFit(S, M, E2)
  BY DEF Good, PcsFit, Reads
<1>2. E.pc = "send" /\ E.pending # << >> /\ ~InHand(E) /\ InHand(E2)
  BY DEF Good, PcsFit, Reads, InHand
<1>3. ~Preparing(S)
  BY <1>2 DEF Good, PartsFlow, Quiet
<1>4. PICK a, b \in 0 .. 2 : Flow(i, S, E, c, a, b)
  BY <1>3 DEF Good, PartsFlow
<1>5. PICK y : y = sent(S)
  OBVIOUS
<1>6. y \in {1, 2} /\ b = a /\ b <= y /\ y \in b .. 2 /\ E.pending = Run(part(i), b, y)
  BY <1>2, <1>4, <1>5 DEF Flow, sent
<1>7. b < y
  <2>1. b = y => Run(part(i), b, y) = << >>
    BY <1>6, Runs
  <2> QED BY <2>1, <1>2, <1>6
<1>8. E2.hand = <<part(i)[b + 1]>> /\ E2.pending = Run(part(i), b + 1, y)
  <2>1. Head(Run(part(i), b, y)) = part(i)[b + 1] /\ Tail(Run(part(i), b, y)) = Run(part(i), b + 1, y)
    BY <1>6, <1>7, Runs
  <2> QED BY <2>1, <1>6 DEF Reads
<1>9. Flow(i, S, E2, c, a, b + 1)
  BY <1>2, <1>4, <1>5, <1>6, <1>7, <1>8 DEF Flow, back, stored
<1>10. b + 1 \in 0 .. 2
  BY <1>6, <1>7
<1>11. PartsFlow(i, S, E2, c)
  BY <1>3, <1>9, <1>10 DEF PartsFlow
<1> QED BY <1>1, <1>11 DEF Good

-----------------------------------------------------------------------------
(* The same views, of the tasks of a state.                                *)

View(t) == [pc      |-> pc[t],
            call    |-> receiving[t],
            hand    |-> IF receiving[t] = "no" /\ Whole(buf[t]) THEN <<buf[t][1].message>> ELSE << >>,
            pending |-> Pending(t)]

SlaveGood(i) == Good(i, View(Sr(i)), View(Monitor(i)), View(Escravo(i)), count[i])

\* The tasks of the slaves, and no two have the same name.
LEMMA Names ==
    /\ \A i \in Slaves : Sr(i) \in Tasks /\ Monitor(i) \in Tasks /\ Escravo(i) \in Tasks
    /\ \A i, j : Sr(i) # Monitor(j) /\ Sr(i) # Escravo(j) /\ Monitor(i) # Escravo(j)
    /\ \A i, j : i # j => Sr(i) # Sr(j) /\ Monitor(i) # Monitor(j) /\ Escravo(i) # Escravo(j)
    /\ \A t \in Tasks : \E i \in Slaves : t = Sr(i) \/ t = Monitor(i) \/ t = Escravo(i)
<1>1. Tasks = {"sr", "monitor", "escravo"} \X Slaves
  BY AppAssumption DEF AppTasks
<1>2. \A t \in Tasks : \E i \in Slaves : t = Sr(i) \/ t = Monitor(i) \/ t = Escravo(i)
  BY <1>1 DEF Sr, Monitor, Escravo
<1>3. \A i \in Slaves : Sr(i) \in Tasks /\ Monitor(i) \in Tasks /\ Escravo(i) \in Tasks
  BY <1>1 DEF Sr, Monitor, Escravo
<1>4. \A i, j : Sr(i) # Monitor(j) /\ Sr(i) # Escravo(j) /\ Monitor(i) # Escravo(j)
  BY DEF Sr, Monitor, Escravo
<1>5. \A i, j : i # j => Sr(i) # Sr(j) /\ Monitor(i) # Monitor(j) /\ Escravo(i) # Escravo(j)
  BY DEF Sr, Monitor, Escravo
<1> QED BY <1>2, <1>3, <1>4, <1>5

LEMMA SameGood ==
    ASSUME NEW i \in Slaves, SlaveGood(i), \A t \in Tasks : View(t)' = View(t), count'[i] = count[i]
    PROVE  SlaveGood(i)'
<1>1. /\ View(Sr(i))' = View(Sr(i)) /\ View(Monitor(i))' = View(Monitor(i))
      /\ View(Escravo(i))' = View(Escravo(i))
  BY Names
<1> QED BY <1>1 DEF SlaveGood

\* A step that leaves a task out.
LEMMA ViewSame ==
    ASSUME NEW t, pc'[t] = pc[t], receiving'[t] = receiving[t],
           receiving[t] = "no" => buf'[t] = buf[t], Pending(t)' = Pending(t)
    PROVE  View(t)' = View(t)
<1>1. CASE receiving[t] = "no"
  BY <1>1 DEF View, Whole
<1>2. CASE receiving[t] # "no"
  BY <1>2 DEF View
<1> QED BY <1>1, <1>2

LEMMA ForwardsViews ==
    ASSUME Forwards, UNCHANGED pc
    PROVE  \A t \in Tasks : View(t)' = View(t)
<1> TAKE t \in Tasks
<1>1. Stream(t)' = Stream(t)
  BY DEF Forwards
<1>2. Pending(t)' = Pending(t)
  BY <1>1, PendingOf
<1> QED BY <1>2, ViewSame DEF Forwards, recvVars

LEMMA TakeViews ==
    ASSUME PairInv, TypeInv', NEW t \in Tasks, TakePacket(t), UNCHANGED pc
    PROVE  /\ \A r \in Tasks \ {t} : View(r)' = View(r)
           /\ View(t)' = View(t) \/ Reads(View(t), View(t)')
<1>1. Taken(t)
  BY TakeReturns
<1>2. \A r \in Tasks \ {t} : View(r)' = View(r)
  <2> TAKE r \in Tasks \ {t}
  <2>1. Stream(r)' = Stream(r) /\ receiving'[r] = receiving[r] /\ buf'[r] = buf[r]
    BY <1>1 DEF Taken
  <2>2. Pending(r)' = Pending(r)
    BY <2>1, PendingOf
  <2> QED BY <2>1, <2>2, ViewSame
<1>3. receiving[t] # "no"
  BY <1>1 DEF Taken
<1>4. ASSUME Pending(t)' = Pending(t), receiving'[t] = receiving[t] PROVE View(t)' = View(t)
  BY <1>3, <1>4, ViewSame
<1>5. ASSUME PortReturn(t), receiving'[t] = "no", Whole(buf'[t]), LastReceived(t)' = buf'[t][1].message
      PROVE  Reads(View(t), View(t)')
  <2>1. Pending(t) # << >> /\ Pending(t)' = Tail(Pending(t)) /\ buf'[t][1].message = Head(Pending(t))
    BY <1>5 DEF PortReturn
  <2>2. View(t)'.hand = <<buf'[t][1].message>> /\ View(t)'.pending = Pending(t)'
        /\ View(t)'.call = "no" /\ View(t)'.pc = pc'[t]
    BY <1>5 DEF View, Whole
  <2>3. View(t).pending = Pending(t) /\ View(t).call = receiving[t] /\ View(t).pc = pc[t]
    BY DEF View
  <2> QED BY <2>1, <2>2, <2>3, <1>3 DEF Reads
<1> QED BY <1>2, <1>4, <1>5, TakeReturns

LEMMA DriverViews ==
    ASSUME PairInv, TypeInv', DriverNext, UNCHANGED pc
    PROVE  \/ \A t \in Tasks : View(t)' = View(t)
           \/ \E t \in Tasks : /\ \A r \in Tasks \ {t} : View(r)' = View(r)
                               /\ Reads(View(t), View(t)')
<1>1. ASSUME NEW c \in Cores, Transfer(c) \/ RecvCommServiceISR(c)
      PROVE  \A t \in Tasks : View(t)' = View(t)
  BY <1>1, TransferFlows, ISRFlows, ForwardsViews
<1>2. ASSUME NEW t \in Tasks, InterfaceReady(t) \/ WritePacket(t)
      PROVE  \A r \in Tasks : View(r)' = View(r)
  BY <1>2, ReadyFlows, WriteFlows, ForwardsViews
<1>3. ASSUME NEW t \in Tasks, TakePacket(t)
      PROVE  \/ \A r \in Tasks : View(r)' = View(r)
             \/ (\A r \in Tasks \ {t} : View(r)' = View(r)) /\ Reads(View(t), View(t)')
  BY <1>3, TakeViews, Zenon
<1> QED BY <1>1, <1>2, <1>3, Zenon DEF DriverNext, Interrupts, DriverStep

LEMMA SendViews ==
    ASSUME PairInv, TypeInv', NEW f \in Tasks, NEW t \in Tasks, NEW m \in Messages, m.from = f, f # t,
           NEW timed \in BOOLEAN, NEW from, NEW to, DOMAIN pc = Tasks,
           Window(f, t, m.size), HF_NB_Send(f, t, m, timed), Goes(f, from, to)
    PROVE  /\ Moves(View(f), View(f)', from, to)
           /\ Gets(View(t), View(t)', m)
           /\ \A r \in Tasks \ {f, t} : View(r)' = View(r)
<1>1. PortSend(t, m) /\ \A r \in Tasks \ {t} : PortSame(r)
  BY SendAppends
<1>2. /\ Pending(t)' = Append(Pending(t), m) /\ \A r \in Tasks \ {t} : Pending(r)' = Pending(r)
      /\ UNCHANGED recvVars
  BY <1>1 DEF PortSend, PortSame, HF_NB_Send
<1>3. pc[f] = from /\ pc'[f] = to /\ \A r \in Tasks \ {f} : pc'[r] = pc[r]
  BY DEF Goes
<1>4. \A r \in Tasks : View(r)'.call = View(r).call /\ View(r)'.hand = View(r).hand
  BY <1>2 DEF View, Whole, recvVars
<1>5. \A r \in Tasks : /\ View(r).pc = pc[r] /\ View(r)'.pc = pc'[r]
                       /\ View(r).pending = Pending(r) /\ View(r)'.pending = Pending(r)'
  BY DEF View
<1>6. \A r \in Tasks \ {f, t} : View(r)' = View(r)
  BY <1>2, <1>3, ViewSame DEF recvVars
<1> QED BY <1>2, <1>3, <1>4, <1>5, <1>6 DEF Moves, Gets

LEMMA ReceiveViews ==
    ASSUME PairInv, NEW t \in Tasks, NEW timed \in BOOLEAN, NEW from, NEW to, DOMAIN pc = Tasks,
           HF_NB_Receive(t, timed), Goes(t, from, to)
    PROVE  /\ Calls(View(t), View(t)', from, to)
           /\ \A r \in Tasks \ {t} : View(r)' = View(r)
<1>1. \A r \in Tasks : Pending(r)' = Pending(r)
  <2> TAKE r \in Tasks
  <2>1. Stream(r)' = Stream(r)
    BY ReceiveFlows
  <2> QED BY <2>1, PendingOf
<1>2. pc[t] = from /\ pc'[t] = to /\ \A r \in Tasks \ {t} : pc'[r] = pc[r]
  BY DEF Goes
<1>3. /\ receiving[t] = "no" /\ receiving'[t] # "no"
      /\ \A r \in Tasks \ {t} : receiving'[r] = receiving[r] /\ buf'[r] = buf[r]
  BY DEF HF_NB_Receive, Outside, PairInv, TypeInv, RingInv, TypeOK
<1>4. /\ View(t).pc = pc[t] /\ View(t)'.pc = pc'[t]
      /\ View(t).call = receiving[t] /\ View(t)'.call = receiving'[t]
      /\ View(t).pending = Pending(t) /\ View(t)'.pending = Pending(t)'
  BY DEF View
<1>5. \A r \in Tasks \ {t} : View(r)' = View(r)
  BY <1>1, <1>2, <1>3, ViewSame
<1> QED BY <1>1, <1>2, <1>3, <1>4, <1>5 DEF Calls

LEMMA StillPending ==
    ASSUME PairInv, UNCHANGED driverVars
    PROVE  Forwards /\ \A t \in Tasks : Pending(t)' = Pending(t)
<1>1. Forwards
  BY StillFlows
<1>2. \A t \in Tasks : Pending(t)' = Pending(t)
  BY <1>1, PendingOf DEF Forwards
<1> QED BY <1>1, <1>2

LEMMA MoveViews ==
    ASSUME PairInv, NEW t \in Tasks, NEW from, NEW to, DOMAIN pc = Tasks,
           UNCHANGED driverVars, Goes(t, from, to)
    PROVE  /\ Moves(View(t), View(t)', from, to)
           /\ \A r \in Tasks \ {t} : View(r)' = View(r)
<1>1. (\A r \in Tasks : Pending(r)' = Pending(r)) /\ UNCHANGED recvVars
  BY StillPending DEF driverVars
<1>2. pc[t] = from /\ pc'[t] = to /\ \A r \in Tasks \ {t} : pc'[r] = pc[r]
  BY DEF Goes
<1>3. View(t)'.call = View(t).call /\ View(t)'.hand = View(t).hand
  BY <1>1 DEF View, Whole, recvVars
<1>4. /\ View(t).pc = pc[t] /\ View(t)'.pc = pc'[t]
      /\ View(t).pending = Pending(t) /\ View(t)'.pending = Pending(t)'
  BY DEF View
<1>5. \A r \in Tasks \ {t} : View(r)' = View(r)
  BY <1>1, <1>2, ViewSame DEF recvVars
<1> QED BY <1>1, <1>2, <1>3, <1>4, <1>5 DEF Moves

-----------------------------------------------------------------------------
(* The inductive invariant, and what each step of one slave does to it.    *)

AppTypes ==
    /\ DOMAIN pc = Tasks
    /\ count \in [Slaves -> Nat]
    /\ DOMAIN finalImage = Places
    /\ n \in Nat /\ waits \in Nat

\* The parts that sr has stored are in finalImage, blurred, each at its place.
FinalAt(i) == \A k \in {1, 2} : k <= stored(View(Sr(i)), count[i]) => finalImage[<<i, k>>] = <<"blurred", i, k>>

SlaveInv(i) == SlaveGood(i) /\ FinalAt(i)

Posted == {p \in Places : p[2] <= count[p[1]]}

BlurInv == /\ PairInv /\ AppTypes
           /\ \A i \in Slaves : SlaveInv(i)
           /\ n + waits = Cardinality(Posted)

-----------------------------------------------------------------------------
(* Messages, routes and windows *)

LEMMA MessagesOf ==
    ASSUME NEW i \in Slaves
    PROVE  /\ query(i) \in Messages /\ answer(i) \in Messages
           /\ part(i)[1] \in Messages /\ part(i)[2] \in Messages
           /\ blurred(i)[1] \in Messages /\ blurred(i)[2] \in Messages
<1>1. Sr(i) \in Tasks /\ Monitor(i) \in Tasks /\ Escravo(i) \in Tasks
  BY Names
<1>2. /\ <<"query", i, 0>> \in Bodies /\ <<"reply", i, 0>> \in Bodies
      /\ \A k \in {1, 2} : <<"part", i, k>> \in Bodies /\ <<"blurred", i, k>> \in Bodies
  BY AppAssumption DEF AppBodies
<1>3. TASK_DESCRIPTION_SIZE \in Sizes /\ PART_BYTES \in Sizes
  BY AppAssumption
<1> QED BY <1>1, <1>2, <1>3 DEF Messages, Message, query, answer, part, blurred

LEMMA Fields ==
    ASSUME NEW i
    PROVE  /\ query(i).from = Sr(i) /\ query(i).size = TASK_DESCRIPTION_SIZE
           /\ answer(i).from = Monitor(i) /\ answer(i).size = TASK_DESCRIPTION_SIZE
           /\ answer(i).body = <<"reply", i, 0>>
           /\ \A k \in {1, 2} : /\ part(i)[k].from = Sr(i) /\ part(i)[k].size = PART_BYTES
                                /\ part(i)[k].body = <<"part", i, k>>
                                /\ blurred(i)[k].from = Escravo(i) /\ blurred(i)[k].size = PART_BYTES
                                /\ blurred(i)[k].body = <<"blurred", i, k>>
BY DEF Message, query, answer, part, blurred

LEMMA RoutesOf ==
    ASSUME NEW i \in Slaves
    PROVE  /\ <<Sr(i), Monitor(i)>> \in Routes /\ <<Monitor(i), Sr(i)>> \in Routes
           /\ <<Sr(i), Escravo(i)>> \in Routes /\ <<Escravo(i), Sr(i)>> \in Routes
           /\ Sr(i) \in Receivers /\ Monitor(i) \in Receivers /\ Escravo(i) \in Receivers
<1>1. /\ <<Sr(i), Monitor(i)>> \in Routes /\ <<Monitor(i), Sr(i)>> \in Routes
      /\ <<Sr(i), Escravo(i)>> \in Routes /\ <<Escravo(i), Sr(i)>> \in Routes
  <2>1. PICK B : B = { ({Sr(j)} \X {Monitor(j), Escravo(j)})
                          \cup ({Monitor(j), Escravo(j)} \X {Sr(j)}) : j \in Slaves }
    OBVIOUS
  <2>2. Routes = UNION B
    BY <2>1, AppAssumption DEF AppRoutes
  <2>3. PICK A : A = ({Sr(i)} \X {Monitor(i), Escravo(i)}) \cup ({Monitor(i), Escravo(i)} \X {Sr(i)})
    OBVIOUS
  <2>4. A \in B
    BY <2>1, <2>3
  <2>5. A \subseteq Routes
    BY <2>2, <2>4
  <2> QED BY <2>3, <2>5
<1>2. Sr(i) # NoTask /\ Monitor(i) # NoTask /\ Escravo(i) # NoTask
  BY Names
<1>3. \A r \in Routes : r[2] # NoTask => r[2] \in Receivers
  BY DEF Receivers
<1>4. <<Monitor(i), Sr(i)>>[2] = Sr(i) /\ <<Sr(i), Monitor(i)>>[2] = Monitor(i)
      /\ <<Sr(i), Escravo(i)>>[2] = Escravo(i)
  OBVIOUS
<1> QED BY <1>1, <1>2, <1>3, <1>4

LEMMA RoomForFirst ==
    ASSUME PairInv, NEW t \in Tasks, NEW f, NEW size \in Sizes, Feasible(size), Pending(t) = << >>
    PROVE  Window(f, t, size)
<1>1. PacketCount(size) \in 1 .. HF_PACKET_SLOTS
  BY FeasibleFits
<1>2. PICK P, L : P = 0 /\ L = 0
  OBVIOUS
<1>3. P \in Nat /\ L \in Nat /\ P * L = 0
  BY <1>2
<1>4. Len(Pending(t)) = 0
  OBVIOUS
<1>5. Len(Pending(t)) <= L /\ \A j \in 1 .. Len(Pending(t)) : /\ Pending(t)[j].from = f
                                                              /\ PacketCount(Pending(t)[j].size) <= P
  BY <1>2, <1>4
<1>6. PacketCount(size) \in Nat /\ P * L + PacketCount(size) <= HF_PACKET_SLOTS
  BY <1>1, <1>3
<1> QED BY <1>3, <1>5, <1>6, WindowOpen

LEMMA RoomForSecond ==
    ASSUME PairInv, NEW t \in Tasks, NEW f, Feasible(PART_BYTES), NEW s, Pending(t) = s, Len(s) \in 0 .. 1,
           \A j \in 1 .. Len(s) : s[j].from = f /\ s[j].size = PART_BYTES
    PROVE  Window(f, t, PART_BYTES)
<1>1. PART_BYTES \in Sizes
  BY AppAssumption
<1>2. PICK P, L : P = PacketCount(PART_BYTES) /\ L = 1
  OBVIOUS
<1>3. P \in 1 .. HF_PACKET_SLOTS
  BY <1>1, <1>2, FeasibleFits
<1>4. P \in Nat /\ L \in Nat /\ P * L = P
  BY <1>2, <1>3
<1>5. 2 * P <= HF_PACKET_SLOTS
  BY <1>2, AppAssumption
<1>6. P * L + P <= HF_PACKET_SLOTS
  BY <1>3, <1>4, <1>5
<1>7. Len(Pending(t)) <= L /\ \A j \in 1 .. Len(Pending(t)) : /\ Pending(t)[j].from = f
                                                              /\ PacketCount(Pending(t)[j].size) <= P
  BY <1>2, <1>3
<1> QED BY <1>2, <1>4, <1>6, <1>7, WindowOpen

LEMMA OfPair ==
    /\ \A m \in Messages, to \in Tasks, timed \in BOOLEAN :
          /\ <<m.from, to>> \in Routes /\ Window(m.from, to, m.size) /\ HF_NB_Send(m.from, to, m, timed)
          => PairNext
    /\ \A t \in Receivers, timed \in BOOLEAN : HF_NB_Receive(t, timed) => PairNext
BY DEF PairNext

LEMMA HandOf ==
    ASSUME NEW t, NEW m, View(t).hand = <<m>>
    PROVE  /\ receiving[t] = "no" /\ Whole(buf[t]) /\ buf[t][1].message = m
           /\ Received(t) = m.body /\ Source(t) = m.from
<1>1. View(t).hand = IF receiving[t] = "no" /\ Whole(buf[t]) THEN <<buf[t][1].message>> ELSE << >>
  BY DEF View
<1>2. <<m>> # << >>
  OBVIOUS
<1>3. receiving[t] = "no" /\ Whole(buf[t]) /\ <<m>> = <<buf[t][1].message>>
  BY <1>1, <1>2
<1>4. buf[t][1].message = m
  BY <1>3
<1> QED BY <1>3, <1>4 DEF Received, Source

LEMMA ViewIs ==
    ASSUME NEW t
    PROVE  View(t).pc = pc[t] /\ View(t).call = receiving[t] /\ View(t).pending = Pending(t)
BY DEF View

-----------------------------------------------------------------------------
(* The steps of a slave *)

\* What is the same for the other slaves.
Apart(i) == \A r \in Tasks \ {Sr(i), Monitor(i), Escravo(i)} : View(r)' = View(r)

StoredSame(i) == stored(View(Sr(i)), count[i])' = stored(View(Sr(i)), count[i])

LEMMA QueryKeeps ==
    ASSUME BlurInv, NEW i \in Slaves, Query(i)
    PROVE  PairNext /\ PairInv' /\ SlaveGood(i)' /\ Apart(i) /\ StoredSame(i)
<1>1. PICK S, M, E, c : S = Sr(i) /\ M = Monitor(i) /\ E = Escravo(i) /\ c = count[i]
  OBVIOUS
<1>2. S \in Tasks /\ M \in Tasks /\ E \in Tasks /\ S # M /\ S # E /\ M # E
  BY <1>1, Names
<1>3. /\ Goes(S, "query", "answer") /\ HF_NB_Send(S, M, query(i), TRUE) /\ count' = count
      /\ Outside(S) /\ Feasible(TASK_DESCRIPTION_SIZE)
  BY <1>1, Fields DEF Query, query, HF_NB_Send
<1>4. Good(i, View(S), View(M), View(E), c) /\ View(S).pc = "query" /\ View(S).call = "no"
  BY <1>1, <1>3, ViewIs DEF BlurInv, SlaveInv, SlaveGood, Goes, Outside
<1>5. Pending(M) = << >>
  BY <1>4, ViewIs DEF Good, Asked, Quiet
<1>6. query(i) \in Messages /\ query(i).from = S /\ query(i).size = TASK_DESCRIPTION_SIZE
      /\ TASK_DESCRIPTION_SIZE \in Sizes /\ <<S, M>> \in Routes
  BY <1>1, MessagesOf, Fields, RoutesOf, AppAssumption
<1>7. Window(S, M, TASK_DESCRIPTION_SIZE)
  BY <1>2, <1>3, <1>5, <1>6, RoomForFirst DEF BlurInv
<1>8. PairNext
  BY <1>2, <1>3, <1>6, <1>7, OfPair
<1>9. PairInv' /\ TypeInv'
  <2>1. PairInv'
    BY <1>8, PairNextInv DEF BlurInv
  <2> QED BY <2>1 DEF PairInv
<1>10. /\ Moves(View(S), View(S)', "query", "answer") /\ Gets(View(M), View(M)', query(i))
       /\ \A r \in Tasks \ {S, M} : View(r)' = View(r)
  BY <1>2, <1>3, <1>6, <1>7, <1>9, SendViews DEF BlurInv, AppTypes
<1>11. Good(i, View(S)', View(M)', View(E)', c)
  <2>1. View(E)' = View(E)
    BY <1>2, <1>10
  <2> QED BY <2>1, <1>4, <1>10, GoodQuery
<1>12. SlaveGood(i)'
  BY <1>1, <1>3, <1>11 DEF SlaveGood
<1>13. Apart(i)
  BY <1>1, <1>10 DEF Apart
<1>14. StoredSame(i)
  BY <1>1, <1>3, <1>10 DEF StoredSame, stored, Moves
<1> QED BY <1>8, <1>9, <1>12, <1>13, <1>14

LEMMA AnswerKeeps ==
    ASSUME BlurInv, NEW i \in Slaves, Answer(i)
    PROVE  PairNext /\ PairInv' /\ SlaveGood(i)' /\ Apart(i) /\ StoredSame(i)
<1>1. PICK S, M, E, c : S = Sr(i) /\ M = Monitor(i) /\ E = Escravo(i) /\ c = count[i]
  OBVIOUS
<1>2. S \in Tasks /\ M \in Tasks /\ E \in Tasks /\ S # M /\ S # E /\ M # E
  BY <1>1, Names
<1>3. Goes(S, "answer", "part1") /\ HF_NB_Receive(S, TRUE) /\ count' = count
  BY <1>1 DEF Answer
<1>4. Good(i, View(S), View(M), View(E), c)
  BY <1>1 DEF BlurInv, SlaveInv, SlaveGood
<1>5. PairNext
  <2>1. S \in Receivers
    BY <1>1, RoutesOf
  <2> QED BY <2>1, <1>3, OfPair
<1>6. PairInv'
  BY <1>5, PairNextInv DEF BlurInv
<1>7. /\ Calls(View(S), View(S)', "answer", "part1")
      /\ \A r \in Tasks \ {S} : View(r)' = View(r)
  BY <1>2, <1>3, ReceiveViews DEF BlurInv, AppTypes
<1>8. View(M)' = View(M) /\ View(E)' = View(E)
  BY <1>2, <1>7
<1>9. Good(i, View(S)', View(M)', View(E)', c)
  BY <1>4, <1>7, <1>8, GoodAnswer
<1>10. SlaveGood(i)'
  BY <1>1, <1>3, <1>9 DEF SlaveGood
<1>11. Apart(i)
  BY <1>1, <1>7 DEF Apart
<1>12. StoredSame(i)
  BY <1>1, <1>3, <1>7 DEF StoredSame, stored, Calls
<1> QED BY <1>5, <1>6, <1>10, <1>11, <1>12

LEMMA ReceiveBlurredKeeps ==
    ASSUME BlurInv, NEW i \in Slaves, ReceiveBlurred(i)
    PROVE  PairNext /\ PairInv' /\ SlaveGood(i)' /\ Apart(i) /\ StoredSame(i)
<1>1. PICK S, M, E, c : S = Sr(i) /\ M = Monitor(i) /\ E = Escravo(i) /\ c = count[i]
  OBVIOUS
<1>2. S \in Tasks /\ M \in Tasks /\ E \in Tasks /\ S # M /\ S # E /\ M # E
  BY <1>1, Names
<1>3. Goes(S, "receive", "store") /\ HF_NB_Receive(S, FALSE) /\ count' = count
  BY <1>1 DEF ReceiveBlurred
<1>4. Good(i, View(S), View(M), View(E), c)
  BY <1>1 DEF BlurInv, SlaveInv, SlaveGood
<1>5. PairNext
  <2>1. S \in Receivers
    BY <1>1, RoutesOf
  <2> QED BY <2>1, <1>3, OfPair
<1>6. PairInv'
  BY <1>5, PairNextInv DEF BlurInv
<1>7. /\ Calls(View(S), View(S)', "receive", "store")
      /\ \A r \in Tasks \ {S} : View(r)' = View(r)
  BY <1>2, <1>3, ReceiveViews DEF BlurInv, AppTypes
<1>8. View(M)' = View(M) /\ View(E)' = View(E)
  BY <1>2, <1>7
<1>9. Good(i, View(S)', View(M)', View(E)', c)
  BY <1>4, <1>7, <1>8, GoodReceiveBlurred
<1>10. SlaveGood(i)'
  BY <1>1, <1>3, <1>9 DEF SlaveGood
<1>11. Apart(i)
  BY <1>1, <1>7 DEF Apart
<1>12. StoredSame(i)
  BY <1>1, <1>3, <1>7 DEF StoredSame, stored, Calls
<1> QED BY <1>5, <1>6, <1>10, <1>11, <1>12

LEMMA MonitorReceiveKeeps ==
    ASSUME BlurInv, NEW i \in Slaves, ReceiveAt(Monitor(i))
    PROVE  PairNext /\ PairInv' /\ SlaveGood(i)' /\ Apart(i) /\ StoredSame(i)
<1>1. PICK S, M, E, c : S = Sr(i) /\ M = Monitor(i) /\ E = Escravo(i) /\ c = count[i]
  OBVIOUS
<1>2. S \in Tasks /\ M \in Tasks /\ E \in Tasks /\ S # M /\ S # E /\ M # E
  BY <1>1, Names
<1>3. Goes(M, "receive", "send") /\ HF_NB_Receive(M, FALSE) /\ count' = count
  BY <1>1 DEF ReceiveAt
<1>4. Good(i, View(S), View(M), View(E), c)
  BY <1>1 DEF BlurInv, SlaveInv, SlaveGood
<1>5. PairNext
  <2>1. M \in Receivers
    BY <1>1, RoutesOf
  <2> QED BY <2>1, <1>3, OfPair
<1>6. PairInv'
  BY <1>5, PairNextInv DEF BlurInv
<1>7. /\ Calls(View(M), View(M)', "receive", "send")
      /\ \A r \in Tasks \ {M} : View(r)' = View(r)
  BY <1>2, <1>3, ReceiveViews DEF BlurInv, AppTypes
<1>8. View(S)' = View(S) /\ View(E)' = View(E)
  BY <1>2, <1>7
<1>9. Good(i, View(S)', View(M)', View(E)', c)
  BY <1>4, <1>7, <1>8, GoodMonitorCalls
<1>10. SlaveGood(i)'
  BY <1>1, <1>3, <1>9 DEF SlaveGood
<1>11. Apart(i)
  BY <1>1, <1>7 DEF Apart
<1>12. StoredSame(i)
  BY <1>1, <1>3, <1>8 DEF StoredSame
<1> QED BY <1>5, <1>6, <1>10, <1>11, <1>12

LEMMA EscravoReceiveKeeps ==
    ASSUME BlurInv, NEW i \in Slaves, ReceiveAt(Escravo(i))
    PROVE  PairNext /\ PairInv' /\ SlaveGood(i)' /\ Apart(i) /\ StoredSame(i)
<1>1. PICK S, M, E, c : S = Sr(i) /\ M = Monitor(i) /\ E = Escravo(i) /\ c = count[i]
  OBVIOUS
<1>2. S \in Tasks /\ M \in Tasks /\ E \in Tasks /\ S # M /\ S # E /\ M # E
  BY <1>1, Names
<1>3. Goes(E, "receive", "send") /\ HF_NB_Receive(E, FALSE) /\ count' = count
  BY <1>1 DEF ReceiveAt
<1>4. Good(i, View(S), View(M), View(E), c)
  BY <1>1 DEF BlurInv, SlaveInv, SlaveGood
<1>5. PairNext
  <2>1. E \in Receivers
    BY <1>1, RoutesOf
  <2> QED BY <2>1, <1>3, OfPair
<1>6. PairInv'
  BY <1>5, PairNextInv DEF BlurInv
<1>7. /\ Calls(View(E), View(E)', "receive", "send")
      /\ \A r \in Tasks \ {E} : View(r)' = View(r)
  BY <1>2, <1>3, ReceiveViews DEF BlurInv, AppTypes
<1>8. View(S)' = View(S) /\ View(M)' = View(M)
  BY <1>2, <1>7
<1>9. Good(i, View(S)', View(M)', View(E)', c)
  BY <1>4, <1>7, <1>8, GoodEscravoCalls
<1>10. SlaveGood(i)'
  BY <1>1, <1>3, <1>9 DEF SlaveGood
<1>11. Apart(i)
  BY <1>1, <1>7 DEF Apart
<1>12. StoredSame(i)
  BY <1>1, <1>3, <1>8 DEF StoredSame
<1> QED BY <1>5, <1>6, <1>10, <1>11, <1>12

LEMMA SendFirstKeeps ==
    ASSUME BlurInv, NEW i \in Slaves, Goes(Sr(i), "part1", "part2"), SendPart(i, 1)
    PROVE  PairNext /\ PairInv' /\ SlaveGood(i)' /\ Apart(i) /\ StoredSame(i)
<1>1. PICK S, M, E, c : S = Sr(i) /\ M = Monitor(i) /\ E = Escravo(i) /\ c = count[i]
  OBVIOUS
<1>2. S \in Tasks /\ M \in Tasks /\ E \in Tasks /\ S # M /\ S # E /\ M # E
  BY <1>1, Names
<1>3. /\ Goes(S, "part1", "part2") /\ HF_NB_Send(S, idTask(i), part(i)[1], FALSE) /\ count' = count
      /\ Outside(S) /\ Feasible(PART_BYTES)
  BY <1>1, Fields DEF SendPart, part, HF_NB_Send
<1>4. Good(i, View(S), View(M), View(E), c) /\ View(S).pc = "part1" /\ View(S).call = "no"
  BY <1>1, <1>3, ViewIs DEF BlurInv, SlaveInv, SlaveGood, Goes, Outside
<1>5. View(S).hand = <<answer(i)>> /\ Pending(E) = << >>
  <2>1. View(S).hand = <<answer(i)>>
    BY <1>4 DEF Good, Asked, HasAnswer
  <2>2. View(E).pending = << >>
    BY <1>4 DEF Good, PartsFlow, Preparing, Quiet
  <2> QED BY <2>1, <2>2, ViewIs
<1>6. idTask(i) = E
  <2>1. Received(S) = answer(i).body
    BY <1>5, HandOf
  <2>2. Received(Sr(i)) = <<"reply", i, 0>>
    BY <2>1, <1>1, Fields
  <2> QED BY <2>2, <1>1 DEF idTask
<1>7. part(i)[1] \in Messages /\ part(i)[1].from = S /\ part(i)[1].size = PART_BYTES
      /\ PART_BYTES \in Sizes /\ <<S, E>> \in Routes
  BY <1>1, MessagesOf, Fields, RoutesOf, AppAssumption
<1>8. Window(S, E, PART_BYTES)
  BY <1>2, <1>3, <1>5, <1>7, RoomForFirst DEF BlurInv
<1>9. PairNext
  BY <1>2, <1>3, <1>6, <1>7, <1>8, OfPair
<1>10. PairInv' /\ TypeInv'
  <2>1. PairInv'
    BY <1>9, PairNextInv DEF BlurInv
  <2> QED BY <2>1 DEF PairInv
<1>11. /\ Moves(View(S), View(S)', "part1", "part2") /\ Gets(View(E), View(E)', part(i)[1])
       /\ \A r \in Tasks \ {S, E} : View(r)' = View(r)
  BY <1>2, <1>3, <1>6, <1>7, <1>8, <1>10, SendViews DEF BlurInv, AppTypes
<1>12. Good(i, View(S)', View(M)', View(E)', c)
  <2>1. View(M)' = View(M)
    BY <1>2, <1>11
  <2> QED BY <2>1, <1>4, <1>11, GoodSendFirst
<1>13. SlaveGood(i)'
  BY <1>1, <1>3, <1>12 DEF SlaveGood
<1>14. Apart(i)
  BY <1>1, <1>11 DEF Apart
<1>15. StoredSame(i)
  BY <1>1, <1>3, <1>11 DEF StoredSame, stored, Moves
<1> QED BY <1>9, <1>10, <1>13, <1>14, <1>15

LEMMA SendSecondKeeps ==
    ASSUME BlurInv, NEW i \in Slaves, Goes(Sr(i), "part2", "receive"), SendPart(i, 2)
    PROVE  PairNext /\ PairInv' /\ SlaveGood(i)' /\ Apart(i) /\ StoredSame(i)
<1>1. PICK S, M, E, c : S = Sr(i) /\ M = Monitor(i) /\ E = Escravo(i) /\ c = count[i]
  OBVIOUS
<1>2. S \in Tasks /\ M \in Tasks /\ E \in Tasks /\ S # M /\ S # E /\ M # E
  BY <1>1, Names
<1>3. /\ Goes(S, "part2", "receive") /\ HF_NB_Send(S, idTask(i), part(i)[2], FALSE) /\ count' = count
      /\ Outside(S) /\ Feasible(PART_BYTES)
  BY <1>1, Fields DEF SendPart, part, HF_NB_Send
<1>4. Good(i, View(S), View(M), View(E), c) /\ View(S).pc = "part2" /\ View(S).call = "no"
  BY <1>1, <1>3, ViewIs DEF BlurInv, SlaveInv, SlaveGood, Goes, Outside
<1>5. View(S).hand = <<answer(i)>>
  BY <1>4 DEF Good, Asked, HasAnswer
<1>6. idTask(i) = E
  <2>1. Received(S) = answer(i).body
    BY <1>5, HandOf
  <2>2. Received(Sr(i)) = <<"reply", i, 0>>
    BY <2>1, <1>1, Fields
  <2> QED BY <2>2, <1>1 DEF idTask
<1>7. part(i)[2] \in Messages /\ part(i)[2].from = S /\ part(i)[2].size = PART_BYTES
      /\ <<S, E>> \in Routes
  BY <1>1, MessagesOf, Fields, RoutesOf
<1>8. Window(S, E, PART_BYTES)
  <2>1. PICK a, b \in 0 .. 2 : Flow(i, View(S), View(E), c, a, b)
    BY <1>4 DEF Good, PartsFlow, Preparing
  <2>2. b <= 1 /\ View(E).pending = Run(part(i), b, 1)
    BY <2>1, <1>4 DEF Flow, sent
  <2>3. b \in 0 .. 2 /\ 1 \in b .. 2 /\ 1 - b \in 0 .. 1 /\ \A j \in 1 .. 1 - b : b + j \in {1, 2}
    BY <2>2
  <2>4. PICK s : s = Run(part(i), b, 1)
    OBVIOUS
  <2>5. Len(s) = 1 - b /\ \A j \in 1 .. 1 - b : s[j] = part(i)[b + j]
    BY <2>3, <2>4, Runs
  <2>6. \A j \in 1 .. Len(s) : s[j].from = S /\ s[j].size = PART_BYTES
    BY <2>3, <2>5, <1>1, Fields
  <2>7. Pending(E) = s /\ Len(s) \in 0 .. 1
    BY <2>2, <2>3, <2>4, <2>5, ViewIs
  <2> QED BY <2>6, <2>7, <1>2, <1>3, RoomForSecond DEF BlurInv
<1>9. PairNext
  BY <1>2, <1>3, <1>6, <1>7, <1>8, OfPair
<1>10. PairInv' /\ TypeInv'
  <2>1. PairInv'
    BY <1>9, PairNextInv DEF BlurInv
  <2> QED BY <2>1 DEF PairInv
<1>11. /\ Moves(View(S), View(S)', "part2", "receive") /\ Gets(View(E), View(E)', part(i)[2])
       /\ \A r \in Tasks \ {S, E} : View(r)' = View(r)
  BY <1>2, <1>3, <1>6, <1>7, <1>8, <1>10, SendViews DEF BlurInv, AppTypes
<1>12. Good(i, View(S)', View(M)', View(E)', c)
  <2>1. View(M)' = View(M)
    BY <1>2, <1>11
  <2> QED BY <2>1, <1>4, <1>11, GoodSendSecond
<1>13. SlaveGood(i)'
  BY <1>1, <1>3, <1>12 DEF SlaveGood
<1>14. Apart(i)
  BY <1>1, <1>11 DEF Apart
<1>15. StoredSame(i)
  BY <1>1, <1>3, <1>11 DEF StoredSame, stored, Moves
<1> QED BY <1>9, <1>10, <1>13, <1>14, <1>15

LEMMA ReplyKeeps ==
    ASSUME BlurInv, NEW i \in Slaves, Reply(i)
    PROVE  PairNext /\ PairInv' /\ SlaveGood(i)' /\ Apart(i) /\ StoredSame(i)
<1>1. PICK S, M, E, c : S = Sr(i) /\ M = Monitor(i) /\ E = Escravo(i) /\ c = count[i]
  OBVIOUS
<1>2. S \in Tasks /\ M \in Tasks /\ E \in Tasks /\ S # M /\ S # E /\ M # E
  BY <1>1, Names
<1>3. /\ Goes(M, "send", "receive") /\ HF_NB_Send(M, Source(M), answer(i), TRUE) /\ count' = count
      /\ Outside(M) /\ Feasible(TASK_DESCRIPTION_SIZE)
  BY <1>1, Fields DEF Reply, answer, HF_NB_Send
<1>4. Good(i, View(S), View(M), View(E), c) /\ View(M).pc = "send" /\ View(M).call = "no"
  BY <1>1, <1>3, ViewIs DEF BlurInv, SlaveInv, SlaveGood, Goes, Outside
<1>5. View(M).hand = <<query(i)>> /\ View(S).pending = << >>
  BY <1>4, GoodReply
<1>6. Source(M) = S
  BY <1>1, <1>5, HandOf, Fields
<1>7. answer(i) \in Messages /\ answer(i).from = M /\ answer(i).size = TASK_DESCRIPTION_SIZE
      /\ TASK_DESCRIPTION_SIZE \in Sizes /\ <<M, S>> \in Routes
  BY <1>1, MessagesOf, Fields, RoutesOf, AppAssumption
<1>8. Window(M, S, TASK_DESCRIPTION_SIZE)
  BY <1>2, <1>3, <1>5, <1>7, ViewIs, RoomForFirst DEF BlurInv
<1>9. PairNext
  BY <1>2, <1>3, <1>6, <1>7, <1>8, OfPair
<1>10. PairInv' /\ TypeInv'
  <2>1. PairInv'
    BY <1>9, PairNextInv DEF BlurInv
  <2> QED BY <2>1 DEF PairInv
<1>11. /\ Moves(View(M), View(M)', "send", "receive") /\ Gets(View(S), View(S)', answer(i))
       /\ \A r \in Tasks \ {M, S} : View(r)' = View(r)
  BY <1>2, <1>3, <1>6, <1>7, <1>8, <1>10, SendViews DEF BlurInv, AppTypes
<1>12. Good(i, View(S)', View(M)', View(E)', c)
  <2>1. View(E)' = View(E)
    BY <1>2, <1>11
  <2> QED BY <2>1, <1>4, <1>11, GoodReply
<1>13. SlaveGood(i)'
  BY <1>1, <1>3, <1>12 DEF SlaveGood
<1>14. Apart(i)
  BY <1>1, <1>11 DEF Apart
<1>15. StoredSame(i)
  BY <1>1, <1>3, <1>11 DEF StoredSame, stored, Gets
<1> QED BY <1>9, <1>10, <1>13, <1>14, <1>15

LEMMA SendBlurredKeeps ==
    ASSUME BlurInv, NEW i \in Slaves, SendBlurred(i)
    PROVE  PairNext /\ PairInv' /\ SlaveGood(i)' /\ Apart(i) /\ StoredSame(i)
<1>1. PICK S, M, E, c : S = Sr(i) /\ M = Monitor(i) /\ E = Escravo(i) /\ c = count[i]
  OBVIOUS
<1>2. S \in Tasks /\ M \in Tasks /\ E \in Tasks /\ S # M /\ S # E /\ M # E
  BY <1>1, Names
<1>3. PICK m : /\ m = [from |-> Escravo(i), body |-> Filtered(Received(Escravo(i))), size |-> PART_BYTES]
               /\ HF_NB_Send(E, Source(E), m, FALSE)
  BY <1>1 DEF SendBlurred
<1>4. Goes(E, "send", "receive") /\ count' = count /\ Outside(E) /\ Feasible(PART_BYTES)
  BY <1>1, <1>3 DEF SendBlurred, HF_NB_Send
<1>5. Good(i, View(S), View(M), View(E), c) /\ View(E).pc = "send" /\ View(E).call = "no"
  BY <1>1, <1>4, ViewIs DEF BlurInv, SlaveInv, SlaveGood, Goes, Outside
<1>6. PICK b \in {1, 2} :
          /\ View(E).hand = <<part(i)[b]>>
          /\ \E x \in 0 .. 1 : View(S).pending = Run(blurred(i), x, b - 1) /\ x <= b - 1
          /\ \A S2, E2 : Moves(View(E), E2, "send", "receive") /\ Gets(View(S), S2, blurred(i)[b])
                            => Good(i, S2, View(M), E2, c)
  BY <1>5, GoodSendBlurred
<1>7. Source(E) = S /\ Received(E) = <<"part", i, b>>
  <2>1. Source(E) = part(i)[b].from /\ Received(E) = part(i)[b].body
    BY <1>6, HandOf
  <2> QED BY <2>1, <1>1, Fields
<1>8. m = blurred(i)[b]
  <2>1. Filtered(<<"part", i, b>>) = <<"blurred", i, b>>
    BY DEF Filtered
  <2> QED BY <2>1, <1>1, <1>3, <1>7 DEF blurred, Message
<1>9. m \in Messages /\ m.from = E /\ m.size = PART_BYTES /\ <<E, S>> \in Routes
  BY <1>1, <1>8, MessagesOf, Fields, RoutesOf
<1>10. Window(E, S, PART_BYTES)
  <2>1. PICK x \in 0 .. 1 : View(S).pending = Run(blurred(i), x, b - 1) /\ x <= b - 1
    BY <1>6
  <2>2. PICK y : y = b - 1
    OBVIOUS
  <2>3. y \in x .. 2 /\ x \in 0 .. 2 /\ y - x \in 0 .. 1 /\ \A j \in 1 .. y - x : x + j \in {1, 2}
    BY <2>1, <2>2
  <2>4. PICK s : s = Run(blurred(i), x, y)
    OBVIOUS
  <2>5. Len(s) = y - x /\ \A j \in 1 .. y - x : s[j] = blurred(i)[x + j]
    BY <2>3, <2>4, Runs
  <2>6. \A j \in 1 .. Len(s) : s[j].from = E /\ s[j].size = PART_BYTES
    BY <2>3, <2>5, <1>1, Fields
  <2>7. Pending(S) = s /\ Len(s) \in 0 .. 1
    BY <2>1, <2>2, <2>3, <2>4, <2>5, ViewIs
  <2> QED BY <2>6, <2>7, <1>2, <1>4, RoomForSecond DEF BlurInv
<1>11. PairNext
  BY <1>2, <1>3, <1>7, <1>9, <1>10, OfPair
<1>12. PairInv' /\ TypeInv'
  <2>1. PairInv'
    BY <1>11, PairNextInv DEF BlurInv
  <2> QED BY <2>1 DEF PairInv
<1>13. /\ Moves(View(E), View(E)', "send", "receive") /\ Gets(View(S), View(S)', m)
       /\ \A r \in Tasks \ {E, S} : View(r)' = View(r)
  BY <1>2, <1>3, <1>4, <1>7, <1>9, <1>10, <1>12, SendViews DEF BlurInv, AppTypes
<1>14. Good(i, View(S)', View(M)', View(E)', c)
  <2>1. View(M)' = View(M)
    BY <1>2, <1>13
  <2> QED BY <2>1, <1>6, <1>8, <1>13
<1>15. SlaveGood(i)'
  BY <1>1, <1>4, <1>14 DEF SlaveGood
<1>16. Apart(i)
  BY <1>1, <1>13 DEF Apart
<1>17. StoredSame(i)
  BY <1>1, <1>4, <1>13 DEF StoredSame, stored, Gets
<1> QED BY <1>11, <1>12, <1>15, <1>16, <1>17

\* A part is stored at the place it was cut from.
LEMMA StorePartKeeps ==
    ASSUME BlurInv, NEW i \in Slaves, StorePart(i)
    PROVE  /\ UNCHANGED driverVars /\ PairInv' /\ SlaveGood(i)' /\ Apart(i)
           /\ \E k \in {1, 2} :
                 /\ finalImage' = [finalImage EXCEPT ![<<i, k>>] = <<"blurred", i, k>>]
                 /\ stored(View(Sr(i)), count[i]) = k - 1
                 /\ stored(View(Sr(i)), count[i])' = k
<1>1. PICK S, M, E, c : S = Sr(i) /\ M = Monitor(i) /\ E = Escravo(i) /\ c = count[i]
  OBVIOUS
<1>2. S \in Tasks /\ M \in Tasks /\ E \in Tasks /\ S # M /\ S # E /\ M # E
  BY <1>1, Names
<1>3. /\ Goes(S, "store", "post") /\ Outside(S) /\ count' = count /\ UNCHANGED driverVars
      /\ finalImage' = [finalImage EXCEPT ![Place(i)] = Received(S)]
  BY <1>1 DEF StorePart
<1>4. Good(i, View(S), View(M), View(E), c) /\ View(S).pc = "store" /\ View(S).call = "no"
  BY <1>1, <1>3, ViewIs DEF BlurInv, SlaveInv, SlaveGood, Goes, Outside
<1>5. PairInv'
  BY <1>3, PairNextInv DEF BlurInv
<1>6. /\ Moves(View(S), View(S)', "store", "post")
      /\ \A r \in Tasks \ {S} : View(r)' = View(r)
  BY <1>2, <1>3, MoveViews DEF BlurInv, AppTypes
<1>7. View(M)' = View(M) /\ View(E)' = View(E)
  BY <1>2, <1>6
<1>8. Good(i, View(S)', View(M)', View(E)', c) /\ c \in {0, 1} /\ View(S).hand = <<blurred(i)[c + 1]>>
  BY <1>4, <1>6, <1>7, GoodStore
<1>9. PICK k \in {1, 2} : k = c + 1
  BY <1>8
<1>10. Received(S) = <<"blurred", i, k>>
  <2>1. Received(S) = blurred(i)[k].body
    BY <1>8, <1>9, HandOf
  <2> QED BY <2>1, Fields
<1>11. Place(i) = <<i, k>>
  BY <1>1, <1>8, <1>9 DEF Place
<1>12. stored(View(S), c) = k - 1 /\ stored(View(S)', c) = k
  BY <1>6, <1>8, <1>9 DEF stored, Moves
<1>13. SlaveGood(i)'
  BY <1>1, <1>3, <1>8 DEF SlaveGood
<1>14. Apart(i)
  BY <1>1, <1>6 DEF Apart
<1>15. stored(View(Sr(i)), count[i])' = k
  BY <1>1, <1>3, <1>12 DEF stored
<1> QED BY <1>1, <1>3, <1>5, <1>10, <1>11, <1>12, <1>13, <1>14, <1>15

LEMMA PostKeeps ==
    ASSUME BlurInv, NEW i \in Slaves, Post(i)
    PROVE  /\ UNCHANGED driverVars /\ PairInv' /\ SlaveGood(i)' /\ Apart(i) /\ StoredSame(i)
           /\ count[i] \in {0, 1}
<1>1. PICK S, M, E, c : S = Sr(i) /\ M = Monitor(i) /\ E = Escravo(i) /\ c = count[i]
  OBVIOUS
<1>2. S \in Tasks /\ M \in Tasks /\ E \in Tasks /\ S # M /\ S # E /\ M # E
  BY <1>1, Names
<1>3. Goes(S, "post", "receive") /\ UNCHANGED driverVars /\ count'[i] = c + 1
  BY <1>1 DEF Post, BlurInv, AppTypes
<1>4. Good(i, View(S), View(M), View(E), c)
  BY <1>1 DEF BlurInv, SlaveInv, SlaveGood
<1>5. PairInv'
  BY <1>3, PairNextInv DEF BlurInv
<1>6. /\ Moves(View(S), View(S)', "post", "receive")
      /\ \A r \in Tasks \ {S} : View(r)' = View(r)
  BY <1>2, <1>3, MoveViews DEF BlurInv, AppTypes
<1>7. View(M)' = View(M) /\ View(E)' = View(E)
  BY <1>2, <1>6
<1>8. Good(i, View(S)', View(M)', View(E)', c + 1) /\ c \in {0, 1}
  BY <1>4, <1>6, <1>7, GoodPost
<1>9. SlaveGood(i)'
  BY <1>1, <1>3, <1>8 DEF SlaveGood
<1>10. Apart(i)
  BY <1>1, <1>6 DEF Apart
<1>11. StoredSame(i)
  BY <1>1, <1>3, <1>6 DEF StoredSame, stored, Moves
<1> QED BY <1>1, <1>3, <1>5, <1>8, <1>9, <1>10, <1>11

-----------------------------------------------------------------------------
(* All slaves *)

LEMMA OthersKept ==
    ASSUME BlurInv, NEW i \in Slaves, Apart(i),
           \A j \in Slaves \ {i} : /\ count'[j] = count[j]
                                   /\ \A k \in {1, 2} : finalImage'[<<j, k>>] = finalImage[<<j, k>>]
    PROVE  \A j \in Slaves \ {i} : SlaveInv(j)'
<1> TAKE j \in Slaves \ {i}
<1>1. SlaveGood(j) /\ FinalAt(j)
  BY DEF BlurInv, SlaveInv
<1>2. /\ Sr(j) \in Tasks \ {Sr(i), Monitor(i), Escravo(i)}
      /\ Monitor(j) \in Tasks \ {Sr(i), Monitor(i), Escravo(i)}
      /\ Escravo(j) \in Tasks \ {Sr(i), Monitor(i), Escravo(i)}
  BY Names
<1>3. View(Sr(j))' = View(Sr(j)) /\ View(Monitor(j))' = View(Monitor(j)) /\ View(Escravo(j))' = View(Escravo(j))
  BY <1>2 DEF Apart
<1>4. SlaveGood(j)'
  BY <1>1, <1>3 DEF SlaveGood
<1>5. FinalAt(j)'
  BY <1>1, <1>3 DEF FinalAt
<1> QED BY <1>4, <1>5 DEF SlaveInv

LEMMA FinalSame ==
    ASSUME NEW i \in Slaves, FinalAt(i), StoredSame(i), finalImage' = finalImage
    PROVE  FinalAt(i)'
BY DEF FinalAt, StoredSame

LEMMA FinalStores ==
    ASSUME BlurInv, NEW i \in Slaves, NEW k \in {1, 2},
           finalImage' = [finalImage EXCEPT ![<<i, k>>] = <<"blurred", i, k>>],
           stored(View(Sr(i)), count[i]) = k - 1, stored(View(Sr(i)), count[i])' = k
    PROVE  /\ FinalAt(i)' /\ DOMAIN finalImage' = Places
           /\ \A j \in Slaves \ {i}, l \in {1, 2} : finalImage'[<<j, l>>] = finalImage[<<j, l>>]
<1>1. FinalAt(i) /\ DOMAIN finalImage = Places /\ <<i, k>> \in Places
  BY DEF BlurInv, SlaveInv, AppTypes, Places
<1>2. \A j \in Slaves, l \in {1, 2} : /\ <<j, l>> \in Places
                                      /\ <<j, l>> = <<i, k>> => j = i /\ l = k
  BY DEF Places
<1>3. finalImage'[<<i, k>>] = <<"blurred", i, k>>
  BY <1>1
<1>4. \A p \in Places : p # <<i, k>> => finalImage'[p] = finalImage[p]
  BY <1>1
<1>5. ASSUME NEW l \in {1, 2}, l <= k PROVE finalImage'[<<i, l>>] = <<"blurred", i, l>>
  <2>1. CASE l = k
    BY <2>1, <1>3
  <2>2. CASE l # k
    <3>1. l <= k - 1 /\ <<i, l>> # <<i, k>> /\ <<i, l>> \in Places
      BY <2>2, <1>2, <1>5
    <3>2. finalImage[<<i, l>>] = <<"blurred", i, l>>
      BY <3>1, <1>1 DEF FinalAt
    <3> QED BY <3>1, <3>2, <1>4
  <2> QED BY <2>1, <2>2
<1>6. FinalAt(i)'
  BY <1>5 DEF FinalAt
<1>7. \A j \in Slaves \ {i}, l \in {1, 2} : finalImage'[<<j, l>>] = finalImage[<<j, l>>]
  BY <1>2, <1>4
<1> QED BY <1>1, <1>6, <1>7

-----------------------------------------------------------------------------
(* The semaphore n *)

LEMMA PlacesFinite ==
    /\ IsFiniteSet(Slaves) /\ Cardinality(Slaves) \in Nat
    /\ IsFiniteSet(Places) /\ Cardinality(Places) = 2 * Cardinality(Slaves)
    /\ IsFiniteSet(Posted) /\ Cardinality(Posted) \in Nat /\ Posted \in SUBSET Places
<1>1. IsFiniteSet(1 .. 8)
  <2>1. 1 \in Int /\ 8 \in Int
    OBVIOUS
  <2>2. \A a, b \in Int : IsFiniteSet(a .. b)
    BY FS_Interval
  <2> QED BY ONLY <2>1, <2>2
<1>2. Slaves \in SUBSET (1 .. 8)
  BY BlurAssumption
<1>3. IsFiniteSet(Slaves) /\ Cardinality(Slaves) \in Nat
  BY <1>1, <1>2, FS_Subset, FS_CardinalityType
<1>4. IsFiniteSet({1, 2}) /\ Cardinality({1, 2}) = 2
  <2>1. IsFiniteSet({1}) /\ Cardinality({1}) = 1
    BY FS_Singleton
  <2>2. {1} \cup {2} = {1, 2} /\ 2 \notin {1}
    OBVIOUS
  <2>3. IsFiniteSet({1} \cup {2}) /\ Cardinality({1} \cup {2}) = Cardinality({1}) + 1
    BY <2>1, <2>2, FS_AddElement
  <2> QED BY <2>1, <2>2, <2>3
<1>5. IsFiniteSet(Places) /\ Cardinality(Places) = Cardinality(Slaves) * Cardinality({1, 2})
  BY <1>3, <1>4, FS_Product DEF Places
<1>6. Cardinality(Places) = 2 * Cardinality(Slaves)
  BY <1>3, <1>4, <1>5
<1>7. Posted \in SUBSET Places
  BY DEF Posted
<1>8. IsFiniteSet(Posted) /\ Cardinality(Posted) \in Nat
  BY <1>5, <1>7, FS_Subset, FS_CardinalityType
<1> QED BY <1>3, <1>5, <1>6, <1>7, <1>8

LEMMA PostedSame ==
    ASSUME count' = count
    PROVE  Cardinality(Posted)' = Cardinality(Posted)
BY DEF Posted

LEMMA PostedGrows ==
    ASSUME AppTypes, NEW i \in Slaves, count[i] \in {0, 1}, count' = [count EXCEPT ![i] = @ + 1]
    PROVE  Cardinality(Posted)' = Cardinality(Posted) + 1
<1>1. PICK q : q = <<i, count[i] + 1>>
  OBVIOUS
<1>2. q \in Places /\ q[1] = i /\ q[2] = count[i] + 1 /\ q \notin Posted
  BY <1>1 DEF Places, Posted
<1>3. \A p \in Places : /\ p[1] \in Slaves /\ p[2] \in {1, 2} /\ p = <<p[1], p[2]>>
  BY DEF Places
<1>4. /\ count'[i] = count[i] + 1 /\ \A j \in Slaves \ {i} : count'[j] = count[j]
      /\ \A j \in Slaves : count[j] \in Nat
  BY DEF AppTypes
<1>5. \A p \in Places : p[2] <= count'[p[1]] <=> (p[2] <= count[p[1]] \/ p = q)
  <2> TAKE p \in Places
  <2>1. CASE p[1] = i
    <3>1. p = q <=> p[2] = count[i] + 1
      BY <2>1, <1>1, <1>2, <1>3
    <3>2. p[2] <= count[i] + 1 <=> (p[2] <= count[i] \/ p[2] = count[i] + 1)
      BY <1>3
    <3> QED BY <2>1, <3>1, <3>2, <1>4
  <2>2. CASE p[1] # i
    BY <2>2, <1>2, <1>3, <1>4
  <2> QED BY <2>1, <2>2
<1>6. Posted' = Posted \cup {q}
  BY <1>2, <1>5 DEF Posted
<1>7. Cardinality(Posted \cup {q}) = Cardinality(Posted) + 1
  BY <1>2, PlacesFinite, FS_AddElement
<1> QED BY <1>6, <1>7

-----------------------------------------------------------------------------
(* The invariant *)

LEMMA BlurInit == Init => BlurInv
<1> SUFFICES ASSUME Init PROVE BlurInv
  OBVIOUS
<1>1. DriverInit /\ AppInit
  BY DEF Init
<1>2. PairInv
  BY <1>1, PairInit
<1>3. Tasks = AppTasks
  BY AppAssumption
<1>4. AppTypes
  BY <1>1, <1>3 DEF AppInit, AppTypes
<1>5. \A t \in Tasks : /\ View(t).pc = pc[t] /\ View(t).call = "no" /\ View(t).pending = << >>
  <2> TAKE t \in Tasks
  <2>1. Pending(t) = << >>
    BY <1>1, EmptyStream, PendingOf, BegunNone
  <2>2. receiving[t] = "no"
    BY <1>1 DEF DriverInit
  <2> QED BY <2>1, <2>2, ViewIs
<1>6. ASSUME NEW i \in Slaves PROVE SlaveInv(i)
  <2>1. PICK S, M, E : S = Sr(i) /\ M = Monitor(i) /\ E = Escravo(i)
    OBVIOUS
  <2>2. S \in Tasks /\ M \in Tasks /\ E \in Tasks
    BY <2>1, Names
  <2>3. pc[S] = "query" /\ pc[M] = "receive" /\ pc[E] = "receive" /\ count[i] = 0
    <3>1. S[1] = "sr" /\ M[1] = "monitor" /\ E[1] = "escravo"
      BY <2>1 DEF Sr, Monitor, Escravo
    <3> QED BY <3>1, <2>2, <1>1, <1>3 DEF AppInit
  <2>4. View(S).pc = "query" /\ View(S).call = "no" /\ View(S).pending = << >>
        /\ View(M).pc = "receive" /\ View(M).call = "no" /\ View(M).pending = << >>
        /\ View(E).pc = "receive" /\ View(E).call = "no" /\ View(E).pending = << >>
    BY <2>2, <2>3, <1>5
  <2>5. Good(i, View(S), View(M), View(E), count[i])
    BY <2>3, <2>4 DEF Good, PcsFit, Asked, PartsFlow, Preparing, Quiet, InHand
  <2>6. stored(View(S), count[i]) = 0
    BY <2>3, <2>4 DEF stored
  <2>7. FinalAt(i)
    BY <2>1, <2>6 DEF FinalAt
  <2> QED BY <2>1, <2>5, <2>7 DEF SlaveInv, SlaveGood
<1>7. n + waits = Cardinality(Posted)
  <2>1. Posted = {}
    <3> SUFFICES ASSUME NEW p \in Places PROVE ~(p[2] <= count[p[1]])
      BY DEF Posted
    <3>1. p[1] \in Slaves /\ p[2] \in {1, 2}
      BY DEF Places
    <3> QED BY <3>1, <1>1 DEF AppInit
  <2>2. Cardinality(Posted) = 0
    BY <2>1, FS_EmptySet
  <2> QED BY <2>2, <1>1 DEF AppInit
<1> QED BY <1>2, <1>4, <1>6, <1>7 DEF BlurInv

\* Steps of a slave that leave finalImage and the semaphore alone.
LEMMA PlainStep ==
    ASSUME BlurInv, NEW i \in Slaves, PairInv', SlaveGood(i)', Apart(i), StoredSame(i),
           DOMAIN pc' = Tasks, UNCHANGED <<count, finalImage, n, waits>>
    PROVE  BlurInv'
<1>1. FinalAt(i)'
  BY FinalSame DEF BlurInv, SlaveInv
<1>2. \A j \in Slaves \ {i} : SlaveInv(j)'
  BY OthersKept
<1>3. \A j \in Slaves : SlaveInv(j)'
  <2> SUFFICES ASSUME NEW j \in Slaves PROVE SlaveInv(j)'
    OBVIOUS
  <2>1. CASE j = i
    BY <2>1, <1>1 DEF SlaveInv
  <2>2. CASE j # i
    BY <2>2, <1>2
  <2> QED BY <2>1, <2>2
<1>4. AppTypes'
  BY DEF BlurInv, AppTypes
<1>5. (n + waits = Cardinality(Posted))'
  BY PostedSame DEF BlurInv
<1> QED BY <1>3, <1>4, <1>5 DEF BlurInv

LEMMA GoesDomain ==
    ASSUME AppTypes, NEW t, NEW from, NEW to, Goes(t, from, to)
    PROVE  DOMAIN pc' = Tasks
BY DEF AppTypes, Goes

LEMMA AppStepKeeps ==
    ASSUME BlurInv, NEW i \in Slaves, AppStep(i)
    PROVE  BlurInv' /\ [PairNext]_driverVars
<1>0. AppTypes
  BY DEF BlurInv
<1>1. CASE Query(i)
  BY <1>0, <1>1, QueryKeeps, GoesDomain, PlainStep DEF Query
<1>2. CASE Answer(i)
  BY <1>0, <1>2, AnswerKeeps, GoesDomain, PlainStep DEF Answer
<1>3. CASE SendParts(i)
  <2>1. CASE Goes(Sr(i), "part1", "part2") /\ SendPart(i, 1)
    BY <1>0, <2>1, SendFirstKeeps, GoesDomain, PlainStep DEF SendPart
  <2>2. CASE Goes(Sr(i), "part2", "receive") /\ SendPart(i, 2)
    BY <1>0, <2>2, SendSecondKeeps, GoesDomain, PlainStep DEF SendPart
  <2> QED BY <1>3, <2>1, <2>2 DEF SendParts
<1>4. CASE ReceiveBlurred(i)
  BY <1>0, <1>4, ReceiveBlurredKeeps, GoesDomain, PlainStep DEF ReceiveBlurred
<1>5. CASE StorePart(i)
  <2>1. PICK k \in {1, 2} : /\ finalImage' = [finalImage EXCEPT ![<<i, k>>] = <<"blurred", i, k>>]
                            /\ stored(View(Sr(i)), count[i]) = k - 1
                            /\ stored(View(Sr(i)), count[i])' = k
    BY <1>5, StorePartKeeps
  <2>2. UNCHANGED driverVars /\ PairInv' /\ SlaveGood(i)' /\ Apart(i)
    BY <1>5, StorePartKeeps
  <2>3. Goes(Sr(i), "store", "post") /\ UNCHANGED <<count, n, waits>>
    BY <1>5 DEF StorePart
  <2>4. FinalAt(i)' /\ DOMAIN finalImage' = Places
        /\ \A j \in Slaves \ {i}, l \in {1, 2} : finalImage'[<<j, l>>] = finalImage[<<j, l>>]
    BY <2>1, FinalStores
  <2>5. \A j \in Slaves \ {i} : SlaveInv(j)'
    BY <2>2, <2>3, <2>4, OthersKept
  <2>6. \A j \in Slaves : SlaveInv(j)'
    <3> SUFFICES ASSUME NEW j \in Slaves PROVE SlaveInv(j)'
      OBVIOUS
    <3>1. CASE j = i
      BY <3>1, <2>2, <2>4 DEF SlaveInv
    <3>2. CASE j # i
      BY <3>2, <2>5
    <3> QED BY <3>1, <3>2
  <2>7. DOMAIN pc' = Tasks
    BY <1>0, <2>3, GoesDomain
  <2>8. AppTypes'
    BY <1>0, <2>3, <2>4, <2>7 DEF AppTypes
  <2>9. (n + waits = Cardinality(Posted))'
    BY <2>3, PostedSame DEF BlurInv
  <2> QED BY <2>2, <2>6, <2>8, <2>9 DEF BlurInv
<1>6. CASE Post(i)
  <2>1. /\ UNCHANGED driverVars /\ PairInv' /\ SlaveGood(i)' /\ Apart(i) /\ StoredSame(i)
        /\ count[i] \in {0, 1}
    BY <1>6, PostKeeps
  <2>2. /\ Goes(Sr(i), "post", "receive") /\ n' = n + 1 /\ count' = [count EXCEPT ![i] = @ + 1]
        /\ UNCHANGED <<finalImage, waits>>
    BY <1>6 DEF Post
  <2>3. FinalAt(i)'
    BY <2>1, <2>2, FinalSame DEF BlurInv, SlaveInv
  <2>4. \A j \in Slaves \ {i} : SlaveInv(j)'
    <3>1. \A j \in Slaves \ {i} : count'[j] = count[j]
      BY <2>2, <1>0 DEF AppTypes
    <3> QED BY <3>1, <2>1, <2>2, OthersKept
  <2>5. \A j \in Slaves : SlaveInv(j)'
    <3> SUFFICES ASSUME NEW j \in Slaves PROVE SlaveInv(j)'
      OBVIOUS
    <3>1. CASE j = i
      BY <3>1, <2>1, <2>3 DEF SlaveInv
    <3>2. CASE j # i
      BY <3>2, <2>4
    <3> QED BY <3>1, <3>2
  <2>6. DOMAIN pc' = Tasks
    BY <1>0, <2>2, GoesDomain
  <2>7. AppTypes'
    BY <1>0, <2>2, <2>6 DEF AppTypes
  <2>8. (n + waits = Cardinality(Posted))'
    <3>1. Cardinality(Posted)' = Cardinality(Posted) + 1
      BY <1>0, <2>1, <2>2, PostedGrows
    <3>2. n + waits = Cardinality(Posted) /\ n \in Nat /\ waits \in Nat
      BY <1>0 DEF BlurInv, AppTypes
    <3>3. n' + waits' = (n + waits) + 1
      BY <2>2, <3>2
    <3> QED BY <3>1, <3>2, <3>3
  <2> QED BY <2>1, <2>5, <2>7, <2>8 DEF BlurInv
<1>7. CASE ReceiveAt(Monitor(i))
  BY <1>0, <1>7, MonitorReceiveKeeps, GoesDomain, PlainStep DEF ReceiveAt
<1>8. CASE Reply(i)
  BY <1>0, <1>8, ReplyKeeps, GoesDomain, PlainStep DEF Reply
<1>9. CASE ReceiveAt(Escravo(i))
  BY <1>0, <1>9, EscravoReceiveKeeps, GoesDomain, PlainStep DEF ReceiveAt
<1>10. CASE SendBlurred(i)
  BY <1>0, <1>10, SendBlurredKeeps, GoesDomain, PlainStep DEF SendBlurred
<1> QED BY <1>1, <1>2, <1>3, <1>4, <1>5, <1>6, <1>7, <1>8, <1>9, <1>10 DEF AppStep

\* A step that changes no view.
LEMMA QuietStep ==
    ASSUME BlurInv, PairInv', \A t \in Tasks : View(t)' = View(t), UNCHANGED <<pc, count, finalImage>>,
           n' \in Nat, waits' \in Nat, n' + waits' = n + waits
    PROVE  BlurInv'
<1>1. ASSUME NEW i \in Slaves PROVE SlaveInv(i)'
  <2>1. SlaveGood(i)'
    BY SameGood DEF BlurInv, SlaveInv
  <2>2. View(Sr(i))' = View(Sr(i))
    BY Names
  <2>3. StoredSame(i)
    BY <2>2 DEF StoredSame, stored
  <2>4. FinalAt(i)'
    BY <2>3, FinalSame DEF BlurInv, SlaveInv
  <2> QED BY <2>1, <2>4 DEF SlaveInv
<1>2. AppTypes'
  BY DEF BlurInv, AppTypes
<1>3. (n + waits = Cardinality(Posted))'
  BY PostedSame DEF BlurInv
<1> QED BY <1>1, <1>2, <1>3 DEF BlurInv

LEMMA DriverKeeps ==
    ASSUME BlurInv, Driver
    PROVE  BlurInv' /\ PairNext
<1>1. PairNext
  BY DEF Driver, DriverNext, PairNext
<1>2. PairInv' /\ TypeInv'
  <2>1. PairInv'
    BY <1>1, PairNextInv DEF BlurInv
  <2> QED BY <2>1 DEF PairInv
<1>3. UNCHANGED <<pc, count, finalImage, n, waits>> /\ DOMAIN pc' = Tasks /\ DriverNext
  BY DEF Driver, blurVars, BlurInv, AppTypes
<1>4. CASE \A t \in Tasks : View(t)' = View(t)
  <2>1. n' \in Nat /\ waits' \in Nat /\ n' + waits' = n + waits
    BY <1>3 DEF BlurInv, AppTypes
  <2> QED BY <2>1, <1>1, <1>2, <1>3, <1>4, QuietStep
<1>5. ASSUME NEW t \in Tasks, \A r \in Tasks \ {t} : View(r)' = View(r), Reads(View(t), View(t)')
      PROVE  BlurInv'
  <2>1. PICK i \in Slaves : t = Sr(i) \/ t = Monitor(i) \/ t = Escravo(i)
    BY Names
  <2>2. PICK S, M, E, c : S = Sr(i) /\ M = Monitor(i) /\ E = Escravo(i) /\ c = count[i]
    OBVIOUS
  <2>3. S \in Tasks /\ M \in Tasks /\ E \in Tasks /\ S # M /\ S # E /\ M # E
    BY <2>2, Names
  <2>4. Good(i, View(S), View(M), View(E), c)
    BY <2>2 DEF BlurInv, SlaveInv, SlaveGood
  <2>5. Good(i, View(S)', View(M)', View(E)', c) /\ View(S)'.pc = View(S).pc
    <3>1. CASE t = S
      <4>1. View(M)' = View(M) /\ View(E)' = View(E)
        BY <3>1, <2>3, <1>5
      <4> QED BY <3>1, <4>1, <2>4, <1>5, GoodSrReads DEF Reads
    <3>2. CASE t = M
      <4>1. View(S)' = View(S) /\ View(E)' = View(E)
        BY <3>2, <2>3, <1>5
      <4> QED BY <3>2, <4>1, <2>4, <1>5, GoodMonitorReads
    <3>3. CASE t = E
      <4>1. View(S)' = View(S) /\ View(M)' = View(M)
        BY <3>3, <2>3, <1>5
      <4> QED BY <3>3, <4>1, <2>4, <1>5, GoodEscravoReads
    <3> QED BY <3>1, <3>2, <3>3, <2>1, <2>2
  <2>6. SlaveGood(i)' /\ StoredSame(i)
    BY <2>2, <2>5, <1>3 DEF SlaveGood, StoredSame, stored
  <2>7. Apart(i)
    BY <2>1, <1>5 DEF Apart
  <2> QED BY <2>6, <2>7, <1>2, <1>3, PlainStep
<1>6. BlurInv'
  BY <1>2, <1>3, <1>4, <1>5, DriverViews DEF BlurInv
<1> QED BY <1>1, <1>6

LEMMA MestreKeeps ==
    ASSUME BlurInv, MestreWait
    PROVE  BlurInv' /\ UNCHANGED driverVars
<1>1. UNCHANGED <<pc, count, finalImage, driverVars>> /\ n > 0 /\ n' = n - 1 /\ waits' = waits + 1
  BY DEF MestreWait
<1>2. PairInv'
  BY <1>1, PairNextInv DEF BlurInv
<1>3. n' \in Nat /\ waits' \in Nat /\ n' + waits' = n + waits
  BY <1>1 DEF BlurInv, AppTypes
<1>4. \A t \in Tasks : View(t)' = View(t)
  BY <1>1, StillPending, ForwardsViews DEF BlurInv
<1> QED BY <1>1, <1>2, <1>3, <1>4, QuietStep

LEMMA BlurNext == BlurInv /\ [AppNext]_vars => BlurInv' /\ [PairNext]_driverVars
<1> SUFFICES ASSUME BlurInv, [AppNext]_vars PROVE BlurInv' /\ [PairNext]_driverVars
  OBVIOUS
<1>1. CASE Driver
  BY <1>1, DriverKeeps
<1>2. CASE MestreWait
  BY <1>2, MestreKeeps
<1>3. ASSUME NEW i \in Slaves, AppStep(i) PROVE BlurInv' /\ [PairNext]_driverVars
  BY <1>3, AppStepKeeps
<1>4. CASE UNCHANGED vars
  <2>1. UNCHANGED <<pc, count, finalImage, n, waits>> /\ UNCHANGED driverVars
    BY <1>4 DEF vars, blurVars
  <2>2. PairInv'
    BY <2>1, PairNextInv DEF BlurInv
  <2>3. n' \in Nat /\ waits' \in Nat /\ n' + waits' = n + waits
    BY <2>1 DEF BlurInv, AppTypes
  <2>4. \A t \in Tasks : View(t)' = View(t)
    BY <2>1, StillPending, ForwardsViews DEF BlurInv
  <2> QED BY <2>1, <2>2, <2>3, <2>4, QuietStep
<1> QED BY <1>1, <1>2, <1>3, <1>4, Zenon DEF AppNext

\* For any set of slaves, when no query of an id fails: sr, the monitors and the
\* escravos never send more than the queue of the target holds, and never to a task
\* that another one is sending to.  What PacketDriver proves of PairSpec holds for
\* the application.
THEOREM UsesPair == BlurSpec => UsesDriverAsPair
<1>1. Init => DriverInit
  BY DEF Init
<1>2. [PairNext]_driverVars => [failed' = {} => PairNext]_driverVars
  OBVIOUS
<1> QED BY <1>1, <1>2, BlurInit, BlurNext, PTL DEF BlurSpec, UsesDriverAsPair

LEMMA InvComplete == BlurInv => ImageComplete
<1> SUFFICES ASSUME BlurInv, Done, NEW p \in Places
             PROVE  /\ finalImage[p] # Empty
                    /\ finalImage[p][1] = "blurred"
                    /\ ShownBy(p, Tail(finalImage[p]))
  BY DEF ImageComplete
<1>1. Posted = Places
  <2>1. waits = Cardinality(Places)
    BY PlacesFinite DEF Done, Waits
  <2>2. Cardinality(Posted) <= Cardinality(Places)
    BY PlacesFinite, FS_Subset
  <2>3. n + waits = Cardinality(Posted) /\ n \in Nat /\ waits \in Nat
    BY DEF BlurInv, AppTypes
  <2>4. Cardinality(Places) = Cardinality(Posted)
    BY <2>1, <2>2, <2>3, PlacesFinite
  <2> QED BY <2>4, PlacesFinite, FS_Subset
<1>2. PICK i \in Slaves, k \in {1, 2} : p = <<i, k>>
  BY DEF Places
<1>3. k <= count[i] /\ count[i] \in Nat
  BY <1>1, <1>2 DEF Posted, BlurInv, AppTypes
<1>4. k <= stored(View(Sr(i)), count[i])
  BY <1>3 DEF stored
<1>5. finalImage[p] = <<"blurred", i, k>>
  BY <1>2, <1>4 DEF BlurInv, SlaveInv, FinalAt
<1>6. <<"blurred", i, k>> \in Bodies /\ Empty \notin Bodies
  BY AppAssumption DEF AppBodies
<1>7. Tail(finalImage[p]) = p
  <2>1. Tail(<<"blurred", i, k>>) = <<i, k>>
    OBVIOUS
  <2> QED BY <2>1, <1>2, <1>5
<1>8. ShownBy(p, p)
  BY <1>2, BlurAssumption, PartsShown
<1> QED BY <1>5, <1>6, <1>7, <1>8

\* For any set of slaves, when no query of an id fails: when mestre has its answer
\* every part of finalImage shows what the sequential program computes there.
THEOREM ImageAlwaysComplete == BlurSpec => []ImageComplete
<1> QED BY BlurInit, BlurNext, InvComplete, PTL DEF BlurSpec
=============================================================================
