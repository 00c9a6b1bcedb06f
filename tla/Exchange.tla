------------------------------ MODULE Exchange ------------------------------
(***************************************************************************)
(* Applications whose tasks on several cores ask for each other's ids and  *)
(* send messages through the packet driver: app/exercise1.c, noc_test.c,   *)
(* noc_test2.c, noc_test3.c and noc_test4.c.  The driver is that of        *)
(* PacketDriver with less detail: a step writes a packet, which comes to   *)
(* the software queue of its target at once, or copies one from there.  So *)
(* the packets of tasks on different cores mix in any order, those of one  *)
(* core do not.                                                            *)
(*                                                                         *)
(* A task is a sequence of statements; busy waiting is no step.  A call     *)
(* with a timeout may end with it wherever it waits.  The queries that     *)
(* SystemMonitor reads find room and are one packet each.  HF_Panic ends   *)
(* the task; it stops the core too, but nothing is sent to that core any   *)
(* more, the sleep before it being long enough.                            *)
(***************************************************************************)
EXTENDS Integers, Sequences, SequencesExt

CONSTANTS Apps,                 \* the applications looked at
          N_CORES,              \* for the last four (6 in the makefile)
          RECEIVERS,            \* cores that noc_test2 sends to (5 in the source)
          Sizes,                \* sizes that noc_test2 tries in a row (14 to 30 in the source)
          Rounds,               \* sizes that noc_test3 tries (6 in the source)
          HF_PACKET_SLOTS,
          PAYLOAD_BYTES,        \* (PACKET_SIZE - 8) * 2, that is 112
          Slow,                 \* tasks whose questions or answers may be held up
          MaxDelays             \* times that happens in a behaviour

TASK_DESCRIPTION_SIZE == 21

PacketCount(size) == (size + PAYLOAD_BYTES - 1) \div PAYLOAD_BYTES

\* More than the queue of the target could ever hold is HF_COMM_UNFEASIBLE.
Feasible(size) == size \div PAYLOAD_BYTES + 1 <= HF_PACKET_SLOTS
-----------------------------------------------------------------------------
(* Statements.  A task is <<core, id>>; id 1 is SystemMonitor. *)

Monitor(u) == <<u[1], 1>>

HF_Send(u, size) == << [do |-> "send", what |-> "data", to |-> u, size |-> size] >>
HF_SendTest(u) == << [do |-> "send", what |-> "test", to |-> u, size |-> 5] >>
HF_Receive == << [do |-> "receive", until |-> {"data", "test", "id"}] >>
ReceiveTest == << [do |-> "receive", until |-> {"test"}] >>     \* the loop over HF_Receive

\* The monitor of the core of u is asked for the id of u.  HF_QueryTaskId puts what
\* it gets where its caller expects that id; noc_test.c puts the id where the sender
\* of the answer belongs, and panics when HF_NB_RecvTaskId reports an error.
HF_QueryTaskId(u) == << [do |-> "query", of |-> u], [do |-> "answer", place |-> "asked", of |-> u] >>
HF_NB_QueryTaskId(u) == << [do |-> "ask", of |-> u] >>

HF_NB_RecvTaskId(u) == << [do |-> "answer", place |-> "source", of |-> u] >>
-----------------------------------------------------------------------------
(* Applications *)

FlatMap(s, Op(_)) == FlattenSeq([k \in 1 .. Len(s) |-> Op(s[k])])

\* exercise1.c: the tasks called 2 .. 9 there, by core and id.
T2 == <<1, 2>>
T3 == <<1, 3>>
T4 == <<2, 2>>
T5 == <<2, 3>>
T6 == <<3, 2>>
T7 == <<3, 3>>
T8 == <<4, 2>>
T9 == <<5, 2>>

AskAll(targets) == FlatMap(targets, HF_QueryTaskId)

task_handler1 ==
    AskAll(<<T2, T3, T4, T5>>) \o HF_Send(T2, 256) \o HF_Send(T3, 64) \o HF_Send(T4, 64) \o HF_Send(T5, 64)
task_handler2 ==
    HF_Receive \o AskAll(<<T6, T7, T8>>) \o HF_Send(T6, 64) \o HF_Send(T7, 320) \o HF_Send(T8, 320)
task_handler3 == HF_Receive \o AskAll(<<T7, T8>>) \o HF_Send(T7, 320) \o HF_Send(T8, 64)

task_handler4 == HF_Receive \o AskAll(<<T8>>) \o HF_Send(T8, 64)
task_handler5 == HF_Receive \o AskAll(<<T8>>) \o HF_Send(T8, 640)
task_handler6 == HF_Receive \o AskAll(<<T9>>) \o HF_Send(T9, 640)
task_handler7 == task_handler6
task_handler8 == task_handler6
task_handler9 == HF_Receive

exercise1 == (<<0, 2>> :> task_handler1) @@ (T2 :> task_handler2) @@ (T3 :> task_handler3)
             @@ (T4 :> task_handler4) @@ (T5 :> task_handler5) @@ (T6 :> task_handler6)
             @@ (T7 :> task_handler7) @@ (T8 :> task_handler8) @@ (T9 :> task_handler9)

Nodes == [k \in 1 .. N_CORES |-> k - 1]
Others(c) == SelectSeq(Nodes, LAMBDA d : d # c)
Receiver(c) == <<c, 2>>

\* noc_test.c: core 1 asks all others at once.
noc_test_send ==
    FlatMap(Others(1), LAMBDA c : HF_NB_QueryTaskId(Receiver(c)))
    \o FlatMap(Others(1), LAMBDA c : HF_NB_RecvTaskId(Receiver(c)))
    \o FlatMap(Others(1), LAMBDA c : HF_Send(Receiver(c), 512))
noc_test == (<<1, 2>> :> noc_test_send) @@ [t \in (0 .. N_CORES - 1) \X {2} |-> HF_Receive]

\* noc_test2.c: core 0 sends n messages in a row of every size to core 1 or to each
\* of the others.  (A task of its own, dummy, only keeps core 0 busy.)
Burst(n, targets, size) == FlatMap(targets, LAMBDA c : FlattenSeq([k \in 1 .. n |-> HF_Send(Receiver(c), size)]))
Growing(n, targets) == FlatMap([k \in 1 .. Sizes |-> 50 * k], LAMBDA size : Burst(n, targets, size))
Shrinking(targets) == FlatMap([k \in 1 .. Sizes |-> 1792 - 128 * (k - 1)], LAMBDA size : Burst(1, targets, size))

noc_test2_send ==
    LET all == [k \in 1 .. RECEIVERS |-> k]
    IN Growing(1, <<1>>) \o Growing(3, <<1>>) \o Growing(1, all) \o Growing(3, all)
       \o Burst(3, all, 1536) \o Growing(1, all) \o Shrinking(all) \o FlatMap(all, LAMBDA c : HF_SendTest(Receiver(c)))
noc_test2 == (<<0, 2>> :> noc_test2_send) @@ [t \in (1 .. RECEIVERS) \X {2} |-> ReceiveTest]

\* noc_test3.c: on each core task 2 sends, and the tasks 3, 4, ... receive from
\* cores 0, 1, ...; the last messages go to the senders.  (All this is done 5
\* times there.)
ManyToMany(c, size) == FlatMap(Others(c), LAMBDA d : HF_Send(<<d, c + 3>>, size))
noc_test3_send(c) == FlatMap([k \in 1 .. Rounds |-> 32 * k], LAMBDA size : ManyToMany(c, size))
                     \o FlatMap(Others(0), LAMBDA d : HF_SendTest(<<d, 2>>))
noc_test3 == [t \in (0 .. N_CORES - 1) \X {2} |-> noc_test3_send(t[1])]
             @@ [t \in (0 .. N_CORES - 1) \X (3 .. N_CORES + 2) |-> ReceiveTest]

\* noc_test4.c: numbers and then a text from core 0 to each other.
noc_test4_send == FlatMap(Others(0), LAMBDA c : HF_Send(Receiver(c), 100))
                  \o FlatMap(Others(0), LAMBDA c : HF_SendTest(Receiver(c)))
noc_test4 == (<<0, 2>> :> noc_test4_send) @@ [t \in (1 .. N_CORES - 1) \X {2} |-> ReceiveTest]

Programs == ("exercise1" :> exercise1) @@ ("noc_test" :> noc_test) @@ ("noc_test2" :> noc_test2)
            @@ ("noc_test3" :> noc_test3) @@ ("noc_test4" :> noc_test4)
-----------------------------------------------------------------------------
VARIABLES app,          \* the application that runs
          next,           \* task -> statement it executes next
          sent,         \* task -> packets written of the message it sends
          asked,        \* task -> its questions that a monitor has not answered
          queue,        \* task -> packets in its software queue
          buf,          \* task -> packets of the message it is receiving
          id,           \* task -> the ids it was told
          delays,       \* how many there were
          reported,     \* tasks with a lost packet or a call that returned an error
          mixed         \* tasks that got parts of several messages with HF_OK before that

exchangeVars == <<app, next, sent, asked, queue, buf, id, delays, reported, mixed>>
told == <<reported, mixed>>

Program == Programs[app]
Tasks == DOMAIN Program
Statement(t) == Program[t][next[t]]
Halted(t) == next[t] > Len(Program[t])
At(t, what) == ~Halted(t) /\ Statement(t).do = what

ExchangeInit ==
    /\ app \in Apps
    /\ next = [t \in Tasks |-> 1]
    /\ sent = [t \in Tasks |-> 0]
    /\ asked = [t \in Tasks |-> {}]
    /\ queue = [t \in Tasks |-> << >>]
    /\ buf = queue
    /\ id = queue
    /\ delays = 0
    /\ reported = {}
    /\ mixed = {}

Skip(t, n) == next' = [next EXCEPT ![t] = @ + n]
Advance(t) == Skip(t, 1)
-----------------------------------------------------------------------------
(* Sending *)

\* pktdrv_mutex, which a task holds over a whole message.
Free(t) == \A u \in Tasks \ {t} : u[1] = t[1] => sent[u] = 0

\* Nobody reads, or will read, the software queue of u.
Unread(u) == IF u \in Tasks THEN \A k \in next[u] .. Len(Program[u]) : Program[u][k].do = "send" ELSE TRUE

HasRoom(u) == Len(queue[u]) < HF_PACKET_SLOTS

\* RecvCommServiceISR drops what finds no task or no room, and counts the latter.
Arrives(packet, u) ==
    \/ ~Unread(u) /\ HasRoom(u) /\ queue' = [queue EXCEPT ![u] = Append(@, packet)] /\ UNCHANGED reported
    \/ ~Unread(u) /\ ~HasRoom(u) /\ reported' = reported \cup {u} /\ UNCHANGED queue
    \/ Unread(u) /\ UNCHANGED <<queue, reported>>

Packet(from, what, of, size, seq) == [from |-> from, what |-> what, of |-> of, size |-> size, seq |-> seq]
IdMessage(u) == Packet(Monitor(u), "id", u, TASK_DESCRIPTION_SIZE, 1)

\* What is in the variable for an id before it is written, in a message that is no
\* answer, and what an error code leaves of itself in an 8-bit id: no task has it.
Garbage == 97

\* The last three do not ask for the ids.
IdOf(t, u) == IF app \in {"noc_test2", "noc_test3", "noc_test4"} THEN u[2]
              ELSE IF u \in DOMAIN id[t] THEN id[t][u] ELSE Garbage

Target(t) == IF Statement(t).what = "data" THEN <<Statement(t).to[1], IdOf(t, Statement(t).to)>>
             ELSE Statement(t).to

LastPacket(t) == sent[t] + 1 = PacketCount(Statement(t).size)

\* A packet; the rest of a message nobody reads as well.
WritePacket(t) ==
    /\ At(t, "send")
    /\ Feasible(Statement(t).size)
    /\ Free(t)
    /\ LET s == Statement(t) IN Arrives(Packet(t, s.what, s.to, s.size, sent[t] + 1), Target(t))
    /\ \/ /\ LastPacket(t) \/ Unread(Target(t))
          /\ sent' = [sent EXCEPT ![t] = 0]
          /\ Advance(t)
       \/ ~LastPacket(t) /\ ~Unread(Target(t)) /\ sent' = [sent EXCEPT ![t] = @ + 1] /\ UNCHANGED next
    /\ UNCHANGED <<app, asked, buf, id, delays, mixed>>

Unfeasible(t) ==
    /\ At(t, "send")
    /\ ~Feasible(Statement(t).size)
    /\ Advance(t)
    /\ UNCHANGED <<app, sent, asked, queue, buf, id, delays, told>>
-----------------------------------------------------------------------------
(* Queries *)

Tells(t, place, n) == id' = [id EXCEPT ![t] = (place :> n) @@ @]

HeldUp(t) == t \in Slow /\ delays < MaxDelays /\ delays' = delays + 1

\* The answer comes at once; it is read at once when nothing else is in the queue.
\* A message that comes between the two can as well come before the question;
\* nobody could tell.
Answered(t) ==
    LET u == Statement(t).of
    IN /\ Free(t) /\ Free(Monitor(u))
       /\ \/ queue[t] = << >> /\ Tells(t, u, u[2]) /\ Skip(t, 2) /\ UNCHANGED <<queue, reported>>
          \/ queue[t] # << >> /\ Arrives(IdMessage(u), t) /\ Skip(t, 1) /\ UNCHANGED id
       /\ UNCHANGED <<asked, delays>>

\* The answer comes later, or never.
Asks(t) ==
    /\ Free(t)
    /\ asked' = [asked EXCEPT ![t] = @ \cup {Statement(t).of}]
    /\ Skip(t, 1)
    /\ UNCHANGED <<queue, id, reported>>

\* The interface was not ready: HF_QueryTaskId returns that as the id.
NotAsked(t) ==
    /\ Tells(t, Statement(t).of, Garbage)
    /\ Skip(t, 2)
    /\ reported' = reported \cup {t}
    /\ UNCHANGED <<queue, asked>>

Query(t) ==
    /\ At(t, "query")
    /\ \/ Answered(t)
       \/ HeldUp(t) /\ (Asks(t) \/ NotAsked(t))
    /\ UNCHANGED <<app, sent, buf, mixed>>

\* noc_test.c does not look at what HF_NB_QueryTaskId returns.
Ask(t) ==
    /\ At(t, "ask")
    /\ \/ Asks(t) /\ UNCHANGED delays
       \/ HeldUp(t) /\ Skip(t, 1) /\ UNCHANGED <<queue, asked, id, reported>>
    /\ UNCHANGED <<app, sent, buf, mixed>>

\* The monitors answer in any order.
SystemMonitor(t) ==
    /\ \E u \in asked[t] : /\ Free(Monitor(u))
                           /\ asked' = [asked EXCEPT ![t] = @ \ {u}]
                           /\ Arrives(IdMessage(u), t)
    /\ UNCHANGED <<app, next, sent, buf, id, delays, mixed>>
-----------------------------------------------------------------------------
(* Receiving *)

Complete(packets) == Len(packets) >= PacketCount(packets[1].size)

\* Mutant: without DEBUG, nobody compares sequence numbers.
InSequenceAlways(packets) == TRUE

InSequence(packets) == \A k \in 1 .. Len(packets) : packets[k].seq = packets[1].seq + k - 1

OneMessage(packets) ==
    /\ Len(packets) = PacketCount(packets[1].size)
    /\ \A k \in 1 .. Len(packets) : packets[k] = [packets[1] EXCEPT !.seq = k]

Taken(t) == Append(buf[t], Head(queue[t]))

\* HF_NB_Receive copies a packet, and returns HF_OK or HF_SEQ_ERROR after the last.
TakePacket(t) ==
    /\ queue[t] # << >>
    /\ queue' = [queue EXCEPT ![t] = Tail(@)]
    /\ buf' = [buf EXCEPT ![t] = IF Complete(Taken(t)) THEN << >> ELSE Taken(t)]
    /\ reported' = IF Complete(Taken(t)) /\ ~InSequence(Taken(t)) THEN reported \cup {t} ELSE reported
    /\ mixed' = IF Complete(Taken(t)) /\ t \notin reported' /\ ~OneMessage(Taken(t)) THEN mixed \cup {t} ELSE mixed
    /\ UNCHANGED <<app, sent, asked, delays>>

\* The applications do not look at what HF_Receive returns.
Receive(t) ==
    /\ At(t, "receive")
    /\ TakePacket(t)
    /\ IF Complete(Taken(t)) /\ Taken(t)[1].what \in Statement(t).until THEN Advance(t) ELSE UNCHANGED next
    /\ UNCHANGED id

\* The id in a message, or what is there in one that is no answer.
IdIn(packet) == IF packet.what = "id" THEN packet.of[2] ELSE Garbage

Place(t, first) == IF Statement(t).place = "asked" THEN Statement(t).of ELSE <<first.from[1], 2>>

Ends(t) == next' = [next EXCEPT ![t] = Len(Program[t]) + 1]

\* Mutant: noc_test.c goes on after an error.
AnswerFailsUnseen(t) == Advance(t) /\ UNCHANGED id

\* An error: an id for exercise1.c, HF_Panic for noc_test.c.
AnswerFails(t) == IF Statement(t).place = "asked" THEN Tells(t, Statement(t).of, Garbage) /\ Advance(t)
                  ELSE Ends(t) /\ UNCHANGED id

\* Whatever message comes is taken for the answer.  A longer one also runs over
\* msg, and may do away with the task.
ReceiveAnswer(t) ==
    /\ At(t, "answer")
    /\ TakePacket(t)
    /\ LET packets == Taken(t)
       IN \/ ~Complete(packets) /\ UNCHANGED <<next, id>>
          \/ Complete(packets) /\ InSequence(packets) /\ Tells(t, Place(t, packets[1]), IdIn(packets[1])) /\ Advance(t)
          \/ Complete(packets) /\ ~InSequence(packets) /\ AnswerFails(t)
          \/ Complete(packets) /\ packets[1].size > TASK_DESCRIPTION_SIZE /\ Ends(t) /\ UNCHANGED id

\* HF_COMM_TIMEOUT, before the first packet or between two.
AnswerTimesOut(t) ==
    /\ At(t, "answer")
    /\ queue[t] = << >>
    /\ AnswerFails(t)
    /\ buf' = [buf EXCEPT ![t] = << >>]
    /\ reported' = reported \cup {t}
    /\ UNCHANGED <<app, sent, asked, queue, delays, mixed>>
-----------------------------------------------------------------------------
ExchangeNext == \E t \in Tasks : \/ WritePacket(t) \/ Unfeasible(t)
                                 \/ Query(t) \/ Ask(t) \/ SystemMonitor(t)
                                 \/ Receive(t) \/ ReceiveAnswer(t) \/ AnswerTimesOut(t)

ExchangeSpec == ExchangeInit /\ [][ExchangeNext]_exchangeVars
-----------------------------------------------------------------------------
(* Properties *)

\* Packets of several senders mix in the queue of a task, packets are dropped when
\* it is full, and the receive call only counts them and compares sequence numbers;
\* yet parts of several messages never pass for one as long as nothing was reported
\* to the task: no HF_SEQ_ERROR or other error by an earlier call, nothing counted
\* in packets_lost (HF_NB_Receive).  Afterwards they may: the rest of one message
\* and the beginning of the next are put together without an error.
MixingIsReported == mixed = {}

\* noc_test.c asks all cores at once and takes the answers as they come.  Whatever
\* is late, lost or timed out, a message that it sends goes to the task it is meant
\* for: an answer is put down under the core it came from, and the task goes on
\* only when all answers have come (HF_NB_QueryTaskId, HF_NB_RecvTaskId).
SentWhereMeant ==
    \A t \in Tasks : app = "noc_test" /\ At(t, "send") => Target(t) = Statement(t).to
=============================================================================
