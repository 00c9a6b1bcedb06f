---------------------------- MODULE ParallelBlur ----------------------------
(***************************************************************************)
(* The parallel Gaussian blur (app/filter.c) on the packet driver.  An     *)
(* image is cut into two parts per slave core.  On core 0 a task sr asks   *)
(* the monitor of its slave core for the id of the task escravo, sends it  *)
(* both parts, and puts the blurred parts it gets back into finalImage;    *)
(* the task mestre waits for all of them on the semaphore n and prints.    *)
(*                                                                         *)
(* A message with a part says which one, and whether it is blurred; the    *)
(* pixels it stands for are those of GaussianBlur.  mestre has             *)
(* allocated finalImage when this model starts (it is the first task of    *)
(* its core to run), and malloc does not fail.  In BlurSpec no query of an *)
(* id fails either; in FailingSpec one may, and sr takes the error for it. *)
(***************************************************************************)
EXTENDS PacketDriver, FiniteSets, GaussianBlur

CONSTANTS Slaves,                   \* cores 1 .. 8
          TASK_DESCRIPTION_SIZE,    \* bytes of a query and of its answer
          Empty                     \* contents of a part of finalImage nobody wrote

ASSUME BlurAssumption == Slaves \subseteq 1 .. 8

master == 0
PART_BYTES == PART * PART

VARIABLES pc,           \* task -> where it is
          count,        \* slave -> parts its sr has received
          finalImage,   \* <<slave, part>> -> contents
          n,            \* free units of the semaphore
          waits,        \* waits that mestre has done
          failed        \* slaves whose id was asked for in vain (history)

blurVars == <<pc, count, finalImage, n, waits>>
vars == <<driverVars, blurVars>>

Sr(i)      == <<"sr", i>>
Monitor(i) == <<"monitor", i>>
Escravo(i) == <<"escravo", i>>

AppTasks  == {"sr", "monitor", "escravo"} \X Slaves
AppHome   == [t \in AppTasks \cup {NoTask} |->
                 IF t = NoTask THEN CHOOSE i \in Slaves : TRUE
                 ELSE IF t[1] = "sr" THEN master ELSE t[2]]
AppRoutes == UNION { ({Sr(i)} \X {Monitor(i), Escravo(i)})
                        \cup ({Monitor(i), Escravo(i)} \X {Sr(i)}) : i \in Slaves }
Garbage   == <<"garbage", master, 0>>       \* pieces of several messages
AppBodies == ({"query", "reply"} \X Slaves \X {0})
                \cup ({"part", "blurred"} \X Slaves \X {1, 2})
                \cup {Garbage}

Places == Slaves \X {1, 2}

\* The tasks are those of filter.c, and the software queue of a task holds two
\* parts: ten packets each, in 32 slots.
ASSUME AppAssumption ==
    /\ Tasks = AppTasks
    /\ Home = AppHome
    /\ Routes = AppRoutes
    /\ Bodies = AppBodies
    /\ {TASK_DESCRIPTION_SIZE, PART_BYTES} \subseteq Sizes
    /\ 2 * PacketCount(PART_BYTES) <= HF_PACKET_SLOTS
    /\ Empty \notin Bodies

\* Mutant: one wait too few.
WaitsShort == 2 * Cardinality(Slaves) - 1

\* mestreTask waits 16 times, for eight slaves.
Waits == 2 * Cardinality(Slaves)

AppInit ==
    /\ pc = [t \in AppTasks |-> IF t[1] = "sr" THEN "query" ELSE "receive"]
    /\ count = [i \in Slaves |-> 0]
    /\ finalImage = [p \in Places |-> Empty]
    /\ n = 0
    /\ waits = 0

Goes(t, from, to) == pc[t] = from /\ pc' = [pc EXCEPT ![t] = to]

Message(t, kind, i, part, size) == [from |-> t, body |-> <<kind, i, part>>, size |-> size]

\* The bytes the last receive call left in the buffer, whatever it returned, and
\* the sender that the header of its first packet names.
Received(t) == IF Whole(buf[t]) THEN buf[t][1].message.body ELSE Garbage
Source(t) == buf[t][1].message.from
-----------------------------------------------------------------------------
(* sendReceiveEscravoTask *)

Query(i) ==
    /\ Goes(Sr(i), "query", "answer")
    /\ HF_NB_Send(Sr(i), Monitor(i), Message(Sr(i), "query", i, 0, TASK_DESCRIPTION_SIZE), TRUE)
    /\ UNCHANGED <<count, finalImage, n, waits>>

Answer(i) ==
    /\ Goes(Sr(i), "answer", "part1")
    /\ HF_NB_Receive(Sr(i), TRUE)
    /\ UNCHANGED <<count, finalImage, n, waits>>

\* The id that the query returned is never checked.
idTask(i) == IF Received(Sr(i)) = <<"reply", i, 0>> THEN Escravo(i) ELSE NoTask

SendPart(i, k) ==
    /\ HF_NB_Send(Sr(i), idTask(i), Message(Sr(i), "part", i, k, PART_BYTES), FALSE)
    /\ UNCHANGED <<count, finalImage, n, waits>>

SendParts(i) == \/ Goes(Sr(i), "part1", "part2") /\ SendPart(i, 1)
                \/ Goes(Sr(i), "part2", "receive") /\ SendPart(i, 2)

ReceiveBlurred(i) ==
    /\ Goes(Sr(i), "receive", "store")
    /\ HF_NB_Receive(Sr(i), FALSE)
    /\ UNCHANGED <<count, finalImage, n, waits>>

\* The first answer is the first part, any later one the second.
Place(i) == <<i, IF count[i] = 0 THEN 1 ELSE 2>>

StorePart(i) ==
    /\ Outside(Sr(i))
    /\ Goes(Sr(i), "store", "post")
    /\ finalImage' = [finalImage EXCEPT ![Place(i)] = Received(Sr(i))]
    /\ UNCHANGED <<count, n, waits, driverVars>>

Post(i) ==
    /\ Goes(Sr(i), "post", "receive")
    /\ n' = n + 1
    /\ count' = [count EXCEPT ![i] = @ + 1]
    /\ UNCHANGED <<finalImage, waits, driverVars>>
-----------------------------------------------------------------------------
(* The slave core: SystemMonitor and escravoTask *)

ReceiveAt(t) ==
    /\ Goes(t, "receive", "send")
    /\ HF_NB_Receive(t, FALSE)
    /\ UNCHANGED <<count, finalImage, n, waits>>

\* Mutant: the monitor answers again instead of waiting for the next query.
ReplyAgain(i) ==
    /\ Goes(Monitor(i), "send", "send")
    /\ HF_NB_Send(Monitor(i), Source(Monitor(i)),
                  Message(Monitor(i), "reply", i, 0, TASK_DESCRIPTION_SIZE), TRUE)
    /\ UNCHANGED <<count, finalImage, n, waits>>

Reply(i) ==
    /\ Goes(Monitor(i), "send", "receive")
    /\ HF_NB_Send(Monitor(i), Source(Monitor(i)),
                  Message(Monitor(i), "reply", i, 0, TASK_DESCRIPTION_SIZE), TRUE)
    /\ UNCHANGED <<count, finalImage, n, waits>>

Filtered(body) == IF body[1] = "part" THEN <<"blurred", body[2], body[3]>> ELSE Garbage

SendBlurred(i) ==
    /\ Goes(Escravo(i), "send", "receive")
    /\ HF_NB_Send(Escravo(i), Source(Escravo(i)),
                  [from |-> Escravo(i), body |-> Filtered(Received(Escravo(i))),
                   size |-> PART_BYTES], FALSE)
    /\ UNCHANGED <<count, finalImage, n, waits>>
-----------------------------------------------------------------------------
(* mestreTask *)

MestreWait ==
    /\ waits < Waits
    /\ n > 0
    /\ n' = n - 1
    /\ waits' = waits + 1
    /\ UNCHANGED <<pc, count, finalImage, driverVars>>
-----------------------------------------------------------------------------
AppStep(i) == \/ Query(i)
              \/ Answer(i)
              \/ SendParts(i)
              \/ ReceiveBlurred(i)
              \/ StorePart(i)
              \/ Post(i)
              \/ ReceiveAt(Monitor(i))
              \/ Reply(i)
              \/ ReceiveAt(Escravo(i))
              \/ SendBlurred(i)

Init == DriverInit /\ AppInit

DriverNext == Interrupts \/ \E t \in Tasks : DriverStep(t)

Driver == DriverNext /\ UNCHANGED blurVars

AppNext == Driver \/ MestreWait \/ \E i \in Slaves : AppStep(i)

(***************************************************************************)
(* Every task is scheduled again and again (best effort scheduling counts  *)
(* each ready task down to its turn), interrupts and the network are fair  *)
(* as in PacketDriver.                                                     *)
(***************************************************************************)
AppFairness ==
    /\ \A c \in Cores : /\ SF_vars(Transfer(c) /\ UNCHANGED blurVars)
                       /\ WF_vars(RecvCommServiceISR(c) /\ UNCHANGED blurVars)
    /\ \A t \in Tasks : WF_vars(DriverStep(t) /\ UNCHANGED blurVars)
    /\ \A i \in Slaves : /\ WF_vars(Query(i) \/ Answer(i) \/ SendParts(i) \/ ReceiveBlurred(i)
                                    \/ StorePart(i) \/ Post(i))
                        /\ WF_vars(ReceiveAt(Monitor(i)) \/ Reply(i))
                        /\ WF_vars(ReceiveAt(Escravo(i)) \/ SendBlurred(i))
    /\ WF_vars(MestreWait)

BlurSpec == Init /\ [][AppNext]_vars /\ AppFairness
-----------------------------------------------------------------------------
(* Queries that fail *)

\* HF_IF_NOT_READY: the interface is busy with the parts for other slaves, be they
\* in Slaves or not.
NotAsked(i) ==
    /\ Goes(Sr(i), "answer", "astray1")
    /\ Holds(Sr(i)) /\ ~sending[Sr(i)].ready
    /\ sending' = [sending EXCEPT ![Sr(i)] = NotSending]
    /\ Release(Sr(i))
    /\ UNCHANGED <<queueVars, niVars, recvVars, count, finalImage, n, waits>>

\* HF_COMM_TIMEOUT; the answer may still come.
AnswerTimesOut(i) ==
    /\ Goes(Sr(i), "part1", "astray1")
    /\ ReceiveTimeout(Sr(i))
    /\ UNCHANGED <<count, finalImage, n, waits>>

\* The error code is used for an id.  What HF_task has there is past its end, and
\* taken for no task.
SendAstray(i) ==
    /\ \/ Goes(Sr(i), "astray1", "astray2")
       \/ Goes(Sr(i), "astray2", "receive")
    /\ HF_NB_Send(Sr(i), NoTask, Message(Sr(i), "part", i, 1, PART_BYTES), FALSE)
    /\ UNCHANGED <<count, finalImage, n, waits>>

FailingNext == \/ AppNext /\ UNCHANGED failed
               \/ \E i \in Slaves : \/ NotAsked(i) /\ failed' = failed \cup {i}
                                    \/ AnswerTimesOut(i) /\ failed' = failed \cup {i}
                                    \/ SendAstray(i) /\ UNCHANGED failed

FailingInit == Init /\ failed = {}

FailingSpec == FailingInit /\ [][FailingNext]_<<vars, failed>> /\ AppFairness
-----------------------------------------------------------------------------
(* Properties *)

Done == waits = Waits

\* mestre prints only when every part of finalImage has come back, to the place it
\* was cut from, and shows there what filterNaoParalelo.c computes, except near
\* the borders of the parts: 16 posts are 16 different parts, the answers of each
\* slave come in the order of the requests, whole, and nothing that do_gausian read
\* beyond a part is left.  When a query failed its late answer is stored and posted
\* as a part, but mestre then waits for ever for the other and does not print.
ImageComplete ==
    Done => \A p \in Places : /\ finalImage[p] # Empty
                             /\ finalImage[p][1] = "blurred"
                             /\ ShownBy(p, Tail(finalImage[p]))

\* As long as no query fails, the application keeps to the flow control under which
\* the driver is a reliable first-in first-out channel (PairSpec), sr with its two
\* partners included.
UsesDriverAsPair == DriverInit /\ [][failed' = {} => PairNext]_driverVars

\* "Assim a tarefa principal do mestre ira esperar o recebimento de todas as N
\* partes antes de dar a resposta": mestre comes to its answer, unless a query fails.
Answered == <>(Done \/ failed # {})
=============================================================================
