------------------------------ MODULE SemTest ------------------------------
(***************************************************************************)
(* app/sem_test.c on the kernel of HFKernel: producers and consumers that  *)
(* share a ring of N items through the semaphores empty, full and m.       *)
(*                                                                         *)
(* Every statement between two kernel calls is a step of its own, so a     *)
(* tick can fall inside the region that m protects.                        *)
(***************************************************************************)
EXTENDS HFKernel, Sequences

CONSTANTS N,            \* cells of the ring
          Producers, Consumers,   \* how many tasks run each function
          empty, full, m          \* the semaphores

ASSUME SemTestAssumption == /\ N \in Nat \ {0} /\ {0, 1, N} \subseteq InitialValues
                            /\ Producers \in Nat /\ Consumers \in Nat
                            /\ Producers + Consumers < MAX_TASKS
                            /\ Sems = {empty, full, m}
                            /\ empty # full /\ empty # m /\ full # m
                            /\ FALSE \in Kinds

VARIABLES at,           \* slot -> statement it executes next
          boot,         \* statements ApplicationMain has executed
          buffer,       \* cell -> does it hold an item nobody has taken
          in, out       \* next cell to fill, next cell to take

appVars == <<at, boot, buffer, in, out>>
allVars == <<vars, appVars>>

ProducerTasks == 1 .. Producers
ConsumerTasks == Producers + 1 .. Producers + Consumers
Tasks == ProducerTasks \cup ConsumerTasks

Cells == 0 .. N - 1

AppInit == /\ Init
           /\ at = [t \in Tasks |-> "claim"]
           /\ boot = 0
           /\ buffer = [c \in Cells |-> FALSE]
           /\ in = 0
           /\ out = 0

\* ApplicationMain: three HF_SemInit, one HF_AddTask for each task, HF_Start.
ApplicationMain ==
    /\ \/ boot = 0 /\ HF_SemInit(empty, N)
       \/ boot = 1 /\ HF_SemInit(full, 0)
       \/ boot = 2 /\ HF_SemInit(m, 1)
       \/ boot \in 3 .. Producers + Consumers + 2 /\ HF_AddTask(FALSE, TRUE)
       \/ boot = Producers + Consumers + 3 /\ HF_Start
    /\ boot' = boot + 1
    /\ UNCHANGED <<at, buffer, in, out>>

\* Task t is at this statement and owns the core.
At(t, statement) == /\ InTask
                    /\ HF_current_task = t
                    /\ at[t] = statement

Goto(t, statement) == at' = [at EXCEPT ![t] = statement]

NextCell(c) == (c + 1) % N

Call(t, from, call, to) ==
    /\ At(t, from)
    /\ call
    /\ Goto(t, to)
    /\ UNCHANGED <<boot, buffer, in, out>>

producer(t) ==
    \/ Call(t, "claim", HF_SemWait(empty), "enter")
    \/ Call(t, "enter", HF_SemWait(m), "access")
    \/ /\ At(t, "access")
       /\ buffer' = [buffer EXCEPT ![in] = TRUE]
       /\ Goto(t, "advance")
       /\ UNCHANGED <<vars, boot, in, out>>
    \/ /\ At(t, "advance")
       /\ in' = NextCell(in)
       /\ Goto(t, "leave")
       /\ UNCHANGED <<vars, boot, buffer, out>>
    \/ Call(t, "leave", HF_SemPost(m), "signal")
    \/ Call(t, "signal", HF_SemPost(full), "claim")

consumer(t) ==
    \/ Call(t, "claim", HF_SemWait(full), "enter")
    \/ Call(t, "enter", HF_SemWait(m), "access")
    \/ /\ At(t, "access")
       /\ buffer' = [buffer EXCEPT ![out] = FALSE]
       /\ Goto(t, "advance")
       /\ UNCHANGED <<vars, boot, in, out>>
    \/ /\ At(t, "advance")
       /\ out' = NextCell(out)
       /\ Goto(t, "leave")
       /\ UNCHANGED <<vars, boot, buffer, in>>
    \/ Call(t, "leave", HF_SemPost(m), "signal")
    \/ Call(t, "signal", HF_SemPost(empty), "claim")

\* The HF_TaskYield inside an HF_SemWait that blocks.
YieldInWait(t) == /\ HF_current_task = t
                  /\ pc[t] = "yield"
                  /\ \E u \in Slots : HF_TaskYield(u)
                  /\ UNCHANGED appVars

TaskStep(t) == \/ t \in ProducerTasks /\ producer(t)
               \/ t \in ConsumerTasks /\ consumer(t)
               \/ YieldInWait(t)

Tick(u) == HF_DispatcherISR(u) /\ UNCHANGED appVars

AppNext == \/ ApplicationMain
           \/ \E t \in Tasks : TaskStep(t)
           \/ \E u \in Slots : Tick(u)

(***************************************************************************)
(* Fairness: the boot code runs to its end; the timer never stops and the  *)
(* best effort scheduler reaches every task that stays ready; a task that  *)
(* is given the core again and again executes statements, for a tick is    *)
(* thousands of instructions long.                                         *)
(***************************************************************************)
AppSpec == /\ AppInit /\ [][AppNext]_allVars
           /\ WF_allVars(ApplicationMain)
           /\ \A u \in Slots : WF_allVars(Tick(u))
           /\ \A t \in Tasks : SF_allVars(TaskStep(t))
-----------------------------------------------------------------------------
Inside(t) == at[t] \in {"access", "advance", "leave"} /\ pc[t] = "run"

\* m protects the ring although a tick can preempt the owner anywhere.
RingExclusive == \A t, u \in Tasks : Inside(t) /\ Inside(u) => t = u

\* A producer that may write finds a cell nobody has to read any more, and a
\* consumer finds one that holds an item.
AccessIsUseful ==
    \A t \in Tasks : Inside(t) /\ at[t] = "access" =>
        IF t \in ProducerTasks THEN ~buffer[in] ELSE buffer[out]

\* The units of empty and full and the tasks that hold one of them account for
\* every cell of the ring: no post is lost and none is counted twice.
Holding(t) == \/ at[t] \in {"access", "advance", "leave", "signal"}
              \/ at[t] = "enter" /\ pc[t] = "run"
CellsAccounted ==
    HF_schedule =>
        LET free == IF count[empty] > 0 THEN count[empty] ELSE 0
            used == IF count[full] > 0 THEN count[full] ELSE 0
            woken == Cardinality({t \in Tasks : at[t] = "enter" /\ pc[t] # "run"
                                                   /\ status[t] # "waiting"})
        IN  free + used + woken + Cardinality({t \in Tasks : Holding(t)}) = N

\* The buffer of sem_test.c is used by one task at a time, where it should be,
\* and no unit of the semaphores that guard it is lost or counted twice.
RingSafe == RingExclusive /\ AccessIsUseful /\ CellsAccounted

\* Every producer and every consumer gets its turn again and again: the
\* semaphores are served in order, so nobody is overtaken for ever.
NobodyStarves == \A t \in Tasks : at[t] = "claim" ~> at[t] = "signal"
=============================================================================
