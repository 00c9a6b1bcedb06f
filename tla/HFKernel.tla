------------------------------ MODULE HFKernel ------------------------------
(***************************************************************************)
(* The HellfireOS Lite kernel of one core: the task table and dispatcher   *)
(* of ukernel/ukernel.c and the semaphores of ukernel/mutex.c.             *)
(*                                                                         *)
(* A core runs one task at a time.  A kernel call is a critical section    *)
(* with interrupts off, so it is one step; the timer tick may fall between *)
(* any two of them.  The window that matters is inside HF_SemWait, after   *)
(* it has queued the caller and re-enabled interrupts and before it calls  *)
(* HF_TaskYield: pc is "yield" there.                                      *)
(*                                                                         *)
(* Which runnable task the schedulers pick is left open here: module       *)
(* Scheduler models the choice.                                            *)
(***************************************************************************)
EXTENDS Integers, FiniteSets

CONSTANTS MAX_TASKS,    \* slots of the task table
          Sems,         \* the semaphores of the application
          NoSem,        \* of a task that is not inside HF_SemWait
          InitialValues,\* values HF_SemInit is called with
          Kinds,        \* of tasks: is the type TASK_ONESHOT
          CountBound    \* bound on |count| that keeps TLC's state space finite

ASSUME KernelAssumption == /\ MAX_TASKS \in Nat \ {0}
                           /\ CountBound \in Nat
                           /\ NoSem \notin Sems
                           /\ Kinds \subseteq BOOLEAN
                           /\ InitialValues \subseteq 0 .. CountBound

VARIABLES ptask,                \* slot -> is there a task in it
          oneshot,              \* slot -> type is TASK_ONESHOT
          status,               \* slot -> task status
          HF_tasks,             \* number of tasks
          HF_max_index,         \* last slot the schedulers look at
          HF_current_task,      \* slot of the task the core runs
          HF_schedule,          \* ticks dispatch (the kernel is started)
          count,                \* semaphore -> signed counter
          waiting_queue,        \* semaphore -> circular buffer of slots
          waiting_queue_begin,
          waiting_queue_end,
          pc,                   \* slot -> where the task continues
          inSem                 \* slot -> semaphore of the HF_SemWait it is in

tableVars == <<ptask, oneshot, HF_tasks, HF_max_index>>
semVars   == <<count, waiting_queue, waiting_queue_begin, waiting_queue_end>>
taskVars  == <<pc, inSem>>
vars == <<tableVars, status, HF_current_task, HF_schedule, semVars, taskVars>>

Slots  == 0 .. MAX_TASKS - 1
Idle   == 0
Status == {"ready", "running", "blocked", "waiting", "not_run"}

\* "run": in its own code; "yield": queued, about to call HF_TaskYield;
\* "slept": context saved by that HF_TaskYield; "dying": killed itself.
Places == {"run", "yield", "slept", "dying"}

TypeOK ==
    /\ ptask \in [Slots -> BOOLEAN]
    /\ oneshot \in [Slots -> BOOLEAN]
    /\ status \in [Slots -> Status]
    /\ HF_tasks \in Int
    /\ HF_max_index \in Slots
    /\ HF_current_task \in Slots
    /\ HF_schedule \in BOOLEAN
    /\ count \in [Sems -> -CountBound .. CountBound]
    /\ waiting_queue \in [Sems -> [Slots -> Slots]]
    /\ waiting_queue_begin \in [Sems -> Slots]
    /\ waiting_queue_end \in [Sems -> Slots]
    /\ pc \in [Slots -> Places]
    /\ inSem \in [Slots -> Sems \cup {NoSem}]
-----------------------------------------------------------------------------
\* HF_Init clears the table and the first HF_AddServices call adds the idle task.
Init ==
    /\ ptask = [t \in Slots |-> t = Idle]
    /\ oneshot = [t \in Slots |-> FALSE]
    /\ status = [t \in Slots |-> "not_run"]
    /\ HF_tasks = 1
    /\ HF_max_index = Idle
    /\ HF_current_task = Idle
    /\ HF_schedule = FALSE
    /\ count = [s \in Sems |-> 0]
    /\ waiting_queue = [s \in Sems |-> [k \in Slots |-> 0]]
    /\ waiting_queue_begin = [s \in Sems |-> 0]
    /\ waiting_queue_end = [s \in Sems |-> 0]
    /\ pc = [t \in Slots |-> "run"]
    /\ inSem = [t \in Slots |-> NoSem]

\* The running task is in its own code, where it may call the kernel.  The
\* idle task loops for ever and calls nothing.
InTask == /\ HF_schedule
          /\ HF_current_task # Idle
          /\ pc[HF_current_task] = "run"

\* ApplicationMain, before HF_Start.
InBoot == ~HF_schedule
-----------------------------------------------------------------------------
(* Context switches *)

\* What a scheduler may return: a live task that can run, in a slot it looks at.
Candidates(pt, st, last) ==
    { t \in Slots : t <= last /\ pt[t] /\ st[t] \in {"ready", "not_run"} }

\* Mutant: the preempted task stays marked running.
DemotedForgotten == status

\* The preempted task is ready again, unless it was stopped.
Demoted == [status EXCEPT ![HF_current_task] = IF @ = "running" THEN "ready" ELSE @]

\* Control passes to t; a task that slept in HF_SemWait returns from it.
RestoreExecution(t, st, places) ==
    /\ HF_current_task' = t
    /\ status' = [st EXCEPT ![t] = "running"]
    /\ pc' = [places EXCEPT ![t] = IF @ = "slept" THEN "run" ELSE @]
    /\ inSem' = [inSem EXCEPT ![t] = IF places[t] = "slept" THEN NoSem ELSE @]

\* Mutant: the slots past the killed one are forgotten.
FreeSlotTruncating(id) ==
    /\ ptask' = [ptask EXCEPT ![id] = FALSE]
    /\ HF_tasks' = HF_tasks - 1
    /\ HF_max_index' = id - 1
    /\ UNCHANGED oneshot

\* Effect of HF_KillTask on the table.
FreeSlot(id) ==
    /\ ptask' = [ptask EXCEPT ![id] = FALSE]
    /\ HF_tasks' = HF_tasks - 1
    /\ IF id = HF_max_index
       THEN \E m \in Slots : /\ ptask'[m]
                             /\ \A i \in Slots : i > m => ~ptask'[i]
                             /\ HF_max_index' = m
       ELSE UNCHANGED HF_max_index
    /\ UNCHANGED oneshot

\* The timer tick.  A one-shot best effort task is killed by its first tick:
\* HF_KillTask then calls HF_TaskYield itself.
HF_DispatcherISR(t) ==
    /\ HF_schedule
    /\ LET cur  == HF_current_task
           dies == oneshot[cur] /\ ptask[cur] /\ cur # Idle
           st   == IF dies THEN [status EXCEPT ![cur] = "not_run"] ELSE Demoted
       IN  /\ IF dies THEN FreeSlot(cur) ELSE UNCHANGED tableVars
           /\ t \in Candidates(ptask', st, HF_max_index')
           /\ RestoreExecution(t, st, pc)
    /\ UNCHANGED <<HF_schedule, semVars>>

\* Called by the task itself, at the end of HF_SemWait or of its own HF_KillTask.
HF_TaskYield(t) ==
    /\ HF_schedule
    /\ HF_current_task # Idle
    /\ LET cur == HF_current_task
       IN  /\ t \in Candidates(ptask, Demoted, HF_max_index)
           /\ RestoreExecution(t, Demoted,
                  [pc EXCEPT ![cur] = IF @ = "yield" THEN "slept" ELSE @])
    /\ UNCHANGED <<tableVars, HF_schedule, semVars>>
-----------------------------------------------------------------------------
(* Task management calls *)

\* The first free slot is filled.  When malloc fails the slot stays free, and
\* HF_max_index keeps the value it was raised to.
HF_AddTask(kind, memory) ==
    /\ InTask \/ InBoot
    /\ \E i \in Slots :
          /\ ~ptask[i]
          /\ \A k \in 0 .. i - 1 : ptask[k]
          /\ ptask' = [ptask EXCEPT ![i] = memory]
          /\ oneshot' = [oneshot EXCEPT ![i] = kind]
          /\ status' = [status EXCEPT ![i] = "not_run"]
          /\ HF_max_index' = IF i > HF_max_index THEN i ELSE HF_max_index
          /\ pc' = [pc EXCEPT ![i] = "run"]
          /\ inSem' = [inSem EXCEPT ![i] = NoSem]
    /\ HF_tasks' = IF memory THEN HF_tasks + 1 ELSE HF_tasks
    /\ UNCHANGED <<HF_current_task, HF_schedule, semVars>>

HF_BlockTask(id) ==
    /\ InTask
    /\ id # Idle
    /\ ptask[id]
    /\ status[id] # "not_run"
    /\ status' = [status EXCEPT ![id] = "blocked"]
    /\ UNCHANGED <<tableVars, HF_current_task, HF_schedule, semVars, taskVars>>

HF_ResumeTask(id) ==
    /\ InTask
    /\ id # Idle
    /\ ptask[id]
    /\ status[id] # "not_run"
    /\ status' = [status EXCEPT ![id] = "ready"]
    /\ UNCHANGED <<tableVars, HF_current_task, HF_schedule, semVars, taskVars>>

\* A task that kills itself goes on to HF_TaskYield and never returns.
HF_KillTask(id) ==
    /\ InTask
    /\ id # Idle
    /\ ptask[id]
    /\ FreeSlot(id)
    /\ status' = [status EXCEPT ![id] = "not_run"]
    /\ pc' = IF id = HF_current_task THEN [pc EXCEPT ![id] = "dying"] ELSE pc
    /\ UNCHANGED <<HF_current_task, HF_schedule, semVars, inSem>>

\* HF_HardwareInit enables the dispatcher; from here the boot code is the idle loop.
HF_Start ==
    /\ InBoot
    /\ HF_schedule' = TRUE
    /\ UNCHANGED <<tableVars, status, HF_current_task, semVars, taskVars>>
-----------------------------------------------------------------------------
(* Semaphores *)

NextIndexShort(k) == (k + 1) % (MAX_TASKS - 1)    \* mutant: off by one in the size
NextIndex(k) == (k + 1) % MAX_TASKS

HF_SemInit(s, value) ==
    /\ InBoot
    /\ count' = [count EXCEPT ![s] = value]
    /\ waiting_queue_begin' = [waiting_queue_begin EXCEPT ![s] = 0]
    /\ waiting_queue_end' = [waiting_queue_end EXCEPT ![s] = 0]
    /\ UNCHANGED <<tableVars, status, HF_current_task, HF_schedule, waiting_queue, taskVars>>

\* Whether a call blocks its caller, or a post has a task to wake.
MustWaitLate(s) == count[s] - 1 < -1      \* mutant: compares with the wrong value
MustWait(s) == count[s] - 1 < 0
MustWakeLate(s) == count[s] + 1 < 0       \* mutant: forgets the last waiter
MustWake(s) == count[s] + 1 <= 0

\* Mutant: HF_TaskYield is forgotten, the caller runs on.
EnqueueWithoutYield(s, id) ==
    /\ waiting_queue' = [waiting_queue EXCEPT ![s][waiting_queue_end[s]] = id]
    /\ waiting_queue_end' = [waiting_queue_end EXCEPT ![s] = NextIndex(@)]
    /\ status' = [status EXCEPT ![id] = "waiting"]
    /\ inSem' = [inSem EXCEPT ![id] = s]
    /\ UNCHANGED pc

\* The caller stops at the end of the line; its HF_TaskYield is still to come.
Enqueue(s, id) ==
    /\ waiting_queue' = [waiting_queue EXCEPT ![s][waiting_queue_end[s]] = id]
    /\ waiting_queue_end' = [waiting_queue_end EXCEPT ![s] = NextIndex(@)]
    /\ status' = [status EXCEPT ![id] = "waiting"]
    /\ pc' = [pc EXCEPT ![id] = "yield"]
    /\ inSem' = [inSem EXCEPT ![id] = s]

\* Mutant: the last task in line is served first.
WakeLast(s) ==
    LET last == CHOOSE k \in Slots : NextIndex(k) = waiting_queue_end[s]
    IN  /\ status' = [status EXCEPT ![waiting_queue[s][last]] = "ready"]
        /\ waiting_queue_begin' = waiting_queue_begin
        /\ waiting_queue_end' = [waiting_queue_end EXCEPT ![s] = last]

\* The task at the head of the line is made ready, whatever its status is.
Wake(s) ==
    /\ status' = [status EXCEPT ![waiting_queue[s][waiting_queue_begin[s]]] = "ready"]
    /\ waiting_queue_begin' = [waiting_queue_begin EXCEPT ![s] = NextIndex(@)]
    /\ UNCHANGED waiting_queue_end

HF_SemWait(s) ==
    /\ InTask
    /\ count[s] > -CountBound
    /\ count' = [count EXCEPT ![s] = @ - 1]
    /\ IF MustWait(s)
       THEN Enqueue(s, HF_current_task)
       ELSE UNCHANGED <<waiting_queue, waiting_queue_end, status, taskVars>>
    /\ UNCHANGED <<tableVars, HF_current_task, HF_schedule, waiting_queue_begin>>

HF_SemPost(s) ==
    /\ InTask
    /\ count[s] < CountBound
    /\ count' = [count EXCEPT ![s] = @ + 1]
    /\ IF MustWake(s)
       THEN Wake(s)
       ELSE UNCHANGED <<status, waiting_queue_begin, waiting_queue_end>>
    /\ UNCHANGED <<tableVars, HF_current_task, HF_schedule, waiting_queue, taskVars>>
-----------------------------------------------------------------------------
Scheduling == \E t \in Slots : HF_DispatcherISR(t) \/ HF_TaskYield(t)

Management(id) == HF_BlockTask(id) \/ HF_ResumeTask(id) \/ HF_KillTask(id)

SemCalls == \E s \in Sems : HF_SemPost(s) \/ \E v \in InitialValues : HF_SemInit(s, v)

Next == \/ Scheduling
        \/ SemCalls
        \/ HF_Start
        \/ \E s \in Sems : HF_SemWait(s)
        \/ \E id \in Slots : Management(id)
        \/ \E kind \in Kinds, memory \in BOOLEAN : HF_AddTask(kind, memory)

Spec == Init /\ [][Next]_vars

(***************************************************************************)
(* The discipline under which the semaphores keep their promise: no task   *)
(* is blocked, resumed or killed while it is queued on a semaphore, and a  *)
(* one-shot task does not wait on one.  The applications obey it: none of  *)
(* them calls the three services, and app/oneshot.c uses no semaphore.     *)
(***************************************************************************)
SemNext == \/ Scheduling
           \/ SemCalls
           \/ HF_Start
           \/ \E s \in Sems : HF_SemWait(s) /\ ~oneshot[HF_current_task]
           \/ \E id \in Slots : Management(id) /\ status[id] # "waiting"
           \/ \E kind \in Kinds, memory \in BOOLEAN : HF_AddTask(kind, memory)

SemSpec == Init /\ [][SemNext]_vars
-----------------------------------------------------------------------------
(* Properties of the task table *)

\* tcb.h: only one task per core can be running.
OnlyCurrentRuns == \A t \in Slots : status[t] = "running" => t = HF_current_task

\* The number of tasks and the last slot searched agree with the table, so no
\* task is out of the schedulers' reach and "no tasks left" cannot be reported.
TableAgrees == /\ HF_tasks = Cardinality({t \in Slots : ptask[t]})
               /\ \A t \in Slots : ptask[t] => t <= HF_max_index
               /\ ptask[Idle]

-----------------------------------------------------------------------------
(* Properties of the semaphores *)

Waiters(s) == IF count[s] < 0 THEN -count[s] ELSE 0

\* The cell of the k-th task in line, the head being number 0.
Cell(s, k) == (waiting_queue_begin[s] + k) % MAX_TASKS
Queued(s, k) == waiting_queue[s][Cell(s, k)]

\* The two indices and the counter, three separate fields, always agree.
QueueSpan == \A s \in Sems : waiting_queue_end[s] = Cell(s, Waiters(s))

WaitsOn(t, s) == status[t] = "waiting" /\ inSem[t] = s

\* A negative counter is the number of queued tasks; they are different, each
\* is stopped on that semaphore, and every task stopped on it is queued: no
\* wake-up is lost, none is given twice, and the buffer, as long as the table,
\* never wraps over a live entry.
InLine(s) ==
    /\ Waiters(s) < MAX_TASKS
    /\ \A k \in 0 .. Waiters(s) - 1 :
          /\ WaitsOn(Queued(s, k), s)
          /\ \A j \in 0 .. Waiters(s) - 1 : Queued(s, j) = Queued(s, k) => j = k
    /\ \A t \in Slots : WaitsOn(t, s) => \E k \in 0 .. Waiters(s) - 1 : Queued(s, k) = t

WaitersQueued == \A s \in Sems : InLine(s)

\* A task is asleep only inside the HF_SemWait that queued it, alive, and with
\* the core at most until the HF_TaskYield of that call: no task runs its own
\* code while it is queued.
AsleepInside == \A t \in Slots : status[t] = "waiting" =>
                    /\ HF_schedule /\ t # Idle
                    /\ ptask[t] /\ ~oneshot[t]
                    /\ inSem[t] \in Sems
                    /\ pc[t] \in {"yield", "slept"}
                    /\ t = HF_current_task => pc[t] = "yield"

Line(s) == [k \in 1 .. Waiters(s) |-> Queued(s, k - 1)]

Abstract(s) == INSTANCE Semaphore WITH
                  Tasks  <- Slots,
                  value  <- IF count[s] > 0 THEN count[s] ELSE 0,
                  line   <- Line(s),
                  asleep <- {t \in Slots : WaitsOn(t, s)},
                  open   <- HF_schedule

\* Every semaphore is a first-come first-served hand-over semaphore: this is
\* Abstract(s)!Spec for every s, in a form TLC can check.
ImplementsSemaphore == /\ \A s \in Sems : Abstract(s)!Init
                       /\ [][\A s \in Sems : Abstract(s)!Step]_vars
=============================================================================
