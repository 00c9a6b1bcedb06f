----------------------------- MODULE Scheduler -----------------------------
(***************************************************************************)
(* The two schedulers of ukernel/ukernel.c: HF_TaskReschedule (rate        *)
(* monotonic, for tasks with a period) and HF_TaskBestEffortReschedule     *)
(* (round robin by niceness, for the others), with the calls that change   *)
(* what they see.  HFKernel leaves their choice open; here it is made.     *)
(*                                                                         *)
(* A slot of the task table is a record.  Before HF_Start an application   *)
(* adds any tasks of Offered; then the timer ticks, and, if the            *)
(* application makes kernel calls, the running task makes them.            *)
(*                                                                         *)
(* Left out: stacks and contexts, memory that malloc cannot give, and      *)
(* one-shot tasks with a period, which no application has.                 *)
(***************************************************************************)
EXTENDS Integers, FiniteSets, FiniteSetsExt, Functions

CONSTANTS MAX_TASKS,            \* slots of the task table
          Offered,              \* <<period, capacity>> of the periodic tasks
          Nicenesses,           \* of the best effort tasks
          IDLE_NICENESS,        \* of the idle task, DEFAULT_NICENESS
          PRIORITY_MAX,         \* largest value of the unsigned field priority
          MissBound             \* larger counts of missed deadlines are not told apart

ASSUME SchedulerAssumption ==
    /\ MAX_TASKS \in Nat \ {0}
    /\ Offered \subseteq Nat \X Nat
    /\ Nicenesses \subseteq Nat \ {0} /\ IDLE_NICENESS \in Nat \ {0}
    /\ MissBound \in Nat \ {0}
    /\ PRIORITY_MAX \in Nat /\ \A o \in Offered : o[1] <= PRIORITY_MAX

VARIABLES task,                 \* slot -> its task control block
          HF_max_index,         \* last slot the schedulers look at
          HF_current_task,      \* slot of the task that runs
          HF_task_entry,        \* slot the kernel looked at last
          be,                   \* the static i of the best effort scheduler
          started,              \* HF_Start was called
          calls,                \* the application calls the kernel
          passed                \* history: <<t, u>> -> turns u had while t was ready for one

vars == <<task, HF_max_index, HF_current_task, HF_task_entry, be, started, calls, passed>>

Slots == 0 .. MAX_TASKS - 1
Idle == 0
NoTask == [ptask |-> FALSE, period |-> 0, capacity |-> 0, capacity_counter |-> 0, priority |-> 0,
           deadline_misses |-> 0, niceness |-> 1, niceness_counter |-> 1, oneshot |-> FALSE,
           status |-> "not_run"]
Best(n, once) == [NoTask EXCEPT !.ptask = TRUE, !.niceness = n, !.niceness_counter = n, !.oneshot = once]
Periodic(p, c) ==
    [NoTask EXCEPT !.ptask = TRUE, !.period = p, !.capacity = c, !.capacity_counter = c, !.priority = p]

Runnable(tcb) == tcb.ptask /\ tcb.status \in {"ready", "not_run"}
RealTime == {t \in Slots : task[t].ptask /\ task[t].period > 0}

Init ==
    /\ task = [t \in Slots |-> IF t = Idle THEN [Best(IDLE_NICENESS, FALSE) EXCEPT !.status = "running"] ELSE NoTask]
    /\ HF_max_index = Idle
    /\ HF_current_task = Idle
    /\ HF_task_entry = Idle
    /\ be = 0
    /\ started = FALSE
    /\ calls \in BOOLEAN
    /\ passed = [p \in Slots \X Slots |-> 0]
-----------------------------------------------------------------------------
(* The rate monotonic scheduler *)

Released(tasks) == {t \in 1 .. HF_max_index : tasks[t].period > 0 /\ Runnable(tasks[t])}

Due(tasks) == {t \in Released(tasks) : tasks[t].capacity_counter > 0}

\* The shortest period, and of those the first in the table; the idle task if none is due.
RateMonotonic(tasks) ==
    IF Due(tasks) = {} THEN Idle
    ELSE CHOOSE t \in Due(tasks) : \A u \in Due(tasks) :
            \/ tasks[t].period < tasks[u].period
            \/ tasks[t].period = tasks[u].period /\ t <= u

Least(a, b) == IF a <= b THEN a ELSE b

Restored(tcb) == [tcb EXCEPT !.priority = tcb.period,
                             !.deadline_misses = IF tcb.capacity_counter > 0 THEN Least(@ + 1, MissBound) ELSE @,
                             !.capacity_counter = tcb.capacity]

\* Mutant: a priority of one is counted as gone.
AgedEarly(tcb) == IF tcb.priority <= 2 THEN Restored(tcb) ELSE [tcb EXCEPT !.priority = @ - 1]

\* One tick less to go; at the end of the period the capacity is restored.
Aged(tcb) == IF tcb.priority = 1 THEN Restored(tcb)
             ELSE [tcb EXCEPT !.priority = IF @ = 0 THEN PRIORITY_MAX ELSE @ - 1]

\* The choice is made in the pass that ages the tasks, with the capacities before it.
HF_TaskReschedule(tasks) ==
    LET aged == [t \in Slots |-> IF t \in Released(tasks) THEN Aged(tasks[t]) ELSE tasks[t]]
        t == RateMonotonic(tasks)
    IN IF t = Idle THEN aged ELSE [aged EXCEPT ![t].capacity_counter = @ - 1]
-----------------------------------------------------------------------------
(* The best effort scheduler.  Its loop over the tasks with capacity 1 and   *)
(* no period finds nothing: no call makes such a task.                       *)

Ready(tasks, last) == {t \in 0 .. last : tasks[t].period = 0 /\ Runnable(tasks[t])}

\* i runs from 0 to HF_max_index + 1 and from there to 0 again.
Round(last) == last + 2
Distance(t, last) == IF be > last THEN t + 1 ELSE ((t - be - 1) % Round(last)) + 1

\* Steps of i until the niceness counter of t is zero.
StepsTo(tasks, t, last) == Distance(t, last) + (tasks[t].niceness_counter - 1) * Round(last)

BestEffort(tasks, last) ==
    CHOOSE t \in Ready(tasks, last) : \A u \in Ready(tasks, last) :
        StepsTo(tasks, t, last) <= StepsTo(tasks, u, last)

\* How often i passes t in that many steps.
Visits(t, steps, last) ==
    IF Distance(t, last) > steps THEN 0 ELSE ((steps - Distance(t, last)) \div Round(last)) + 1

\* Mutant: only the counter of the chosen task is touched.
CountedAlone(tasks, w, last) ==
    [tasks EXCEPT ![w].niceness_counter = tasks[w].niceness]

Counted(tasks, w, last) ==
    [t \in Slots |->
        CASE t = w -> [tasks[t] EXCEPT !.niceness_counter = tasks[t].niceness]
          [] t # w /\ t \in Ready(tasks, last) ->
                [tasks[t] EXCEPT !.niceness_counter = @ - Visits(t, StepsTo(tasks, w, last), last)]
          [] OTHER -> tasks[t]]
-----------------------------------------------------------------------------
(* Context switches *)

\* The running task is ready again, unless it was stopped.
Demoted == [task EXCEPT ![HF_current_task].status = IF @ = "running" THEN "ready" ELSE @]

\* History: what a turn of u means for those that were ready for one.
Turn(tasks, u, last) ==
    passed' = [p \in Slots \X Slots |->
        IF p[1] = u \/ p[1] \notin Ready(tasks, last) THEN 0
        ELSE IF p[2] = u THEN passed[p] + 1 ELSE passed[p]]

\* Mutant: HF_task_entry is left where the schedulers put it.
RunsLeaving(tasks, t) ==
    /\ HF_current_task' = t
    /\ HF_task_entry' = HF_max_index
    /\ task' = [tasks EXCEPT ![t].status = "running"]

Runs(tasks, t) ==
    /\ HF_current_task' = t
    /\ HF_task_entry' = t
    /\ task' = [tasks EXCEPT ![t].status = "running"]

RunsBestEffort(tasks, last) ==
    LET t == BestEffort(tasks, last)
    IN /\ Runs(Counted(tasks, t, last), t)
       /\ be' = t
       /\ Turn(tasks, t, last)

LastTask(tasks) == Max({t \in Slots : tasks[t].ptask})

\* The table after HF_KillTask, and the last slot in use.
Without(tasks, id) == [tasks EXCEPT ![id].ptask = FALSE, ![id].status = "not_run"]
LastAfter(tasks, id) == IF id = HF_max_index THEN LastTask(Without(tasks, id)) ELSE HF_max_index

\* A one-shot task that has used its capacity, which a best effort task does not
\* have, is killed by the tick: HF_KillTask calls HF_TaskYield, and the dispatcher gets no further.
Expired == task[HF_current_task].oneshot /\ task[HF_current_task].capacity_counter = 0

HF_DispatcherISR ==
    /\ started
    /\ \/ /\ Expired
          /\ HF_max_index' = LastAfter(task, HF_current_task)
          /\ RunsBestEffort(Without(task, HF_current_task), HF_max_index')
       \/ /\ ~Expired
          /\ UNCHANGED HF_max_index
          /\ LET t == RateMonotonic(Demoted)
             IN \/ t # Idle /\ Runs(HF_TaskReschedule(Demoted), t) /\ UNCHANGED <<be, passed>>
                \/ t = Idle /\ RunsBestEffort(HF_TaskReschedule(Demoted), HF_max_index)
    /\ UNCHANGED <<started, calls>>

\* A task of the application is at a kernel call.
Calling == started /\ calls /\ HF_current_task # Idle

\* It does not ask the rate monotonic scheduler.
HF_TaskYield ==
    /\ Calling
    /\ RunsBestEffort(Demoted, HF_max_index)
    /\ UNCHANGED <<HF_max_index, started, calls>>
-----------------------------------------------------------------------------
(* Kernel calls *)

FreeSlots == {t \in Slots : ~task[t].ptask}

\* HF_AddTask and HF_AddPeriodicTask: the first free slot.
Add(tcb) ==
    LET i == Min(FreeSlots)
    IN /\ FreeSlots # {}
       /\ task' = [task EXCEPT ![i] = tcb]
       /\ HF_task_entry' = i
       /\ HF_max_index' = IF i > HF_max_index THEN i ELSE HF_max_index
       /\ passed' = [p \in Slots \X Slots |-> IF p[1] = i \/ p[2] = i THEN 0 ELSE passed[p]]
       /\ UNCHANGED <<HF_current_task, be, started, calls>>

HF_AddTask(n, once) == ~started /\ Add(Best(n, once))

Possible(p, c) == p >= c /\ c > 0

\* Bound: an application that makes calls has at most one periodic task.
HF_AddPeriodicTask(p, c) ==
    /\ ~started
    /\ Possible(p, c)
    /\ calls => RealTime = {} /\ p = 3
    /\ Add(Periodic(p, c))

HF_Start == ~started /\ started' = TRUE
            /\ UNCHANGED <<task, HF_max_index, HF_current_task, HF_task_entry, be, calls, passed>>

\* The child: a task like the caller, with the timing of the entry the kernel
\* looked at last.
Child(parent, entry) ==
    LET tcb == IF parent.period = 0 THEN Best(parent.niceness, parent.oneshot)
               ELSE Periodic(parent.period, parent.capacity)
    IN [tcb EXCEPT !.period = entry.period, !.capacity = entry.capacity, !.capacity_counter = 0,
                   !.status = "ready"]

HF_Fork ==
    LET id == HF_current_task
        i == Min(FreeSlots)
    IN /\ started /\ id # Idle
       /\ FreeSlots # {}
       /\ task' = [task EXCEPT ![i] = Child(task[id], task[HF_task_entry])]
       /\ HF_task_entry' = id
       /\ HF_max_index' = IF i > HF_max_index THEN i ELSE HF_max_index
       /\ passed' = [p \in Slots \X Slots |-> IF p[1] = i \/ p[2] = i THEN 0 ELSE passed[p]]
       /\ UNCHANGED <<HF_current_task, be, started, calls>>

\* A call that fails has moved HF_task_entry too.
SetStatus(id, status) ==
    /\ Calling
    /\ id # Idle
    /\ HF_task_entry' = id
    /\ task' = IF task[id].ptask /\ task[id].status # "not_run"
               THEN [task EXCEPT ![id].status = status] ELSE task
    /\ UNCHANGED <<HF_max_index, HF_current_task, be, started, calls, passed>>

HF_BlockTask(id) == SetStatus(id, "blocked")
HF_ResumeTask(id) == SetStatus(id, "ready")

Next == \/ HF_Start
        \/ HF_DispatcherISR \/ HF_TaskYield \/ HF_Fork
        \/ \E id \in Slots : HF_BlockTask(id) \/ HF_ResumeTask(id)
        \/ \E n \in Nicenesses, once \in BOOLEAN : HF_AddTask(n, once)
        \/ \E o \in Offered : HF_AddPeriodicTask(o[1], o[2])

Spec == Init /\ [][Next]_vars
-----------------------------------------------------------------------------
(* Properties *)

Ceiling(a, b) == (a + b - 1) \div b

\* Task u goes before task t in HF_TaskReschedule.
Before(u, t) == \/ task[u].period < task[t].period
                \/ task[u].period = task[t].period /\ u < t

\* What t and the tasks before it can ask for in r ticks.
Demand(t, r) ==
    task[t].capacity
    + MapThenSumSet(LAMBDA u : Ceiling(r, task[u].period) * task[u].capacity, {u \in RealTime : Before(u, t)})

\* Response time analysis.  One tick of each period is lost: the dispatcher
\* checks for a missed deadline before the last tick has run.
Schedulable == \A t \in RealTime : \E r \in 1 .. task[t].period - 1 : Demand(t, r) <= r

\* If the analysis says so no periodic task misses a deadline, whatever best
\* effort and one-shot tasks there are and whenever a task forks
\* (HF_TaskReschedule, which decrements, counts and reloads in one pass).
DeadlinesMet == (\E t \in RealTime : task[t].deadline_misses > 0) => calls \/ ~Schedulable

\* While a task is ready for a turn another has as many as the ratio of their
\* nicenesses allows, although tasks come, stop and go in between
\* (HF_TaskBestEffortReschedule).
BoundedBypass ==
    \A p \in Slots \X Slots : passed[p] <= Ceiling(task[p[1]].niceness, task[p[2]].niceness)

\* A forked task has the timing of the task that forked, if the application makes
\* no other call: HF_Fork reads it through HF_task_entry, which HF_BlockTask and
\* HF_ResumeTask leave at another task.
ForkInherits ==
    [][~calls /\ started => \A i \in Slots : ~task[i].ptask /\ task'[i].ptask =>
          /\ task'[i].period = task[HF_current_task].period
          /\ task'[i].capacity = task[HF_current_task].capacity]_vars
=============================================================================
