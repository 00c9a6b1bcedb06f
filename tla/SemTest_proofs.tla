--------------------------- MODULE SemTest_proofs ---------------------------
(***************************************************************************)
(* The kernel of HFKernel for any number of task slots and semaphores, and *)
(* the ring of app/sem_test.c on it for any size of the ring and any       *)
(* number of producers and consumers.                                      *)
(*                                                                         *)
(* The kernel first: its types, the span of the semaphores' buffers and    *)
(* the life of the task dispatched, whoever calls; and, under the          *)
(* discipline of SemSpec, that a task is stopped on a semaphore exactly    *)
(* when it stands in that semaphore's line, once, and that counter,        *)
(* circular buffer and status fields implement module Semaphore: a first-  *)
(* come first-served line whose head is handed the unit of a post.         *)
(*                                                                         *)
(* A step of the application is a step the kernel's discipline allows, so  *)
(* everything proved of SemSpec holds.  What is added then is where a task *)
(* can be asleep, who owns m, how the units of empty and full and the      *)
(* tasks that hold one add up to N, and which cells of the ring hold items *)
(* while a task is between writing a cell and moving its index.            *)
(***************************************************************************)
EXTENDS SemTest, ModLemmas, FiniteSetTheorems, SequenceTheorems

USE KernelAssumption, SemTestAssumption DEF Slots, Idle, Status, Places

-----------------------------------------------------------------------------
(* Type correctness *)

\* A context switch keeps every field it writes inside its type.
LEMMA RestoreTypes ==
    ASSUME TypeOK, NEW t \in Slots, NEW st \in [Slots -> Status],
           NEW places \in [Slots -> Places], RestoreExecution(t, st, places)
    PROVE  /\ HF_current_task' \in Slots
           /\ status' \in [Slots -> Status]
           /\ pc' \in [Slots -> Places]
           /\ inSem' \in [Slots -> Sems \cup {NoSem}]
BY DEF RestoreExecution, TypeOK

\* Removing a task leaves a well-formed table.
LEMMA FreeSlotTypes ==
    ASSUME TypeOK, NEW id \in Slots, FreeSlot(id)
    PROVE  /\ ptask' \in [Slots -> BOOLEAN]
           /\ oneshot' \in [Slots -> BOOLEAN]
           /\ HF_tasks' \in Int
           /\ HF_max_index' \in Slots
BY DEF FreeSlot, TypeOK

\* The indices stay inside the buffer.
LEMMA NextIndexType == \A k \in Slots : NextIndex(k) \in Slots
BY ModRange DEF NextIndex

LEMMA InitType == Init => TypeOK
<1> SUFFICES ASSUME Init PROVE TypeOK
  OBVIOUS
<1>1. 0 \in Slots /\ 0 \in -CountBound .. CountBound
  OBVIOUS
<1>2. ptask \in [Slots -> BOOLEAN] /\ oneshot \in [Slots -> BOOLEAN]
  BY Zenon DEF Init
<1>3. HF_current_task \in Slots /\ HF_max_index \in Slots /\ HF_tasks \in Int
  BY <1>1, SMT DEF Init
<1>6. HF_schedule \in BOOLEAN
  BY Zenon DEF Init
<1>4. /\ status \in [Slots -> Status]
      /\ pc \in [Slots -> Places]
      /\ inSem \in [Slots -> Sems \cup {NoSem}]
  BY DEF Init
<1>5. /\ count \in [Sems -> -CountBound .. CountBound]
      /\ waiting_queue \in [Sems -> [Slots -> Slots]]
      /\ waiting_queue_begin \in [Sems -> Slots]
      /\ waiting_queue_end \in [Sems -> Slots]
  BY <1>1, Zenon DEF Init
<1> QED BY <1>2, <1>3, <1>4, <1>5, <1>6, Zenon DEF TypeOK

LEMMA NextType == TypeOK /\ [Next]_vars => TypeOK'
<1> SUFFICES ASSUME TypeOK, [Next]_vars PROVE TypeOK'
  OBVIOUS
<1>1. ASSUME NEW t \in Slots, HF_DispatcherISR(t) PROVE TypeOK'
  <2> DEFINE cur == HF_current_task
             dies == oneshot[cur] /\ ptask[cur] /\ cur # Idle
             st == IF dies THEN [status EXCEPT ![cur] = "not_run"] ELSE Demoted
  <2>1. st \in [Slots -> Status]
    BY DEF TypeOK, Demoted
  <2>2. RestoreExecution(t, st, pc) /\ UNCHANGED <<HF_schedule, semVars>>
    BY <1>1 DEF HF_DispatcherISR
  <2>3. FreeSlot(cur) \/ UNCHANGED tableVars
    BY <1>1 DEF HF_DispatcherISR
  <2> HIDE DEF st
  <2>4. /\ ptask' \in [Slots -> BOOLEAN]
        /\ oneshot' \in [Slots -> BOOLEAN]
        /\ HF_tasks' \in Int
        /\ HF_max_index' \in Slots
    BY <2>3, FreeSlotTypes DEF TypeOK, tableVars
  <2>5. /\ HF_current_task' \in Slots
        /\ status' \in [Slots -> Status]
        /\ pc' \in [Slots -> Places]
        /\ inSem' \in [Slots -> Sems \cup {NoSem}]
    BY <2>1, <2>2, RestoreTypes DEF TypeOK
  <2> QED BY <2>2, <2>4, <2>5 DEF TypeOK, semVars
<1>2. ASSUME NEW t \in Slots, HF_TaskYield(t) PROVE TypeOK'
  <2> DEFINE places == [pc EXCEPT ![HF_current_task] = IF @ = "yield" THEN "slept" ELSE @]
  <2>1. places \in [Slots -> Places] /\ Demoted \in [Slots -> Status]
    BY DEF TypeOK, Demoted
  <2>2. RestoreExecution(t, Demoted, places)
    BY <1>2 DEF HF_TaskYield
  <2> HIDE DEF places
  <2>3. /\ HF_current_task' \in Slots
        /\ status' \in [Slots -> Status]
        /\ pc' \in [Slots -> Places]
        /\ inSem' \in [Slots -> Sems \cup {NoSem}]
    BY <2>1, <2>2, RestoreTypes
  <2> QED BY <1>2, <2>3 DEF HF_TaskYield, TypeOK, semVars, tableVars
<1>3. ASSUME NEW s \in Sems, HF_SemPost(s) PROVE TypeOK'
  <2>0. count' \in [Sems -> -CountBound .. CountBound]
    <3>1. count[s] \in -CountBound .. CountBound /\ count[s] < CountBound
      BY <1>3 DEF HF_SemPost, TypeOK
    <3>2. count[s] + 1 \in -CountBound .. CountBound
      BY <3>1
    <3>3. count' = [count EXCEPT ![s] = count[s] + 1]
      BY <1>3 DEF HF_SemPost
    <3> QED BY <3>2, <3>3, Zenon DEF TypeOK
  <2>1. CASE MustWake(s)
    <3>1. Wake(s)
      BY <1>3, <2>1 DEF HF_SemPost
    <3>2. /\ status' \in [Slots -> Status]
          /\ waiting_queue_begin' \in [Sems -> Slots]
          /\ waiting_queue_end' \in [Sems -> Slots]
      BY <3>1, NextIndexType DEF Wake, TypeOK
    <3> QED BY <1>3, <2>0, <3>2 DEF HF_SemPost, TypeOK, taskVars, tableVars
  <2>2. CASE ~MustWake(s)
    BY <1>3, <2>0, <2>2 DEF HF_SemPost, TypeOK, taskVars, tableVars
  <2> QED BY <2>1, <2>2
<1>4. ASSUME NEW s \in Sems, NEW v \in InitialValues, HF_SemInit(s, v) PROVE TypeOK'
  <2>1. v \in -CountBound .. CountBound /\ 0 \in Slots
    OBVIOUS
  <2>2. count' \in [Sems -> -CountBound .. CountBound]
    BY <1>4, <2>1 DEF HF_SemInit, TypeOK
  <2>3. waiting_queue_begin' \in [Sems -> Slots] /\ waiting_queue_end' \in [Sems -> Slots]
    BY <1>4, <2>1 DEF HF_SemInit, TypeOK
  <2> QED BY <1>4, <2>2, <2>3 DEF HF_SemInit, TypeOK, taskVars, tableVars
<1>5. CASE HF_Start
  BY <1>5 DEF HF_Start, TypeOK, taskVars, tableVars, semVars
<1>6. ASSUME NEW s \in Sems, HF_SemWait(s) PROVE TypeOK'
  <2>0. count' \in [Sems -> -CountBound .. CountBound]
    <3>1. count[s] \in -CountBound .. CountBound /\ count[s] > -CountBound
      BY <1>6 DEF HF_SemWait, TypeOK
    <3>2. count[s] - 1 \in -CountBound .. CountBound
      BY <3>1
    <3>3. count' = [count EXCEPT ![s] = count[s] - 1]
      BY <1>6 DEF HF_SemWait
    <3> QED BY <3>2, <3>3, Zenon DEF TypeOK
  <2>1. CASE MustWait(s)
    <3>1. Enqueue(s, HF_current_task)
      BY <1>6, <2>1 DEF HF_SemWait
    <3>2. /\ waiting_queue' \in [Sems -> [Slots -> Slots]]
          /\ waiting_queue_end' \in [Sems -> Slots]
      BY <3>1, NextIndexType DEF Enqueue, TypeOK
    <3>3. /\ status' \in [Slots -> Status]
          /\ pc' \in [Slots -> Places]
          /\ inSem' \in [Slots -> Sems \cup {NoSem}]
      BY <3>1 DEF Enqueue, TypeOK
    <3>5. UNCHANGED <<tableVars, HF_current_task, HF_schedule, waiting_queue_begin>>
      BY <1>6 DEF HF_SemWait
    <3> QED BY <2>0, <3>2, <3>3, <3>5 DEF TypeOK, tableVars
  <2>2. CASE ~MustWait(s)
    BY <1>6, <2>0, <2>2 DEF HF_SemWait, TypeOK, taskVars, tableVars
  <2> QED BY <2>1, <2>2
<1>7. ASSUME NEW id \in Slots, HF_BlockTask(id) PROVE TypeOK'
  BY <1>7 DEF HF_BlockTask, TypeOK, taskVars, tableVars, semVars
<1>8. ASSUME NEW id \in Slots, HF_ResumeTask(id) PROVE TypeOK'
  BY <1>8 DEF HF_ResumeTask, TypeOK, taskVars, tableVars, semVars
<1>9. ASSUME NEW id \in Slots, HF_KillTask(id) PROVE TypeOK'
  BY <1>9, FreeSlotTypes DEF HF_KillTask, TypeOK, taskVars, semVars
<1>10. ASSUME NEW kind \in Kinds, NEW memory \in BOOLEAN, HF_AddTask(kind, memory)
       PROVE  TypeOK'
  <2>1. PICK i \in Slots :
            /\ ptask' = [ptask EXCEPT ![i] = memory]
            /\ oneshot' = [oneshot EXCEPT ![i] = kind]
            /\ status' = [status EXCEPT ![i] = "not_run"]
            /\ HF_max_index' = IF i > HF_max_index THEN i ELSE HF_max_index
            /\ pc' = [pc EXCEPT ![i] = "run"]
            /\ inSem' = [inSem EXCEPT ![i] = NoSem]
    BY <1>10 DEF HF_AddTask
  <2>2. /\ ptask' \in [Slots -> BOOLEAN]
        /\ oneshot' \in [Slots -> BOOLEAN]
        /\ kind \in BOOLEAN
    BY <2>1, Zenon DEF TypeOK
  <2>3. /\ status' \in [Slots -> Status]
        /\ HF_max_index' \in Slots
        /\ pc' \in [Slots -> Places]
        /\ inSem' \in [Slots -> Sems \cup {NoSem}]
    BY <2>1 DEF TypeOK
  <2>4. HF_tasks' \in Int
    BY <1>10 DEF HF_AddTask, TypeOK
  <2>5. UNCHANGED <<HF_current_task, HF_schedule, semVars>>
    BY <1>10 DEF HF_AddTask
  <2> QED BY <2>2, <2>3, <2>4, <2>5 DEF TypeOK, semVars
<1>11. CASE UNCHANGED vars
  BY <1>11 DEF vars, TypeOK, taskVars, tableVars, semVars
<1> QED
  BY <1>1, <1>2, <1>3, <1>4, <1>5, <1>6, <1>7, <1>8, <1>9, <1>10, <1>11
  DEF Next, Scheduling, SemCalls, Management

\* Whatever the tasks call, every field of the kernel keeps its type; in
\* particular the queue indices stay inside the buffer.
THEOREM TypeCorrect == Spec => []TypeOK
BY InitType, NextType, PTL DEF Spec
-----------------------------------------------------------------------------
(* One running task *)

\* After a context switch the chosen task is the only one marked running,
\* provided the preempted one was unmarked.
LEMMA RestoreRuns ==
    ASSUME NEW t \in Slots, NEW st \in [Slots -> Status], NEW places,
           \A u \in Slots : st[u] # "running",
           RestoreExecution(t, st, places)
    PROVE  OnlyCurrentRuns'
BY DEF RestoreExecution, OnlyCurrentRuns

LEMMA NextRuns == TypeOK /\ OnlyCurrentRuns /\ [Next]_vars => OnlyCurrentRuns'
<1> SUFFICES ASSUME TypeOK, OnlyCurrentRuns, [Next]_vars PROVE OnlyCurrentRuns'
  OBVIOUS
<1>0. /\ Demoted \in [Slots -> Status]
      /\ \A u \in Slots : Demoted[u] # "running"
  BY DEF Demoted, OnlyCurrentRuns, TypeOK
<1>1. ASSUME NEW t \in Slots, HF_DispatcherISR(t) PROVE OnlyCurrentRuns'
  <2> DEFINE cur == HF_current_task
             killed == [status EXCEPT ![cur] = "not_run"]
             dies == oneshot[cur] /\ ptask[cur] /\ cur # Idle
  <2>1. killed \in [Slots -> Status] /\ \A u \in Slots : killed[u] # "running"
    BY DEF OnlyCurrentRuns, TypeOK
  <2>2. RestoreExecution(t, IF dies THEN killed ELSE Demoted, pc)
    BY <1>1 DEF HF_DispatcherISR
  <2>3. CASE dies
    <3>1. RestoreExecution(t, killed, pc)
      BY <2>2, <2>3
    <3> HIDE DEF killed
    <3> QED BY <3>1, <2>1, RestoreRuns
  <2>4. CASE ~dies
    <3>1. RestoreExecution(t, Demoted, pc)
      BY <2>2, <2>4
    <3> QED BY <3>1, <1>0, RestoreRuns
  <2> QED BY <2>3, <2>4
<1>2. ASSUME NEW t \in Slots, HF_TaskYield(t) PROVE OnlyCurrentRuns'
  BY <1>0, <1>2, RestoreRuns DEF HF_TaskYield
<1>3. ASSUME NEW s \in Sems, HF_SemPost(s) PROVE OnlyCurrentRuns'
  BY <1>3 DEF HF_SemPost, Wake, TypeOK, OnlyCurrentRuns
<1>4. ASSUME NEW s \in Sems, NEW v \in InitialValues, HF_SemInit(s, v) PROVE OnlyCurrentRuns'
  BY <1>4 DEF HF_SemInit, OnlyCurrentRuns
<1>5. CASE HF_Start
  BY <1>5 DEF HF_Start, OnlyCurrentRuns
<1>6. ASSUME NEW s \in Sems, HF_SemWait(s) PROVE OnlyCurrentRuns'
  BY <1>6 DEF HF_SemWait, Enqueue, TypeOK, OnlyCurrentRuns
<1>7. ASSUME NEW id \in Slots, HF_BlockTask(id) PROVE OnlyCurrentRuns'
  BY <1>7 DEF HF_BlockTask, TypeOK, OnlyCurrentRuns
<1>8. ASSUME NEW id \in Slots, HF_ResumeTask(id) PROVE OnlyCurrentRuns'
  BY <1>8 DEF HF_ResumeTask, TypeOK, OnlyCurrentRuns
<1>9. ASSUME NEW id \in Slots, HF_KillTask(id) PROVE OnlyCurrentRuns'
  BY <1>9 DEF HF_KillTask, TypeOK, OnlyCurrentRuns
<1>10. ASSUME NEW kind \in Kinds, NEW memory \in BOOLEAN, HF_AddTask(kind, memory)
       PROVE  OnlyCurrentRuns'
  BY <1>10 DEF HF_AddTask, TypeOK, OnlyCurrentRuns
<1>11. CASE UNCHANGED vars
  BY <1>11 DEF vars, OnlyCurrentRuns
<1> QED
  BY <1>1, <1>2, <1>3, <1>4, <1>5, <1>6, <1>7, <1>8, <1>9, <1>10, <1>11
  DEF Next, Scheduling, SemCalls, Management

\* "Only one task/core can be in this state": no task but the current one is
\* ever marked running, whatever is blocked, resumed or killed.
THEOREM OneRunningTask == Spec => []OnlyCurrentRuns
<1>1. Init => OnlyCurrentRuns
  BY DEF Init, OnlyCurrentRuns
<1> QED BY <1>1, TypeCorrect, NextRuns, PTL DEF Spec
-----------------------------------------------------------------------------
(* The queue indices and the counter *)

LEMMA WaitersType == TypeOK => \A s \in Sems : Waiters(s) \in Nat
<1> SUFFICES ASSUME TypeOK, NEW s \in Sems PROVE Waiters(s) \in Nat
  OBVIOUS
<1>1. count[s] \in -CountBound .. CountBound
  BY DEF TypeOK
<1> QED BY <1>1 DEF Waiters

LEMMA NextSpan == TypeOK /\ QueueSpan /\ [Next]_vars => QueueSpan'
<1> SUFFICES ASSUME TypeOK, QueueSpan, [Next]_vars PROVE QueueSpan'
  OBVIOUS
<1> DEFINE Same(s) == /\ count'[s] = count[s]
                      /\ waiting_queue_begin'[s] = waiting_queue_begin[s]
                      /\ waiting_queue_end'[s] = waiting_queue_end[s]
<1>0. \A s \in Sems : Same(s) => waiting_queue_end'[s] = Cell(s, Waiters(s))'
  BY DEF QueueSpan, Cell, Waiters
<1> DEFINE Size == MAX_TASKS
<1>1. ASSUME NEW s \in Sems, HF_SemWait(s) PROVE QueueSpan'
  <2> DEFINE b == waiting_queue_begin[s]
             w == Waiters(s)
  <2>0. /\ count[s] \in Int
        /\ count[s] \in -CountBound .. CountBound
        /\ count'[s] = count[s] - 1
        /\ b \in 0 .. Size - 1
        /\ waiting_queue_begin'[s] = b
        /\ waiting_queue_end[s] = (b + w) % Size
    BY <1>1 DEF HF_SemWait, TypeOK, QueueSpan, Cell
  <2>1. w \in Nat
    BY WaitersType
  <2>2. \A r \in Sems \ {s} : Same(r)
    BY <1>1 DEF HF_SemWait, Enqueue, TypeOK
  <2>3. CASE MustWait(s)
    <3>1. waiting_queue_end'[s] = (((b + w) % Size) + 1) % Size
      BY <1>1, <2>0, <2>3 DEF HF_SemWait, Enqueue, NextIndex, TypeOK
    <3>2. Waiters(s)' = w + 1
      BY <2>0, <2>3 DEF Waiters, MustWait
    <3>3. Cell(s, Waiters(s))' = (b + (w + 1)) % Size
      BY <3>2, <2>0 DEF Cell
    <3>4. (((b + w) % Size) + 1) % Size = (b + w + 1) % Size
      <4> HIDE DEF b, w
      <4> QED BY <2>0, <2>1, ModSuccessor
    <3>5. b + (w + 1) = b + w + 1
      BY <2>0, <2>1
    <3>6. waiting_queue_end'[s] = Cell(s, Waiters(s))'
      BY <3>1, <3>3, <3>4, <3>5
    <3> QED BY <1>0, <2>2, <3>6 DEF QueueSpan
  <2>4. CASE ~MustWait(s)
    <3>1. /\ Waiters(s)' = w
          /\ waiting_queue_end'[s] = waiting_queue_end[s]
      BY <1>1, <2>0, <2>4 DEF Waiters, MustWait, HF_SemWait
    <3>2. waiting_queue_end'[s] = Cell(s, Waiters(s))'
      BY <3>1, <2>0 DEF Cell
    <3> QED BY <1>0, <2>2, <3>2 DEF QueueSpan
  <2> QED BY <2>3, <2>4
<1>2. ASSUME NEW s \in Sems, HF_SemPost(s) PROVE QueueSpan'
  <2> DEFINE b == waiting_queue_begin[s]
             w == Waiters(s)
  <2>0. /\ count[s] \in Int
        /\ count[s] \in -CountBound .. CountBound
        /\ count'[s] = count[s] + 1
        /\ b \in 0 .. Size - 1
        /\ waiting_queue_end'[s] = waiting_queue_end[s]
        /\ waiting_queue_end[s] = (b + w) % Size
    BY <1>2 DEF HF_SemPost, Wake, TypeOK, QueueSpan, Cell
  <2>2. \A r \in Sems \ {s} : Same(r)
    BY <1>2 DEF HF_SemPost, Wake, TypeOK
  <2>3. CASE MustWake(s)
    <3>1. waiting_queue_begin'[s] = (b + 1) % Size
      BY <1>2, <2>0, <2>3 DEF HF_SemPost, Wake, NextIndex, TypeOK
    <3>2. w \in Nat \ {0} /\ Waiters(s)' = w - 1
      BY <2>0, <2>3 DEF Waiters, MustWake
    <3>3. Cell(s, Waiters(s))' = (((b + 1) % Size) + (w - 1)) % Size
      BY <3>1, <3>2 DEF Cell
    <3>4. (((b + 1) % Size) + (w - 1)) % Size = (b + w) % Size
      <4> HIDE DEF b, w
      <4> QED BY <2>0, <3>2, ModShift
    <3>5. waiting_queue_end'[s] = Cell(s, Waiters(s))'
      BY <2>0, <3>3, <3>4
    <3> QED BY <1>0, <2>2, <3>5 DEF QueueSpan
  <2>4. CASE ~MustWake(s)
    <3>1. /\ Waiters(s)' = w
          /\ waiting_queue_begin'[s] = b
      BY <1>2, <2>0, <2>4 DEF Waiters, MustWake, HF_SemPost
    <3>2. waiting_queue_end'[s] = Cell(s, Waiters(s))'
      BY <3>1, <2>0 DEF Cell
    <3> QED BY <1>0, <2>2, <3>2 DEF QueueSpan
  <2> QED BY <2>3, <2>4
<1>3. ASSUME NEW s \in Sems, NEW v \in InitialValues, HF_SemInit(s, v) PROVE QueueSpan'
  <2>1. \A r \in Sems \ {s} : Same(r)
    BY <1>3 DEF HF_SemInit, TypeOK
  <2>2. /\ count'[s] = v
        /\ v \in Nat
        /\ waiting_queue_begin'[s] = 0
        /\ waiting_queue_end'[s] = 0
    BY <1>3 DEF HF_SemInit, TypeOK
  <2>3. Waiters(s)' = 0
    BY <2>2 DEF Waiters
  <2>4. waiting_queue_end'[s] = Cell(s, Waiters(s))'
    BY <2>2, <2>3 DEF Cell
  <2> QED BY <1>0, <2>1, <2>4 DEF QueueSpan
<1>4. CASE UNCHANGED semVars
  BY <1>0, <1>4 DEF QueueSpan, semVars
<1>5. ASSUME NEW t \in Slots, HF_DispatcherISR(t) \/ HF_TaskYield(t) PROVE QueueSpan'
  BY <1>4, <1>5 DEF HF_DispatcherISR, HF_TaskYield
<1>6. ASSUME NEW id \in Slots, Management(id) PROVE QueueSpan'
  BY <1>4, <1>6 DEF Management, HF_BlockTask, HF_ResumeTask, HF_KillTask
<1>7. ASSUME NEW kind \in Kinds, NEW memory \in BOOLEAN, HF_AddTask(kind, memory)
      PROVE  QueueSpan'
  BY <1>4, <1>7 DEF HF_AddTask
<1>8. CASE HF_Start
  BY <1>4, <1>8 DEF HF_Start
<1>9. CASE UNCHANGED vars
  BY <1>4, <1>9 DEF vars
<1> QED
  BY <1>1, <1>2, <1>3, <1>5, <1>6, <1>7, <1>8, <1>9
  DEF Next, Scheduling, SemCalls

\* The two indices and the counter of a semaphore are never torn apart: the end
\* of the line is as many cells after its head as the counter is below zero.
THEOREM QueueSpanned == Spec => []QueueSpan
<1>1. Init => QueueSpan
  BY DEF Init, QueueSpan, Cell, Waiters
<1> QED BY <1>1, TypeCorrect, NextSpan, PTL DEF Spec
-----------------------------------------------------------------------------
(* The task table *)

Used == {t \in Slots : ptask[t]}

LEMMA UsedFinite == IsFiniteSet(Used)
<1>1. IsFiniteSet(Slots)
  BY FS_Interval
<1>2. Used \in SUBSET Slots
  BY DEF Used
<1> QED BY <1>1, <1>2, FS_Subset

\* Killing a live task other than the idle one keeps the table in order.
LEMMA FreeSlotAgrees ==
    ASSUME TypeOK, TableAgrees, NEW id \in Slots, id # Idle, ptask[id], FreeSlot(id)
    PROVE  TableAgrees'
<1>1. /\ ptask' = [ptask EXCEPT ![id] = FALSE]
      /\ HF_tasks' = HF_tasks - 1
      /\ ptask \in [Slots -> BOOLEAN]
  BY DEF FreeSlot, TypeOK
<1>2. HF_tasks' = Cardinality({t \in Slots : ptask[t]})'
  <2>1. Used' = Used \ {id} /\ id \in Used
    BY <1>1 DEF Used
  <2>2. Cardinality(Used') = Cardinality(Used) - 1
    BY <2>1, UsedFinite, FS_RemoveElement
  <2> QED BY <1>1, <2>2 DEF TableAgrees, Used
<1>3. \A t \in Slots : ptask'[t] => t <= HF_max_index'
  <2>1. CASE id = HF_max_index
    <3>1. PICK top \in Slots : /\ \A i \in Slots : i > top => ~ptask'[i]
                               /\ HF_max_index' = top
      BY <2>1 DEF FreeSlot
    <3> QED BY <3>1
  <2>2. CASE id # HF_max_index
    BY <1>1, <2>2 DEF FreeSlot, TableAgrees
  <2> QED BY <2>1, <2>2
<1>4. ptask'[Idle]
  BY <1>1 DEF TableAgrees
<1> QED BY <1>2, <1>3, <1>4 DEF TableAgrees

LEMMA NextAgrees == TypeOK /\ TableAgrees /\ [Next]_vars => TableAgrees'
<1> SUFFICES ASSUME TypeOK, TableAgrees, [Next]_vars PROVE TableAgrees'
  OBVIOUS
<1>1. CASE UNCHANGED tableVars
  BY <1>1 DEF TableAgrees, tableVars
<1>2. ASSUME NEW t \in Slots, HF_DispatcherISR(t) PROVE TableAgrees'
  <2> DEFINE cur == HF_current_task
             dies == oneshot[cur] /\ ptask[cur] /\ cur # Idle
  <2>1. CASE dies
    <3>1. FreeSlot(cur) /\ cur \in Slots
      BY <1>2, <2>1 DEF HF_DispatcherISR, TypeOK
    <3> QED BY <2>1, <3>1, FreeSlotAgrees
  <2>2. CASE ~dies
    BY <1>1, <1>2, <2>2 DEF HF_DispatcherISR
  <2> QED BY <2>1, <2>2
<1>3. ASSUME NEW id \in Slots, HF_KillTask(id) PROVE TableAgrees'
  BY <1>3, FreeSlotAgrees DEF HF_KillTask
<1>4. ASSUME NEW kind \in Kinds, NEW memory \in BOOLEAN, HF_AddTask(kind, memory)
      PROVE  TableAgrees'
  <2>1. PICK i \in Slots :
            /\ ~ptask[i]
            /\ ptask' = [ptask EXCEPT ![i] = memory]
            /\ HF_max_index' = IF i > HF_max_index THEN i ELSE HF_max_index
    BY <1>4 DEF HF_AddTask
  <2>2. ptask \in [Slots -> BOOLEAN] /\ HF_max_index \in Slots
    BY DEF TypeOK
  <2>3. HF_tasks' = Cardinality({t \in Slots : ptask[t]})'
    <3>1. CASE memory
      <4>1. Used' = Used \cup {i} /\ i \notin Used
        BY <2>1, <2>2, <3>1 DEF Used
      <4>2. Cardinality(Used') = Cardinality(Used) + 1
        BY <4>1, UsedFinite, FS_AddElement
      <4>3. HF_tasks' = HF_tasks + 1
        BY <1>4, <3>1 DEF HF_AddTask
      <4> QED BY <4>2, <4>3 DEF TableAgrees, Used
    <3>2. CASE ~memory
      <4>1. Used' = Used
        BY <2>1, <2>2, <3>2 DEF Used
      <4>2. HF_tasks' = HF_tasks
        BY <1>4, <3>2 DEF HF_AddTask
      <4> QED BY <4>1, <4>2 DEF TableAgrees, Used
    <3> QED BY <3>1, <3>2
  <2>4. \A t \in Slots : ptask'[t] => t <= HF_max_index'
    <3> SUFFICES ASSUME NEW t \in Slots, ptask'[t] PROVE t <= HF_max_index'
      OBVIOUS
    <3>1. t = i \/ ptask[t]
      BY <2>1, <2>2
    <3>2. HF_max_index <= HF_max_index' /\ i <= HF_max_index'
      BY <2>1, <2>2
    <3>3. ptask[t] => t <= HF_max_index
      BY DEF TableAgrees
    <3> QED BY <3>1, <3>2, <3>3, <2>1, <2>2
  <2>5. ptask'[Idle]
    BY <2>1, <2>2 DEF TableAgrees
  <2> QED BY <2>3, <2>4, <2>5 DEF TableAgrees
<1>5. ASSUME NEW t \in Slots, HF_TaskYield(t) PROVE TableAgrees'
  BY <1>1, <1>5 DEF HF_TaskYield
<1>6. ASSUME NEW id \in Slots, HF_BlockTask(id) \/ HF_ResumeTask(id) PROVE TableAgrees'
  BY <1>1, <1>6 DEF HF_BlockTask, HF_ResumeTask
<1>7. ASSUME NEW s \in Sems, HF_SemPost(s) \/ HF_SemWait(s) PROVE TableAgrees'
  BY <1>1, <1>7 DEF HF_SemPost, HF_SemWait
<1>8. ASSUME NEW s \in Sems, NEW v \in InitialValues, HF_SemInit(s, v) PROVE TableAgrees'
  BY <1>1, <1>8 DEF HF_SemInit
<1>9. CASE HF_Start
  BY <1>1, <1>9 DEF HF_Start
<1>10. CASE UNCHANGED vars
  BY <1>1, <1>10 DEF vars
<1> QED
  BY <1>2, <1>3, <1>4, <1>5, <1>6, <1>7, <1>8, <1>9, <1>10
  DEF Next, Scheduling, SemCalls, Management

\* The task count and the search limit agree with the table however tasks come
\* and go, a failed allocation included: no live task is beyond the schedulers'
\* reach, and the idle task is always there to be dispatched.
THEOREM TableAgreesAlways == Spec => []TableAgrees
<1>1. Init => TableAgrees
  <2> SUFFICES ASSUME Init PROVE TableAgrees
    OBVIOUS
  <2>0. Idle \in Slots
    OBVIOUS
  <2>1. Used = {Idle}
    <3>1. \A t \in Slots : ptask[t] <=> t = Idle
      BY Zenon DEF Init
    <3> QED BY <2>0, <3>1 DEF Used
  <2>2. Cardinality(Used) = 1
    BY <2>1, FS_Singleton
  <2>3. HF_tasks = 1 /\ HF_max_index = Idle
    BY DEF Init
  <2>4. \A t \in Slots : ptask[t] => t = Idle
    BY <2>1 DEF Used
  <2>5. ptask[Idle]
    BY <2>1 DEF Used
  <2> QED BY <2>2, <2>3, <2>4, <2>5 DEF TableAgrees, Used
<1> QED BY <1>1, TypeCorrect, NextAgrees, PTL DEF Spec

-----------------------------------------------------------------------------
(* Semaphores used with discipline *)

LEMMA SemNextIsNext == SemNext => Next
BY DEF SemNext, Next

\* What TypeOK and QueueSpan say of the disciplined steps.
THEOREM SemSpecBase == SemSpec => [](TypeOK /\ QueueSpan)
<1>1. Init => TypeOK /\ QueueSpan
  BY InitType DEF Init, QueueSpan, Cell, Waiters
<1>2. TypeOK /\ QueueSpan /\ [SemNext]_vars => (TypeOK /\ QueueSpan)'
  BY NextType, NextSpan, SemNextIsNext
<1> QED BY <1>1, <1>2, PTL DEF SemSpec

-----------------------------------------------------------------------------
(* Facts about a line of waiting tasks *)

LEMMA CellType ==
    ASSUME TypeOK, NEW s \in Sems, NEW k \in Nat
    PROVE  Cell(s, k) \in Slots /\ Queued(s, k) \in Slots
<1>1. waiting_queue_begin[s] + k \in Nat
  BY DEF TypeOK
<1>2. Cell(s, k) \in Slots
  BY <1>1, ModRange DEF Cell
<1>3. waiting_queue[s] \in [Slots -> Slots]
  BY DEF TypeOK
<1>4. waiting_queue[s][Cell(s, k)] \in Slots
  <2> HIDE DEF Slots
  <2> QED BY <1>2, <1>3
<1> QED BY <1>2, <1>4 DEF Queued

\* A step that leaves a semaphore and the tasks stopped on it alone keeps its line.
LEMMA LineFrame ==
    ASSUME TypeOK, NEW s \in Sems, InLine(s),
           Waiters(s)' = Waiters(s),
           waiting_queue'[s] = waiting_queue[s],
           waiting_queue_begin'[s] = waiting_queue_begin[s],
           \A t \in Slots : WaitsOn(t, s)' <=> WaitsOn(t, s)
    PROVE  InLine(s)'
<1>1. Waiters(s)' = Waiters(s) /\ Waiters(s) \in Nat
  BY WaitersType
<1>2. \A k \in 0 .. Waiters(s) - 1 : Queued(s, k)' = Queued(s, k) /\ Queued(s, k) \in Slots
  <2> SUFFICES ASSUME NEW k \in 0 .. Waiters(s) - 1
               PROVE  Queued(s, k)' = Queued(s, k) /\ Queued(s, k) \in Slots
    OBVIOUS
  <2>1. k \in Nat
    BY <1>1
  <2> QED BY <2>1, CellType DEF Queued, Cell
<1> QED BY <1>1, <1>2 DEF InLine

\* The line cannot be full when a task that is not in it, and is not the idle
\* task, joins: there are only MAX_TASKS - 2 others.
LEMMA RoomInLine ==
    ASSUME TypeOK, AsleepInside, NEW s \in Sems, InLine(s),
           NEW id \in Slots, id # Idle, status[id] # "waiting"
    PROVE  Waiters(s) + 1 < MAX_TASKS
<1> DEFINE w == Waiters(s)
           D == 0 .. w - 1
           Others == (Slots \ {id}) \ {Idle}
           f == [k \in D |-> Queued(s, k)]
<1>1. w \in Nat
  BY WaitersType
<1>2. f \in [D -> Others]
  <2> SUFFICES ASSUME NEW k \in D PROVE Queued(s, k) \in Others
    OBVIOUS
  <2>1. Queued(s, k) \in Slots
    BY <1>1, CellType
  <2>2. status[Queued(s, k)] = "waiting"
    BY DEF InLine, WaitsOn
  <2> QED BY <2>1, <2>2 DEF AsleepInside
<1>3. \A j, k \in D : f[j] = f[k] => j = k
  BY DEF InLine
<1>4. IsFiniteSet(D) /\ Cardinality(D) = w
  <2>1. 0 \in Int /\ w - 1 \in Int
    BY <1>1
  <2>2. IsFiniteSet(D) /\ Cardinality(D) = IF 0 > w - 1 THEN 0 ELSE (w - 1) - 0 + 1
    BY <2>1, FS_Interval
  <2> QED BY <2>2, <1>1
<1>5. IsFiniteSet(Others) /\ Cardinality(Others) = MAX_TASKS - 2
  <2>1. 0 \in Int /\ MAX_TASKS - 1 \in Int
    OBVIOUS
  <2>2. IsFiniteSet(0 .. MAX_TASKS - 1) /\ Cardinality(0 .. MAX_TASKS - 1) = MAX_TASKS
    <3>1. PICK a, z : a = 0 /\ z = MAX_TASKS - 1
      OBVIOUS
    <3>2. a \in Int /\ z \in Int
      BY <2>1, <3>1
    <3>3. IsFiniteSet(a .. z) /\ Cardinality(a .. z) = IF a > z THEN 0 ELSE z - a + 1
      BY <3>2, FS_Interval
    <3>4. ~(a > z) /\ z - a + 1 = MAX_TASKS
      BY <3>1
    <3> QED BY <3>1, <3>3, <3>4
  <2>3. IsFiniteSet(Slots \ {id}) /\ Cardinality(Slots \ {id}) = MAX_TASKS - 1
    <3> DEFINE T == 0 .. MAX_TASKS - 1
    <3>1. id \in T /\ IsFiniteSet(T) /\ Cardinality(T) = MAX_TASKS
      BY <2>2
    <3> HIDE DEF T
    <3>2. IsFiniteSet(T \ {id}) /\ Cardinality(T \ {id}) = MAX_TASKS - 1
      BY <3>1, FS_RemoveElement
    <3> QED BY <3>2 DEF T
  <2>4. Idle \in Slots \ {id}
    OBVIOUS
  <2>5. Cardinality(Others) = Cardinality(Slots \ {id}) - 1 /\ IsFiniteSet(Others)
    BY <2>3, <2>4, FS_RemoveElement
  <2> QED BY <2>3, <2>5
<1>6. ~(Cardinality(Others) < Cardinality(D))
  <2> SUFFICES ASSUME Cardinality(Others) < Cardinality(D) PROVE FALSE
    OBVIOUS
  <2> HIDE DEF f, D, Others
  <2>1. \E x, y \in D : x # y /\ f[x] = f[y]
    BY <1>2, <1>4, <1>5, FS_PigeonHole
  <2> QED BY <2>1, <1>3
<1> HIDE DEF D, Others
<1> QED BY <1>1, <1>4, <1>5, <1>6
-----------------------------------------------------------------------------
(* The steps that move a line *)

SemInv == TypeOK /\ QueueSpan /\ AsleepInside /\ WaitersQueued

\* HF_SemWait puts its caller behind the others.
LEMMA WaitKeepsLines ==
    ASSUME SemInv, NEW s \in Sems, HF_SemWait(s), MustWait(s)
    PROVE  WaitersQueued'
<1> DEFINE Size == MAX_TASKS
           id == HF_current_task
           b == waiting_queue_begin[s]
<1>0. TypeOK /\ QueueSpan /\ AsleepInside /\ WaitersQueued /\ InLine(s)
  BY DEF SemInv, WaitersQueued
<1>1. /\ Enqueue(s, id)
      /\ count' = [count EXCEPT ![s] = @ - 1]
      /\ waiting_queue_begin' = waiting_queue_begin
      /\ id \in Slots /\ id # Idle /\ pc[id] = "run"
  BY <1>0 DEF HF_SemWait, InTask, TypeOK
<1>2. status[id] # "waiting"
  BY <1>0, <1>1 DEF AsleepInside
<1>3. PICK w \in Nat : w = Waiters(s) /\ w + 1 < Size
  BY <1>0, <1>1, <1>2, WaitersType, RoomInLine
<1>4. Waiters(s)' = w + 1
  <2>1. count[s] \in Int /\ count'[s] = count[s] - 1
    BY <1>0, <1>1 DEF TypeOK
  <2> QED BY <1>3, <2>1 DEF Waiters, MustWait
<1>5. \A t \in Slots, r \in Sems : WaitsOn(t, r)' <=> (t # id /\ WaitsOn(t, r)) \/ (t = id /\ r = s)
  BY <1>0, <1>1, <1>2 DEF Enqueue, WaitsOn, TypeOK
<1>6. ASSUME NEW r \in Sems, r # s PROVE InLine(r)'
  <2>1. /\ Waiters(r)' = Waiters(r)
        /\ waiting_queue'[r] = waiting_queue[r]
        /\ waiting_queue_begin'[r] = waiting_queue_begin[r]
    BY <1>0, <1>1, <1>6 DEF Enqueue, TypeOK, Waiters
  <2>2. \A t \in Slots : WaitsOn(t, r)' <=> WaitsOn(t, r)
    BY <1>2, <1>5, <1>6 DEF WaitsOn
  <2>3. InLine(r)
    BY <1>0 DEF WaitersQueued
  <2> QED BY <1>0, <2>1, <2>2, <2>3, LineFrame
<1>7. InLine(s)'
  <2>1. waiting_queue_end[s] = (b + w) % Size /\ b \in 0 .. Size - 1
    BY <1>0, <1>3 DEF QueueSpan, Cell, TypeOK
  <2>2. \A k \in 0 .. w - 1 : Queued(s, k)' = Queued(s, k) /\ Queued(s, k) \in Slots
    <3> SUFFICES ASSUME NEW k \in 0 .. w - 1
                 PROVE  Queued(s, k)' = Queued(s, k) /\ Queued(s, k) \in Slots
      OBVIOUS
    <3>1. k \in Nat /\ k \in 0 .. Size - 1 /\ w \in 0 .. Size - 1 /\ k # w
      BY <1>3
    <3>2. (b + k) % Size # (b + w) % Size
      <4> HIDE DEF b
      <4> QED BY <3>1, <2>1, ModDistinct
    <3>3. Cell(s, k)' = Cell(s, k) /\ Cell(s, k) \in Slots /\ Queued(s, k) \in Slots
      BY <1>0, <1>1, <3>1, CellType DEF Cell
    <3>4. waiting_queue'[s][Cell(s, k)] = waiting_queue[s][Cell(s, k)]
      BY <1>0, <1>1, <2>1, <3>2, <3>3 DEF Enqueue, TypeOK, Cell
    <3> QED BY <3>3, <3>4 DEF Queued
  <2>3. Queued(s, w)' = id
    <3>1. Cell(s, w)' = waiting_queue_end[s] /\ waiting_queue_end[s] \in Slots
      BY <1>0, <1>1, <2>1 DEF Cell, TypeOK
    <3>2. waiting_queue'[s][waiting_queue_end[s]] = id
      BY <1>0, <1>1, <3>1 DEF Enqueue, TypeOK
    <3> QED BY <3>1, <3>2 DEF Queued
  <2>4. \A k \in 0 .. w : k = w \/ k \in 0 .. w - 1
    BY <1>3
  <2>5. \A k \in 0 .. w - 1 : Queued(s, k) # id /\ WaitsOn(Queued(s, k), s)
    BY <1>0, <1>2, <1>3 DEF InLine, WaitsOn
  <2>6. \A k \in 0 .. w : WaitsOn(Queued(s, k), s)'
    <3> SUFFICES ASSUME NEW k \in 0 .. w PROVE WaitsOn(Queued(s, k), s)'
      OBVIOUS
    <3>1. CASE k = w
      BY <1>1, <1>5, <2>3, <3>1 DEF WaitsOn
    <3>2. CASE k \in 0 .. w - 1
      BY <1>5, <2>2, <2>5, <3>2 DEF WaitsOn
    <3> QED BY <2>4, <3>1, <3>2
  <2>7. \A j, k \in 0 .. w : Queued(s, j)' = Queued(s, k)' => j = k
    BY <1>0, <1>3, <2>2, <2>3, <2>4, <2>5 DEF InLine
  <2>8. \A t \in Slots : WaitsOn(t, s)' => \E k \in 0 .. w : Queued(s, k)' = t
    <3> SUFFICES ASSUME NEW t \in Slots, WaitsOn(t, s)'
                 PROVE  \E k \in 0 .. w : Queued(s, k)' = t
      OBVIOUS
    <3>1. CASE t = id
      BY <1>3, <2>3, <3>1
    <3>2. CASE t # id
      <4>1. PICK k \in 0 .. w - 1 : Queued(s, k) = t
        BY <1>0, <1>3, <1>5, <3>2 DEF InLine
      <4> QED BY <1>3, <2>2, <4>1
    <3> QED BY <3>1, <3>2
  <2>9. (w + 1) - 1 = w
    BY <1>3
  <2> QED BY <1>3, <1>4, <2>6, <2>7, <2>8, <2>9 DEF InLine
<1> QED BY <1>6, <1>7 DEF WaitersQueued

\* HF_SemPost takes the head off and moves every other task one place up.
LEMMA PostKeepsLines ==
    ASSUME SemInv, NEW s \in Sems, HF_SemPost(s), MustWake(s)
    PROVE  /\ WaitersQueued'
           /\ \E h \in Slots : /\ WaitsOn(h, s)
                               /\ status' = [status EXCEPT ![h] = "ready"]
<1> DEFINE Size == MAX_TASKS
           b == waiting_queue_begin[s]
<1>0. TypeOK /\ QueueSpan /\ AsleepInside /\ WaitersQueued /\ InLine(s)
  BY DEF SemInv, WaitersQueued
<1>1. /\ Wake(s)
      /\ count' = [count EXCEPT ![s] = @ + 1]
      /\ waiting_queue' = waiting_queue
      /\ inSem' = inSem
      /\ b \in 0 .. Size - 1
  BY <1>0 DEF HF_SemPost, taskVars, TypeOK
<1>2. PICK w \in Nat \ {0} : w = Waiters(s) /\ w < Size /\ Waiters(s)' = w - 1
  <2>1. count[s] \in Int /\ count'[s] = count[s] + 1
    BY <1>0, <1>1 DEF TypeOK
  <2>2. Waiters(s) \in Nat \ {0} /\ Waiters(s)' = Waiters(s) - 1
    BY <2>1 DEF Waiters, MustWake
  <2> QED BY <2>2, <1>0 DEF InLine
<1>3. Cell(s, 0) = b
  BY <1>1 DEF Cell
<1>4. PICK h \in Slots : h = Queued(s, 0)
  BY <1>0, CellType
<1>5. /\ WaitsOn(h, s)
      /\ status' = [status EXCEPT ![h] = "ready"]
      /\ waiting_queue_begin'[s] = (b + 1) % Size
  <2>1. 0 \in 0 .. w - 1
    BY <1>2
  <2>2. WaitsOn(h, s)
    BY <1>0, <1>2, <1>4, <2>1 DEF InLine
  <2>3. waiting_queue[s][b] = h
    BY <1>3, <1>4 DEF Queued
  <2> QED BY <1>0, <1>1, <2>2, <2>3 DEF Wake, NextIndex, TypeOK
<1>6. \A t \in Slots, r \in Sems : WaitsOn(t, r)' <=> t # h /\ WaitsOn(t, r)
  BY <1>0, <1>1, <1>5 DEF WaitsOn, TypeOK
<1>7. ASSUME NEW r \in Sems, r # s PROVE InLine(r)'
  <2>1. /\ Waiters(r)' = Waiters(r)
        /\ waiting_queue'[r] = waiting_queue[r]
        /\ waiting_queue_begin'[r] = waiting_queue_begin[r]
    BY <1>0, <1>1, <1>7 DEF Wake, TypeOK, Waiters
  <2>2. \A t \in Slots : WaitsOn(t, r)' <=> WaitsOn(t, r)
    BY <1>5, <1>6, <1>7 DEF WaitsOn
  <2>3. InLine(r)
    BY <1>0 DEF WaitersQueued
  <2> QED BY <1>0, <2>1, <2>2, <2>3, LineFrame
<1>8. InLine(s)'
  <2>1. \A k \in 0 .. w - 2 : /\ k + 1 \in 0 .. w - 1
                              /\ Queued(s, k)' = Queued(s, k + 1)
    <3> SUFFICES ASSUME NEW k \in 0 .. w - 2
                 PROVE  k + 1 \in 0 .. w - 1 /\ Queued(s, k)' = Queued(s, k + 1)
      OBVIOUS
    <3> DEFINE k1 == k + 1
    <3>1. k1 \in Nat \ {0} /\ k1 - 1 = k /\ k1 \in 0 .. w - 1
      BY <1>2
    <3> HIDE DEF k1
    <3>2. (((b + 1) % Size) + (k1 - 1)) % Size = (b + k1) % Size
      <4> HIDE DEF b
      <4> QED BY <1>1, <3>1, ModShift
    <3>3. Cell(s, k)' = Cell(s, k1)
      BY <1>5, <3>1, <3>2 DEF Cell
    <3>4. Queued(s, k)' = Queued(s, k1)
      BY <1>1, <3>3 DEF Queued
    <3> QED BY <3>1, <3>4 DEF k1
  <2>2. \A k \in 0 .. w - 1 : /\ WaitsOn(Queued(s, k), s)
                              /\ Queued(s, k) \in Slots
                              /\ \A j \in 0 .. w - 1 : Queued(s, j) = Queued(s, k) => j = k
    <3> SUFFICES ASSUME NEW k \in 0 .. w - 1 PROVE Queued(s, k) \in Slots
      BY <1>0, <1>2 DEF InLine
    <3>1. k \in Nat
      BY <1>2
    <3> QED BY <1>0, <3>1, CellType
  <2>3. \A k \in 0 .. w - 1 : Queued(s, k) = h => k = 0
    <3>1. 0 \in 0 .. w - 1
      BY <1>2
    <3> QED BY <1>4, <2>2, <3>1
  <2>4. \A k \in 0 .. w - 2 : WaitsOn(Queued(s, k), s)'
    <3> SUFFICES ASSUME NEW k \in 0 .. w - 2 PROVE WaitsOn(Queued(s, k), s)'
      OBVIOUS
    <3>1. /\ Queued(s, k)' = Queued(s, k + 1)
          /\ k + 1 \in 0 .. w - 1
          /\ k + 1 # 0
      BY <1>2, <2>1
    <3>2. /\ Queued(s, k + 1) # h
          /\ Queued(s, k + 1) \in Slots
          /\ WaitsOn(Queued(s, k + 1), s)
      BY <2>2, <2>3, <3>1
    <3> QED BY <1>6, <3>1, <3>2 DEF WaitsOn
  <2>5. \A j, k \in 0 .. w - 2 : Queued(s, j)' = Queued(s, k)' => j = k
    <3> SUFFICES ASSUME NEW j \in 0 .. w - 2, NEW k \in 0 .. w - 2,
                        Queued(s, j)' = Queued(s, k)'
                 PROVE  j = k
      OBVIOUS
    <3>1. /\ Queued(s, j + 1) = Queued(s, k + 1)
          /\ j + 1 \in 0 .. w - 1
          /\ k + 1 \in 0 .. w - 1
      BY <2>1
    <3>2. j + 1 = k + 1
      BY <2>2, <3>1
    <3> QED BY <3>2
  <2>6. \A t \in Slots : WaitsOn(t, s)' => \E k \in 0 .. w - 2 : Queued(s, k)' = t
    <3> SUFFICES ASSUME NEW t \in Slots, WaitsOn(t, s)'
                 PROVE  \E k \in 0 .. w - 2 : Queued(s, k)' = t
      OBVIOUS
    <3>1. t # h /\ WaitsOn(t, s)
      BY <1>6
    <3>2. PICK k \in 0 .. w - 1 : Queued(s, k) = t
      BY <1>0, <1>2, <3>1 DEF InLine
    <3>3. k # 0
      BY <1>4, <3>1, <3>2
    <3>4. k - 1 \in 0 .. w - 2 /\ (k - 1) + 1 = k
      BY <3>2, <3>3
    <3>5. Queued(s, k - 1)' = Queued(s, k)
      BY <2>1, <3>4
    <3> QED BY <3>2, <3>4, <3>5
  <2>7. Waiters(s)' < Size /\ Waiters(s)' - 1 = w - 2
    BY <1>2
  <2> QED BY <2>4, <2>5, <2>6, <2>7 DEF InLine
<1> QED BY <1>5, <1>7, <1>8 DEF WaitersQueued
-----------------------------------------------------------------------------
(* The steps that leave the lines alone *)

\* The running task is alive, unless it has killed itself and not yet yielded.
CurrentAlive == \/ ptask[HF_current_task]
                \/ HF_schedule /\ pc[HF_current_task] = "dying"

SameSleepers == \A t \in Slots, s \in Sems : WaitsOn(t, s)' <=> WaitsOn(t, s)

LEMMA LinesFrame ==
    ASSUME SemInv, UNCHANGED semVars, SameSleepers
    PROVE  WaitersQueued'
<1> SUFFICES ASSUME NEW s \in Sems PROVE InLine(s)'
  BY DEF WaitersQueued
<1>1. /\ Waiters(s)' = Waiters(s)
      /\ waiting_queue'[s] = waiting_queue[s]
      /\ waiting_queue_begin'[s] = waiting_queue_begin[s]
  BY DEF semVars, Waiters
<1>2. TypeOK /\ InLine(s)
  BY DEF SemInv, WaitersQueued
<1> QED BY <1>1, <1>2, LineFrame DEF SameSleepers

\* A context switch neither stops a task nor releases one.
LEMMA SwitchKeeps ==
    ASSUME SemInv, CurrentAlive, NEW t \in Slots,
           HF_DispatcherISR(t) \/ HF_TaskYield(t)
    PROVE  (CurrentAlive /\ AsleepInside)' /\ SameSleepers /\ UNCHANGED semVars
<1>0. TypeOK /\ AsleepInside /\ UNCHANGED semVars /\ UNCHANGED HF_schedule /\ HF_schedule
  BY DEF SemInv, HF_DispatcherISR, HF_TaskYield
<1>1. PICK st \in [Slots -> Status], places \in [Slots -> Places] :
         /\ RestoreExecution(t, st, places)
         /\ ptask'[t] /\ st[t] # "waiting"
         /\ \A u \in Slots : st[u] = "waiting" <=> status[u] = "waiting"
         /\ \A u \in Slots : status[u] = "waiting" => /\ ptask'[u] /\ ~oneshot'[u]
                                                     /\ places[u] \in {"yield", "slept"}
                                                     /\ u # t
  <2>1. CASE HF_DispatcherISR(t)
    <3> DEFINE cur == HF_current_task
               dies == oneshot[cur] /\ ptask[cur] /\ cur # Idle
               st == IF dies THEN [status EXCEPT ![cur] = "not_run"] ELSE Demoted
    <3>1. st \in [Slots -> Status] /\ pc \in [Slots -> Places]
      BY <1>0 DEF TypeOK, Demoted
    <3>2. /\ RestoreExecution(t, st, pc)
          /\ t \in Candidates(ptask', st, HF_max_index')
      BY <2>1 DEF HF_DispatcherISR
    <3>3. ptask'[t] /\ st[t] # "waiting"
      BY <3>2 DEF Candidates
    <3>4. \A u \in Slots : st[u] = "waiting" <=> status[u] = "waiting"
      BY <1>0 DEF Demoted, AsleepInside, TypeOK
    <3>5. ASSUME NEW u \in Slots, status[u] = "waiting"
          PROVE  /\ ptask'[u] /\ ~oneshot'[u]
                 /\ pc[u] \in {"yield", "slept"}
                 /\ u # t
      <4>1. ptask[u] /\ ~oneshot[u] /\ pc[u] \in {"yield", "slept"} /\ u # t
        BY <1>0, <3>3, <3>4, <3>5 DEF AsleepInside
      <4>2. CASE dies
        BY <1>0, <2>1, <4>1, <4>2 DEF HF_DispatcherISR, FreeSlot, TypeOK
      <4>3. CASE ~dies
        BY <2>1, <4>1, <4>3 DEF HF_DispatcherISR, tableVars
      <4> QED BY <4>1, <4>2, <4>3
    <3> QED BY <3>1, <3>2, <3>3, <3>4, <3>5
  <2>2. CASE HF_TaskYield(t)
    <3> DEFINE cur == HF_current_task
               places == [pc EXCEPT ![cur] = IF @ = "yield" THEN "slept" ELSE @]
    <3>1. Demoted \in [Slots -> Status] /\ places \in [Slots -> Places]
      BY <1>0 DEF TypeOK, Demoted
    <3>2. /\ RestoreExecution(t, Demoted, places)
          /\ t \in Candidates(ptask, Demoted, HF_max_index)
          /\ ptask' = ptask /\ oneshot' = oneshot
      BY <2>2 DEF HF_TaskYield, tableVars
    <3>3. ptask'[t] /\ Demoted[t] # "waiting"
      BY <3>2 DEF Candidates
    <3>4. \A u \in Slots : Demoted[u] = "waiting" <=> status[u] = "waiting"
      BY <1>0 DEF Demoted, TypeOK
    <3>5. \A u \in Slots : pc[u] \in {"yield", "slept"} => places[u] \in {"yield", "slept"}
      BY <1>0 DEF TypeOK
    <3>6. \A u \in Slots : status[u] = "waiting" => /\ ptask'[u] /\ ~oneshot'[u]
                                                   /\ places[u] \in {"yield", "slept"}
                                                   /\ u # t
      BY <1>0, <3>2, <3>3, <3>4, <3>5 DEF AsleepInside
    <3> QED BY <3>1, <3>2, <3>3, <3>4, <3>6
  <2> QED BY <2>1, <2>2
<1>2. /\ HF_current_task' = t
      /\ \A u \in Slots : status'[u] = "waiting" <=> status[u] = "waiting"
      /\ \A u \in Slots : u # t => pc'[u] = places[u] /\ inSem'[u] = inSem[u]
  BY <1>0, <1>1 DEF RestoreExecution, TypeOK
<1>3. CurrentAlive'
  BY <1>1, <1>2 DEF CurrentAlive
<1>4. SameSleepers
  BY <1>1, <1>2 DEF SameSleepers, WaitsOn
<1>5. AsleepInside'
  BY <1>0, <1>1, <1>2 DEF AsleepInside
<1> QED BY <1>0, <1>3, <1>4, <1>5

\* Task management under the discipline.
LEMMA TablesKeep ==
    ASSUME SemInv, CurrentAlive,
           \/ \E id \in Slots : Management(id) /\ status[id] # "waiting"
           \/ \E kind \in Kinds, memory \in BOOLEAN : HF_AddTask(kind, memory)
           \/ HF_Start
           \/ UNCHANGED vars
    PROVE  (CurrentAlive /\ AsleepInside)' /\ SameSleepers /\ UNCHANGED semVars
<1>0. TypeOK /\ AsleepInside /\ HF_current_task \in Slots
  BY DEF SemInv, TypeOK
<1>1. CASE \E id \in Slots : Management(id) /\ status[id] # "waiting"
  <2>1. PICK id \in Slots : Management(id) /\ status[id] # "waiting"
    BY <1>1
  <2>2. /\ UNCHANGED <<HF_current_task, HF_schedule, semVars, inSem, oneshot>>
        /\ HF_schedule
        /\ pc[HF_current_task] = "run"
        /\ ptask[id]
        /\ status'[id] # "waiting"
        /\ \A u \in Slots : u # id => /\ status'[u] = status[u]
                                     /\ ptask'[u] = ptask[u]
                                     /\ pc'[u] = pc[u]
    <3>1. CASE HF_BlockTask(id)
      BY <1>0, <2>1, <3>1 DEF HF_BlockTask, InTask, tableVars, taskVars, TypeOK
    <3>2. CASE HF_ResumeTask(id)
      BY <1>0, <2>1, <3>2 DEF HF_ResumeTask, InTask, tableVars, taskVars, TypeOK
    <3>3. CASE HF_KillTask(id)
      BY <1>0, <2>1, <3>3 DEF HF_KillTask, FreeSlot, InTask, TypeOK
    <3> QED BY <2>1, <3>1, <3>2, <3>3 DEF Management
  <2>3. SameSleepers
    BY <2>1, <2>2 DEF SameSleepers, WaitsOn
  <2>4. AsleepInside'
    BY <1>0, <2>1, <2>2 DEF AsleepInside
  <2>5. CurrentAlive'
    <3>1. CASE id # HF_current_task
      BY <1>0, <2>2, <3>1 DEF CurrentAlive
    <3>2. CASE id = HF_current_task /\ HF_KillTask(id)
      BY <1>0, <2>2, <3>2 DEF CurrentAlive, HF_KillTask, TypeOK
    <3>3. CASE HF_BlockTask(id) \/ HF_ResumeTask(id)
      BY <1>0, <2>2, <3>3 DEF CurrentAlive, HF_BlockTask, HF_ResumeTask, tableVars, taskVars
    <3> QED BY <2>1, <3>1, <3>2, <3>3 DEF Management
  <2> QED BY <2>2, <2>3, <2>4, <2>5
<1>2. CASE \E kind \in Kinds, memory \in BOOLEAN : HF_AddTask(kind, memory)
  <2>1. PICK kind \in Kinds, memory \in BOOLEAN : HF_AddTask(kind, memory)
    BY <1>2
  <2>2. PICK i \in Slots : /\ ~ptask[i]
                           /\ ptask' = [ptask EXCEPT ![i] = memory]
                           /\ oneshot' = [oneshot EXCEPT ![i] = kind]
                           /\ status' = [status EXCEPT ![i] = "not_run"]
                           /\ pc' = [pc EXCEPT ![i] = "run"]
                           /\ inSem' = [inSem EXCEPT ![i] = NoSem]
    BY <2>1 DEF HF_AddTask
  <2>3. UNCHANGED <<HF_current_task, HF_schedule, semVars>> /\ (InTask \/ InBoot)
    BY <2>1 DEF HF_AddTask
  <2>4. status[i] # "waiting" /\ status'[i] # "waiting"
    BY <1>0, <2>2 DEF AsleepInside, TypeOK
  <2>5. \A u \in Slots : u # i => /\ status'[u] = status[u] /\ ptask'[u] = ptask[u]
                                 /\ oneshot'[u] = oneshot[u] /\ pc'[u] = pc[u]
                                 /\ inSem'[u] = inSem[u]
    BY <1>0, <2>2 DEF TypeOK
  <2>6. SameSleepers
    BY <2>4, <2>5 DEF SameSleepers, WaitsOn
  <2>7. AsleepInside'
    BY <1>0, <2>3, <2>4, <2>5 DEF AsleepInside
  <2>8. i # HF_current_task
    BY <2>2, <2>3 DEF CurrentAlive, InTask, InBoot
  <2>9. CurrentAlive'
    BY <1>0, <2>3, <2>5, <2>8 DEF CurrentAlive
  <2> QED BY <2>3, <2>6, <2>7, <2>9
<1>3. CASE HF_Start
  <2>1. /\ UNCHANGED <<tableVars, status, HF_current_task, semVars, taskVars>>
        /\ HF_schedule'
    BY <1>3 DEF HF_Start
  <2> QED BY <1>0, <2>1 DEF AsleepInside, CurrentAlive, SameSleepers, WaitsOn, tableVars, taskVars
<1>4. CASE UNCHANGED vars
  BY <1>0, <1>4 DEF vars, AsleepInside, CurrentAlive, SameSleepers, WaitsOn, tableVars, taskVars
<1> QED BY <1>1, <1>2, <1>3, <1>4
-----------------------------------------------------------------------------
(* The semaphore calls *)

LEMMA InitCallKeeps ==
    ASSUME SemInv, CurrentAlive, NEW s \in Sems, NEW v \in InitialValues, HF_SemInit(s, v)
    PROVE  (CurrentAlive /\ AsleepInside /\ WaitersQueued)'
<1>0. TypeOK /\ AsleepInside /\ WaitersQueued
  BY DEF SemInv
<1>1. /\ UNCHANGED <<tableVars, status, HF_current_task, HF_schedule, waiting_queue, taskVars>>
      /\ ~HF_schedule
      /\ count' = [count EXCEPT ![s] = v]
      /\ waiting_queue_begin' = [waiting_queue_begin EXCEPT ![s] = 0]
  BY DEF HF_SemInit, InBoot
<1>2. (CurrentAlive /\ AsleepInside)'
  BY <1>0, <1>1 DEF AsleepInside, CurrentAlive, tableVars, taskVars
<1>3. \A t \in Slots : status[t] # "waiting" /\ status'[t] # "waiting"
  BY <1>0, <1>1 DEF AsleepInside
<1>4. Waiters(s)' = 0
  BY <1>0, <1>1 DEF Waiters, TypeOK
<1>5. InLine(s)'
  BY <1>3, <1>4 DEF InLine, WaitsOn
<1>6. ASSUME NEW r \in Sems, r # s PROVE InLine(r)'
  <2>1. /\ Waiters(r)' = Waiters(r)
        /\ waiting_queue'[r] = waiting_queue[r]
        /\ waiting_queue_begin'[r] = waiting_queue_begin[r]
    BY <1>0, <1>1, <1>6 DEF TypeOK, Waiters
  <2>2. \A t \in Slots : WaitsOn(t, r)' <=> WaitsOn(t, r)
    BY <1>3 DEF WaitsOn
  <2>3. InLine(r)
    BY <1>0 DEF WaitersQueued
  <2> QED BY <1>0, <2>1, <2>2, <2>3, LineFrame
<1> QED BY <1>2, <1>5, <1>6 DEF WaitersQueued

\* A wait that finds a unit, or a post that finds no one, moves only the counter.
LEMMA CounterKeeps ==
    ASSUME SemInv, NEW s \in Sems,
           UNCHANGED <<status, inSem, waiting_queue, waiting_queue_begin>>,
           \A r \in Sems : Waiters(r)' = Waiters(r)
    PROVE  WaitersQueued'
<1> SUFFICES ASSUME NEW r \in Sems PROVE InLine(r)'
  BY DEF WaitersQueued
<1>1. TypeOK /\ InLine(r)
  BY DEF SemInv, WaitersQueued
<1>2. \A t \in Slots : WaitsOn(t, r)' <=> WaitsOn(t, r)
  BY DEF WaitsOn
<1> QED BY <1>1, <1>2, LineFrame

LEMMA WaitCallKeeps ==
    ASSUME SemInv, CurrentAlive, NEW s \in Sems,
           HF_SemWait(s), ~oneshot[HF_current_task]
    PROVE  (CurrentAlive /\ AsleepInside /\ WaitersQueued)'
<1>0. TypeOK /\ AsleepInside /\ HF_current_task \in Slots
  BY DEF SemInv, TypeOK
<1>1. /\ UNCHANGED <<tableVars, HF_current_task, HF_schedule, waiting_queue_begin>>
      /\ HF_schedule /\ HF_current_task # Idle /\ pc[HF_current_task] = "run"
      /\ ptask[HF_current_task]
      /\ count' = [count EXCEPT ![s] = @ - 1]
  BY DEF HF_SemWait, InTask, CurrentAlive
<1>2. CurrentAlive'
  BY <1>1 DEF CurrentAlive, tableVars
<1>3. CASE MustWait(s)
  <2>1. WaitersQueued'
    BY <1>3, WaitKeepsLines
  <2>2. Enqueue(s, HF_current_task)
    BY <1>3 DEF HF_SemWait
  <2>3. AsleepInside'
    BY <1>0, <1>1, <2>2 DEF AsleepInside, Enqueue, tableVars, TypeOK
  <2> QED BY <1>2, <2>1, <2>3
<1>4. CASE ~MustWait(s)
  <2>1. UNCHANGED <<waiting_queue, waiting_queue_end, status, pc, inSem>>
    BY <1>4 DEF HF_SemWait, taskVars
  <2>2. \A r \in Sems : Waiters(r)' = Waiters(r)
    <3> SUFFICES ASSUME NEW r \in Sems PROVE Waiters(r)' = Waiters(r)
      OBVIOUS
    <3>1. CASE r = s
      <4>1. count[s] \in Int /\ count'[s] = count[s] - 1
        BY <1>0, <1>1 DEF TypeOK
      <4> QED BY <1>4, <3>1, <4>1 DEF Waiters, MustWait
    <3>2. CASE r # s
      BY <1>0, <1>1, <3>2 DEF Waiters, TypeOK
    <3> QED BY <3>1, <3>2
  <2>3. WaitersQueued'
    BY <1>1, <2>1, <2>2, CounterKeeps
  <2>4. AsleepInside'
    BY <1>0, <1>1, <2>1 DEF AsleepInside, tableVars
  <2> QED BY <1>2, <2>3, <2>4
<1> QED BY <1>3, <1>4

LEMMA PostCallKeeps ==
    ASSUME SemInv, CurrentAlive, NEW s \in Sems, HF_SemPost(s)
    PROVE  (CurrentAlive /\ AsleepInside /\ WaitersQueued)'
<1>0. TypeOK /\ AsleepInside /\ HF_current_task \in Slots
  BY DEF SemInv, TypeOK
<1>1. /\ UNCHANGED <<tableVars, HF_current_task, HF_schedule, waiting_queue, taskVars>>
      /\ count' = [count EXCEPT ![s] = @ + 1]
  BY DEF HF_SemPost
<1>2. CurrentAlive'
  BY <1>1 DEF CurrentAlive, tableVars, taskVars
<1>3. CASE MustWake(s)
  <2>1. WaitersQueued' /\ \E h \in Slots : status' = [status EXCEPT ![h] = "ready"]
    BY <1>3, PostKeepsLines
  <2>2. AsleepInside'
    BY <1>0, <1>1, <2>1 DEF AsleepInside, tableVars, taskVars, TypeOK
  <2> QED BY <1>2, <2>1, <2>2
<1>4. CASE ~MustWake(s)
  <2>1. UNCHANGED <<status, waiting_queue_begin, waiting_queue_end>>
    BY <1>4 DEF HF_SemPost
  <2>2. \A r \in Sems : Waiters(r)' = Waiters(r)
    <3> SUFFICES ASSUME NEW r \in Sems PROVE Waiters(r)' = Waiters(r)
      OBVIOUS
    <3>1. CASE r = s
      <4>1. count[s] \in Int /\ count'[s] = count[s] + 1
        BY <1>0, <1>1 DEF TypeOK
      <4> QED BY <1>4, <3>1, <4>1 DEF Waiters, MustWake
    <3>2. CASE r # s
      BY <1>0, <1>1, <3>2 DEF Waiters, TypeOK
    <3> QED BY <3>1, <3>2
  <2>3. WaitersQueued'
    BY <1>1, <2>1, <2>2, CounterKeeps DEF taskVars
  <2>4. AsleepInside'
    BY <1>0, <1>1, <2>1 DEF AsleepInside, tableVars, taskVars
  <2> QED BY <1>2, <2>3, <2>4
<1> QED BY <1>3, <1>4
-----------------------------------------------------------------------------
LEMMA SemStepKeeps ==
    ASSUME SemInv, CurrentAlive, [SemNext]_vars
    PROVE  (SemInv /\ CurrentAlive)'
<1>1. (TypeOK /\ QueueSpan)'
  BY NextType, NextSpan, SemNextIsNext DEF SemInv
<1>2. CASE \E t \in Slots : HF_DispatcherISR(t) \/ HF_TaskYield(t)
  BY <1>1, <1>2, SwitchKeeps, LinesFrame DEF SemInv
<1>3. CASE \/ \E id \in Slots : Management(id) /\ status[id] # "waiting"
           \/ \E kind \in Kinds, memory \in BOOLEAN : HF_AddTask(kind, memory)
           \/ HF_Start
           \/ UNCHANGED vars
  BY <1>1, <1>3, TablesKeep, LinesFrame DEF SemInv
<1>4. CASE SemCalls
  BY <1>1, <1>4, PostCallKeeps, InitCallKeeps DEF SemInv, SemCalls
<1>5. CASE \E s \in Sems : HF_SemWait(s) /\ ~oneshot[HF_current_task]
  BY <1>1, <1>5, WaitCallKeeps DEF SemInv
<1> QED BY <1>2, <1>3, <1>4, <1>5 DEF SemNext, Scheduling

LEMMA SemStarts == Init => SemInv /\ CurrentAlive
<1> SUFFICES ASSUME Init PROVE SemInv /\ CurrentAlive
  OBVIOUS
<1>1. TypeOK /\ QueueSpan
  BY InitType DEF Init, QueueSpan, Cell, Waiters
<1>2. AsleepInside
  BY DEF Init, AsleepInside
<1>3. ptask[HF_current_task]
  <2>1. Idle \in Slots
    OBVIOUS
  <2>2. HF_current_task = Idle /\ ptask = [t \in Slots |-> t = Idle]
    BY DEF Init
  <2> HIDE DEF Slots, Idle
  <2> QED BY <2>1, <2>2, Zenon
<1>4. CurrentAlive
  BY <1>3 DEF CurrentAlive
<1>5. WaitersQueued
  BY DEF Init, WaitersQueued, InLine, WaitsOn, Waiters
<1> QED BY <1>1, <1>2, <1>4, <1>5 DEF SemInv

LEMMA SemInvariant == SemSpec => [](SemInv /\ CurrentAlive)
BY SemStarts, SemStepKeeps, PTL DEF SemSpec

\* mutex.c: the tasks stopped on a semaphore are exactly the ones its counter
\* and its circular buffer tell of, so a post always finds the task to wake.
THEOREM WaitersQueuedAlways == SemSpec => []WaitersQueued
BY SemInvariant, PTL DEF SemInv

\* mutex.c, ukernel.c: a stopped task stays inside its HF_SemWait.
THEOREM AsleepInsideAlways == SemSpec => []AsleepInside
BY SemInvariant, PTL DEF SemInv
-----------------------------------------------------------------------------
(* The refinement of Semaphore *)

Free(s) == IF count[s] > 0 THEN count[s] ELSE 0
Sleepers(s) == {t \in Slots : WaitsOn(t, s)}
-----------------------------------------------------------------------------
(* The circular buffer as a sequence *)

LEMMA LineIsSequence ==
    ASSUME TypeOK, NEW s \in Sems
    PROVE  /\ Line(s) \in Seq(Slots)
           /\ Len(Line(s)) = Waiters(s)
           /\ Waiters(s) \in Nat
           /\ \A k \in 1 .. Waiters(s) : Line(s)[k] = Queued(s, k - 1)
<1>1. Waiters(s) \in Nat
  BY WaitersType
<1>2. \A k \in 1 .. Waiters(s) : Queued(s, k - 1) \in Slots
  <2> SUFFICES ASSUME NEW k \in 1 .. Waiters(s) PROVE Queued(s, k - 1) \in Slots
    OBVIOUS
  <2>1. k - 1 \in Nat
    BY <1>1
  <2> QED BY <2>1, CellType
<1>3. Line(s) \in [1 .. Waiters(s) -> Slots]
  BY <1>2 DEF Line
<1>4. Line(s) \in Seq(Slots) /\ Len(Line(s)) = Waiters(s)
  <2> HIDE DEF Slots
  <2> QED BY <1>1, <1>3
<1> QED BY <1>1, <1>4 DEF Line

\* A step that leaves the buffer, its begin index and the counter's sign alone.
LEMMA LineKept ==
    ASSUME NEW s \in Sems,
           Waiters(s)' = Waiters(s),
           waiting_queue'[s] = waiting_queue[s],
           waiting_queue_begin'[s] = waiting_queue_begin[s]
    PROVE  Line(s)' = Line(s)
BY DEF Line, Queued, Cell

\* A waiting caller is appended to the line.
LEMMA WaitAppends ==
    ASSUME SemInv, NEW s \in Sems, HF_SemWait(s), MustWait(s)
    PROVE  /\ HF_current_task \in Slots
           /\ Line(s)' = Append(Line(s), HF_current_task)
           /\ Sleepers(s)' = Sleepers(s) \cup {HF_current_task}
           /\ \A k \in 1 .. Waiters(s) : Line(s)[k] # HF_current_task
<1> DEFINE Size == MAX_TASKS
           id == HF_current_task
           b == waiting_queue_begin[s]
<1>0. TypeOK /\ QueueSpan /\ AsleepInside /\ WaitersQueued /\ InLine(s)
  BY DEF SemInv, WaitersQueued
<1>1. /\ Enqueue(s, id)
      /\ count' = [count EXCEPT ![s] = @ - 1]
      /\ waiting_queue_begin' = waiting_queue_begin
      /\ id \in Slots /\ id # Idle /\ pc[id] = "run"
  BY <1>0 DEF HF_SemWait, InTask, TypeOK
<1>2. status[id] # "waiting"
  BY <1>0, <1>1 DEF AsleepInside
<1>3. PICK w \in Nat : w = Waiters(s) /\ w + 1 < Size /\ Waiters(s)' = w + 1
  <2>1. count[s] \in Int /\ count'[s] = count[s] - 1
    BY <1>0, <1>1 DEF TypeOK
  <2>2. Waiters(s) \in Nat /\ Waiters(s)' = Waiters(s) + 1
    BY <2>1, <1>0, WaitersType DEF Waiters, MustWait
  <2> QED BY <1>0, <1>1, <1>2, <2>2, RoomInLine
<1>4. waiting_queue_end[s] = (b + w) % Size /\ b \in 0 .. Size - 1
  BY <1>0, <1>3 DEF QueueSpan, Cell, TypeOK
<1>5. \A k \in 0 .. w - 1 : Queued(s, k)' = Queued(s, k)
  <2> SUFFICES ASSUME NEW k \in 0 .. w - 1
               PROVE  Queued(s, k)' = Queued(s, k)
    OBVIOUS
  <2>1. k \in Nat /\ k \in 0 .. Size - 1 /\ w \in 0 .. Size - 1 /\ k # w
    BY <1>3
  <2>2. (b + k) % Size # (b + w) % Size
    <3> HIDE DEF b
    <3> QED BY <2>1, <1>4, ModDistinct
  <2>3. Cell(s, k)' = Cell(s, k) /\ Cell(s, k) \in Slots
    BY <1>0, <1>1, <2>1, CellType DEF Cell
  <2>4. waiting_queue'[s][Cell(s, k)] = waiting_queue[s][Cell(s, k)]
    BY <1>0, <1>1, <1>4, <2>2, <2>3 DEF Enqueue, TypeOK, Cell
  <2> QED BY <2>3, <2>4 DEF Queued
<1>6. Queued(s, w)' = id
  <2>1. Cell(s, w)' = waiting_queue_end[s] /\ waiting_queue_end[s] \in Slots
    BY <1>0, <1>1, <1>4 DEF Cell, TypeOK
  <2>2. waiting_queue'[s][waiting_queue_end[s]] = id
    BY <1>0, <1>1, <2>1 DEF Enqueue, TypeOK
  <2> QED BY <2>1, <2>2 DEF Queued
<1>7. Line(s)' = Append(Line(s), id)
  <2> DEFINE L == Line(s)
  <2>1. /\ L \in Seq(Slots) /\ Len(L) = w
        /\ \A k \in 1 .. w : L[k] = Queued(s, k - 1)
    BY <1>0, <1>3, LineIsSequence
  <2>2. Line(s)' = [k \in 1 .. w + 1 |-> Queued(s, k - 1)']
    BY <1>3 DEF Line
  <2>3. /\ Append(L, id) \in Seq(Slots)
        /\ Len(Append(L, id)) = w + 1
        /\ \A k \in 1 .. w : Append(L, id)[k] = L[k]
        /\ Append(L, id)[w + 1] = id
    <3> HIDE DEF L, Slots
    <3> QED BY <1>1, <2>1, AppendProperties
  <2>4. \A k \in 1 .. w + 1 : Append(L, id)[k] = Queued(s, k - 1)'
    <3> SUFFICES ASSUME NEW k \in 1 .. w + 1 PROVE Append(L, id)[k] = Queued(s, k - 1)'
      OBVIOUS
    <3>1. CASE k = w + 1
      BY <1>3, <1>6, <2>3, <3>1
    <3>2. CASE k # w + 1
      <4>1. k \in 1 .. w /\ k - 1 \in 0 .. w - 1
        BY <1>3, <3>2
      <4> HIDE DEF L
      <4> QED BY <1>5, <2>1, <2>3, <4>1
    <3> QED BY <3>1, <3>2
  <2>5. Append(L, id) = [k \in 1 .. w + 1 |-> Append(L, id)[k]]
    <3> HIDE DEF L, Slots
    <3> QED BY <2>3, LenProperties
  <2> HIDE DEF L
  <2>6. Append(L, id) = Line(s)'
    BY <2>2, <2>4, <2>5
  <2> QED BY <2>6 DEF L
<1>8. Sleepers(s)' = Sleepers(s) \cup {id}
  BY <1>0, <1>1, <1>2 DEF Enqueue, Sleepers, WaitsOn, TypeOK
<1>9. \A k \in 1 .. w : Line(s)[k] # id
  <2> SUFFICES ASSUME NEW k \in 1 .. w PROVE Line(s)[k] # id
    OBVIOUS
  <2>1. k - 1 \in 0 .. w - 1 /\ Line(s)[k] = Queued(s, k - 1)
    BY <1>0, <1>3, LineIsSequence
  <2>2. WaitsOn(Queued(s, k - 1), s)
    BY <1>0, <1>3, <2>1 DEF InLine
  <2> QED BY <1>2, <2>1, <2>2 DEF WaitsOn
<1> QED BY <1>1, <1>3, <1>7, <1>8, <1>9

\* A post takes the head off the line and wakes it.
LEMMA PostTakesHead ==
    ASSUME SemInv, NEW s \in Sems, HF_SemPost(s), MustWake(s)
    PROVE  /\ Line(s) # << >>
           /\ Line(s)' = Tail(Line(s))
           /\ Sleepers(s)' = Sleepers(s) \ {Head(Line(s))}
<1> DEFINE Size == MAX_TASKS
           b == waiting_queue_begin[s]
           L == Line(s)
<1>0. TypeOK /\ WaitersQueued /\ InLine(s)
  BY DEF SemInv, WaitersQueued
<1>1. /\ Wake(s)
      /\ count' = [count EXCEPT ![s] = @ + 1]
      /\ waiting_queue' = waiting_queue
      /\ inSem' = inSem
      /\ b \in 0 .. Size - 1
  BY <1>0 DEF HF_SemPost, taskVars, TypeOK
<1>2. PICK w \in Nat \ {0} : w = Waiters(s) /\ w < Size /\ Waiters(s)' = w - 1
  <2>1. count[s] \in Int /\ count'[s] = count[s] + 1
    BY <1>0, <1>1 DEF TypeOK
  <2>2. Waiters(s) \in Nat \ {0} /\ Waiters(s)' = Waiters(s) - 1
    BY <2>1 DEF Waiters, MustWake
  <2> QED BY <2>2, <1>0 DEF InLine
<1>3. /\ L \in Seq(Slots) /\ Len(L) = w
      /\ \A k \in 1 .. w : L[k] = Queued(s, k - 1)
  BY <1>0, <1>2, LineIsSequence
<1>4. L # << >> /\ Head(L) = Queued(s, 0)
  <2>1. L # << >> /\ Head(L) = L[1]
    <3> HIDE DEF L, Slots
    <3> QED BY <1>2, <1>3
  <2>2. 1 \in 1 .. w /\ 1 - 1 = 0
    BY <1>2
  <2> HIDE DEF L
  <2> QED BY <1>3, <2>1, <2>2
<1>5. waiting_queue_begin'[s] = (b + 1) % Size
  BY <1>0, <1>1 DEF Wake, NextIndex, TypeOK
<1>6. \A k \in 1 .. w - 1 : Queued(s, k - 1)' = Queued(s, k)
  <2> SUFFICES ASSUME NEW k \in 1 .. w - 1 PROVE Queued(s, k - 1)' = Queued(s, k)
    OBVIOUS
  <2>1. k \in Nat \ {0}
    BY <1>2
  <2>2. (((b + 1) % Size) + (k - 1)) % Size = (b + k) % Size
    <3> HIDE DEF b
    <3> QED BY <1>1, <2>1, ModShift
  <2>3. Cell(s, k - 1)' = Cell(s, k)
    BY <1>5, <2>2 DEF Cell
  <2> QED BY <1>1, <2>3 DEF Queued
<1>7. Line(s)' = Tail(L)
  <2>1. Line(s)' = [k \in 1 .. w - 1 |-> Queued(s, k - 1)']
    BY <1>2 DEF Line
  <2>2. /\ Tail(L) \in Seq(Slots)
        /\ Len(Tail(L)) = w - 1
        /\ \A k \in 1 .. w - 1 : Tail(L)[k] = L[k + 1]
    <3> HIDE DEF L, Slots
    <3> QED BY <1>3, <1>4, HeadTailProperties
  <2>3. \A k \in 1 .. w - 1 : Tail(L)[k] = Queued(s, k - 1)'
    <3> SUFFICES ASSUME NEW k \in 1 .. w - 1 PROVE Tail(L)[k] = Queued(s, k - 1)'
      OBVIOUS
    <3>1. k + 1 \in 1 .. w /\ (k + 1) - 1 = k
      BY <1>2
    <3> HIDE DEF L
    <3> QED BY <1>3, <1>6, <2>2, <3>1
  <2>4. Tail(L) = [k \in 1 .. w - 1 |-> Tail(L)[k]]
    <3> HIDE DEF L, Slots
    <3> QED BY <2>2, LenProperties
  <2> HIDE DEF L
  <2> QED BY <2>1, <2>3, <2>4
<1>8. Sleepers(s)' = Sleepers(s) \ {Head(L)}
  <2> DEFINE h == Queued(s, 0)
  <2>1. 0 \in 0 .. w - 1 /\ 0 \in Nat
    BY <1>2
  <2>2. h \in Slots /\ WaitsOn(h, s)
    BY <1>0, <1>2, <2>1, CellType DEF InLine
  <2>3. Cell(s, 0) = b
    BY <1>1 DEF Cell
  <2>4. status' = [status EXCEPT ![h] = "ready"]
    BY <1>1, <2>3 DEF Wake, Queued
  <2>5. Sleepers(s)' = Sleepers(s) \ {h}
    <3> HIDE DEF h
    <3> QED BY <1>0, <1>1, <2>2, <2>4 DEF Sleepers, WaitsOn, TypeOK
  <2> HIDE DEF L
  <2> QED BY <1>4, <2>5
<1> QED BY <1>4, <1>7, <1>8
-----------------------------------------------------------------------------
(* Each step is a step of every semaphore, or leaves it as it is *)

LEMMA Stutter ==
    ASSUME NEW s \in Sems, Free(s)' = Free(s), Line(s)' = Line(s),
           Sleepers(s)' = Sleepers(s), HF_schedule' = HF_schedule
    PROVE  Abstract(s)!Step
BY DEF Abstract!Step, Abstract!vars, Free, Sleepers

\* Steps that neither stop nor release a task and touch no semaphore.
LEMMA FrameStutters ==
    ASSUME NEW s \in Sems, SameSleepers, UNCHANGED semVars, HF_schedule' = HF_schedule
    PROVE  Abstract(s)!Step
<1>1. Sleepers(s)' = Sleepers(s)
  BY DEF SameSleepers, Sleepers
<1>2. Free(s)' = Free(s) /\ Line(s)' = Line(s)
  BY LineKept DEF semVars, Free, Waiters
<1> QED BY <1>1, <1>2, Stutter

LEMMA StartSteps ==
    ASSUME NEW s \in Sems, HF_Start
    PROVE  Abstract(s)!Step
<1>1. /\ ~HF_schedule /\ HF_schedule' = TRUE
      /\ UNCHANGED <<status, semVars, taskVars>>
  BY DEF HF_Start, InBoot
<1>2. Sleepers(s)' = Sleepers(s) /\ Free(s)' = Free(s) /\ Line(s)' = Line(s)
  BY <1>1, LineKept DEF semVars, taskVars, Sleepers, WaitsOn, Free, Waiters
<1>3. Abstract(s)!Start
  BY <1>1, <1>2 DEF Abstract!Start, Free, Sleepers
<1> QED BY <1>3 DEF Abstract!Step, Abstract!Next

LEMMA InitCallSteps ==
    ASSUME SemInv, NEW s \in Sems, NEW r \in Sems, NEW v \in InitialValues, HF_SemInit(r, v)
    PROVE  Abstract(s)!Step
<1>1. /\ TypeOK /\ AsleepInside
      /\ ~HF_schedule /\ HF_schedule' = HF_schedule
      /\ UNCHANGED <<status, inSem, waiting_queue>>
      /\ count' = [count EXCEPT ![r] = v]
      /\ waiting_queue_begin' = [waiting_queue_begin EXCEPT ![r] = 0]
  BY DEF SemInv, HF_SemInit, InBoot, taskVars
<1>2. Sleepers(s)' = Sleepers(s)
  BY <1>1 DEF Sleepers, WaitsOn
<1>3. CASE r = s
  <2>1. Waiters(s) = 0 /\ Waiters(s)' = 0
    <3>1. InLine(s) /\ Waiters(s) \in Nat
      BY <1>1, WaitersType DEF SemInv, WaitersQueued
    <3>2. Waiters(s) = 0
      <4> SUFFICES ASSUME Waiters(s) # 0 PROVE FALSE
        OBVIOUS
      <4>1. 0 \in 0 .. Waiters(s) - 1 /\ 0 \in Nat
        BY <3>1
      <4>2. Queued(s, 0) \in Slots /\ status[Queued(s, 0)] = "waiting"
        BY <1>1, <3>1, <4>1, CellType DEF InLine, WaitsOn
      <4> QED BY <1>1, <4>2 DEF AsleepInside
    <3>3. v \in Nat /\ count'[s] = v
      BY <1>1, <1>3 DEF TypeOK
    <3> QED BY <3>2, <3>3 DEF Waiters
  <2>2. Line(s)' = Line(s)
    BY <2>1 DEF Line
  <2>3. Free(s)' \in Nat
    BY <1>1, <1>3 DEF Free, TypeOK
  <2>4. Abstract(s)!Initialise
    BY <1>1, <1>2, <2>2, <2>3 DEF Abstract!Initialise, Free, Sleepers
  <2> QED BY <2>4 DEF Abstract!Step, Abstract!Next
<1>4. CASE r # s
  <2>1. Free(s)' = Free(s) /\ Line(s)' = Line(s)
    BY <1>1, <1>4, LineKept DEF TypeOK, Free, Waiters
  <2> QED BY <1>1, <1>2, <2>1, Stutter
<1> QED BY <1>3, <1>4

LEMMA WaitSteps ==
    ASSUME SemInv, NEW s \in Sems, NEW r \in Sems, HF_SemWait(r)
    PROVE  Abstract(s)!Step
<1>1. /\ TypeOK /\ AsleepInside
      /\ InTask /\ HF_schedule /\ HF_schedule' = HF_schedule
      /\ count' = [count EXCEPT ![r] = @ - 1]
      /\ waiting_queue_begin' = waiting_queue_begin
      /\ HF_current_task \in Slots /\ status[HF_current_task] # "waiting"
  BY DEF SemInv, HF_SemWait, InTask, AsleepInside, TypeOK
<1>2. count[r] \in Int /\ count'[r] = count[r] - 1
  BY <1>1 DEF TypeOK
<1>3. CASE r = s /\ MustWait(s)
  <2>1. /\ HF_current_task \in Slots
        /\ Line(s)' = Append(Line(s), HF_current_task)
        /\ Sleepers(s)' = Sleepers(s) \cup {HF_current_task}
        /\ \A k \in 1 .. Waiters(s) : Line(s)[k] # HF_current_task
    BY <1>3, WaitAppends
  <2>2. HF_current_task \notin Abstract(s)!InLine
    BY <1>1, <2>1, LineIsSequence DEF Abstract!InLine
  <2>3. Free(s) = 0 /\ Free(s)' = 0
    BY <1>2, <1>3 DEF Free, MustWait
  <2>4. Abstract(s)!Sleep(HF_current_task)
    BY <1>1, <2>1, <2>2, <2>3 DEF Abstract!Sleep, Free, Sleepers
  <2> QED BY <2>1, <2>4 DEF Abstract!Step, Abstract!Next
<1>4. CASE r = s /\ ~MustWait(s)
  <2>1. UNCHANGED <<waiting_queue, status, inSem>>
    BY <1>4 DEF HF_SemWait, taskVars
  <2>2. Free(s) > 0 /\ Free(s)' = Free(s) - 1 /\ Waiters(s)' = Waiters(s)
    BY <1>2, <1>4 DEF Free, MustWait, Waiters
  <2>3. Line(s)' = Line(s) /\ Sleepers(s)' = Sleepers(s)
    BY <1>1, <2>1, <2>2, LineKept DEF Sleepers, WaitsOn
  <2>4. Abstract(s)!Take
    BY <1>1, <2>2, <2>3 DEF Abstract!Take, Free, Sleepers
  <2> QED BY <2>4 DEF Abstract!Step, Abstract!Next
<1>5. CASE r # s
  <2>1. /\ count'[s] = count[s]
        /\ waiting_queue'[s] = waiting_queue[s]
    BY <1>1, <1>5 DEF HF_SemWait, Enqueue, TypeOK
  <2>2. \A t \in Slots : WaitsOn(t, s)' <=> WaitsOn(t, s)
    BY <1>1, <1>5 DEF HF_SemWait, Enqueue, taskVars, WaitsOn, TypeOK
  <2>3. Line(s)' = Line(s) /\ Free(s)' = Free(s) /\ Sleepers(s)' = Sleepers(s)
    BY <1>1, <2>1, <2>2, LineKept DEF Free, Waiters, Sleepers
  <2> QED BY <1>1, <2>3, Stutter
<1> QED BY <1>3, <1>4, <1>5

LEMMA PostSteps ==
    ASSUME SemInv, NEW s \in Sems, NEW r \in Sems, HF_SemPost(r)
    PROVE  Abstract(s)!Step
<1>1. /\ TypeOK /\ WaitersQueued
      /\ HF_schedule /\ HF_schedule' = HF_schedule
      /\ count' = [count EXCEPT ![r] = @ + 1]
      /\ UNCHANGED <<waiting_queue, inSem>>
  BY DEF SemInv, HF_SemPost, InTask, taskVars
<1>2. count[r] \in Int /\ count'[r] = count[r] + 1
  BY <1>1 DEF TypeOK
<1>3. CASE r = s /\ MustWake(s)
  <2>1. /\ Line(s) # << >>
        /\ Line(s)' = Tail(Line(s))
        /\ Sleepers(s)' = Sleepers(s) \ {Head(Line(s))}
    BY <1>3, PostTakesHead
  <2>2. Free(s) = 0 /\ Free(s)' = 0
    BY <1>2, <1>3 DEF Free, MustWake
  <2>3. Abstract(s)!HandOver
    BY <1>1, <2>1, <2>2 DEF Abstract!HandOver, Free, Sleepers
  <2> QED BY <2>3 DEF Abstract!Step, Abstract!Next
<1>4. CASE r = s /\ ~MustWake(s)
  <2>1. UNCHANGED <<status, waiting_queue_begin>>
    BY <1>4 DEF HF_SemPost
  <2>2. Free(s)' = Free(s) + 1 /\ Waiters(s) = 0 /\ Waiters(s)' = 0
    BY <1>2, <1>4 DEF Free, MustWake, Waiters
  <2>3. Line(s)' = Line(s) /\ Sleepers(s)' = Sleepers(s)
    BY <1>1, <2>1, <2>2, LineKept DEF Sleepers, WaitsOn
  <2>4. Line(s) = << >>
    BY <1>1, <2>2, LineIsSequence
  <2>5. Abstract(s)!Put
    BY <1>1, <2>2, <2>3, <2>4 DEF Abstract!Put, Free, Sleepers
  <2> QED BY <2>5 DEF Abstract!Step, Abstract!Next
<1>5. CASE r # s
  <2>1. /\ count'[s] = count[s]
        /\ waiting_queue_begin'[s] = waiting_queue_begin[s]
    BY <1>1, <1>5 DEF HF_SemPost, Wake, TypeOK
  <2>2. \A t \in Slots : WaitsOn(t, s)' <=> WaitsOn(t, s)
    <3>1. CASE MustWake(r)
      <4>1. PICK h \in Slots : WaitsOn(h, r) /\ status' = [status EXCEPT ![h] = "ready"]
        BY <3>1, PostKeepsLines
      <4> QED BY <1>1, <1>5, <4>1 DEF WaitsOn, TypeOK
    <3>2. CASE ~MustWake(r)
      BY <1>1, <3>2 DEF HF_SemPost, WaitsOn
    <3> QED BY <3>1, <3>2
  <2>3. Line(s)' = Line(s) /\ Free(s)' = Free(s) /\ Sleepers(s)' = Sleepers(s)
    BY <1>1, <2>1, <2>2, LineKept DEF Free, Waiters, Sleepers
  <2> QED BY <1>1, <2>3, Stutter
<1> QED BY <1>3, <1>4, <1>5
-----------------------------------------------------------------------------
LEMMA EveryStepSteps ==
    ASSUME SemInv, CurrentAlive, [SemNext]_vars, NEW s \in Sems
    PROVE  Abstract(s)!Step
<1>1. CASE Scheduling
  <2>1. PICK t \in Slots : HF_DispatcherISR(t) \/ HF_TaskYield(t)
    BY <1>1 DEF Scheduling
  <2>2. HF_schedule' = HF_schedule
    BY <2>1 DEF HF_DispatcherISR, HF_TaskYield
  <2> QED BY <2>1, <2>2, SwitchKeeps, FrameStutters
<1>2. CASE \/ \E id \in Slots : Management(id) /\ status[id] # "waiting"
           \/ \E kind \in Kinds, memory \in BOOLEAN : HF_AddTask(kind, memory)
           \/ UNCHANGED vars
  <2>1. HF_schedule' = HF_schedule
    BY <1>2 DEF Management, HF_BlockTask, HF_ResumeTask, HF_KillTask, HF_AddTask, vars
  <2>2. SameSleepers /\ UNCHANGED semVars
    BY <1>2, TablesKeep
  <2> QED BY <2>1, <2>2, FrameStutters
<1>3. CASE HF_Start
  BY <1>3, StartSteps
<1>4. CASE SemCalls
  BY <1>4, PostSteps, InitCallSteps DEF SemCalls
<1>5. CASE \E r \in Sems : HF_SemWait(r) /\ ~oneshot[HF_current_task]
  BY <1>5, WaitSteps
<1> QED BY <1>1, <1>2, <1>3, <1>4, <1>5 DEF SemNext

LEMMA InitMaps ==
    ASSUME Init, NEW s \in Sems
    PROVE  Abstract(s)!Init
<1>1. count[s] = 0 /\ HF_schedule = FALSE /\ \A t \in Slots : status[t] = "not_run"
  BY DEF Init
<1>2. Line(s) = << >>
  <2>1. TypeOK /\ Waiters(s) = 0
    BY <1>1, InitType DEF Waiters
  <2> QED BY <2>1, LineIsSequence
<1>3. Free(s) = 0 /\ Sleepers(s) = {}
  BY <1>1 DEF Free, Sleepers, WaitsOn
<1> QED BY <1>1, <1>2, <1>3 DEF Abstract!Init, Free, Sleepers

\* mutex.c keeps what module Semaphore promises: every wait that finds no unit
\* joins the line at its end, every post hands its unit to the head of the line
\* or, when nobody waits, leaves it free, and nothing else touches a semaphore.
THEOREM SemaphoreImplemented == SemSpec => ImplementsSemaphore
<1>1. Init => \A s \in Sems : Abstract(s)!Init
  BY InitMaps
<1>2. SemInv /\ CurrentAlive /\ [SemNext]_vars => [\A s \in Sems : Abstract(s)!Step]_vars
  BY EveryStepSteps
<1> QED BY <1>1, <1>2, SemInvariant, PTL DEF SemSpec, ImplementsSemaphore

-----------------------------------------------------------------------------
Asleep(t) == \E s \in Sems : WaitsOn(t, s)

\* m is held from the return of HF_SemWait, or the wake-up, to HF_SemPost.
Owner(t) == at[t] \in {"access", "advance", "leave"} /\ ~Asleep(t)

\* A unit of empty or full is held until the other one is posted.
Claims == {t \in Tasks : \/ at[t] \in {"access", "advance", "leave", "signal"}
                         \/ at[t] = "enter" /\ ~Asleep(t)}

\* The claims that stand for a cell with an item: written and not yet posted,
\* or waited for and not yet taken.
Filled == {t \in Claims : IF t \in ProducerTasks
                          THEN at[t] \in {"advance", "leave", "signal"}
                          ELSE at[t] \in {"enter", "access"}}

Items == Free(full) + Cardinality(Filled)

\* The indices, corrected for a task that has used its cell and not yet moved on.
First == IF \E t \in ConsumerTasks : at[t] = "advance" THEN NextCell(out) ELSE out
Last == IF \E t \in ProducerTasks : at[t] = "advance" THEN NextCell(in) ELSE in
-----------------------------------------------------------------------------
(* The inductive invariant *)

AppType ==
    /\ at \in [Tasks -> {"claim", "enter", "access", "advance", "leave", "signal"}]
    /\ boot \in Nat
    /\ buffer \in [Cells -> BOOLEAN]
    /\ in \in Cells
    /\ out \in Cells

NoOneshot == \A t \in Slots : ~oneshot[t]

\* ApplicationMain has the core to itself until HF_Start.
Booting ==
    /\ HF_schedule => boot > Producers + Consumers + 3
    /\ ~HF_schedule => /\ \A t \in Tasks : at[t] = "claim"
                       /\ \A c \in Cells : ~buffer[c]
                       /\ in = 0 /\ out = 0
                       /\ boot >= 1 => count[empty] = N
                       /\ boot >= 2 => count[full] = 0
                       /\ boot >= 3 => count[m] = 1

WhereAsleep ==
    \A t \in Slots : /\ WaitsOn(t, m) => t \in Tasks /\ at[t] = "access"
                     /\ WaitsOn(t, empty) => t \in ProducerTasks /\ at[t] = "enter"
                     /\ WaitsOn(t, full) => t \in ConsumerTasks /\ at[t] = "enter"

OneOwner == /\ count[m] <= 1
            /\ \A t \in Tasks : Owner(t) => count[m] <= 0
            /\ \A t, u \in Tasks : Owner(t) /\ Owner(u) => t = u

Accounted == Free(empty) + Free(full) + Cardinality(Claims) = N

RingFilled == /\ Last = (First + Items) % N
              /\ \A c \in Cells : buffer[c] <=> \E k \in 0 .. Items - 1 : c = (First + k) % N

Running == WhereAsleep /\ OneOwner /\ Accounted /\ RingFilled

AppInv == /\ SemInv /\ CurrentAlive
          /\ AppType /\ NoOneshot /\ Booting
          /\ HF_schedule => Running
-----------------------------------------------------------------------------
LEMMA TasksAreSlots ==
    /\ Tasks \subseteq Slots \ {Idle}
    /\ ProducerTasks \subseteq Tasks /\ ConsumerTasks \subseteq Tasks
    /\ Tasks = ProducerTasks \cup ConsumerTasks
    /\ ProducerTasks \cap ConsumerTasks = {}
    /\ empty \in Sems /\ full \in Sems /\ m \in Sems
BY DEF Tasks, ProducerTasks, ConsumerTasks

LEMMA SetsFinite ==
    /\ IsFiniteSet(Tasks) /\ IsFiniteSet(Claims) /\ IsFiniteSet(Filled)
    /\ Filled \subseteq Claims /\ Claims \subseteq Tasks
    /\ Cardinality(Claims) \in Nat /\ Cardinality(Filled) \in Nat
    /\ Cardinality(Filled) <= Cardinality(Claims)
<1>1. Filled \subseteq Claims /\ Claims \subseteq Tasks
  BY DEF Filled, Claims
<1>2. IsFiniteSet(ProducerTasks) /\ IsFiniteSet(ConsumerTasks)
  BY FS_Interval DEF ProducerTasks, ConsumerTasks
<1>3. IsFiniteSet(Tasks)
  BY <1>2, FS_Union DEF Tasks
<1>4. IsFiniteSet(Claims) /\ IsFiniteSet(Filled)
  BY <1>1, <1>3, FS_Subset
<1> QED BY <1>1, <1>3, <1>4, FS_Subset, FS_CardinalityType
-----------------------------------------------------------------------------
(* The application obeys the kernel's discipline *)

LEMMA AppStepIsSemStep ==
    ASSUME NoOneshot, HF_current_task \in Slots, [AppNext]_allVars
    PROVE  [SemNext]_vars /\ NoOneshot'
<1>1. CASE UNCHANGED allVars
  BY <1>1 DEF allVars, vars, tableVars, NoOneshot
<1>2. CASE ApplicationMain
  <2>1. CASE \E s \in Sems, v \in InitialValues : HF_SemInit(s, v)
    BY <2>1 DEF SemNext, SemCalls, NoOneshot, HF_SemInit, tableVars
  <2>2. CASE HF_AddTask(FALSE, TRUE)
    <3>1. NoOneshot'
      BY <2>2 DEF HF_AddTask, NoOneshot
    <3> QED BY <2>2, <3>1 DEF SemNext
  <2>3. CASE HF_Start
    BY <2>3 DEF SemNext, NoOneshot, HF_Start, tableVars
  <2> QED BY <1>2, <2>1, <2>2, <2>3, TasksAreSlots DEF ApplicationMain
<1>3. ASSUME NEW t \in Tasks, TaskStep(t)
      PROVE  [SemNext]_vars /\ NoOneshot'
  <2>1. CASE \E s \in Sems : HF_SemWait(s)
    BY <2>1 DEF SemNext, NoOneshot, HF_SemWait, tableVars
  <2>2. CASE \E s \in Sems : HF_SemPost(s)
    BY <2>2 DEF SemNext, SemCalls, NoOneshot, HF_SemPost, tableVars
  <2>3. CASE \E u \in Slots : HF_TaskYield(u)
    BY <2>3 DEF SemNext, Scheduling, NoOneshot, HF_TaskYield, tableVars
  <2>4. CASE UNCHANGED vars
    BY <2>4 DEF NoOneshot, vars, tableVars
  <2> QED BY <1>3, <2>1, <2>2, <2>3, <2>4, TasksAreSlots
          DEF TaskStep, producer, consumer, Call, YieldInWait
<1>4. ASSUME NEW u \in Slots, Tick(u)
      PROVE  [SemNext]_vars /\ NoOneshot'
  <2>1. HF_DispatcherISR(u)
    BY <1>4 DEF Tick
  <2>2. oneshot' = oneshot
    BY <2>1 DEF HF_DispatcherISR, FreeSlot, tableVars
  <2> QED BY <2>1, <2>2 DEF SemNext, Scheduling, NoOneshot
<1> QED BY <1>1, <1>2, <1>3, <1>4 DEF AppNext
-----------------------------------------------------------------------------
(* What the semaphore calls of a task change for the others *)

LEMMA WaitEffect ==
    ASSUME SemInv, NEW t \in Tasks, NEW s \in Sems, HF_SemWait(s), HF_current_task = t
    PROVE  /\ ~Asleep(t) /\ HF_schedule /\ HF_schedule'
           /\ count[s] \in Int /\ count' = [count EXCEPT ![s] = count[s] - 1]
           /\ count[s] > 0 => \A u \in Slots, r \in Sems : WaitsOn(u, r)' <=> WaitsOn(u, r)
           /\ count[s] <= 0 => \A u \in Slots, r \in Sems :
                                  WaitsOn(u, r)' <=> WaitsOn(u, r) \/ (u = t /\ r = s)
<1>1. /\ TypeOK /\ AsleepInside /\ t \in Slots
      /\ pc[t] = "run" /\ HF_schedule /\ HF_schedule' = HF_schedule
      /\ count' = [count EXCEPT ![s] = count[s] - 1]
  BY TasksAreSlots DEF SemInv, HF_SemWait, InTask
<1>2. status[t] # "waiting"
  BY <1>1 DEF AsleepInside
<1>3. count[s] \in Int
  BY <1>1 DEF TypeOK
<1>4. CASE count[s] > 0
  BY <1>1, <1>2, <1>3, <1>4 DEF HF_SemWait, MustWait, taskVars, WaitsOn, Asleep
<1>5. CASE count[s] <= 0
  <2>1. Enqueue(s, t)
    BY <1>3, <1>5 DEF HF_SemWait, MustWait
  <2> QED BY <1>1, <1>2, <1>3, <1>5, <2>1 DEF Enqueue, WaitsOn, Asleep, TypeOK
<1> QED BY <1>3, <1>4, <1>5

\* A post wakes the tasks of a set that is empty or a single one.
LEMMA PostEffect ==
    ASSUME SemInv, NEW t \in Tasks, NEW s \in Sems, HF_SemPost(s), HF_current_task = t
    PROVE  /\ ~Asleep(t) /\ HF_schedule /\ HF_schedule'
           /\ count[s] \in Int /\ count' = [count EXCEPT ![s] = count[s] + 1]
           /\ \E W \in SUBSET {u \in Slots : WaitsOn(u, s)} :
                 /\ count[s] >= 0 <=> W = {}
                 /\ \A u, v \in W : u = v
                 /\ \A u \in Slots, r \in Sems : WaitsOn(u, r)' <=> WaitsOn(u, r) /\ u \notin W
<1>1. /\ TypeOK /\ AsleepInside /\ t \in Slots
      /\ pc[t] = "run" /\ HF_schedule /\ HF_schedule' = HF_schedule
      /\ count' = [count EXCEPT ![s] = count[s] + 1]
      /\ inSem' = inSem
  BY TasksAreSlots DEF SemInv, HF_SemPost, InTask, taskVars
<1>2. ~Asleep(t)
  BY <1>1 DEF AsleepInside, Asleep, WaitsOn
<1>3. count[s] \in Int
  BY <1>1 DEF TypeOK
<1>4. CASE count[s] >= 0
  <2>1. \A u \in Slots, r \in Sems : WaitsOn(u, r)' <=> WaitsOn(u, r) /\ u \notin {}
    BY <1>1, <1>3, <1>4 DEF HF_SemPost, MustWake, WaitsOn
  <2>2. {} \in SUBSET {u \in Slots : WaitsOn(u, s)}
    OBVIOUS
  <2> QED BY <1>1, <1>2, <1>3, <1>4, <2>1, <2>2
<1>5. CASE count[s] < 0
  <2>1. PICK h \in Slots : WaitsOn(h, s) /\ status' = [status EXCEPT ![h] = "ready"]
    BY <1>3, <1>5, PostKeepsLines DEF MustWake
  <2>2. \A u \in Slots, r \in Sems : WaitsOn(u, r)' <=> WaitsOn(u, r) /\ u \notin {h}
    BY <1>1, <2>1 DEF WaitsOn, TypeOK
  <2>3. {h} \in SUBSET {u \in Slots : WaitsOn(u, s)} /\ {h} # {} /\ \A u, v \in {h} : u = v
    BY <2>1
  <2>4. count[s] >= 0 <=> {h} = {}
    BY <1>3, <1>5, <2>3
  <2>5. \E W \in SUBSET {u \in Slots : WaitsOn(u, s)} :
           /\ count[s] >= 0 <=> W = {}
           /\ \A u, v \in W : u = v
           /\ \A u \in Slots, r \in Sems : WaitsOn(u, r)' <=> WaitsOn(u, r) /\ u \notin W
    BY <2>2, <2>3, <2>4, Zenon
  <2> QED BY <1>1, <1>2, <1>3, <2>5
<1> QED BY <1>3, <1>4, <1>5
-----------------------------------------------------------------------------
(* Steps that call no semaphore *)

Moves(t, x) == \A u \in Tasks : at'[u] = IF u = t THEN x ELSE at[u]

LEMMA GotoMoves ==
    ASSUME AppType, NEW t \in Tasks, NEW x, Goto(t, x)
    PROVE  Moves(t, x)
BY DEF Goto, Moves, AppType

LEMMA SameAsleep ==
    ASSUME SameSleepers
    PROVE  \A u \in Tasks : Asleep(u)' <=> Asleep(u)
BY TasksAreSlots DEF SameSleepers, Asleep

\* Ticks, context switches and the kernel's other work.
LEMMA QuietKeeps ==
    ASSUME Running, SameSleepers, UNCHANGED <<count, at, buffer, in, out>>
    PROVE  Running'
<1>1. \A u \in Tasks : (Asleep(u)' <=> Asleep(u)) /\ (Owner(u)' <=> Owner(u))
  BY SameAsleep DEF Owner
<1>2. Claims' = Claims /\ Filled' = Filled
  <2>1. Claims' = Claims
    BY <1>1 DEF Claims
  <2> QED BY <2>1 DEF Filled
<1>3. WhereAsleep' /\ OneOwner'
  BY <1>1, TasksAreSlots DEF Running, WhereAsleep, OneOwner, SameSleepers
<1>4. Accounted' /\ RingFilled'
  BY <1>2 DEF Running, Accounted, RingFilled, Items, First, Last, Free
<1> QED BY <1>3, <1>4 DEF Running

\* The ring as a step sees it that neither writes it nor moves an index.
LEMMA RingKept ==
    ASSUME RingFilled, NEW t \in Tasks, NEW x, Moves(t, x),
           at[t] # "advance", x # "advance",
           UNCHANGED <<buffer, in, out>>, Items' = Items
    PROVE  RingFilled'
<1>1. \A u \in Tasks : at'[u] = "advance" <=> at[u] = "advance"
  BY DEF Moves
<1>2. First' = First /\ Last' = Last
  BY <1>1, TasksAreSlots DEF First, Last
<1> QED BY <1>2 DEF RingFilled
-----------------------------------------------------------------------------
(* The semaphore m *)

LEMMA EnterKeeps ==
    ASSUME SemInv, AppType, Running, NEW t \in Tasks,
           Call(t, "enter", HF_SemWait(m), "access")
    PROVE  Running'
<1>1. /\ at[t] = "enter" /\ HF_current_task = t /\ HF_SemWait(m) /\ Moves(t, "access")
      /\ UNCHANGED <<buffer, in, out>> /\ t \in Slots
  BY GotoMoves, TasksAreSlots DEF Call, At
<1>2. /\ ~Asleep(t)
      /\ count[m] \in Int /\ count' = [count EXCEPT ![m] = count[m] - 1]
      /\ count[m] > 0 => \A u \in Slots, r \in Sems : WaitsOn(u, r)' <=> WaitsOn(u, r)
      /\ count[m] <= 0 => \A u \in Slots, r \in Sems :
                             WaitsOn(u, r)' <=> WaitsOn(u, r) \/ (u = t /\ r = m)
  BY <1>1, WaitEffect, TasksAreSlots
<1>3. \A u \in Tasks : Asleep(u)' <=> Asleep(u) \/ (count[m] <= 0 /\ u = t)
  BY <1>2, TasksAreSlots DEF Asleep
<1>4. count'[m] = count[m] - 1 /\ count'[empty] = count[empty] /\ count'[full] = count[full]
  BY <1>2, TasksAreSlots DEF SemInv, TypeOK
<1>5. Claims' = Claims
  BY <1>1, <1>2, <1>3 DEF Claims, Moves
<1>6. Filled' = Filled
  <2>1. \A u \in Claims : u \in Tasks /\ (u = t => ~Asleep(t))
    BY <1>2 DEF Claims
  <2> QED BY <1>1, <1>5, <2>1, TasksAreSlots DEF Filled, Moves
<1>7. WhereAsleep'
  BY <1>1, <1>2, TasksAreSlots DEF Running, WhereAsleep, Moves, Asleep
<1>8. OneOwner'
  <2>1. \A u \in Tasks : Owner(u)' <=> IF u = t THEN count[m] > 0 ELSE Owner(u)
    BY <1>1, <1>2, <1>3 DEF Owner, Moves
  <2> QED BY <1>2, <1>4, <2>1 DEF Running, OneOwner
<1>9. Accounted' /\ RingFilled'
  <2>1. Items' = Items /\ Free(empty)' = Free(empty) /\ Free(full)' = Free(full)
    BY <1>4, <1>6 DEF Items, Free
  <2> QED BY <1>1, <1>5, <2>1, RingKept DEF Running, Accounted
<1> QED BY <1>7, <1>8, <1>9 DEF Running

LEMMA LeaveKeeps ==
    ASSUME SemInv, AppType, Running, NEW t \in Tasks,
           Call(t, "leave", HF_SemPost(m), "signal")
    PROVE  Running'
<1>1. /\ at[t] = "leave" /\ HF_current_task = t /\ HF_SemPost(m) /\ Moves(t, "signal")
      /\ UNCHANGED <<buffer, in, out>> /\ t \in Slots
  BY GotoMoves, TasksAreSlots DEF Call, At
<1>2. /\ ~Asleep(t)
      /\ count[m] \in Int /\ count' = [count EXCEPT ![m] = count[m] + 1]
  BY <1>1, PostEffect, TasksAreSlots
<1>3. count'[m] = count[m] + 1 /\ count'[empty] = count[empty] /\ count'[full] = count[full]
  BY <1>2, TasksAreSlots DEF SemInv, TypeOK
<1>4. Owner(t) /\ count[m] <= 0
  BY <1>1, <1>2 DEF Owner, Running, OneOwner
<1>5. PICK W \in SUBSET {u \in Slots : WaitsOn(u, m)} :
         /\ count[m] >= 0 <=> W = {}
         /\ \A u, v \in W : u = v
         /\ \A u \in Slots, r \in Sems : WaitsOn(u, r)' <=> WaitsOn(u, r) /\ u \notin W
  BY <1>1, PostEffect, TasksAreSlots
<1>6. \A u \in W : u \in Tasks /\ at[u] = "access" /\ Asleep(u)
  BY <1>5, TasksAreSlots DEF Running, WhereAsleep, Asleep
<1>7. t \notin W /\ \A u \in Tasks : Asleep(u)' <=> Asleep(u) /\ u \notin W
  BY <1>2, <1>5, <1>6, TasksAreSlots DEF Asleep
<1>8. Claims' = Claims
  BY <1>1, <1>6, <1>7 DEF Claims, Moves
<1>9. Filled' = Filled
  BY <1>1, <1>8, TasksAreSlots DEF Filled, Moves, Claims
<1>10. WhereAsleep'
  BY <1>1, <1>2, <1>5, TasksAreSlots DEF Running, WhereAsleep, Moves, Asleep
<1>11. OneOwner'
  <2>1. \A u \in Tasks : Owner(u)' <=> u \in W
    BY <1>1, <1>4, <1>6, <1>7 DEF Owner, Moves, Running, OneOwner
  <2>2. ASSUME NEW u \in W PROVE count[m] < 0
    <3>1. W # {}
      BY Zenon
    <3>2. ~(count[m] >= 0)
      BY <1>5, <3>1, Zenon
    <3> QED BY <1>2, <3>2
  <2>3. \A u, v \in Tasks : Owner(u)' /\ Owner(v)' => u = v
    BY <1>5, <2>1
  <2>4. count'[m] <= 1 /\ (count[m] < 0 => count'[m] <= 0)
    BY <1>2, <1>3, <1>4
  <2>5. \A u \in Tasks : Owner(u)' => count'[m] <= 0
    BY <2>1, <2>2, <2>4
  <2> QED BY <2>3, <2>4, <2>5 DEF OneOwner
<1>12. Accounted' /\ RingFilled'
  <2>1. Items' = Items /\ Free(empty)' = Free(empty) /\ Free(full)' = Free(full)
    BY <1>3, <1>9 DEF Items, Free
  <2> QED BY <1>1, <1>8, <2>1, RingKept DEF Running, Accounted
<1> QED BY <1>10, <1>11, <1>12 DEF Running
-----------------------------------------------------------------------------
(* The semaphores empty and full *)

LEMMA Grow ==
    ASSUME NEW S, IsFiniteSet(S), NEW x, x \notin S
    PROVE  Cardinality(S \cup {x}) = Cardinality(S) + 1
BY FS_AddElement

LEMMA Shrink ==
    ASSUME NEW S, IsFiniteSet(S), NEW x \in S
    PROVE  Cardinality(S \ {x}) = Cardinality(S) - 1
BY FS_RemoveElement

LEMMA Swap ==
    ASSUME NEW S, IsFiniteSet(S), NEW x \in S, NEW y, y \notin S
    PROVE  Cardinality((S \ {x}) \cup {y}) = Cardinality(S)
<1>1. IsFiniteSet(S \ {x}) /\ Cardinality(S \ {x}) = Cardinality(S) - 1
  BY FS_RemoveElement
<1>2. Cardinality((S \ {x}) \cup {y}) = Cardinality(S \ {x}) + 1
  BY <1>1, FS_AddElement
<1> QED BY <1>1, <1>2, FS_CardinalityType

\* A producer waits for an empty cell, a consumer for a full one.
LEMMA ClaimKeeps ==
    ASSUME SemInv, AppType, Running, NEW t \in Tasks,
           NEW s \in {empty, full}, s = empty <=> t \in ProducerTasks,
           Call(t, "claim", HF_SemWait(s), "enter")
    PROVE  Running'
<1>1. /\ at[t] = "claim" /\ HF_current_task = t /\ HF_SemWait(s) /\ Moves(t, "enter")
      /\ UNCHANGED <<buffer, in, out>> /\ t \in Slots /\ s \in Sems
  BY GotoMoves, TasksAreSlots DEF Call, At
<1>2. /\ ~Asleep(t)
      /\ count[s] \in Int /\ count' = [count EXCEPT ![s] = count[s] - 1]
      /\ count[s] > 0 => \A u \in Slots, r \in Sems : WaitsOn(u, r)' <=> WaitsOn(u, r)
      /\ count[s] <= 0 => \A u \in Slots, r \in Sems :
                             WaitsOn(u, r)' <=> WaitsOn(u, r) \/ (u = t /\ r = s)
  BY <1>1, WaitEffect
<1>3. \A u \in Tasks : Asleep(u)' <=> Asleep(u) \/ (count[s] <= 0 /\ u = t)
  BY <1>1, <1>2, TasksAreSlots DEF Asleep
<1>4. \A r \in Sems : count'[r] = IF r = s THEN count[s] - 1 ELSE count[r]
  BY <1>1, <1>2 DEF SemInv, TypeOK
<1>5. WhereAsleep'
  BY <1>1, <1>2, TasksAreSlots DEF Running, WhereAsleep, Moves, Asleep
<1>6. OneOwner'
  <2>1. \A u \in Tasks : Owner(u)' <=> Owner(u)
    BY <1>1, <1>3 DEF Owner, Moves
  <2> QED BY <1>1, <1>4, <2>1, TasksAreSlots DEF Running, OneOwner
<1>7. t \notin Claims /\ t \notin Filled
  BY <1>1 DEF Claims, Filled
<1>8. CASE count[s] > 0
  <2>0. \A u \in Tasks : Asleep(u)' <=> Asleep(u)
    BY <1>2, <1>3, <1>8
  <2>1. Claims' = Claims \cup {t}
    BY <1>1, <1>2, <2>0 DEF Claims, Moves
  <2>2. Filled' = IF s = empty THEN Filled ELSE Filled \cup {t}
    <3>1. \A u \in Claims : u # t /\ (u \in Filled' <=> u \in Filled)
      <4>1. \A u \in Claims : u # t /\ u \in Tasks /\ u \in Claims'
        BY <1>7, <2>1 DEF Claims
      <4>2. \A u \in Claims : at'[u] = at[u]
        BY <4>1, <1>1 DEF Moves
      <4> QED BY <4>1, <4>2 DEF Filled
    <3>2. t \in Filled' <=> s # empty
      BY <1>1, <2>1, TasksAreSlots DEF Filled, Moves, Claims
    <3>3. Filled' \subseteq Claims' /\ Filled \subseteq Claims
      BY DEF Filled
    <3> QED BY <1>7, <2>1, <3>1, <3>2, <3>3
  <2>3. Cardinality(Claims)' = Cardinality(Claims) + 1
    BY <1>7, <2>1, Grow, SetsFinite
  <2>4. Cardinality(Filled)' = IF s = empty THEN Cardinality(Filled) ELSE Cardinality(Filled) + 1
    BY <1>7, <2>2, Grow, SetsFinite
  <2>5. /\ Free(empty)' = IF s = empty THEN Free(empty) - 1 ELSE Free(empty)
        /\ Free(full)' = IF s = empty THEN Free(full) ELSE Free(full) - 1
        /\ Free(empty) \in Int /\ Free(full) \in Int
    BY <1>2, <1>4, <1>8, TasksAreSlots DEF Free, SemInv, TypeOK
  <2>6. Items' = Items
    BY <2>4, <2>5, SetsFinite DEF Items
  <2>7. Accounted'
    BY <2>3, <2>5, SetsFinite DEF Running, Accounted
  <2> QED BY <1>1, <1>5, <1>6, <2>6, <2>7, RingKept DEF Running
<1>9. CASE count[s] <= 0
  <2>1. Claims' = Claims
    BY <1>1, <1>3, <1>7, <1>9 DEF Claims, Moves
  <2>2. Filled' = Filled
    BY <1>1, <1>7, <2>1 DEF Filled, Moves, Claims
  <2>3. Free(empty)' = Free(empty) /\ Free(full)' = Free(full)
    BY <1>2, <1>4, <1>9, TasksAreSlots DEF Free
  <2>4. Items' = Items /\ Accounted'
    BY <2>1, <2>2, <2>3 DEF Items, Running, Accounted
  <2> QED BY <1>1, <1>5, <1>6, <2>4, RingKept DEF Running
<1> QED BY <1>2, <1>8, <1>9

\* A producer posts a full cell, a consumer an empty one; the unit goes to the
\* task at the head of the line, if there is one.
LEMMA SignalKeeps ==
    ASSUME SemInv, AppType, Running, NEW t \in Tasks,
           NEW s \in {empty, full}, s = full <=> t \in ProducerTasks,
           Call(t, "signal", HF_SemPost(s), "claim")
    PROVE  Running'
<1>1. /\ at[t] = "signal" /\ HF_current_task = t /\ HF_SemPost(s) /\ Moves(t, "claim")
      /\ UNCHANGED <<buffer, in, out>> /\ t \in Slots /\ s \in Sems
  BY GotoMoves, TasksAreSlots DEF Call, At
<1>2. /\ ~Asleep(t)
      /\ count[s] \in Int /\ count' = [count EXCEPT ![s] = count[s] + 1]
  BY <1>1, PostEffect
<1>3. PICK W \in SUBSET {u \in Slots : WaitsOn(u, s)} :
         /\ count[s] >= 0 <=> W = {}
         /\ \A u, v \in W : u = v
         /\ \A u \in Slots, r \in Sems : WaitsOn(u, r)' <=> WaitsOn(u, r) /\ u \notin W
  BY <1>1, PostEffect
<1>4. \A r \in Sems : count'[r] = IF r = s THEN count[s] + 1 ELSE count[r]
  BY <1>1, <1>2 DEF SemInv, TypeOK
<1>5. \A u \in W : /\ u \in Tasks /\ at[u] = "enter" /\ Asleep(u)
                   /\ u \in ProducerTasks <=> s = empty
  BY <1>1, <1>3, TasksAreSlots DEF Running, WhereAsleep, Asleep
<1>6. t \notin W /\ \A u \in Tasks : Asleep(u)' <=> Asleep(u) /\ u \notin W
  BY <1>2, <1>3, <1>5, TasksAreSlots DEF Asleep
<1>7. WhereAsleep'
  BY <1>1, <1>2, <1>3, TasksAreSlots DEF Running, WhereAsleep, Moves, Asleep
<1>8. OneOwner'
  <2>1. \A u \in Tasks : Owner(u)' <=> Owner(u)
    BY <1>1, <1>5, <1>6 DEF Owner, Moves
  <2> QED BY <1>1, <1>4, <2>1, TasksAreSlots DEF Running, OneOwner
<1>9. t \in Claims /\ (t \in Filled <=> s = full)
  BY <1>1 DEF Claims, Filled
<1>10. Claims' = (Claims \ {t}) \cup W
  BY <1>1, <1>5, <1>6 DEF Claims, Moves
<1>11. Filled' = IF s = full THEN (Filled \ {t}) \cup W ELSE Filled
  <2>1. empty # full /\ \A u \in Claims : u \in Tasks
    BY DEF Claims
  <2>2. CASE s = full
    BY <1>1, <1>5, <1>9, <1>10, <2>1, <2>2 DEF Filled, Moves
  <2>3. CASE s = empty
    BY <1>1, <1>5, <1>9, <1>10, <2>1, <2>3 DEF Filled, Moves
  <2> QED BY <2>1, <2>2, <2>3
<1>12. CASE W = {}
  <2>1. count[s] >= 0
    BY <1>3, <1>12
  <2>2. Cardinality(Claims)' = Cardinality(Claims) - 1
    BY <1>9, <1>10, <1>12, Shrink, SetsFinite
  <2>3. Cardinality(Filled)' = IF s = full THEN Cardinality(Filled) - 1 ELSE Cardinality(Filled)
    BY <1>9, <1>11, <1>12, Shrink, SetsFinite
  <2>4. /\ Free(empty)' = IF s = full THEN Free(empty) ELSE Free(empty) + 1
        /\ Free(full)' = IF s = full THEN Free(full) + 1 ELSE Free(full)
        /\ Free(empty) \in Int /\ Free(full) \in Int
    BY <1>2, <1>4, <2>1, TasksAreSlots DEF Free, SemInv, TypeOK
  <2>5. Items' = Items
    BY <2>3, <2>4, SetsFinite DEF Items
  <2>6. Accounted'
    BY <2>2, <2>4, SetsFinite DEF Running, Accounted
  <2> QED BY <1>1, <1>7, <1>8, <2>5, <2>6, RingKept DEF Running
<1>13. CASE W # {}
  <2>1. PICK h \in W : W = {h}
    BY <1>3, <1>13, Zenon
  <2>2. count[s] < 0
    <3>1. ~(count[s] >= 0)
      BY <1>3, <1>13, Zenon
    <3> QED BY <1>2, <3>1
  <2>3. h \notin Claims /\ h \notin Filled
    BY <1>5 DEF Claims, Filled
  <2>4. Cardinality(Claims)' = Cardinality(Claims)
    BY <1>9, <1>10, <2>1, <2>3, Swap, SetsFinite
  <2>5. Cardinality(Filled)' = Cardinality(Filled)
    BY <1>9, <1>11, <2>1, <2>3, Swap, SetsFinite
  <2>6. Free(empty)' = Free(empty) /\ Free(full)' = Free(full)
    BY <1>2, <1>4, <2>2, TasksAreSlots DEF Free
  <2>7. Items' = Items /\ Accounted'
    BY <2>4, <2>5, <2>6 DEF Items, Running, Accounted
  <2> QED BY <1>1, <1>7, <1>8, <2>7, RingKept DEF Running
<1> QED BY <1>12, <1>13
-----------------------------------------------------------------------------
(* The owner of m in the ring *)

LEMMA Awake ==
    ASSUME SemInv, NEW t \in Tasks, InTask, HF_current_task = t
    PROVE  ~Asleep(t)
BY TasksAreSlots DEF SemInv, AsleepInside, Asleep, WaitsOn, InTask

\* Who is about to use its cell has the indices as they are.
LEMMA AloneInRing ==
    ASSUME Running, NEW t \in Tasks, Owner(t)
    PROVE  \A u \in Tasks : at[u] = "advance" => u = t
<1> SUFFICES ASSUME NEW u \in Tasks, at[u] = "advance" PROVE u = t
  OBVIOUS
<1>1. ~Asleep(u)
  BY TasksAreSlots DEF Asleep, Running, WhereAsleep
<1> QED BY <1>1 DEF Owner, Running, OneOwner

\* What a step of an owner of m, inside, leaves as it is.
LEMMA InsideKeeps ==
    ASSUME AppType, Running, NEW t \in Tasks, Owner(t), UNCHANGED vars,
           NEW x \in {"advance", "leave"}, Moves(t, x)
    PROVE  /\ WhereAsleep' /\ OneOwner' /\ Accounted'
           /\ Claims' = Claims /\ Free(full)' = Free(full)
<1>1. UNCHANGED <<status, inSem, count>>
  BY DEF vars, semVars, taskVars
<1>2. \A u \in Slots, r \in Sems : WaitsOn(u, r)' <=> WaitsOn(u, r)
  BY <1>1 DEF WaitsOn
<1>3. \A u \in Tasks : Asleep(u)' <=> Asleep(u)
  BY <1>2, TasksAreSlots DEF Asleep
<1>4. ~Asleep(t) /\ t \in Slots
  BY TasksAreSlots DEF Owner
<1>5. WhereAsleep'
  BY <1>2, <1>4, TasksAreSlots DEF Running, WhereAsleep, Moves, Asleep
<1>6. \A u \in Tasks : Owner(u)' <=> Owner(u)
  BY <1>3 DEF Owner, Moves
<1>7. OneOwner'
  BY <1>1, <1>6 DEF Running, OneOwner
<1>8. Claims' = Claims
  BY <1>3 DEF Owner, Claims, Moves
<1>9. Accounted' /\ Free(full)' = Free(full)
  BY <1>1, <1>8 DEF Running, Accounted, Free
<1> QED BY <1>5, <1>7, <1>8, <1>9

\* The number of items never exceeds the ring, a producer that owns m finds a
\* cell left and a consumer that owns m an item.
LEMMA ItemsFit ==
    ASSUME SemInv, Running
    PROVE  /\ Items \in 0 .. N
           /\ \A t \in Claims : t \notin Filled => Items < N
           /\ \A t \in Filled : Items > 0
<1>1. Free(empty) \in Nat /\ Free(full) \in Nat
  BY TasksAreSlots DEF Free, SemInv, TypeOK
<1>2. Items \in 0 .. N
  BY <1>1, SetsFinite DEF Items, Running, Accounted
<1>3. ASSUME NEW t \in Claims, t \notin Filled PROVE Items < N
  <2>1. Filled \subseteq Claims \ {t} /\ IsFiniteSet(Claims \ {t})
    BY <1>3, SetsFinite, FS_RemoveElement
  <2>2. Cardinality(Filled) <= Cardinality(Claims \ {t})
    BY <2>1, FS_Subset
  <2>3. Cardinality(Claims \ {t}) = Cardinality(Claims) - 1
    BY <1>3, Shrink, SetsFinite
  <2> QED BY <1>1, <2>2, <2>3, SetsFinite DEF Items, Running, Accounted
<1>4. ASSUME NEW t \in Filled PROVE Items > 0
  <2>1. Cardinality(Filled) # 0
    BY <1>4, SetsFinite, FS_EmptySet
  <2> QED BY <1>1, <2>1, SetsFinite DEF Items
<1> QED BY <1>2, <1>3, <1>4

\* The cell of a producer is free, and the one of a consumer holds an item.
LEMMA UsefulCell ==
    ASSUME SemInv, AppType, Running, NEW t \in Tasks, Owner(t), at[t] = "access"
    PROVE  /\ First = out /\ Last = in
           /\ t \in Claims
           /\ t \in ProducerTasks => t \notin Filled /\ ~buffer[in] /\ Items < N
           /\ t \in ConsumerTasks => t \in Filled /\ buffer[out] /\ Items > 0
<1>1. First = out /\ Last = in
  BY AloneInRing, TasksAreSlots DEF First, Last
<1>2. t \in Claims /\ (t \in Filled <=> t \in ConsumerTasks)
  BY TasksAreSlots DEF Claims, Filled
<1>3. in \in 0 .. N - 1 /\ out \in 0 .. N - 1
  BY DEF AppType, Cells
<1>4. CASE t \in ProducerTasks
  <2>1. t \notin Filled /\ Items < N /\ Items \in Nat
    BY <1>2, <1>4, ItemsFit, TasksAreSlots
  <2>2. in = (out + Items) % N
    BY <1>1 DEF Running, RingFilled
  <2>3. \A k \in 0 .. Items - 1 : in # (out + k) % N
    <3> SUFFICES ASSUME NEW k \in 0 .. Items - 1, in = (out + k) % N PROVE FALSE
      OBVIOUS
    <3> DEFINE f == Items
    <3>1. k \in 0 .. N - 1 /\ f \in 0 .. N - 1 /\ k # f /\ (out + k) % N = (out + f) % N
      BY <2>1, <2>2
    <3> HIDE DEF f
    <3> QED BY <1>3, <3>1, ModDistinct
  <2>4. ~buffer[in]
    BY <1>1, <1>3, <2>3 DEF Running, RingFilled, Cells
  <2> QED BY <1>1, <1>2, <1>4, <2>1, <2>4, TasksAreSlots
<1>5. CASE t \in ConsumerTasks
  <2>1. t \in Filled /\ Items > 0 /\ Items \in Nat
    BY <1>2, <1>5, ItemsFit
  <2>2. 0 \in 0 .. Items - 1 /\ out = (out + 0) % N
    BY <1>3, <2>1
  <2>3. buffer[out]
    BY <1>1, <1>3, <2>2 DEF Running, RingFilled, Cells
  <2> QED BY <1>1, <1>2, <1>5, <2>1, <2>3, TasksAreSlots
<1> QED BY <1>4, <1>5, TasksAreSlots

\* A producer writes the cell behind the last item.
LEMMA WriteKeeps ==
    ASSUME SemInv, AppType, Running, NEW t \in ProducerTasks, Owner(t), at[t] = "access",
           UNCHANGED <<vars, in, out>>, Moves(t, "advance"),
           buffer' = [buffer EXCEPT ![in] = TRUE]
    PROVE  Running'
<1>1. t \in Tasks /\ t \notin ConsumerTasks
  BY TasksAreSlots
<1>2. /\ WhereAsleep' /\ OneOwner' /\ Accounted'
      /\ Claims' = Claims /\ Free(full)' = Free(full)
  BY <1>1, InsideKeeps
<1>3. /\ First = out /\ Last = in /\ t \in Claims /\ t \notin Filled
      /\ Items \in 0 .. N - 1
  BY <1>1, UsefulCell, ItemsFit
<1>4. First' = out /\ Last' = NextCell(in)
  <2>1. \A u \in ConsumerTasks : at'[u] # "advance"
    BY <1>1, AloneInRing, TasksAreSlots DEF Moves
  <2>2. at'[t] = "advance"
    BY <1>1 DEF Moves
  <2> QED BY <2>1, <2>2 DEF First, Last, NextCell
<1>5. Items' = Items + 1
  <2>0. \A u \in Claims : at'[u] = IF u = t THEN "advance" ELSE at[u]
    BY DEF Moves, Claims
  <2>1. Filled' = Filled \cup {t}
    BY <1>1, <1>2, <1>3, <2>0 DEF Filled
  <2>2. Cardinality(Filled)' = Cardinality(Filled) + 1
    BY <1>3, <2>1, Grow, SetsFinite
  <2>3. Free(full) \in Int
    BY TasksAreSlots DEF Free, SemInv, TypeOK
  <2> QED BY <1>2, <2>2, <2>3, SetsFinite DEF Items
<1>6. in \in 0 .. N - 1 /\ out \in 0 .. N - 1
  BY DEF AppType, Cells
<1>7. PICK f \in 0 .. N - 1 : f = Items
  BY <1>3
<1>8. in = (out + f) % N /\ \A c \in Cells : buffer[c] <=> \E k \in 0 .. f - 1 : c = (out + k) % N
  BY <1>3, <1>7 DEF Running, RingFilled
<1>9. Last' = (First' + Items') % N
  <2>1. (((out + f) % N) + 1) % N = (out + f + 1) % N
    BY <1>6, ModSuccessor
  <2> QED BY <1>4, <1>5, <1>6, <1>7, <1>8, <2>1 DEF NextCell
<1>10. \A c \in Cells : buffer'[c] <=> \E k \in 0 .. f : c = (out + k) % N
  <2> SUFFICES ASSUME NEW c \in Cells
               PROVE  buffer'[c] <=> \E k \in 0 .. f : c = (out + k) % N
    OBVIOUS
  <2>1. buffer'[c] <=> c = in \/ buffer[c]
    BY DEF AppType
  <2>2. 0 .. f = (0 .. f - 1) \cup {f}
    OBVIOUS
  <2> QED BY <1>8, <2>1, <2>2
<1>11. RingFilled'
  <2>1. Items' - 1 = f
    BY <1>5, <1>7
  <2> QED BY <1>4, <1>9, <1>10, <2>1 DEF RingFilled, Cells
<1> QED BY <1>2, <1>11 DEF Running

\* A consumer takes the first item.
LEMMA TakeKeeps ==
    ASSUME SemInv, AppType, Running, NEW t \in ConsumerTasks, Owner(t), at[t] = "access",
           UNCHANGED <<vars, in, out>>, Moves(t, "advance"),
           buffer' = [buffer EXCEPT ![out] = FALSE]
    PROVE  Running'
<1>1. t \in Tasks /\ t \notin ProducerTasks
  BY TasksAreSlots
<1>2. /\ WhereAsleep' /\ OneOwner' /\ Accounted'
      /\ Claims' = Claims /\ Free(full)' = Free(full)
  BY <1>1, InsideKeeps
<1>3. /\ First = out /\ Last = in /\ t \in Filled
      /\ Items \in 1 .. N
  BY <1>1, UsefulCell, ItemsFit
<1>4. First' = NextCell(out) /\ Last' = in
  <2>1. \A u \in ProducerTasks : at'[u] # "advance"
    BY <1>1, AloneInRing, TasksAreSlots DEF Moves
  <2>2. at'[t] = "advance"
    BY <1>1 DEF Moves
  <2> QED BY <2>1, <2>2 DEF First, Last, NextCell
<1>5. Items' = Items - 1
  <2>0. \A u \in Claims : at'[u] = IF u = t THEN "advance" ELSE at[u]
    BY DEF Moves, Claims
  <2>1. Filled' = Filled \ {t}
    BY <1>1, <1>2, <1>3, <2>0 DEF Filled
  <2>2. Cardinality(Filled)' = Cardinality(Filled) - 1
    BY <1>3, <2>1, Shrink, SetsFinite
  <2>3. Free(full) \in Int
    BY TasksAreSlots DEF Free, SemInv, TypeOK
  <2> QED BY <1>2, <2>2, <2>3, SetsFinite DEF Items
<1>6. in \in 0 .. N - 1 /\ out \in 0 .. N - 1
  BY DEF AppType, Cells
<1>7. PICK f \in 1 .. N : f = Items
  BY <1>3
<1>8. in = (out + f) % N /\ \A c \in Cells : buffer[c] <=> \E k \in 0 .. f - 1 : c = (out + k) % N
  BY <1>3, <1>7 DEF Running, RingFilled
<1>9. \A k \in 0 .. f - 2 : (((out + 1) % N) + k) % N = (out + (k + 1)) % N
  <2> SUFFICES ASSUME NEW k \in 0 .. f - 2
               PROVE  (((out + 1) % N) + k) % N = (out + (k + 1)) % N
    OBVIOUS
  <2> DEFINE j == k + 1
  <2>1. j \in Nat \ {0} /\ j - 1 = k
    OBVIOUS
  <2> HIDE DEF j
  <2>2. (((out + 1) % N) + (j - 1)) % N = (out + j) % N
    BY <1>6, <2>1, ModShift
  <2> QED BY <2>1, <2>2 DEF j
<1>10. Last' = (First' + Items') % N
  <2>1. (((out + 1) % N) + (f - 1)) % N = (out + f) % N
    BY <1>6, ModShift
  <2> QED BY <1>4, <1>5, <1>7, <1>8, <2>1 DEF NextCell
<1>11. \A c \in Cells : buffer'[c] <=> \E k \in 0 .. f - 2 : c = (((out + 1) % N) + k) % N
  <2> SUFFICES ASSUME NEW c \in Cells
               PROVE  buffer'[c] <=> \E k \in 0 .. f - 2 : c = (out + (k + 1)) % N
    BY <1>9
  <2>1. buffer'[c] <=> c # out /\ buffer[c]
    BY DEF AppType
  <2>2. \A k \in 0 .. f - 1 : (out + k) % N = out => k = 0
    <3> SUFFICES ASSUME NEW k \in 0 .. f - 1, (out + k) % N = out PROVE k = 0
      OBVIOUS
    <3>1. k \in 0 .. N - 1 /\ 0 \in 0 .. N - 1 /\ (out + 0) % N = out
      BY <1>6
    <3> QED BY <1>6, <3>1, ModDistinct
  <2>3. (out + 0) % N = out
    BY <1>6
  <2>4. ASSUME c # out, buffer[c] PROVE \E k \in 0 .. f - 2 : c = (out + (k + 1)) % N
    <3>1. PICK j \in 0 .. f - 1 : c = (out + j) % N
      BY <1>8, <2>4
    <3>2. j # 0
      BY <2>3, <2>4, <3>1
    <3>3. j - 1 \in 0 .. f - 2 /\ (j - 1) + 1 = j
      BY <3>2
    <3> QED BY <3>1, <3>3
  <2>5. ASSUME NEW k \in 0 .. f - 2, c = (out + (k + 1)) % N PROVE c # out /\ buffer[c]
    <3>1. k + 1 \in 0 .. f - 1 /\ k + 1 # 0
      OBVIOUS
    <3> QED BY <1>8, <2>2, <2>5, <3>1
  <2> QED BY <2>1, <2>4, <2>5
<1>12. RingFilled'
  <2>1. Items' - 1 = f - 2
    BY <1>5, <1>7
  <2> QED BY <1>4, <1>10, <1>11, <2>1 DEF RingFilled, NextCell, Cells
<1> QED BY <1>2, <1>12 DEF Running

\* The index moves on, as First and Last have taken into account.
LEMMA AdvanceKeeps ==
    ASSUME SemInv, AppType, Running, NEW t \in Tasks, Owner(t), at[t] = "advance",
           UNCHANGED <<vars, buffer>>, Moves(t, "leave"),
           IF t \in ProducerTasks THEN in' = NextCell(in) /\ out' = out
                                  ELSE in' = in /\ out' = NextCell(out)
    PROVE  Running'
<1>1. /\ WhereAsleep' /\ OneOwner' /\ Accounted'
      /\ Claims' = Claims /\ Free(full)' = Free(full)
  BY InsideKeeps
<1>2. \A u \in Tasks : at[u] = "advance" <=> u = t
  BY AloneInRing
<1>3. \A u \in Tasks : at'[u] # "advance"
  BY <1>2 DEF Moves
<1>4. First' = First /\ Last' = Last
  BY <1>2, <1>3, TasksAreSlots DEF First, Last, NextCell
<1>5. Filled' = Filled
  BY <1>1, TasksAreSlots DEF Filled, Moves, Claims
<1>6. RingFilled'
  BY <1>1, <1>4, <1>5 DEF Running, RingFilled, Items
<1> QED BY <1>1, <1>6 DEF Running
-----------------------------------------------------------------------------
(* Every step keeps the invariant *)

LEMMA NextCellType == \A c \in Cells : NextCell(c) \in Cells
<1> SUFFICES ASSUME NEW c \in 0 .. N - 1 PROVE (c + 1) % N \in 0 .. N - 1
  BY DEF NextCell, Cells
<1>1. c + 1 \in Nat
  OBVIOUS
<1> QED BY <1>1, ModRange

LEMMA AppTypeKept ==
    ASSUME AppType, [AppNext]_allVars
    PROVE  AppType'
<1>1. CASE UNCHANGED allVars
  BY <1>1 DEF allVars, appVars, AppType
<1>2. CASE ApplicationMain
  BY <1>2 DEF ApplicationMain, AppType
<1>3. ASSUME NEW t \in Tasks, TaskStep(t) PROVE AppType'
  BY <1>3, NextCellType DEF TaskStep, producer, consumer, Call, Goto, YieldInWait, appVars, AppType
<1>4. CASE \E u \in Slots : Tick(u)
  BY <1>4 DEF Tick, appVars, AppType
<1> QED BY <1>1, <1>2, <1>3, <1>4 DEF AppNext

LEMMA SwitchQuiet ==
    ASSUME SemInv, CurrentAlive, Running, NEW u \in Slots,
           HF_DispatcherISR(u) \/ HF_TaskYield(u), UNCHANGED appVars
    PROVE  Running'
<1>1. SameSleepers /\ UNCHANGED semVars
  BY SwitchKeeps
<1>2. UNCHANGED <<count, at, buffer, in, out>>
  BY <1>1 DEF semVars, appVars
<1> QED BY <1>1, <1>2, QuietKeeps

LEMMA TaskKeeps ==
    ASSUME AppInv, NEW t \in Tasks, TaskStep(t)
    PROVE  HF_schedule /\ HF_schedule' /\ Running' /\ boot' = boot
<1>0. SemInv /\ CurrentAlive /\ AppType
  BY DEF AppInv
<1>1. HF_schedule /\ HF_schedule' /\ boot' = boot
  BY DEF TaskStep, producer, consumer, Call, At, InTask, YieldInWait, HF_TaskYield,
         HF_SemWait, HF_SemPost, appVars, vars
<1>2. Running
  BY <1>1 DEF AppInv
<1> SUFFICES Running'
  BY <1>1
<1>3. CASE YieldInWait(t)
  BY <1>0, <1>2, <1>3, SwitchQuiet DEF YieldInWait
<1>4. CASE t \in ProducerTasks /\ producer(t)
  <2>1. CASE Call(t, "claim", HF_SemWait(empty), "enter")
    BY <1>0, <1>2, <1>4, <2>1, ClaimKeeps
  <2>2. CASE Call(t, "enter", HF_SemWait(m), "access")
    BY <1>0, <1>2, <2>2, EnterKeeps
  <2>3. CASE /\ At(t, "access")
             /\ buffer' = [buffer EXCEPT ![in] = TRUE]
             /\ Goto(t, "advance")
             /\ UNCHANGED <<vars, boot, in, out>>
    <3>1. Owner(t) /\ at[t] = "access" /\ Moves(t, "advance")
      BY <1>0, <2>3, Awake, GotoMoves DEF At, Owner
    <3> QED BY <1>0, <1>2, <1>4, <2>3, <3>1, WriteKeeps
  <2>4. CASE /\ At(t, "advance")
             /\ in' = NextCell(in)
             /\ Goto(t, "leave")
             /\ UNCHANGED <<vars, boot, buffer, out>>
    <3>1. Owner(t) /\ at[t] = "advance" /\ Moves(t, "leave")
      BY <1>0, <2>4, Awake, GotoMoves DEF At, Owner
    <3> QED BY <1>0, <1>2, <1>4, <2>4, <3>1, AdvanceKeeps
  <2>5. CASE Call(t, "leave", HF_SemPost(m), "signal")
    BY <1>0, <1>2, <2>5, LeaveKeeps
  <2>6. CASE Call(t, "signal", HF_SemPost(full), "claim")
    BY <1>0, <1>2, <1>4, <2>6, SignalKeeps
  <2> QED BY <1>4, <2>1, <2>2, <2>3, <2>4, <2>5, <2>6 DEF producer
<1>5. CASE t \in ConsumerTasks /\ consumer(t)
  <2>0. t \notin ProducerTasks
    BY <1>5, TasksAreSlots
  <2>1. CASE Call(t, "claim", HF_SemWait(full), "enter")
    BY <1>0, <1>2, <2>0, <2>1, ClaimKeeps
  <2>2. CASE Call(t, "enter", HF_SemWait(m), "access")
    BY <1>0, <1>2, <2>2, EnterKeeps
  <2>3. CASE /\ At(t, "access")
             /\ buffer' = [buffer EXCEPT ![out] = FALSE]
             /\ Goto(t, "advance")
             /\ UNCHANGED <<vars, boot, in, out>>
    <3>1. Owner(t) /\ at[t] = "access" /\ Moves(t, "advance")
      BY <1>0, <2>3, Awake, GotoMoves DEF At, Owner
    <3> QED BY <1>0, <1>2, <1>5, <2>3, <3>1, TakeKeeps
  <2>4. CASE /\ At(t, "advance")
             /\ out' = NextCell(out)
             /\ Goto(t, "leave")
             /\ UNCHANGED <<vars, boot, buffer, in>>
    <3>1. Owner(t) /\ at[t] = "advance" /\ Moves(t, "leave")
      BY <1>0, <2>4, Awake, GotoMoves DEF At, Owner
    <3> QED BY <1>0, <1>2, <2>0, <2>4, <3>1, AdvanceKeeps
  <2>5. CASE Call(t, "leave", HF_SemPost(m), "signal")
    BY <1>0, <1>2, <2>5, LeaveKeeps
  <2>6. CASE Call(t, "signal", HF_SemPost(empty), "claim")
    BY <1>0, <1>2, <2>0, <2>6, SignalKeeps
  <2> QED BY <1>5, <2>1, <2>2, <2>3, <2>4, <2>5, <2>6 DEF consumer
<1> QED BY <1>3, <1>4, <1>5 DEF TaskStep

\* The state in which HF_Start finds the application.
LEMMA StartRuns ==
    ASSUME SemInv, AppType, Booting, ~HF_schedule, boot >= 3, HF_Start,
           UNCHANGED <<at, buffer, in, out>>
    PROVE  Running'
<1>1. /\ \A t \in Tasks : at'[t] = "claim"
      /\ \A c \in Cells : ~buffer'[c]
      /\ in' = 0 /\ out' = 0
  BY DEF Booting
<1>2. count'[empty] = N /\ count'[full] = 0 /\ count'[m] = 1
  BY DEF Booting, HF_Start, semVars, AppType
<1>3. \A t \in Slots, s \in Sems : ~WaitsOn(t, s)'
  BY DEF HF_Start, SemInv, AsleepInside, WaitsOn
<1>4. WhereAsleep'
  BY <1>3, TasksAreSlots DEF WhereAsleep
<1>5. OneOwner'
  BY <1>1, <1>2 DEF OneOwner, Owner
<1>6. Claims' = {} /\ Filled' = {}
  <2>1. Claims' = {}
    BY <1>1 DEF Claims
  <2> QED BY <2>1 DEF Filled
<1>7. Cardinality(Claims)' = 0 /\ Cardinality(Filled)' = 0
  BY <1>6, FS_EmptySet
<1>8. Accounted' /\ Items' = 0
  BY <1>2, <1>7 DEF Accounted, Items, Free
<1>9. First' = 0 /\ Last' = 0
  BY <1>1, TasksAreSlots DEF First, Last
<1>10. RingFilled'
  BY <1>1, <1>8, <1>9 DEF RingFilled, Cells
<1> QED BY <1>4, <1>5, <1>8, <1>10 DEF Running

LEMMA BootKeeps ==
    ASSUME AppInv, ApplicationMain
    PROVE  Booting' /\ (HF_schedule' => Running')
<1>0. SemInv /\ AppType /\ Booting /\ TypeOK /\ boot \in Nat
  BY DEF AppInv, SemInv, AppType
<1>1. boot <= Producers + Consumers + 3 /\ ~HF_schedule
  <2>1. boot \in {0, 1, 2, Producers + Consumers + 3} \/ boot \in 3 .. Producers + Consumers + 2
    BY DEF ApplicationMain
  <2>2. boot <= Producers + Consumers + 3
    BY <2>1
  <2> QED BY <1>0, <2>2 DEF Booting
<1>2. /\ boot' = boot + 1 /\ UNCHANGED <<at, buffer, in, out>>
      /\ \A t \in Tasks : at[t] = "claim"
      /\ \A c \in Cells : ~buffer[c]
      /\ in = 0 /\ out = 0
  BY <1>0, <1>1 DEF ApplicationMain, Booting
<1>3. ASSUME NEW s \in Sems, NEW v \in InitialValues, HF_SemInit(s, v)
      PROVE  ~HF_schedule' /\ \A r \in Sems : count'[r] = IF r = s THEN v ELSE count[r]
  BY <1>0, <1>1, <1>3 DEF HF_SemInit, TypeOK
<1>4. empty \in Sems /\ full \in Sems /\ m \in Sems /\ empty # full /\ empty # m /\ full # m
  BY TasksAreSlots
<1>5. CASE boot = 0 /\ HF_SemInit(empty, N)
  BY <1>0, <1>2, <1>3, <1>4, <1>5 DEF Booting
<1>6. CASE boot = 1 /\ HF_SemInit(full, 0)
  BY <1>0, <1>1, <1>2, <1>3, <1>4, <1>6 DEF Booting
<1>7. CASE boot = 2 /\ HF_SemInit(m, 1)
  BY <1>0, <1>1, <1>2, <1>3, <1>4, <1>7 DEF Booting
<1>8. CASE boot \in 3 .. Producers + Consumers + 2 /\ HF_AddTask(FALSE, TRUE)
  <2>1. UNCHANGED <<HF_schedule, count>>
    BY <1>8 DEF HF_AddTask, semVars
  <2> QED BY <1>0, <1>1, <1>2, <1>8, <2>1 DEF Booting
<1>9. CASE boot = Producers + Consumers + 3 /\ HF_Start
  <2>1. Running'
    BY <1>0, <1>1, <1>2, <1>9, StartRuns
  <2>2. HF_schedule' /\ boot' > Producers + Consumers + 3
    BY <1>2, <1>9 DEF HF_Start
  <2> QED BY <2>1, <2>2 DEF Booting
<1> QED BY <1>5, <1>6, <1>7, <1>8, <1>9 DEF ApplicationMain

LEMMA AppStepKeeps ==
    ASSUME AppInv, [AppNext]_allVars
    PROVE  AppInv'
<1>0. SemInv /\ CurrentAlive /\ AppType /\ NoOneshot /\ Booting /\ HF_current_task \in Slots
  BY DEF AppInv, SemInv, TypeOK
<1>1. (SemInv /\ CurrentAlive)' /\ NoOneshot'
  BY <1>0, AppStepIsSemStep, SemStepKeeps
<1>2. AppType'
  BY <1>0, AppTypeKept
<1>3. Booting' /\ (HF_schedule' => Running')
  <2>1. CASE ApplicationMain
    BY <2>1, BootKeeps
  <2>2. ASSUME NEW t \in Tasks, TaskStep(t) PROVE Booting' /\ (HF_schedule' => Running')
    BY <1>0, <2>2, TaskKeeps DEF Booting
  <2>3. ASSUME NEW u \in Slots, Tick(u) PROVE Booting' /\ (HF_schedule' => Running')
    <3>1. HF_DispatcherISR(u) /\ UNCHANGED appVars /\ HF_schedule /\ HF_schedule'
      BY <2>3 DEF Tick, HF_DispatcherISR
    <3>2. Running'
      BY <1>0, <3>1, SwitchQuiet DEF AppInv
    <3>3. boot' = boot
      BY <3>1 DEF appVars
    <3> QED BY <1>0, <3>1, <3>2, <3>3 DEF Booting
  <2>4. CASE UNCHANGED allVars
    <3>1. UNCHANGED <<status, inSem, HF_schedule, count, at, boot, buffer, in, out>>
      BY <2>4 DEF allVars, appVars, vars, semVars, taskVars
    <3>2. SameSleepers
      BY <3>1 DEF SameSleepers, WaitsOn
    <3>3. HF_schedule' => Running'
      BY <3>1, <3>2, QuietKeeps DEF AppInv
    <3> QED BY <1>0, <3>1, <3>3 DEF Booting
  <2> QED BY <2>1, <2>2, <2>3, <2>4 DEF AppNext
<1> QED BY <1>1, <1>2, <1>3 DEF AppInv

LEMMA AppStarts == AppInit => AppInv
<1> SUFFICES ASSUME AppInit PROVE AppInv
  OBVIOUS
<1>1. Init
  BY DEF AppInit
<1>2. SemInv /\ CurrentAlive
  BY <1>1, SemStarts
<1>3. NoOneshot /\ ~HF_schedule
  BY <1>1 DEF Init, NoOneshot
<1>4. AppType
  BY DEF AppInit, AppType, Cells
<1>5. Booting
  BY <1>3 DEF AppInit, Booting, Cells
<1> QED BY <1>2, <1>3, <1>4, <1>5 DEF AppInv

LEMMA AppInvariant == AppSpec => []AppInv
BY AppStarts, AppStepKeeps, PTL DEF AppSpec
-----------------------------------------------------------------------------
\* sem_test.c is an application as the discipline of SemSpec allows them, so all
\* that is proved of the kernel's semaphores holds while it runs.
THEOREM AppObeysKernel == AppSpec => SemSpec
<1>1. AppInit => Init
  BY DEF AppInit
<1>2. AppInv /\ [AppNext]_allVars => [SemNext]_vars
  BY AppStepIsSemStep DEF AppInv, SemInv, TypeOK
<1> QED BY <1>1, <1>2, AppInvariant, PTL DEF AppSpec, SemSpec

\* Its semaphores keep the promise of module Semaphore, and no wake-up is lost.
THEOREM AppSemaphoresKept == AppSpec => ImplementsSemaphore /\ []WaitersQueued /\ []AsleepInside
BY AppObeysKernel, SemaphoreImplemented, WaitersQueuedAlways, AsleepInsideAlways

LEMMA InsideOwns ==
    ASSUME AppInv, NEW t \in Tasks, Inside(t)
    PROVE  HF_schedule /\ Owner(t)
<1>1. HF_schedule
  BY DEF AppInv, Booting, Inside
<1>2. ~Asleep(t)
  BY TasksAreSlots DEF AppInv, SemInv, AsleepInside, Asleep, WaitsOn, Inside
<1> QED BY <1>1, <1>2 DEF Inside, Owner

\* The units that the counters do not show are with the tasks that claim them.
LEMMA ClaimsCounted ==
    ASSUME AppInv
    PROVE  Cardinality(Claims) =
               Cardinality({t \in Tasks : at[t] = "enter" /\ pc[t] # "run" /\ status[t] # "waiting"})
             + Cardinality({t \in Tasks : Holding(t)})
<1> DEFINE woken == {t \in Tasks : at[t] = "enter" /\ pc[t] # "run" /\ status[t] # "waiting"}
           holding == {t \in Tasks : Holding(t)}
<1>1. AsleepInside
  BY DEF AppInv, SemInv
<1>2. \A t \in Tasks : Asleep(t) <=> status[t] = "waiting"
  BY <1>1, TasksAreSlots DEF AsleepInside, Asleep, WaitsOn
<1>3. \A t \in Tasks : status[t] = "waiting" => pc[t] # "run"
  BY <1>1, TasksAreSlots DEF AsleepInside
<1>4. Claims = woken \cup holding
  BY <1>2, <1>3 DEF Claims, Holding
<1>5. woken \cap holding = {}
  BY DEF Holding
<1>6. IsFiniteSet(woken) /\ IsFiniteSet(holding)
  <2>1. woken \subseteq Tasks /\ holding \subseteq Tasks
    OBVIOUS
  <2> HIDE DEF woken, holding
  <2> QED BY <2>1, SetsFinite, FS_Subset
<1> HIDE DEF woken, holding
<1>7. Cardinality(woken \cup holding) =
        Cardinality(woken) + Cardinality(holding) - Cardinality(woken \cap holding)
  BY <1>6, FS_Union
<1>8. Cardinality(woken \cap holding) = 0
  BY <1>5, FS_EmptySet
<1>9. Cardinality(woken) \in Nat /\ Cardinality(holding) \in Nat
  BY <1>6, FS_CardinalityType
<1>10. Cardinality(Claims) = Cardinality(woken) + Cardinality(holding)
  BY <1>4, <1>7, <1>8, <1>9
<1> QED BY <1>10 DEF woken, holding

LEMMA InvIsSafe == AppInv => RingSafe
<1> SUFFICES ASSUME AppInv PROVE RingSafe
  OBVIOUS
<1>1. SemInv /\ AppType /\ (HF_schedule => Running)
  BY DEF AppInv
<1>2. RingExclusive
  <2> SUFFICES ASSUME NEW t \in Tasks, NEW u \in Tasks, Inside(t), Inside(u) PROVE t = u
    BY DEF RingExclusive
  <2> QED BY <1>1, InsideOwns DEF Running, OneOwner
<1>3. AccessIsUseful
  <2> SUFFICES ASSUME NEW t \in Tasks, Inside(t), at[t] = "access"
               PROVE  IF t \in ProducerTasks THEN ~buffer[in] ELSE buffer[out]
    BY DEF AccessIsUseful
  <2>1. Owner(t) /\ Running
    BY <1>1, InsideOwns
  <2>2. /\ t \in ProducerTasks => ~buffer[in]
        /\ t \in ConsumerTasks => buffer[out]
    BY <1>1, <2>1, UsefulCell
  <2> QED BY <2>2, TasksAreSlots
<1>4. CellsAccounted
  <2> SUFFICES ASSUME HF_schedule
               PROVE  Free(empty) + Free(full)
                        + Cardinality({t \in Tasks : at[t] = "enter" /\ pc[t] # "run"
                                                        /\ status[t] # "waiting"})
                        + Cardinality({t \in Tasks : Holding(t)}) = N
    BY DEF CellsAccounted, Free
  <2>1. Free(empty) + Free(full) + Cardinality(Claims) = N
    BY <1>1 DEF Running, Accounted
  <2>2. Free(empty) \in Int /\ Free(full) \in Int
    BY <1>1, TasksAreSlots DEF Free, SemInv, TypeOK
  <2> DEFINE w == Cardinality({t \in Tasks : at[t] = "enter" /\ pc[t] # "run" /\ status[t] # "waiting"})
             h == Cardinality({t \in Tasks : Holding(t)})
  <2>3. w \in Nat /\ h \in Nat
    <3>1. {t \in Tasks : at[t] = "enter" /\ pc[t] # "run" /\ status[t] # "waiting"} \subseteq Tasks
      OBVIOUS
    <3>2. {t \in Tasks : Holding(t)} \subseteq Tasks
      OBVIOUS
    <3> QED BY <3>1, <3>2, SetsFinite, FS_Subset, FS_CardinalityType
  <2>4. Cardinality(Claims) = w + h
    BY ClaimsCounted
  <2> HIDE DEF w, h
  <2>5. Free(empty) + Free(full) + w + h = N
    BY <2>1, <2>2, <2>3, <2>4
  <2> QED BY <2>5 DEF w, h
<1> QED BY <1>2, <1>3, <1>4 DEF RingSafe

\* The ring of sem_test.c is used by one task at a time, every access finds the
\* cell as it should be, and the semaphores and the tasks together account for
\* every cell, for any ring and any number of producers and consumers.
THEOREM RingAlwaysSafe == AppSpec => []RingSafe
BY AppInvariant, InvIsSafe, PTL
=============================================================================
