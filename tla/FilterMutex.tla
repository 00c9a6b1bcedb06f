---------------------------- MODULE FilterMutex ----------------------------
(***************************************************************************)
(* The mutex of HellfireOS Lite (ukernel/mutex.c), Peterson's filter lock: *)
(* a task climbs the levels 1 .. MAX_TASKS - 1, and on each of them waits  *)
(* until every other task is below it or another one has come to its level *)
(* later.  It disables no interrupts, so a step is one access to the       *)
(* memory that the tasks share.  Of the two reads in the condition of the  *)
(* waiting loop one is enough to end it, so they need no step each.        *)
(*                                                                         *)
(* The array waiting has MAX_TASKS - 1 entries, so that the entry of the   *)
(* last level is the byte behind the mutex.  Whatever the linker put there *)
(* may change at any time (Clobber).                                       *)
(***************************************************************************)
EXTENDS Integers

CONSTANTS MAX_TASKS,
          Users         \* ids of the tasks that use the mutex

ASSUME MutexAssumption == MAX_TASKS \in Nat \ {0} /\ Users \subseteq 1 .. MAX_TASKS - 1

VARIABLES level,        \* task -> level it is on, 0 if outside
          waiting,      \* level -> task that came to it last
          pc,           \* user -> next step
          l, k          \* user -> its loop variables

vars == <<level, waiting, pc, l, k>>

Ids == 0 .. MAX_TASKS - 1

Levels == 1 .. MAX_TASKS - 1

\* A mutex is a global variable, so it starts with zeros.
Init ==
    /\ level = [i \in Ids |-> 0]
    /\ waiting = [x \in Levels |-> 0]
    /\ pc = [i \in Users |-> "outside"]
    /\ l = [i \in Users |-> 1]
    /\ k = [i \in Users |-> 0]

HF_EnterRegion(i) ==
    /\ pc[i] = "outside"
    /\ pc' = [pc EXCEPT ![i] = "level"]
    /\ l' = [l EXCEPT ![i] = 1]
    /\ UNCHANGED <<level, waiting, k>>

SetLevel(i) ==
    /\ pc[i] = "level"
    /\ level' = [level EXCEPT ![i] = l[i]]
    /\ pc' = [pc EXCEPT ![i] = "waiting"]
    /\ UNCHANGED <<waiting, l, k>>

SetWaiting(i) ==
    /\ pc[i] = "waiting"
    /\ waiting' = [waiting EXCEPT ![l[i]] = i]
    /\ pc' = [pc EXCEPT ![i] = "scan"]
    /\ k' = [k EXCEPT ![i] = 0]
    /\ UNCHANGED <<level, l>>

LastTask == MAX_TASKS - 1

\* Mutant: a task on the same level is not waited for.
PassedStrict(i) == k[i] = i \/ level[k[i]] <= l[i] \/ waiting[l[i]] # i

\* The loop over "level[k] >= l && waiting[l] == i" ends for this k.
Passed(i) == k[i] = i \/ level[k[i]] < l[i] \/ waiting[l[i]] # i

Scan(i) ==
    /\ pc[i] = "scan"
    /\ Passed(i)
    /\ IF k[i] < LastTask
       THEN k' = [k EXCEPT ![i] = @ + 1] /\ UNCHANGED <<pc, l>>
       ELSE /\ IF l[i] + 1 \in Levels
               THEN pc' = [pc EXCEPT ![i] = "level"] /\ l' = [l EXCEPT ![i] = @ + 1]
               ELSE pc' = [pc EXCEPT ![i] = "inside"] /\ UNCHANGED l
            /\ UNCHANGED k
    /\ UNCHANGED <<level, waiting>>

\* Mutant: the task stays on its level.
HF_LeaveRegionOnLevel(i) ==
    /\ pc[i] = "inside"
    /\ pc' = [pc EXCEPT ![i] = "outside"]
    /\ UNCHANGED <<level, waiting, l, k>>

HF_LeaveRegion(i) ==
    /\ pc[i] = "inside"
    /\ level' = [level EXCEPT ![i] = 0]
    /\ pc' = [pc EXCEPT ![i] = "outside"]
    /\ UNCHANGED <<waiting, l, k>>

Clobber ==
    /\ \E x \in Ids : waiting' = [waiting EXCEPT ![MAX_TASKS - 1] = x]
    /\ UNCHANGED <<level, pc, l, k>>

Steps(i) == SetLevel(i) \/ SetWaiting(i) \/ Scan(i) \/ HF_LeaveRegion(i)

Next == Clobber \/ \E i \in Users : HF_EnterRegion(i) \/ Steps(i)

\* A task that waits is scheduled again and again; it need not ask for the region.
Spec == Init /\ [][Next]_vars /\ \A i \in Users : WF_vars(Steps(i))
-----------------------------------------------------------------------------
(* Properties *)

\* Two tasks are never both between HF_EnterRegion and HF_LeaveRegion, whatever
\* happens to the entry of the last level: the idle task (id 0) never asks for
\* the region, so the levels before it let a single task through.
Exclusion == \A i, j \in Users : pc[i] = "inside" /\ pc[j] = "inside" => i = j

\* Who asks for the region gets it.
Enters == \A i \in Users : pc[i] = "level" ~> pc[i] = "inside"
=============================================================================
