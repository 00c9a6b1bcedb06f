----------------------------- MODULE MCSemTest -----------------------------
(* Producers and consumers of app/sem_test.c, fewer of them and a small ring. *)
EXTENDS SemTest

\* Only the cells of the tasks in line are ever read.
LiveState == <<tableVars, status, HF_current_task, HF_schedule, count,
               [s \in Sems |-> Line(s)], taskVars, appVars>>
=============================================================================
