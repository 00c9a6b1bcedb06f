------------------------------- MODULE MCBlur -------------------------------
(* The blur with one of the slave cores, the sixth. *)
EXTENDS ParallelBlur

AllCores == Slaves \cup {master}
AllSizes == {TASK_DESCRIPTION_SIZE, PART_BYTES}

\* The cells outside a queue are never read.
LiveState == <<[t \in Tasks |-> Queue(t)], start, end, niVars, sendVars, recvVars, blurVars, failed>>
=============================================================================
