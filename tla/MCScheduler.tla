---------------------------- MODULE MCScheduler ----------------------------
(* Three tasks besides the idle task. *)
EXTENDS Scheduler

\* Periods 3 to 5, with capacities that fit alone, in pairs, or not at all; the
\* last two are refused.
Timings == {<<3, 1>>, <<4, 2>>, <<5, 1>>, <<3, 4>>, <<3, 0>>}
=============================================================================
