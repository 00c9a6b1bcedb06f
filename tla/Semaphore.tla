----------------------------- MODULE Semaphore -----------------------------
(***************************************************************************)
(* What ukernel/mutex.c promises of one counting semaphore: a number of    *)
(* free units, or a first-come first-served line of sleeping tasks, never  *)
(* both.  A post hands its unit straight to the task at the head of the    *)
(* line, so no later caller can take it.                                   *)
(*                                                                         *)
(* HFKernel implements this specification with a signed counter, a         *)
(* circular buffer of task ids and the status field of the task table.     *)
(***************************************************************************)
EXTENDS Integers, Sequences

CONSTANT Tasks          \* the tasks that may sleep on the semaphore

VARIABLES value,        \* free units
          line,         \* sleeping tasks, the first to be served first
          asleep,       \* the tasks the scheduler may not run because of it
          open          \* the kernel has been started

vars == <<value, line, asleep, open>>

InLine == { line[k] : k \in 1 .. Len(line) }

Init == /\ value = 0
        /\ line = << >>
        /\ asleep = {}
        /\ open = FALSE

\* Before the kernel starts a semaphore may be given any value.
Initialise == /\ ~open
              /\ value' \in Nat
              /\ UNCHANGED <<line, asleep, open>>

Start == /\ ~open
         /\ open' = TRUE
         /\ UNCHANGED <<value, line, asleep>>

Take == /\ open
        /\ value > 0
        /\ value' = value - 1
        /\ UNCHANGED <<line, asleep, open>>

Sleep(t) == /\ open
            /\ value = 0
            /\ t \notin InLine
            /\ line' = Append(line, t)
            /\ asleep' = asleep \cup {t}
            /\ UNCHANGED <<value, open>>

Put == /\ open
       /\ line = << >>
       /\ value' = value + 1
       /\ UNCHANGED <<line, asleep, open>>

HandOver == /\ open
            /\ line # << >>
            /\ line' = Tail(line)
            /\ asleep' = asleep \ {Head(line)}
            /\ UNCHANGED <<value, open>>

Next == Initialise \/ Start \/ Take \/ Put \/ HandOver \/ \E t \in Tasks : Sleep(t)

Step == [Next]_vars

Spec == Init /\ [][Next]_vars
=============================================================================
