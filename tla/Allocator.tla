----------------------------- MODULE Allocator -----------------------------
(***************************************************************************)
(* What malloc, realloc and free of hflibc/malloc.c promise: blocks that   *)
(* do not overlap, each as large as was asked for, and a refusal only if   *)
(* no gap between the blocks is large enough.                              *)
(***************************************************************************)
EXTENDS Integers

CONSTANTS Users,
          LENGTH        \* of the heap, in words

VARIABLES blocks,       \* user -> the blocks it has, sets of words
          request       \* user -> the size it asks for, 0 outside malloc

vars == <<blocks, request>>

Interval(a, n) == a .. a + n - 1
Taken == UNION {UNION blocks[i] : i \in Users}
Gaps(n) == {a \in 0 .. LENGTH - n : Interval(a, n) \cap Taken = {}}

Init == /\ blocks = [i \in Users |-> {}]
        /\ request = [i \in Users |-> 0]

\* A call, of any size.
Ask(i) == /\ request[i] = 0
          /\ request' = [request EXCEPT ![i] = request'[i]]
          /\ UNCHANGED blocks

Answered(i) == request[i] # 0 /\ request' = [request EXCEPT ![i] = 0]

\* The block may be larger than was asked for.
Allocate(i) ==
    /\ Answered(i)
    /\ \E n \in 1 .. LENGTH : \E a \in Gaps(n) :
        n >= request[i] /\ blocks' = [blocks EXCEPT ![i] = @ \cup {Interval(a, n)}]

Refuse(i) == Answered(i) /\ Gaps(request[i]) = {} /\ UNCHANGED blocks

Release(i) == \E b \in blocks[i] : blocks' = [blocks EXCEPT ![i] = @ \ {b}] /\ UNCHANGED request

Next == \E i \in Users : Ask(i) \/ Allocate(i) \/ Refuse(i) \/ Release(i)

Spec == Init /\ [][Next]_vars
=============================================================================
