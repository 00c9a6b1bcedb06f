----------------------------- MODULE MCLibrary -----------------------------
(* Two tasks and a heap that fragments; words of four bits. *)
EXTENDS Heap, SoftArithmetic

\* Blocks of two, of three and of four words.
Asked == [task \in Users |-> IF task = 1 THEN {4, 9} ELSE {5}]

\* The ends of the ranges, and numbers that mix the halves.
Words4 == {0, 1, 2, 3, 5, 7, 8, 11, 12, 15}
Words8 == {0, 1, 2, 7, 16, 29, 127, 128, 201, 255}

LibraryInit == HeapInit /\ ArithInit

\* An arithmetic routine works in registers alone: where the heap is in its first
\* state it meets every case that it ever meets.
LibraryNext == \/ at = "idle" /\ HeapNext /\ UNCHANGED arithVars
               \/ HeapInit /\ ArithNext /\ UNCHANGED all

LibrarySpec == LibraryInit /\ [][LibraryNext]_<<all, arithVars>>
                 /\ \A task \in Users : SF_all(Continue(task))
=============================================================================
