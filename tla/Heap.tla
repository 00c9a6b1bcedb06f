-------------------------------- MODULE Heap --------------------------------
(***************************************************************************)
(* The heap of HellfireOS Lite (hflibc/malloc.c) with the tasks that use   *)
(* it and the mutex that they share (FilterMutex).                         *)
(*                                                                         *)
(* The heap is an array of words.  A chunk is a header word, which holds   *)
(* its length and whether it is used, and the words behind it; a header of *)
(* length zero ends the heap.  Every other word is Data, whatever a task   *)
(* wrote to it or the allocator left there: a word that the allocator must *)
(* never take for a header.                                                *)
(*                                                                         *)
(* A call is one or two steps inside the mutex.  A kernel call (HF_AddTask *)
(* and HF_KillTask allocate and free stacks and packet buffers) makes them *)
(* with interrupts off, so that no other task takes a step; if another one *)
(* was interrupted on its way through the mutex, it waits for ever (Hung). *)
(*                                                                         *)
(* Left out: calls that touch nothing (malloc(0), free(NULL)), what calloc *)
(* and realloc copy, pointers freed twice, and HF_free_mem, a statistic.   *)
(***************************************************************************)
EXTENDS FilterMutex, FiniteSets, FiniteSetsExt

CONSTANTS LENGTH,       \* of the heap, in words (HEAP_SIZE / 4)
          Requests,     \* user -> sizes it asks for, in bytes
          MaxBlocks     \* blocks a user has at most

\* The sizes are not so large that the sum in malloc overflows.
ASSUME HeapAssumption ==
    /\ LENGTH \in Nat /\ LENGTH >= 2
    /\ \A i \in Users : Requests[i] \subseteq 1 .. 2 ^ 30

VARIABLES word,         \* address -> contents
          free,         \* HF_heap_info.free: the chunk malloc cuts blocks from
          job,          \* user -> the call it is in
          owned,        \* user -> addresses of its blocks
          masked        \* the task that has disabled interrupts, or Nobody

malloc_mutex == vars            \* the variables of FilterMutex
heap == <<word, free>>
all == <<malloc_mutex, heap, job, owned, masked>>

Words == 0 .. LENGTH - 1
NULL == LENGTH
Nobody == 0
Last == LENGTH - 1              \* the word of length zero
Chunk(n, u) == [size |-> n, used |-> u]
Data == Chunk(0, TRUE)
NoJob == [do |-> "nothing", size |-> 0, old |-> NULL, p |-> NULL, fsize |-> 0]

\* HF_HeapInit.
HeapInit ==
    /\ Init
    /\ word = [a \in Words |-> CASE a = 0 -> Chunk(Last, FALSE) [] a = Last -> Chunk(0, FALSE) [] OTHER -> Data]
    /\ free = 0
    /\ job = [i \in Users |-> NoJob]
    /\ owned = [i \in Users |-> {}]
    /\ masked = Nobody
-----------------------------------------------------------------------------
(* The chunks *)

\* The headers that a walk from address a finds.
Walk[a \in Words] ==
    IF word[a].size = 0 THEN {}
    ELSE {a} \cup IF a + word[a].size \in Words THEN Walk[a + word[a].size] ELSE {}

Headers == Walk[0]

\* The unused chunks that lie side by side, as runs <<start, end>>.
Runs(headers) ==
    LET ends == {b \in headers : word[b].used} \cup {Last}
        runs == {<<a, Min({b \in ends : b > a})>> : a \in headers \ ends}
    IN {r \in runs : \A q \in runs : q[2] = r[2] => r[1] <= q[1]}

Size(r) == r[2] - r[1]

\* Start of the first run of at least n words.
Fit(n, runs) == LET fits == {r[1] : r \in {q \in runs : Size(q) >= n}} IN IF fits = {} THEN NULL ELSE Min(fits)

\* Mutant: the used chunk behind a run is counted with it.
MergedOver(runs) ==
    [a \in Words |-> IF \E r \in runs : a = r[1] THEN Chunk(Size(CHOOSE r \in runs : r[1] = a) + 1, FALSE)
                     ELSE word[a]]

\* Each of these runs becomes one chunk.
Merged(runs) ==
    [a \in Words |-> IF \E r \in runs : a = r[1] THEN Chunk(Size(CHOOSE r \in runs : r[1] = a), FALSE)
                     ELSE IF \E r \in runs : a \in r[1] + 1 .. r[2] - 1 THEN Data
                     ELSE word[a]]

\* The first run of n words or more, or nothing; the runs up to it are merged.
compact(n) ==
    \E runs \in {Runs(Headers)} :
        /\ free' = Fit(n, runs)
        /\ word' = Merged({r \in runs : r[1] <= free'})
-----------------------------------------------------------------------------
(* Calls *)

\* Header included, in words.
SizeOf(bytes) == (bytes + 3 + 4) \div 4

Becomes(i, call) == job' = [job EXCEPT ![i] = call]

\* A call of malloc or free, by the application or from the kernel, whoever was
\* interrupted inside malloc or free.
Calls(i, call) ==
    /\ job[i] = NoJob /\ masked = Nobody
    /\ masked' \in {Nobody, i}
    /\ Becomes(i, call)
    /\ HF_EnterRegion(i)
    /\ UNCHANGED <<heap, owned>>

Malloc(i) ==
    /\ Cardinality(owned[i]) < MaxBlocks
    /\ \E bytes \in Requests[i] : Calls(i, [NoJob EXCEPT !.do = "find", !.size = SizeOf(bytes)])

Free(i) == \E a \in owned[i] : Calls(i, [NoJob EXCEPT !.do = "free", !.old = a])

\* Its test for the size of the block compares with the header, used bit and
\* all; a call that asks for one byte more than that gets the old block back.
Realloc(i) ==
    \E a \in owned[i], bytes \in Requests[i] :
        /\ bytes # 4 * word[a].size + 1
        /\ Calls(i, [NoJob EXCEPT !.do = "find", !.size = SizeOf(bytes), !.old = a])

\* Inside the mutex.
At(i, what) == job[i].do = what /\ pc[i] = "inside" /\ masked \in {Nobody, i}

\* The chunk to cut from is missing or too small.
Short(n) == IF free = NULL THEN TRUE ELSE n > word[free].size

Find(i) ==
    LET n == job[i].size
    IN /\ At(i, "find")
       /\ IF Short(n) THEN compact(n)
          ELSE UNCHANGED heap
       /\ IF free' = NULL THEN Becomes(i, [NoJob EXCEPT !.do = "leave"])
          ELSE Becomes(i, [job[i] EXCEPT !.do = "split", !.p = free', !.fsize = word'[free'].size])
    /\ UNCHANGED <<malloc_mutex, owned, masked>>

\* Mutant: the rest of a chunk is measured from its first word.
CutLong(p, n, fsize) ==
    [a \in Words |-> CASE a = p -> Chunk(n, TRUE)
                       [] a = p + n -> Chunk(fsize, FALSE)
                       [] a \in p + 1 .. p + n - 1 -> Data
                       [] OTHER -> word[a]]

\* A block of n words, which the task fills, and the rest of the chunk.
Cut(p, n, fsize) ==
    [a \in Words |-> CASE a = p -> Chunk(n, TRUE)
                       [] a = p + n /\ n < fsize -> Chunk(fsize - n, FALSE)
                       [] a \in p + 1 .. p + n - 1 -> Data
                       [] OTHER -> word[a]]

Split(i) ==
    LET p == job[i].p
        n == job[i].size
        fsize == job[i].fsize
    IN /\ At(i, "split")
       /\ \/ fsize >= n + 1 /\ word' = Cut(p, n, fsize) /\ free' = p + n
          \/ fsize < n + 1 /\ word' = Cut(p, fsize, fsize) /\ free' = NULL
       /\ owned' = [owned EXCEPT ![i] = @ \cup {p}]
       /\ Becomes(i, [NoJob EXCEPT !.do = "leave", !.old = job[i].old])
       /\ UNCHANGED <<malloc_mutex, masked>>

Release(i) ==
    /\ At(i, "free")
    /\ word' = [word EXCEPT ![job[i].old].used = FALSE]
    /\ owned' = [owned EXCEPT ![i] = @ \ {job[i].old}]
    /\ Becomes(i, [NoJob EXCEPT !.do = "leave"])
    /\ UNCHANGED <<malloc_mutex, free, masked>>

\* realloc goes on to free the old block.
Leave(i) ==
    /\ At(i, "leave")
    /\ HF_LeaveRegion(i)
    /\ IF job[i].old = NULL THEN Becomes(i, NoJob) /\ masked' = Nobody
       ELSE Becomes(i, [NoJob EXCEPT !.do = "free", !.old = job[i].old]) /\ UNCHANGED masked
    /\ UNCHANGED <<heap, owned>>

Enter(i) == job[i].do = "free" /\ HF_EnterRegion(i)

Climb(i) == SetLevel(i) \/ SetWaiting(i) \/ Scan(i)

Continue(i) ==
    \/ Find(i) \/ Split(i) \/ Release(i) \/ Leave(i)
    \/ /\ masked \in {Nobody, i}
       /\ Enter(i) \/ Climb(i)
       /\ UNCHANGED <<heap, job, owned, masked>>

Other == Clobber /\ UNCHANGED <<heap, job, owned, masked>>

HeapNext == Other \/ \E i \in Users : Malloc(i) \/ Realloc(i) \/ Free(i) \/ Continue(i)

\* A task in a call is scheduled again and again, even if others make one kernel
\* call after the other: a tick that comes meanwhile is taken when the interrupts
\* are on again.  A task need not make calls.
HeapSpec == HeapInit /\ [][HeapNext]_all /\ \A i \in Users : SF_all(Continue(i))
-----------------------------------------------------------------------------
(* Properties *)

(* Exclusion of FilterMutex holds of malloc_mutex.  Enters does not.         *)

\* The task in a kernel call waits for one that was interrupted in the mutex, and
\* keeps interrupts off: neither ever goes on, nor does any other task (HF_AddTask
\* and HF_KillTask, which call malloc and free in a critical section).
Hung == masked # Nobody /\ pc[masked] = "scan" /\ ~Passed(masked)

\* Who asks for the mutex gets it, unless the core hangs in that way: nothing else
\* keeps a task out for ever, neither the order in which the levels are left nor
\* kernel calls that find the mutex free (HF_EnterRegion, HF_LeaveRegion).
EntersUnlessHung == \A i \in Users : pc[i] = "level" ~> pc[i] = "inside" \/ Hung

\* The headers lead from the first word to the last without meeting what a task
\* wrote; the chunk that malloc cuts from is unused; and the used chunks are the
\* blocks that the tasks have, each task its own (compact, malloc, free).
ChunksTile ==
    (\A i \in Users : job[i].do # "split") =>
        LET headers == Headers
            used == {a \in headers : word[a].used}
        IN
        /\ \E a \in headers : a + word[a].size = Last
        /\ word[Last] = Chunk(0, FALSE)
        /\ free # NULL => free \in headers \ used
        /\ used = UNION {owned[i] : i \in Users}
        /\ \A i, j \in Users : i # j => owned[i] \cap owned[j] = {}

\* The blocks do not overlap, are as large as was asked for, and malloc refuses
\* only what does not fit.  The last word is never given away.
Blocks == [i \in Users |-> {a .. a + word[a].size - 1 : a \in owned[i]}]
Request == [i \in Users |-> IF job[i].do \in {"find", "split"} THEN job[i].size ELSE 0]
Promise == INSTANCE Allocator WITH LENGTH <- LENGTH - 1, blocks <- Blocks, request <- Request
ImplementsAllocator == Promise!Spec
=============================================================================
