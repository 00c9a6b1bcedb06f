# A TLA+ model of HellfireOS Lite and its parallel Gaussian blur

The repository holds four things that run together: **HellfireOS Lite**
(`src/hellfire_lite/ukernel`), a small preemptive kernel for one core; its
**packet driver** (`ukernel/hal/mips/*/mpsoc.c`), which lets tasks on different
cores exchange messages; the **applications** (`src/hellfire_lite/app`), of
which `filter.c` blurs an image on nine cores; and the **simulator**
(`src/mpsoc_sim`) of the processors and of the network on chip they run on.
This directory models the parts whose correctness depends on the order in which
things happen, checks them with TLC and proves the central invariants with TLAPS.

## 1. Inventory

| Component | Source | State | Operations | What makes it correct |
|---|---|---|---|---|
| Task table and dispatcher | `ukernel.c`, `tcb.h` | `HF_task[]` (ptask, status, type), `HF_tasks`, `HF_max_index`, `HF_current_task`, `HF_schedule` | `HF_AddTask`, `HF_KillTask`, `HF_BlockTask`, `HF_ResumeTask`, `HF_DispatcherISR`, `HF_TaskYield`, `HF_Start` | one running task; the counters agree with the table; only live runnable tasks get the core |
| Best effort and rate monotonic schedulers | `ukernel.c:63-138` | niceness, capacity, priority (ticks to the deadline), misses; the static `i` | two reschedule functions, called by the dispatcher | bounded bypass; deadlines met when response time analysis says so |
| Periodic tasks, fork | `ukernel.c:504-668` | as the table, `HF_task_entry` | `HF_AddPeriodicTask`, `HF_Fork` | as the table; a child is like its parent |
| Semaphores | `mutex.c`, `mutex.h` | signed `count`, circular `waiting_queue` with two indices | `HF_SemInit`, `HF_SemWait`, `HF_SemPost` | first come first served hand-over; no lost or doubled wake-up |
| Mutex | `mutex.c:41-87` | `level[]`, `waiting[]` | `HF_EnterRegion`, `HF_LeaveRegion` (Peterson's filter lock) | mutual exclusion, progress |
| Mailboxes, local messages | `ipc.c` | a message per task or mailbox, two semaphores each | `HF_MsgSend`, `HF_MsgRecv`, `HF_MboxSend`, `HF_MboxRecv`, `HF_MboxAccept` | a message is not overwritten before it is copied; every sender is answered |
| Heap | `malloc.c` | the chunks, `HF_heap_info.free`, `malloc_mutex` | `malloc`, `free`, `realloc`, `compact` | disjoint blocks, no block lost, a refusal only when nothing fits |
| C library arithmetic | `hflibc.c:613-878` | registers of one call | multiply, divide and shift by software, single and double words | the exact result, modulo the width |
| Packet driver | `hal/mips/plasma/mpsoc.c` | a ring of packets per task, `pktdrv_mutex` | `RecvCommServiceISR`, `HF_NB_Send`, `HF_NB_Receive`, queries of task ids, `SystemMonitor` | messages are rebuilt from their packets |
| Interrupts, timer | `interrupt.c`, `hal.c`, `boot.s` | handler list, mask, counter mask, the frames on the stacks | the ISR entry and its walk, `HF_UpdateCounterMask`, `HF_RestoreExecution` | a task does not notice that it was interrupted; critical sections exclude |
| Filter application | `app/filter.c`, `filterNaoParalelo.c` | `finalImage`, semaphore `n`, the ports of sr and escravo tasks | mestre, eight sr tasks, eight escravo tasks, the blur | mestre answers after all 16 parts; the picture is that of the sequential program |
| Other applications | `app/*.c` | task graphs, philosophers, producers, exchanges | | exclusion, no deadlock, messages go to the task that was meant |
| Network on chip | `mpsoc_sim/source/noc.c` | router buffers, connections, arbiters, wires, network interfaces | `cycleRouter`, `cycleBus`, `cycleNetworkInterface`, `synchronizePorts` | flits are neither lost, copied nor mixed; every packet arrives |
| Processor simulator | `mpsoc_sim/source/mpsoc_sim.c` | registers, memory, the latches of `do_debug` | `cycle`, `mult_big_*` | executes MIPS I, one task at a time |

Everything the tasks of one core share is protected by turning interrupts off
(`HF_CriticalBegin`/`HF_CriticalEnd`); a timer tick may fall anywhere else, and
inside `HF_SemWait` there is such a place between the queueing of the caller and
its yield. Cores share nothing but packets.
The hard behaviours are therefore preemption between any two kernel calls (or any two
instructions, in the service routine of an interrupt), tasks that
are stopped, resumed or killed while they stand in a queue, packets of several
senders that meet in one ring or in one router, rings that fill up, and replies that come
when something else was expected. `PROJECT.json` lists them one by one, at the lines where they bite.

## 2. Modules

From the hardware up; every module is named in the style of the source it stands for.

**NoC** is `noc.c` with what `mpsoc_sim.c` and the driver do to it. A step is one clock
cycle of the board: routers or the bus (each `CPU_NETWORK_CLK_RATIO` cycles), then the
interfaces, then the wires. A wire is the pair of half `Port`s of the source, with its
request and acknowledge. Which cores begin a packet, and which take their interrupt, in a
cycle is the model's choice. **Network** is the promise: a first-in first-out line of whole packets for each
pair of cores; `ImplementsNetwork` shows it with `InFlight`, what was begun and not yet read.

**Mips** gives the results of the instructions (`cycle()`, `mult_big_*`) on words of two halves,
**Processor** the promise made to tasks (each has a processor of its own, branches take
effect after their delay slot), and **Plasma** one core: `cycle()` with the interrupt
line, the two counter bits and the network register, the service routine of `boot.s`
instruction by instruction from the register restore on, the walk of `interrupt.c`, a task switch in
the timer handler (`Dispatch`), `HF_TaskYield` (`Yield`) and the reads of the packet handler. `frames[t]` is
what the service routines of `t` have pushed on its stack. `ImplementsProcessor` maps a task that
is interrupted or switched out to the state it had then (`seen`).

**HFKernel** is one core's kernel. A kernel call is one critical section, so it is one
action; the timer (`HF_DispatcherISR`) is an action that can happen between any
two of them. `pc[t]` says where a task continues: `"run"` in its own code,
`"yield"` in the window of `HF_SemWait` between the critical section and
`HF_TaskYield`, `"slept"` inside that yield, `"dying"` between killing itself and yielding.
The other variables are the fields and globals of the same names.
`HF_AddTask` has an outcome for a failed `malloc`. The choice among runnable tasks is left
open, so what holds here holds under every scheduler. Two specifications share the actions: `Spec`
has every service in every order; `SemSpec` adds the discipline the
applications obey (nobody blocks, resumes or kills a task that is queued on a
semaphore, one-shot tasks do not wait).

**Scheduler** makes the choice: `HF_TaskReschedule`, which ages the periodic tasks in the
pass that picks one, and `HF_TaskBestEffortReschedule`, whose walk round the table is taken in
one step (`StepsTo` is the length of the walk until the niceness counter of a task is zero). A
slot is the record of its task control block. `HF_Fork` copies the timing of `HF_task_entry`.
The history `passed` counts turns given to others.

**Semaphore** is the promise of `mutex.c`, one semaphore at a time: free units or a
first-come first-served line of sleepers, never both, and a post that hands
its unit to the head of the line. `HFKernel!Abstract(s)` is the refinement mapping: the
line is read off the circular buffer between its indices, the sleepers are
the tasks whose status is `TASK_WAITING`.

**FilterMutex** is the other half of `mutex.c`, with one step per access to
`level` and `waiting`; `l` and `k` are the loop variables. The array `waiting` has
`MAX_TASKS - 1` entries and the loop uses index `MAX_TASKS - 1`, so the last level's entry is a byte of
whatever follows the mutex: `Clobber` changes it at will.

**Heap** EXTENDS FilterMutex: `malloc_mutex` is that lock. The heap is an array of words, a header word
or data. A call enters the lock, finds a chunk (with `compact`), splits it, and leaves; a call from the
kernel does so with the interrupts off (`masked`), whoever was interrupted in the lock meanwhile: it then hangs (`Hung`). **Allocator** is the promise: blocks that
do not overlap, each as long as asked for, a refusal only when no gap is long enough.

**SemTest** is `app/sem_test.c` on the actions of HFKernel, one step per
statement between kernel calls, from the first `HF_SemInit` of `ApplicationMain`.
The array `buffer` keeps only whether a cell holds an unread item.

**TaskGraph** is `ipc.c` and five applications on it. A service is a sequence of statements, an
application a task's sequence of services, and a step executes the next statement of the task that
has the core. Semaphores are those of module Semaphore. `mpeg4_test` and `vopd_test` are their graphs, task by
task. Who gets the core next is what `HF_TaskBestEffortReschedule` chooses, by the niceness counters, the idle task
and the two that only loop included; the timer comes every so many statements (`Quanta`). In the applications of `Preempted`
it comes at any time and gives the core to any ready task. `test` of the philosophers is its three reads, its write and its post.

**PacketDriver** is `hal/mips/plasma/mpsoc.c` on any set of cores. `packet_in`, `start`, `end`, `in_packet` are the
software queue of each task, counted in packets, not flits. `ni_out` and `ni_in` are the two hardware
queues of a core's interface; `Transfer` moves a packet between them, as NoC is shown to. `pktdrv_mutex` is
the semaphore as Semaphore abstracts it, a line of tasks whose head has the unit.
`sending[t]` and `receiving[t]` say where in a driver call a task is; a call is cut where interrupts are on
and something it reads may change: `HF_NB_Send` up to the wait for the semaphore,
`InterfaceReady` (the look at `NOC_STATUS`), `WritePacket` (the critical section, and what
follows up to the next wait), `SendTimeout`; `HF_NB_Receive` up to its waiting loop,
`TakePacket` (one packet from queue to buffer), `ReceiveTimeout`. `RecvCommServiceISR` is one action, with its drops.
`returned` is what the last receive call reported.
Two specifications share the actions. `Spec`: tasks send and receive along `Routes` as they like.
`PairSpec`: the flow control that the driver leaves to its users ("implement the flow
control", says `HF_Send`): one sender per port at a time, never more packets than the queue
holds, and no timeout. **Channel** is what `PairSpec` promises: per task a first-in first-out
queue of messages, and a receive call that returns the oldest one whole. `Pending(t)` is the mapping: the messages
whose first packet is on its way to `t` (`Begun`, a recursive function along the packets).

**ParallelBlur** is `app/filter.c` on the actions of PacketDriver: the `sr` tasks of
core 0 with their loop position `pc`, `count` and places in `finalImage`, the semaphore `n` (its
free units), `mestre` with its number of waits, and on each slave core `SystemMonitor`
and `escravoTask`. `HF_QueryTaskId` is the pair `Query`, `Answer`. `FailingSpec` adds its two errors (`NotAsked`,
`AnswerTimesOut`), which `sr` takes for an id: the parts go to a task that is not there (`SendAstray`), and a late answer is taken for
a part; `failed` is the set of slaves this happened to. It EXTENDS **GaussianBlur**, which gives, for every pixel of a part or of the whole
image, the window of pixels that `do_gausian` reads, the copies that follow ("Ajustando a
imagem", one after another because copies are copied), the place of a part in the image, and `Sequential`,
the window of each pixel in `filterNaoParalelo.c`.
So the invariant about the final picture is about pixels: what mestre prints was computed from the same pixels as in
`filterNaoParalelo.c`.

**Exchange** is `exercise1.c`, `noc_test.c`, `noc_test2.c`, `noc_test3.c` and `noc_test4.c`: sequences of sends,
queries and receives on a driver with less detail (a packet written is in the queue of its target at
once, so packets of different cores mix in any order). A queue that is full drops what comes. A query may find the interface busy
(`NotAsked`), its answer may be late, lost in a full queue, overtaken by data, or time out
(`AnswerTimesOut`), and the caller does with the error what it does in the source: `exercise1` takes it for an id, `noc_test`
panics. `reported` are the tasks that an error or a lost packet was reported to, `mixed` those that got parts of several messages before.

**SoftArithmetic** is the part of `hflibc.c` that the compiler calls for `*`, `/`, `%` and double words, on a word
of `BITS` bits: `__mulsi3`, `__muldsi3`, `__muldi3`, the four divisions of words (by `DivideMod`), the four of
double words (by `__udivmoddi4`) and the three shifts. A step is one iteration of a loop. `ArithmeticExact`
compares the result with the integer operation; `Defined` leaves out the arguments for which C or the code has no result, and those for which the function is wrong (see the findings).

**ModLemmas** (arithmetic of rings, and functions defined by iteration), **SemTest_proofs** (HFKernel and SemTest), **Heap_proofs** (FilterMutex and Heap),
**ParallelBlur_proofs** (PacketDriver and ParallelBlur), **Scheduler_proofs**, **NoC_proofs**, **TaskGraph_proofs** and **SoftArithmetic_proofs** hold the proofs (section 4). `MC*` modules give the sets of an instance and a view for TLC;
**MCLibrary** puts the heap and the arithmetic, which share nothing, into one run, **MCKernel** the kernel and Exchange, which share nothing either: a behaviour is one of the one or of the other.

How the parts fit: Network (shown of NoC) is what PacketDriver takes for `Transfer`; Semaphore (shown of HFKernel) is
what TaskGraph, PacketDriver and ParallelBlur take for semaphores; Channel (shown of PacketDriver under `PairSpec`) is what
`UsesDriverAsPair` entitles the blur to; Processor (shown of Plasma) is what lets every other module take a task's statements
one after another; the filter lock is the lock of the heap.

## 3. Runs

| Run | Instance | What it shows |
|---|---|---|
| `kernel_exchange` | 3 slots, 1 semaphore, both task kinds, counter within 3 of zero; or all nine tasks of `exercise1`, or 3 cores for the other four, with queues of 3 packets | every service in every order: the table, its counters and the semaphore indices agree and one task runs, in spite of the stale queue entries that kills and resumes leave. What a task gets of packets that mix or are dropped is whole, or an error was reported to it (`MixingIsReported`); `noc_test` sends where it means to, whatever fails or is late |
| `semtest` | 2 producers, 1 consumer, ring of 2 | each semaphore implements `Semaphore`; sleepers and line are the same; exclusion, no overwriting, no stale read, every unit accounted for (`RingSafe`); nobody starves |
| `scheduler` | 3 tasks beside the idle task, periods 3 to 5, nicenesses 1 and 2 | no deadline is missed when response time analysis says so; bounded bypass; a fork has its parent's timing |
| `library` | 2 tasks, 7 words, 3 lock levels, 2 blocks each; words of 4 bits | the chunks tile the heap, `Allocator` is implemented, the lock excludes, although its last entry is not its own, and lets in, unless a kernel call hangs; multiplication, division and shifts by software are exact |
| `ipc` | all tasks of `mpeg4_test` and `vopd_test`, `message_test`, `mailbox_test`, 4 philosophers | a message that is copied is alive and each rendezvous is answered once (`MessagesSafe`), mailboxes have one token, neighbours do not eat at once (with ticks inside `test`), and every task of a graph gets the core again and again from the scheduler of the code |
| `packet_free` | 2 senders on one core, a receiver, a target that does not exist; queue of 2, messages of 2 packets | the rings agree with their counters under overflow and timeouts; no packet is written over another; every send ends |
| `packet_pair` | 2 senders, messages of 1 to 3 packets, queue of 4, flow control | the driver implements `Channel`; what a call returns is whole; a receive call returns |
| `blur` | slave core 6, the sizes of the code: 32 slots, 112-byte payloads, 1024-byte parts of 32 by 32 pixels | unless a query fails, the application keeps to the flow control of `PairSpec` and mestre answers; in any case the picture, if there is one, is the sequential program's, the nearest inner pixel near the borders of parts |
| `noc` | mesh of 2 by 2 and a bus of 4, packets of 4 flits, 3 packets for one core | `Network` is implemented; the reader finds whole packets, the writer room; every packet arrives |
| `plasma` | words of 4 bits, two tasks in critical sections, or one that multiplies, divides, branches, links and takes words apart in memory | interrupts cannot be noticed (`Processor`), critical sections exclude, two handlers do not read in turns |
| `plasma_window` | the same with interrupts at the end of the service routine | **violated**: the routine does not return to the task |
| `plasma_packets` | as `plasma` | **violated**: a handler leaves a part of a packet in the interface |

**Bounds.** Three slots are the idle task and two others, enough for a kill and
a reuse of the slot while the other task runs and for a queue that wraps; four give a
line of three. `CountBound` stops a counter after a few posts nobody takes; the
waiters' side of it is never reached because a line is shorter than the table.
Where a run has `VIEW LiveState`, state that no action reads before it is written is left out of the fingerprint.

*Scheduler*: periods of 3 to 5 have hyperperiods long enough for preemption and a miss; `MissBound` merges all counts of misses;
an application that makes kernel calls has at most one periodic task. *Heap*: in seven words the
blocks of 2, 3 and 4 words leave gaps that merge, and requests are refused. Calls for so many bytes that `size + 7` wraps, and `realloc` calls for one byte more than the
old block's size, are left out. *Arithmetic*: words of 4 bits have halves of 2, so that products carry across halves, quotients take up to 4 (or 8) subtractions and
both signs occur; the operands are the ends of the ranges and numbers that mix the halves. A routine works in
registers alone, so it is run beside the heap's first state only: with every other state it would do the same again. *TaskGraph*: in the graphs the timer comes after each 1 to 8, 10, 15 or 25 statements, from inside a single call to
many calls of a task (a real quantum holds thousands of instructions, and in most of them a task sleeps before it ends), in
mailboxes and philosophers at any time; 4 philosophers instead of 5 and one round instead of 5 in `mailbox_test`;
counts go up to 3, the most senders a task has (`task9` of `mpeg4_test`).

*Packet runs*: two senders on one core are what it takes to contend for `pktdrv_mutex`; a queue of two and messages of
two packets make it overflow, wrap, and hold the end of one message and
the start of another. `packet_pair` has messages shorter and longer than one payload and a partial last packet.
Interfaces hold one packet each way and the network stores none, which is less than the routers' buffers,
so a sender is held up a little earlier than there. *Blur*: the slaves share nothing but core 0's interface and the semaphore.
One, at the real sizes, puts 20 packets in flight into 32 slots; core 6 is one whose parts lie in the inside of the image's columns and
not on its first line, so that all offsets count. *Exchange*: with a payload of 320 bytes instead of 112 and queues of 3 packets instead of 32 the messages of `exercise1` have one or
two packets, those of `noc_test2` up to six (of more than three they are refused, `HF_COMM_UNFEASIBLE`), and two messages fill a queue. So queues overflow, as those of 32 do when 14 packets of 1536 bytes come three times in a row, messages lose packets in front, inside and behind, and
those of several senders mix. `noc_test2` has 8 sizes in a row (50 to 400 bytes, and down from 1792) and one target instead of 14 to 30 and five, `noc_test3` 2 sizes instead of 6 and one iteration instead of 5.
One query in a behaviour is held up (`MaxDelays`), by task 2 of `exercise1` or the sender of `noc_test` (`Slow`): not sent, or answered late; a call times out whenever its queue is empty.
Queries and their answers are merged where nobody can tell; `HF_Panic` ends its task, the other tasks of the core having nothing more to do.
The id 97 stands for whatever was in a variable.

*NoC*: two packets of one core and one of another meet at a third, in the mesh over a turn and in the bus at the arbiter; queues of routers are shorter
than a packet, so packets stretch over two routers. *Plasma*: `MaxFrames` = 2 service routines of a task inside each other; with `KeepWindow` no
interrupt is latched from the load of `$k0` to the jump through it. `FAST_STDOUT`, the build of the makefile, is assumed, `HF_schedule` is 1.

Runs in which tasks end or wait for messages nobody has to send do not check for deadlock: `packet_free`, `packet_pair`, `blur` and `kernel_exchange`.

### What the runs found, beside what they check

`plasma_window` and `plasma_packets` are findings with a trace (`PROJECT.json`). In the second a walk over the handlers is switched out by the timer handler
with the bit of a packet still to come; the packet is handled by another walk; when the first one goes on, its handler finds the interface empty,
takes the first flits of the next packet for the rest of its own, and returns. In the simulator the count of flits is then negative for good, and no packet is signalled to this core any more. The others are consequences of the code that the modules state as
bounds or exceptions, because the applications of the repository do not run into them:

- *Kernel.* `HF_SemPost` makes the head of the line ready whatever its status (`mutex.c:128`), so a blocked task runs again without `HF_ResumeTask`, against
  "can be resumed later" in `tcb.h:32`; `HF_ResumeTask` of a waiting task lets it pass without a unit.
- *Schedulers.* A missed deadline is counted before the last tick of the period has run, so one tick of each period is lost to the analysis
  (`Demand(t, r) <= r` with `r < period`); the field `deadline` is never used; the first loop of the best effort scheduler finds nothing; `HF_TaskYield` does not ask the rate monotonic
  scheduler; the tick that kills a one-shot task ages nobody; `HF_Fork` takes the timing of the slot looked at last, after `HF_BlockTask` or `HF_ResumeTask` that of
  another task, and a priority of 0 then wraps.
- *ipc.* Several senders overwrite each other's message before it is read (`MessagesSafe` is about targets with one sender); `HF_MboxAccept` takes no unit and lets a second message in;
  `LEFT(0)` is -1, so the first and the last philosopher may eat at once; philosophers may starve.
- *Heap.* A kernel call waits for ever, interrupts off, for a task that was interrupted inside `malloc`; `realloc` compares the size with a header that has its used
  bit on; `HF_free_mem` is updated outside the lock, and `HF_FreeMemory` is the heap's size less what is free.
- *Arithmetic.* `__modsi3` and `__moddi3` negate the remainder when the signs differ, so it has the wrong sign for a negative divisor;
  `bm = 32 - b` is unsigned and the test for a shift by more than a word never holds, so such a shift is undefined, and `__ashrdi3` by exactly 32 shifts
  by `bm` = 0 and keeps the low word as it was; the remainder of a division of double words by zero is never written.
- *Packet driver.* Without `DEBUG` a packet for a task that does not exist is never drained (`mpsoc.c:167`) and blocks its interface; with unrestricted senders a call may
  return parts of two messages with `HF_OK` after drops, and even without drops when three senders of two packets meet; with the 16 slots of the hf_risc port the blur can lose a packet and mestre waits
  for ever.
- *Exchange.* Tasks 7 and 8 of `exercise1` may take a data message for the id they asked for, 320 bytes into a buffer of 21. The text of `noc_test3` goes to task 2
  of each core, the sender, so the receivers never end. A call that was given `HF_SEQ_ERROR`, or follows a drop, leaves the rest of a message to the next call, which may put it together with the beginning of another and return `HF_OK`: hence
  "before anything was reported" in `MixingIsReported`. The error code of a query that fails is used as an id by `exercise1`; `noc_test` panics.
- *Blur.* When a query of an id fails, the parts are sent to a task that is not there, the late answer is stored and posted as a part, and mestre waits for ever. `y > 2 || y < height - 2` is always true: windows run over the ends of lines and of the part, and the copies hide it. The weights sum to 170 and the divisor is 171, so white becomes 253; that arithmetic is the
  same text in both programs and is not modelled.
- *Simulator.* `mult_big_signed` gives a wrong high word for negative factors; likely branches do not annul their slots; the loops of the bus build run to `<= ROUTERSIZE` (`noc.c:467`, `noc.c:574`);
  ticks are lost while interrupts are off; `_sleep` adds a second's cycles (`CPU_SPEED`) instead of 2^32 when the counter wraps (`hal.c:61`).

## 4. Fairness and proofs

`SemTest!AppSpec` assumes that the boot code runs to its end (nothing preempts it), that every task
which stays ready is dispatched again (weak fairness of each `Tick(u)`: the timer
never stops, and the best effort scheduler decrements every ready task's niceness
counter until it is picked, which is `BoundedBypass` of Scheduler, proved for any tasks), and that a task which gets the core
again and again executes statements (strong fairness of `TaskStep(t)`: a tick is
2^18 cycles, thousands of instructions). Kernel, Scheduler and Plasma runs are about safety and assume none.

`FilterMutex!Spec`: a task inside the lock is scheduled again and again (weak); it need never ask. `HeapSpec`: a task in a heap call too, even if others make one kernel call after the other, each
with the interrupts off (strong: a tick that comes meanwhile is taken when they are on again).

`TaskGraph!FairSpec`: the processor and the timer go on (weak fairness of `Next`). In the graphs who has the core is determined, so tasks need no fairness of their own.

`PacketDriver!Fairness`: a pending receive interrupt is served (weak), a
task in a driver call is scheduled again and again (weak on its steps; its timeouts need not happen), and a packet
whose target interface is free again and again is moved at last (strong: the routers' arbiters are round robin, which is `Arrives` of NoC).
`ParallelBlur` adds weak fairness for each task's own statements, by the same scheduler.

`NoC!FairSpec`: the clock does not stop, and a core whose interrupt waits has its interrupts on some time, because every critical section of the kernel ends.

### Proofs

Every theorem is for all values of the constants that the named assumption of its module admits (`KernelAssumption`, `SchedulerAssumption`, `SemTestAssumption`,
`MutexAssumption`, `HeapAssumption`, `NoCAssumption`, `TaskGraphAssumption` and `CountsExact`, `ArithmeticAssumption`, the driver's, or `BlurAssumption` and `AppAssumption`): any `MAX_TASKS > 0`, any set of semaphores and initial values, any ring, any
number of producers and consumers, any cores, tasks, queue and payload size, any heap, any slaves, any nicenesses, any
philosophers, any width of a word.

- HFKernel (in `SemTest_proofs`): `TypeCorrect`, `OneRunningTask`, `TableAgreesAlways`
  follow from one inductive invariant each, action by action. `TableAgrees`
  is about the cardinality of the set of live slots, so the proof uses the
  finite-set library for the task that is added or removed.
  `QueueSpanned` says that the end index of a waiting queue is its begin index plus
  the number of waiters, modulo the table size; it needs the facts of `ModLemmas`.
  Of the discipline, in the same module: `WaitersQueuedAlways` and `AsleepInsideAlways`. Neither is
  inductive alone. `RoomInLine` shows by the pigeonhole principle that
  a task which joins a line finds room: the others in line are different,
  none is the idle task, which calls nothing, nor the caller. This needs
  `AsleepInside` (no waiting task is the idle one or runs its own code), which in turn needs
  `CurrentAlive` (a running task that makes a call is alive); `SemInv` adds `TypeOK` and `QueueSpan`.
  `SemaphoreImplemented` is the refinement of Semaphore. `WaitAppends` and
  `PostTakesHead` say that the cells of the circular buffer from its begin index on, read as a sequence, lose their
  head or gain a last element and nothing else; with `SemInv` every kernel step is
  then one step of each semaphore or leaves it alone.
- SemTest: `RingAlwaysSafe`, for any ring, any number of producers and consumers and any schedule, on the kernel
  itself. `AppObeysKernel` says that a step of the application is a step of `SemSpec`, so `SemInv` and the refinement hold; `AppInv`
  adds that a task asleep on `m`, `empty` or `full` is at the statement after that call (`WhereAsleep`), that at most one
  task owns `m` and none when its counter is 1 (`OneOwner`: a woken task owns it before it runs), that the units of `empty` and `full` and
  the tasks that hold one are N (`Accounted`), and that the cells with items are the `Items` cells from `First` on (`RingFilled`),
  where `First` and `Last` are the indices corrected for a task that has used its cell and not yet moved its index. `UsefulCell`
  draws `AccessIsUseful` from the last two: a producer that owns `m` is a claim without an item, so fewer than N cells are filled.
- `Scheduler_proofs`: `BypassAlwaysBounded`. The scheduler's index walks round the table, and the model makes a choice in one step, by
  the number of steps until a counter is zero. `VisitsIs` says what that means to two tasks: w, whose counter is zero first, is visited as often as its counter says, and t
  as often or once less, as t lies behind or ahead on the walk (`WalkOrder`). So each turn of u after its first costs t as many
  visits as the niceness of u (`Waits`: the visits t has left, those that the turns of u took, those u has had since, and one more if
  the walk has passed t since it last passed u, are never more than the niceness of t), and `CeilingBounds` turns this into the ratio, rounded up. It is inductive with the types of the
  table, that no counter exceeds its niceness, and that the idle task is ready or runs, so that there is a task to choose. Tasks that are
  added, forked, stopped or resumed, and periodic tasks in between, leave the account as it is or start it again.
  `ForkAlwaysInherits` adds `EntryIsCurrent`: unless the application makes calls, the slot that the kernel looked at last is the running task's.
- `Heap_proofs`: `FilterExcludes`, for any number of slots and whatever `Clobber` writes. The argument
  goes by levels, not by pairs of tasks. The last task that came to a level has its id in `waiting` (`LastIsIn`) and passes
  only when it is alone there (`LastPassesAlone`), for a scan that has passed a task's index knows that this task can
  come in only by taking `waiting` over (`ScannedFree`). So each level keeps one task back, or a single one has it for itself
  (`Thinned`, by cardinalities): past level x are at most one or all but x of the users. The last level, whose entry is not the
  mutex's, is not needed: the idle task is no user, so level `MAX_TASKS - 2` leaves one task.
  `HeapExcludes`: a step of the heap is a step of the filter lock or leaves it alone, so its invariant carries over.
  `ChunksAlwaysTile`: the walk of the code from header to header is a recursive function, and the walk after a merge or a cut is not
  the walk before it, so the invariant is about the set of header words instead (`Heads`): each header's size leads to the next one (`Tiled`).
  `HeadersAreHeads` shows, by the least element of a set of counterexamples, that the walk finds exactly that set. `Tiled` alone is not inductive: the
  chunk that `malloc` cuts is the one it found steps earlier, so `HeapInv` adds what a task in the middle of a call still knows (`Jobs`), which is true
  because the mutex keeps the others out (`MutexInv`), and whose each used chunk is (`Owners`: `free` frees what its caller owns).
  `HeapImplementsAllocator` uses the same invariant: a step of the heap takes a block out of a gap, gives one back, refuses when no gap
  is long enough (`RoomIsFound`: a gap of the allocator is a run of free chunks, which `compact` merges), or does nothing the allocator sees.
- PacketDriver (in `ParallelBlur_proofs`): `DriverTypeCorrect`, `RingSpanAlways`, `InterfaceFreeAlways`, for `Spec`. The type invariant is not inductive:
  that a task never copies an empty slot needs `SlotsUsed` (every slot between `start` and `end`
  holds a packet, kept by `Store` because two offsets below the size
  are different modulo it), that a packet number fits needs `PacketsLeft` (from the feasibility
  test, `FeasibleFits`), and that the line of senders stays a line needs
  `InLine`. `InterfaceFree` rests on `ReadyIsFirst`: who has seen the interface empty is the
  head of its core's line, so no two tasks of a core have.
  For `PairSpec`, `ReconstructedAlways`. The invariant `PairInv` is about all packets on their way to a task, in the order of their arrival: those the
  receive call has copied, the software queue, the two interfaces, and those its sender has still to write. Together they
  are a chain of whole messages (`Chained`: each packet is the next of its message, or the first of one when the message before is
  complete). It is kept because they come from one task (`OneSender`), so that interfaces cannot reorder them, and are no more than the queue
  has slots, so that the interrupt drops none. A call that has copied as many packets as the first of them announces has
  then copied one message (`Receiving`).
  `ChannelImplemented` is the refinement of Channel: `Pending`, the messages begun in that chain, gains one when a send call begins and loses its head when a receive call
  returns, and every interrupt, transfer or write in between leaves the chain as it is.
- `NoC_proofs`: `WriterAlwaysHasRoom`, whatever the routers do. The core begins when its interface is empty, so the
  interface, with the flit on the wire, never holds more than the core has written of this packet, and a packet is no longer than
  the queue. The state of the handshake (`Handshake`) says whether the flit on the wire is already in the queue, so that it counts once.
  `PacketsAlwaysIntact` follows the flits along their whole way, in both builds. `After(f, g)` says that g may come next after f: the next flit of its packet, or the first
  of any packet when f was a last one; `Chain` says it of a queue. `PacketInv` says of each stretch, from the core into the queue of its router (`SendInv`), from a queue to the output
  its connection holds (`RouterInv`), over the wire to the next router (`LinkInv`), from the last router to the handler (`ReceiveInv`), that what is on it is such a chain and goes on
  where the next stretch ends; a wire carries either the next flit or one that has been taken (`Flow`). Packets that cross stay apart since at most one connection holds an output (`RouterOK`) and gives it
  up only behind a last flit: `Turned` is what a cycle of a router promises its neighbours, and `RouterDone` proves it of the accepting of flits, the arbitration and the forwarding of all ports, one
  after another. The handler reads a whole packet because interrupts come only when the interface holds one (`HandlerInv`). TLC finds `PacketInv` to hold in the instance of the run `noc`.
- ParallelBlur: `UsesPair` and `ImageAlwaysComplete`, of `BlurSpec`, that is, when no query of an id fails, for any set of slaves, any payload and any queue of two parts. The invariant of the
  tasks is written on what a task can see (`View`: where it is, the message in its hands, the messages on their way to it), one slave at a time
  (`Good`): either sr, the query and its answer go round, or, of the two parts sent, the first are stored, the next are answers on their way to sr, the next in the hands of
  `escravoTask` and the rest on their way to it (`Flow`). A step of one slave changes nobody else's view, a step of the driver changes one view, by
  the head of what is on its way, or none. `UsesPair` cannot be assumed in the proof of this: that the
  messages come whole is `PairInv`, which holds only while the application keeps to the flow control, and that it does follows from
  what is on its way. So `BlurInv` is the conjunction of both, and a step is shown to be one of `PairNext` and to keep it at once. The room for a send is
  counted in packets but known in messages; `WindowOpen` has the bound, since a chain of k messages of at most P packets is no longer
  than kP (`ChainBound`). `ImageAlwaysComplete` adds that what is stored is at its place (`FinalAt`) and that the units of `n` and
  the waits of mestre are, together, the parts posted: as many waits as parts means every part is posted. `PartsShown` is then about pixels: `DoGausian` solves the
  recursion of the copies, and no window that is left runs over the end of a line or of the part.
- `SoftArithmetic_proofs`: `ArithmeticAlways`, for words of any even width (the real one is 32) and the arguments of `Defined`: not `__modsi3` and `__moddi3` by a negative divisor nor `__ashrdi3` by a whole word, which are wrong, nor a divisor of zero and shifts by more than a word. Nothing is said about bits: a shift is a product
  or a quotient by a power of two (`Pow2Is`, from the definition of the recursive function; `Pow2Plus`), and `LeftShift`, `RightShift` and `SignedShift` show what
  the two words of a double word lose and gain. `WideProduct` and `DoubleProduct` put a product together from those of the halves: no carry is lost
  (`HalvesFit`). The loops have an invariant each. `MultiplyInv`: what is added so far and the product that is left make up the product. `DivideInv`: the divisor is in two
  words, a and b, that together hold it in the place of the next bit (`InPlace`), which only holds because the bits shifted out of b are those shifted into a (`Lowered`); the bits found and the rest make up the dividend, and
  the rest is below the divisor in the last place (`Divided`). `AlignInv` and `SubtractInv` for `__udivmoddi4`, whose first loop must bring the divisor high enough: when it
  ends the dividend is below twice the divisor in its place, or the divisor's upper bit is set and no double word is as much as twice that.
- `TaskGraph_proofs`: texts are followed up from single statements through the services to the applications
  (`TextJoin`, `TextFlatten`, by the recursion of `FlattenSeq`). `TableInv` says that every task is inside its text,
  so that its statement is one of it.
  `NeighboursAlways`: between its wait for `mtx` and its post a task is `Within`, which its statement tells (`DinnerFollows`), and only such a task writes a state. There is one at most
  (`OneHolder`: the unit of `mtx` and the tasks inside are one together, by `LineInv` also when a post hands it to a task that sleeps). So what `test` has seen of the neighbours (`Looked`) is still
  true when it writes `EATING`, several statements and any ticks later. Without `mtx` it is not: that is the mutant of `NeighboursExclude`.
  `MessagesAlwaysSafe`: the texts of the task graphs are runs of statements in a fixed order (`GraphTexts`, `Follows`), so that the statement a task is at
  says which one it has done and which one comes (`NextIs`). `LineInv`: the tasks in the line of a semaphore are those that sleep on it, each once, and never the one that has the core, so that who a post wakes is at a
  wait for that semaphore. `MsgInv` adds for each target the balance (`Balanced`: senders that wait for its answer, by the counts of its semaphores and what it has in its hands) and what its only sender has
  written so far (`Written`, field by field). It holds with the timer coming at any time, which run `ipc` grants only to the applications in `Preempted`. `CountsExact` (evaluated by the run): counts go as far as a target has senders, as the `int32_t` of the code does.
  `MailboxesAlwaysSafe`: in `mailbox_test`, too, the statement says where a task is: `Area` is the mailbox it is inside, from its wait to its post (`Leaves`). `Token`: the counts of the two semaphores
  of a mailbox and the tasks inside it are one together, by `LineInv` also when a post hands its unit to a task that sleeps. `Turn`: `task0` waits for `wait` exactly while its string is in the mailbox, with `task1`, or printed and posted,
  so it writes the next one when `task1` is done with it. Any `Rounds`, and ticks at any time; `mail4`, the mailbox asked with `HF_MboxAccept`, makes no promise.

`AppAssumption` is what the blur's proofs assume of the constants of PacketDriver: tasks, homes and routes of `filter.c`, and a queue
with room for the packets of two parts (20 of the 32 slots in the real build; the 16 slots of the hf_risc port do not satisfy it). TLC evaluates it in the run `blur`.

The type invariants are proved and not checked by runs: a run's properties are spent on what a type does not say.

Only model-checked: the refinements of Network and Processor (`ImplementsNetwork`, `ImplementsProcessor`), of Scheduler `DeadlinesMet` (whether a set of periods fits is decided by its schedule over all of them), and the invariants of Exchange. Liveness (`NobodyStarves`, `SendsFinish`, `ReceiveReturns`, `Answered`, `Arrives`, `GetsTheCore`, `EntersUnlessHung`)
is out of the prover's reach, and so are Plasma and Mips, whose words are bitwise. Exchange is about fixed applications, with the
messages and tasks they have: theorems would say little more than its runs.


## 5. Plan

Done: the kernel core, semaphores, packet driver and blur; the schedulers and fork; mailboxes, messages and the applications on
them; heap and filter lock; the interrupt path and the processor; the network on chip; the applications that talk across cores; the pixels of the blur; multiplication and division by software.
Proved: kernel table, semaphores and their refinement, the ring of `sem_test.c`, the filter lock, the heap and its refinement, the bypass bound of the best effort scheduler and what a fork inherits, the packet driver and its refinement under flow control,
the network's writer and the packets that arrive, the blur from the tasks to the pixels, the arithmetic for any width, the philosophers for any number, the messages of the task graphs and the mailboxes.

Left, in this order:

1. Proofs: the refinement of Network by NoC, from `PacketInv` and a count of the packets on each stretch.
2. Model: `HF_MboxAccept` on a shared mailbox, `pktdrv_mutex` and the wait for the interface in Exchange.

## 6. Not modelled

- The statistics of the kernel and the packet driver (ticks, packets sent and lost, memory usage), the driver's CRC (never
  compiled in), packets of a wrong length (no sender makes one), and failing `malloc` in the applications.
- Strings, numbers and printing of `hflibc.c`: pure computation over bytes. Read, not checked: `strpbrk` looks only at the first character.
- `list.c`, which no modelled service uses, and the weights of the Gaussian.
- `GeracaoImagem` and the image headers of `app`: image data (five files of over 1000 lines of numbers) and their converters.
- The hf_risc and x86 ports: the packet driver of hf_risc is the same code with half the queue; the rest is startup code and device registers.
- In the simulator: exceptions (`SYSCALL`, `BREAK`), accesses over the end of a word, serial line, debugger, statistics and the printing of `noc.c`. At startup, the loader and the zeroing of memory.
- The demonstrations of single services that are modelled (`mutex_test.c`, `fork_test.c`, `fork_test_rt.c`, `malloc_test.c`, `oneshot.c`, `preemption_test.c`) or left out (`sleep_test.c`, `dummy_test.c`), and the `HF_OLD_MUTEX` variant, which no makefile selects.
