------------------------------- MODULE Plasma -------------------------------
(***************************************************************************)
(* One simulated core and the code that takes its interrupts: cycle() and  *)
(* the latches of do_debug() in mpsoc_sim.c, the service routine of        *)
(* boot.s, the walk over the handlers of interrupt.c, the timer handler    *)
(* with its change of task, and the packet handler as far as it reads the  *)
(* network interface.                                                      *)
(*                                                                         *)
(* A task runs its own program, which may be interrupted before any        *)
(* instruction.  The C code of the kernel is taken in the pieces that an   *)
(* interrupt or the hardware can fall between.  A task that is given the   *)
(* core back inside its service routine goes through the rest of it with   *)
(* the interrupts ON, for HF_RestoreExecution enables them; frames[t] is   *)
(* the stack of the service routines task t is inside of, innermost last.  *)
(***************************************************************************)
EXTENDS Mips, Sequences, FiniteSets

CONSTANTS Tasks,          \* the tasks of the core
          Programs,       \* the programs to run: address -> instruction
          Entry,          \* task -> address of its first instruction
          Registers,      \* the registers of a task, hi and lo among them
          Cells,          \* addresses of the shared memory
          Junk,           \* what C code leaves in the registers it may use
          OS_PACKET_SIZE, \* flits of a packet
          KeepWindow,     \* is the end of the service routine left alone (see Clear)
          MaxFrames       \* service routines of one task inside each other

VARIABLES code,           \* address -> instruction, of both tasks
          r, pc, pc_next, epc, status, jump_or_branch,   \* the State of the core
          mem,            \* the shared memory
          irq,            \* irq_counter: an interrupt has been latched
          IRQ_MASK, IRQ_STATUS,
          flits_remaining,
          port_in,        \* flits of a packet that wait in the network interface
          HF_current_task,
          task_context,   \* task -> where it goes on, and its preserved register
          frames,         \* task -> its service routines
          seen            \* task that is not executing -> what it left

stateVars == <<pc, pc_next, epc, status, jump_or_branch>>
deviceVars == <<IRQ_MASK, IRQ_STATUS, flits_remaining, port_in>>
kernelVars == <<HF_current_task, task_context, frames>>
vars == <<code, r, mem, irq, seen, stateVars, deviceVars, kernelVars>>

COUNTERS == {"COUNTER18_NOT", "COUNTER18"}
NOC_READ == "NOC_READ"
\* The bits of the status register in the order of the walk.
Order == <<"COUNTER18_NOT", "COUNTER18", "NOC_READ">>

AfterCall(regs) == [x \in DOMAIN regs |-> CASE x = "zero" -> 0 [] x = "s0" -> regs[x] [] OTHER -> Junk]
-----------------------------------------------------------------------------
(* The service routine of boot.s.  SAVE and RESTORE stand for the stores   *)
(* and the loads of the registers a call may change; LWSP loads the slot   *)
(* of the frame that its register is named for.                            *)

VECTOR == 0
Piece(op) == Ins(op, "zero", "zero", "zero", 0)
Slot(rt, field) == Ins("LWSP", field, "zero", rt, 0)

ISR == <<Piece("SAVE"), Piece("STATUS"), Piece("WALK"), Piece("RESTORE"),
         Slot("k0", "k0"),
         Slot("k1", "hi"), Ins("MTHI", "zero", "k1", "zero", 0),
         Slot("k1", "lo"), Ins("MTLO", "zero", "k1", "zero", 0),
         Piece("POP"),
         Ins("ORI", "zero", "zero", "k1", 1),
         Ins("JR", "zero", "k0", "zero", 0), Ins("MTC0", "zero", "zero", "k1", 0)>>

WalkAt  == VECTOR + 2
InISR(a) == a \in VECTOR .. VECTOR + Len(ISR) - 1
Fetched == IF InISR(pc) THEN ISR[pc - VECTOR + 1] ELSE code[pc]

\* From the load of k0 to the jump through it: an interrupt taken here with
\* the interrupts on gives k0 another value, and the task never gets back.
Window == VECTOR + 5 .. VECTOR + 11
Clear  == KeepWindow => pc \notin Window
-----------------------------------------------------------------------------
Current == HF_current_task
Top     == frames[Current][Len(frames[Current])]
SetTop(f) == frames' = [frames EXCEPT ![Current] = [@ EXCEPT ![Len(@)] = f]]
Live    == ~InISR(pc)

\* A task without a program is not in the task table; the others are always ready.
Ready   == {t \in Tasks : Entry[t] \in DOMAIN code}

Init == /\ code \in Programs
        /\ r = AfterCall([x \in Registers \cup {"k0", "k1"} |-> 0])
        /\ mem = [c \in Cells |-> 0]
        /\ HF_current_task \in Ready
        /\ pc = Entry[HF_current_task] /\ pc_next = pc + 1
        /\ epc = 0 /\ status = 1 /\ jump_or_branch = FALSE /\ irq = FALSE
        /\ IRQ_MASK = {"COUNTER18", NOC_READ}
        /\ IRQ_STATUS = {}
        /\ flits_remaining = 0 /\ port_in = 0
        /\ task_context = [t \in Tasks |-> [s0 |-> 0, next |-> Entry[t]]]
        /\ frames = [t \in Tasks |-> <<>>]
        /\ seen = [t \in Tasks |-> [r |-> AfterCall([x \in Registers |-> 0]),
                                    pc |-> Entry[t], npc |-> Entry[t] + 1]]

Visible == [x \in Registers |-> r[x]]

\* What the running task leaves when the core turns away from it.
Leaves(regs, at, next) == seen' = [seen EXCEPT ![Current] = [r |-> regs, pc |-> at, npc |-> next]]
-----------------------------------------------------------------------------
(* cycle() *)

\* Mutant: the delay slot of a taken branch is not protected.
TakesInterruptAnywhere == irq

\* A latched interrupt is taken, but not in the delay slot of a taken branch.
TakesInterrupt == irq /\ ~jump_or_branch

Interrupted ==
    /\ TakesInterrupt
    /\ epc' = pc + 1
    /\ pc' = VECTOR /\ pc_next' = VECTOR + 1
    /\ status' = 0 /\ irq' = FALSE /\ jump_or_branch' = FALSE
    /\ IF Live THEN Leaves(Visible, pc, pc_next) ELSE UNCHANGED seen
    /\ UNCHANGED <<code, r, mem, deviceVars, kernelVars>>

Fetches(ops) == ~TakesInterrupt /\ Fetched.op \in ops

Sequential == /\ pc' = pc_next /\ pc_next' = pc_next + 1 /\ jump_or_branch' = FALSE
              /\ UNCHANGED <<code, epc, irq, seen>>

Arithmetic ==
    /\ ~TakesInterrupt
    /\ Class(Fetched.op) \in {"special", "shift", "product", "select", "move", "immediate"}
    /\ Fetched.op \notin {"SAVE", "STATUS", "WALK", "RESTORE", "LWSP", "POP"}
    /\ r' = Written(Fetched, r)
    /\ Sequential
    /\ UNCHANGED <<mem, status, deviceVars, kernelVars>>

Branch ==
    /\ ~TakesInterrupt
    /\ Class(Fetched.op) \in {"branch", "jump"}
    /\ r' = Linked(Fetched, r, pc_next + 1)
    /\ pc' = pc_next
    /\ pc_next' = Target(Fetched, r, pc_next)
    /\ jump_or_branch' = Jumps(Fetched, r)
    /\ UNCHANGED <<code, mem, epc, status, irq, seen, deviceVars, kernelVars>>

MoveToC0 ==
    /\ Fetches({"MTC0"})
    /\ status' = r[Fetched.rt] % 2
    /\ Sequential
    /\ UNCHANGED <<r, mem, deviceVars, kernelVars>>

MoveFromC0 ==
    /\ Fetches({"MFC0"})
    /\ r' = Put(r, Fetched.rt, status)
    /\ Sequential
    /\ UNCHANGED <<mem, status, deviceVars, kernelVars>>

Address == r[Fetched.rs] + Fetched.imm

Load == /\ Fetches(Loads)
        /\ r' = Put(r, Fetched.rt, Loaded(Fetched.op, mem, Address))
        /\ Sequential
        /\ UNCHANGED <<mem, status, deviceVars, kernelVars>>

Store == /\ Fetches(Stores)
         /\ mem' = mem_write(mem, Size(Fetched.op), Address, r[Fetched.rt])
         /\ r' = Conditional(Fetched, r)
         /\ Sequential
         /\ UNCHANGED <<status, deviceVars, kernelVars>>
-----------------------------------------------------------------------------
(* The service routine *)

Saved == Registers \ {"zero", "s0", "hi", "lo"}

\* A new frame: the registers, the address of the instruction that was not
\* executed, hi and lo.
Save == /\ Fetches({"SAVE"})
        /\ frames' = [frames EXCEPT ![Current] =
              Append(@, [r |-> [x \in Saved |-> r[x]], k0 |-> epc - 1, hi |-> r["hi"], lo |-> r["lo"],
                         at |-> "walk", bits |-> {}, left |-> 0])]
        /\ Sequential
        /\ UNCHANGED <<r, mem, status, deviceVars, HF_current_task, task_context>>

\* The status is read once and handed to HF_InterruptServiceRoutine.
ReadStatus == /\ Fetches({"STATUS"})
              /\ SetTop([Top EXCEPT !.bits = IRQ_STATUS \cap IRQ_MASK])
              /\ Sequential
              /\ UNCHANGED <<r, mem, status, deviceVars, HF_current_task, task_context>>

Restore == /\ Fetches({"RESTORE"})
           /\ r' = [x \in DOMAIN r |-> IF x \in Saved THEN Top.r[x] ELSE r[x]]
           /\ Sequential
           /\ UNCHANGED <<mem, status, deviceVars, kernelVars>>

Reload == /\ Fetches({"LWSP"})
          /\ r' = Put(r, Fetched.rt, Top[Fetched.rd])
          /\ Sequential
          /\ UNCHANGED <<mem, status, deviceVars, kernelVars>>

Pop == /\ Fetches({"POP"})
       /\ frames' = [frames EXCEPT ![Current] = SubSeq(@, 1, Len(@) - 1)]
       /\ Sequential
       /\ UNCHANGED <<r, mem, status, deviceVars, HF_current_task, task_context>>
-----------------------------------------------------------------------------
(* HF_InterruptServiceRoutine and the handlers *)

Walking == Fetches({"WALK"}) /\ Top.at = "walk"
Lowest  == Order[CHOOSE k \in 1 .. Len(Order) :
                    Order[k] \in Top.bits /\ \A j \in 1 .. k - 1 : Order[j] \notin Top.bits]

WalkEnds == /\ Walking /\ Top.bits = {}
            /\ r' = AfterCall(r)
            /\ Sequential
            /\ UNCHANGED <<mem, status, deviceVars, kernelVars>>

HF_UpdateCounterMask == IRQ_MASK' = (IRQ_MASK \ COUNTERS) \cup (COUNTERS \ IRQ_MASK)

\* HF_RestoreExecution: the preserved registers of task n, the interrupts on,
\* and back to where n called setjmp.
RestoreExecution(n, saved) ==
    LET c == saved[n]
    IN /\ HF_current_task' = n
       /\ task_context' = saved
       /\ r' = AfterCall([r EXCEPT !["s0"] = c.s0])
       /\ pc' = c.next /\ pc_next' = c.next + 1
       /\ status' = 1 /\ jump_or_branch' = FALSE

\* HF_DispatcherISR of a started kernel; the schedulers may choose any task.
Dispatch(n) ==
    /\ Walking /\ Top.bits # {} /\ Lowest \in COUNTERS
    /\ HF_UpdateCounterMask
    /\ SetTop([Top EXCEPT !.bits = @ \ {Lowest}])
    /\ RestoreExecution(n, [task_context EXCEPT ![Current] =
                              [s0 |-> r["s0"], next |-> WalkAt]])
    /\ UNCHANGED <<code, mem, epc, irq, seen, IRQ_STATUS, flits_remaining, port_in>>

\* Mutant: the handler relies on the interrupts being off already.
CriticalBeginLeftOut == status' = status

\* RecvCommServiceISR turns the interrupts off itself before it reads.
CriticalBegin == status' = 0

PacketHandler ==
    /\ Walking /\ Top.bits # {} /\ Lowest = NOC_READ
    /\ CriticalBegin
    /\ SetTop([Top EXCEPT !.bits = @ \ {NOC_READ}, !.at = "reads", !.left = OS_PACKET_SIZE + 1])
    /\ UNCHANGED <<code, r, mem, epc, irq, seen, pc, pc_next, jump_or_branch,
                   deviceVars, HF_current_task, task_context>>

\* NocRead: the first one of a packet starts the interface, a later one takes
\* a flit if there is one.
NocRead ==
    /\ Fetches({"WALK"}) /\ Top.at = "reads"
    /\ SetTop([Top EXCEPT !.left = @ - 1, !.at = IF Top.left = 1 THEN "walk" ELSE @])
    /\ IRQ_STATUS' = IRQ_STATUS \ {NOC_READ}
    /\ IF flits_remaining = OS_PACKET_SIZE + 1
       THEN flits_remaining' = flits_remaining - 1 /\ UNCHANGED port_in
       ELSE IF port_in > 0
       THEN flits_remaining' = flits_remaining - 1 /\ port_in' = port_in - 1
       ELSE UNCHANGED <<flits_remaining, port_in>>
    /\ UNCHANGED <<code, r, mem, irq, seen, stateVars, IRQ_MASK, HF_current_task, task_context>>

\* HF_TaskYield: the caller goes on behind the call when it has the core again.
Yield(n) ==
    /\ Fetches({"CALL"})
    /\ LET saved == [task_context EXCEPT ![Current] =
                       [s0 |-> r["s0"], next |-> pc_next]]
       IN RestoreExecution(n, saved)
    /\ Leaves([x \in Registers |-> AfterCall(r)[x]], pc_next, pc_next + 1)
    /\ UNCHANGED <<code, mem, epc, irq, deviceVars, frames>>
-----------------------------------------------------------------------------
(* The devices, as do_debug() lets them interrupt *)

Room    == Len(frames[Current]) < MaxFrames

\* Mutant: a tick is latched whatever the status register says.
LatchesAlways == IRQ_MASK \cap COUNTERS # {}

Latches == IRQ_MASK \cap COUNTERS # {} /\ status = 1

\* Every tick swaps the two status bits of the counter, latched or not.
Tick ==
    /\ Latches => Room /\ Clear
    /\ irq' = (irq \/ Latches)
    /\ IRQ_STATUS' = IF "COUNTER18" \in IRQ_STATUS
                     THEN (IRQ_STATUS \ {"COUNTER18"}) \cup {"COUNTER18_NOT"}
                     ELSE (IRQ_STATUS \ {"COUNTER18_NOT"}) \cup {"COUNTER18"}
    /\ UNCHANGED <<code, r, mem, seen, stateVars, IRQ_MASK, flits_remaining, port_in, kernelVars>>

PacketComes == /\ port_in = 0
               /\ port_in' = OS_PACKET_SIZE
               /\ UNCHANGED <<code, r, mem, irq, seen, stateVars, IRQ_MASK, IRQ_STATUS,
                              flits_remaining, kernelVars>>

PacketRaises ==
    /\ port_in = OS_PACKET_SIZE /\ flits_remaining = 0
    /\ NOC_READ \in IRQ_MASK /\ status = 1
    /\ Room /\ Clear
    /\ flits_remaining' = OS_PACKET_SIZE + 1
    /\ irq' = TRUE
    /\ IRQ_STATUS' = IRQ_STATUS \cup {NOC_READ}
    /\ UNCHANGED <<code, r, mem, seen, stateVars, IRQ_MASK, port_in, kernelVars>>
-----------------------------------------------------------------------------
Cycle == Interrupted \/ Arithmetic \/ Branch \/ MoveToC0 \/ MoveFromC0 \/ Load \/ Store

Service == Save \/ ReadStatus \/ Restore \/ Reload \/ Pop \/ WalkEnds \/ PacketHandler \/ NocRead

Next == \/ Cycle
        \/ Service
        \/ \E n \in Ready : Dispatch(n) \/ Yield(n)
        \/ Tick
        \/ PacketComes
        \/ PacketRaises

Spec == Init /\ [][Next]_vars
-----------------------------------------------------------------------------
Executing(t) == t = Current /\ Live

View(t) == IF Executing(t) THEN [r |-> Visible, pc |-> pc, npc |-> pc_next] ELSE seen[t]

Own == INSTANCE Processor WITH
          reg    <- [t \in Tasks |-> View(t).r],
          pc     <- [t \in Tasks |-> View(t).pc],
          npc    <- [t \in Tasks |-> View(t).npc],
          memory <- mem

\* Interrupts cannot be noticed: every task computes what it would with a
\* processor of its own, whatever is interrupted, saved, switched, interrupted
\* again on the way back and restored ("cpu context is restored to the state
\* before the interrupt").
ImplementsProcessor == Own!Spec

\* HF_CriticalBegin and HF_CriticalEnd exclude: no two tasks are between them.
InCritical(a) == \E b \in DOMAIN code :
                    /\ b < a /\ code[b].op = "MTC0" /\ code[b].rt = "zero"
                    /\ \A c \in b + 1 .. a - 1 : code[c].op # "MTC0"

CriticalExcludes == Cardinality({t \in Tasks : InCritical(View(t).pc)}) <= 1

Readers == {<<t, k>> \in Tasks \X (1 .. MaxFrames) :
               k \in DOMAIN frames[t] /\ frames[t][k].at = "reads"}

\* Two packet handlers never read the interface in turns, although the walk that
\* reaches a handler may be done with the interrupts on: RecvCommServiceISR turns
\* them off before it reads ("this IS NEEDED on the simulator").
OneReader == Cardinality(Readers) <= 1

\* A handler takes a packet whole: no flits are left of one that was begun when
\* nobody is reading ("we need to read ALL data from the incoming hw fifo at once,
\* or things get nasty").
ReadAtOnce == port_in \in {0, OS_PACKET_SIZE} \/ Readers # {}

\* The last jump of the outermost service routine goes to the instruction that
\* was not executed: "when done, the function returns and cpu context is
\* restored to the state before the interrupt".
ReturnsToTask == InISR(pc) /\ Fetched.op = "JR" /\ frames[Current] = <<>>
                    => r["k0"] = seen[Current].pc
=============================================================================
