----------------------------- MODULE Processor -----------------------------
(***************************************************************************)
(* What the tasks of a core may believe: each of them has a processor to   *)
(* itself.  A task steps through its program, one instruction at a time    *)
(* and each taken branch after its delay slot; its registers change by its *)
(* own instructions alone; the memory is shared.  A product is the exact   *)
(* one, of the signed multiplication only the low word and, when no factor *)
(* is negative, the high word.  A task that looks at the status register   *)
(* outside its critical sections sees the interrupts on.                   *)
(***************************************************************************)
EXTENDS Mips

CONSTANTS Tasks,        \* the tasks of the core
          Programs,     \* address -> the instruction there, of all tasks
          Entry,        \* task -> address of its first instruction
          Registers,    \* what a task sees of the register file
          Cells,        \* addresses of the shared memory
          Junk          \* what a call leaves in the registers it may use

VARIABLES code, reg, pc, npc, memory

vars == <<code, reg, pc, npc, memory>>

\* s0 stands for the registers a call preserves.
AfterCall(r) == [x \in DOMAIN r |-> CASE x = "zero" -> 0 [] x = "s0" -> r[x] [] OTHER -> Junk]

Init == /\ code \in Programs
        /\ reg = [t \in Tasks |-> AfterCall([x \in Registers |-> 0])]
        /\ pc = Entry
        /\ npc = [t \in Tasks |-> Entry[t] + 1]
        /\ memory = [c \in Cells |-> 0]

HighWords(i, a, b) ==
    CASE i.op = "MULTU" -> {(a * b) \div Word}
      [] i.op = "MULT"  -> IF Signed(a) < 0 \/ Signed(b) < 0 THEN 0 .. Word - 1
                                                             ELSE {(a * b) \div Word}

Effects(i, r, next) ==
    LET a == r[i.rs]
        b == r[i.rt]
    IN CASE i.op \in {"MULT", "MULTU"} ->
               {Put(Put(r, "hi", h), "lo", Wrap(Signed(a) * Signed(b))) : h \in HighWords(i, a, b)}
         [] i.op \in Loads -> {Put(r, i.rt, Loaded(i.op, memory, a + i.imm))}
         [] i.op \in Stores -> {Conditional(i, r)}
         [] i.op = "MFC0" -> {Put(r, i.rt, 1)}
         [] i.op = "CALL" -> {AfterCall(r)}
         [] Class(i.op) \in {"branch", "jump"} -> {Linked(i, r, next + 1)}
         [] i.op = "MTC0" -> {r}
         [] OTHER -> {Written(i, r)}

Step(t) ==
    LET i == code[pc[t]]
        r == reg[t]
    IN /\ \E s \in Effects(i, r, npc[t]) : reg' = [reg EXCEPT ![t] = s]
       /\ memory' = IF i.op \in Stores THEN mem_write(memory, Size(i.op), r[i.rs] + i.imm, r[i.rt]) ELSE memory
       /\ pc' = [pc EXCEPT ![t] = npc[t]] /\ code' = code
       /\ npc' = [npc EXCEPT ![t] = IF Class(i.op) \in {"branch", "jump"}
                                    THEN Target(i, r, npc[t]) ELSE npc[t] + 1]

Next == \E t \in Tasks : Entry[t] \in DOMAIN code /\ Step(t)

Spec == Init /\ [][Next]_vars
=============================================================================
