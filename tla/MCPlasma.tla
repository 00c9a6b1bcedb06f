------------------------------ MODULE MCPlasma ------------------------------
(* Two tasks that share a counter, with four-bit words. *)
EXTENDS Plasma

RegistersOfTask == {"zero", "ra", "t0", "t1", "s0", "hi", "lo"}

Start == [t \in {1, 2} |-> 100 * t]

\* A critical section, then a yield, in a loop whose backward jump has work in
\* its delay slot.
Critical(a) == <<
   Ins("MTC0", "zero", "zero", "zero", 0),
   Ins("ORI", "zero", "zero", "s0", 1),
   Ins("MTC0", "zero", "zero", "s0", 0),
   Ins("CALL", "zero", "zero", "zero", 0),
   Ins("J", "zero", "zero", "zero", a),
   Ins("SUBU", "s0", "s0", "s0", 0)>>

\* Multiplies, shifts and compares; a branch over the shift, a subroutine.
Computing(a, x, y) == <<
   Ins("ORI", "zero", "zero", "t0", x),
   Ins("MULT", "zero", "t0", "s0", 0),
   Ins("MFLO", "t0", "zero", "zero", 0),
   Ins("BLEZ", "zero", "t0", "zero", 2),
   Ins("SLT", "t1", "t0", "s0", 0),
   Ins("SRA", "t1", "zero", "t0", 1),
   Ins("JAL", "zero", "zero", "zero", a + 9),
   Ins("MULTU", "zero", "t0", "t1", 0),
   Ins("J", "zero", "zero", "zero", a),
   Ins("JR", "zero", "ra", "zero", 0),
   Ins("ORI", "zero", "zero", "s0", y)>>

\* Divides, selects and links; one iteration of the loop skips its branch.
Dividing(a) == <<
   Ins("ORI", "zero", "zero", "s0", 5),
   Ins("LUI", "zero", "zero", "t0", 3),
   Ins("DIV", "zero", "t0", "s0", 0),
   Ins("MFHI", "t1", "zero", "zero", 0),
   Ins("SW", "zero", "zero", "t1", 0),
   Ins("LW", "zero", "zero", "t0", 0),
   Ins("MOVN", "t0", "t1", "t1", 0),
   Ins("BGEZAL", "zero", "t0", "zero", 2),
   Ins("NOR", "t1", "t1", "zero", 0),
   Ins("SLTU", "t1", "t0", "t1", 0),
   Ins("J", "zero", "zero", "zero", a),
   Ins("ADDU", "t0", "t0", "s0", 0)>>

\* Loads and stores bytes and halves of the shared word, looks at the status register
\* and goes on behind the delay slot of a likely branch, taken or not.
Bytes(a) == <<
   Ins("MFC0", "zero", "zero", "t0", 0),
   Ins("SB", "zero", "zero", "t0", 1),
   Ins("LB", "zero", "zero", "t1", 1),
   Ins("SH", "zero", "zero", "s0", 2),
   Ins("LH", "zero", "zero", "t0", 2),
   Ins("BNEL", "zero", "t0", "t1", 2),
   Ins("LHU", "zero", "zero", "t1", 0),
   Ins("SC", "zero", "zero", "t0", 0),
   Ins("LL", "zero", "zero", "t0", 0),
   Ins("J", "zero", "zero", "zero", a),
   Ins("ADDU", "s0", "s0", "t1", 0)>>

At(t, p) == [i \in Start[t] .. Start[t] + Len(p) - 1 |-> p[i - Start[t] + 1]]

Both(p, q) == [i \in DOMAIN At(1, p) \cup DOMAIN At(2, q) |->
                 IF i < Start[2] THEN At(1, p)[i] ELSE At(2, q)[i]]

AllPrograms == {Both(Critical(100), Critical(200)), At(1, Dividing(100)), At(1, Bytes(100))}
               \cup {At(1, Computing(100, x[1], x[2])) : x \in {<<7, 6>>, <<13, 7>>, <<11, 15>>}}

\* The two bits of the counter change places at every tick and nothing else
\* tells them apart: what matters is whether the mask lets the set one through.
TimerDue == COUNTERS \cap IRQ_STATUS \cap IRQ_MASK # {}
Bits(s) == IF COUNTERS \cap s = {} THEN s ELSE (s \ COUNTERS) \cup {"COUNTER18"}

\* Left out: k0, k1 and epc where they are written before they are read, and
\* what is kept of the task that executes.
LiveState ==
    <<code, mem, irq, pc, pc_next, status, jump_or_branch,
      IF pc = VECTOR THEN epc ELSE 0,
      IF Live \/ pc <= WalkAt THEN [r EXCEPT !["k0"] = 0, !["k1"] = 0] ELSE r, TimerDue, IRQ_STATUS \ COUNTERS, flits_remaining, port_in,
      HF_current_task,
      [t \in Tasks |-> [k \in DOMAIN frames[t] |-> [frames[t][k] EXCEPT !.bits = Bits(@)]]],
      [t \in Tasks |-> View(t)],
      [t \in Tasks |-> IF t = HF_current_task THEN 0 ELSE task_context[t]]>>
=============================================================================
