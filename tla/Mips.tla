-------------------------------- MODULE Mips --------------------------------
(***************************************************************************)
(* What the instructions of the simulated core compute: the switch of      *)
(* cycle() in mpsoc_sim.c and the two multipliers it calls.  A word is a   *)
(* number below Word; the C int of the same bits is Signed of it.  The     *)
(* multipliers work on halves of HALF bits, 16 in the code.                *)
(*                                                                         *)
(* An instruction is a record with the opcode, the names of its registers  *)
(* and its immediate.  Addresses of code count instructions.               *)
(***************************************************************************)
EXTENDS Integers, Bitwise

CONSTANT HALF

ASSUME MipsAssumption == HALF \in Nat \ {0} /\ HALF % 2 = 0

Byte == 2^(HALF \div 2)
Half == 2^HALF
Word == Half * Half

Wrap(x)   == x % Word
Signed(x) == IF x >= Word \div 2 THEN x - Word ELSE x
Low(x)    == x % Half
High(x)   == x \div Half
Truth(b)  == IF b THEN 1 ELSE 0
\* C division truncates, TLA+ division does not.
Quotient(a, b) == LET q == (IF a < 0 THEN -a ELSE a) \div (IF b < 0 THEN -b ELSE b)
                  IN IF (a < 0) = (b < 0) THEN q ELSE -q
-----------------------------------------------------------------------------
\* The unsigned product out of four products of halves.
mult_big_unsigned(a, b) ==
    LET c0   == Low(a) * Low(b)
        c1_a == High(a) * Low(b)
        c1_b == Low(a) * High(b)
        c1   == Low(c1_a) + Low(c1_b) + High(c0)
    IN [hi |-> Wrap(High(a) * High(b) + High(c1_a) + High(c1_b) + High(c1)),
        lo |-> Wrap(Low(c1) * Half + Low(c0))]

\* The same on C ints: a shift right keeps the sign, the halves go to unsigned words.
mult_big_signed(a, b) ==
    LET ahi  == Wrap(Signed(a) \div Half)
        bhi  == Wrap(Signed(b) \div Half)
        c0   == Low(a) * Low(b)
        c1_a == Wrap(ahi * Low(b))
        c1_b == Wrap(Low(a) * bhi)
        c1   == Low(c1_a) + Low(c1_b) + High(c0)
    IN [hi |-> Wrap(ahi * bhi + High(c1_a) + High(c1_b) + High(c1)),
        lo |-> Wrap(Low(c1) * Half + Low(c0))]
-----------------------------------------------------------------------------
\* A shift by a register and a shift by the constant re are the same instruction here.
Shifted(op, v, n) ==
    CASE op \in {"SLL", "SLLV"} -> Wrap(v * 2^n)
      [] op \in {"SRL", "SRLV"} -> v \div 2^n
      [] op \in {"SRA", "SRAV"} -> Wrap(Signed(v) \div 2^n)

\* What SPECIAL puts in rd: a is rs, or re for a shift, and b is rt.
Computed(op, a, b) ==
    CASE op \in {"ADD", "ADDU", "DADDU"}   -> Wrap(a + b)
      [] op \in {"SUB", "SUBU"}            -> Wrap(a - b)
      [] op = "AND"                        -> a & b
      [] op = "OR"                         -> a | b
      [] op = "XOR"                        -> a ^^ b
      [] op = "NOR"                        -> Word - 1 - (a | b)
      [] op = "SLT"                        -> Truth(Signed(a) < Signed(b))
      [] op = "SLTU"                       -> Truth(a < b)
      [] OTHER                             -> Shifted(op, b, a)

Products(op, a, b) ==
    CASE op = "MULT"  -> mult_big_signed(a, b)
      [] op = "MULTU" -> mult_big_unsigned(a, b)
      [] op = "DIV"   -> LET q == Quotient(Signed(a), Signed(b))
                         IN [lo |-> Wrap(q), hi |-> Wrap(Signed(a) - q * Signed(b))]
      [] op = "DIVU"  -> [lo |-> a \div b, hi |-> a % b]

\* Memory is a function of the addresses of words to words, and the program is
\* big-endian.  An access to 1, 2 or 4 bytes does not go over the end of its word;
\* below are the bytes of the word behind it.
Loads  == {"LB", "LH", "LW", "LBU", "LHU", "LL", "CACHE"}     \* CACHE goes on into LL
Stores == {"SB", "SH", "SW", "SC"}

Size(op) == CASE op \in {"LB", "LBU", "SB"} -> 1
              [] op \in {"LH", "LHU", "SH"} -> 2
              [] OTHER                      -> 4

CellOf(address) == address - (address % 4)
Below(size, address) == Byte^(4 - size - (address % 4))

mem_read(memory, size, address) == (memory[CellOf(address)] \div Below(size, address)) % Byte^size

mem_write(memory, size, address, value) ==
    [memory EXCEPT ![CellOf(address)] =
        @ + ((value % Byte^size) - mem_read(memory, size, address)) * Below(size, address)]

\* LB and LH keep the sign.
Loaded(op, memory, address) ==
    LET v == mem_read(memory, Size(op), address)
    IN IF op \in {"LB", "LH"} /\ v >= Byte^Size(op) \div 2 THEN Wrap(v - Byte^Size(op)) ELSE v

\* The immediate instructions, and the one of SPECIAL that each repeats.
Immediates == [ADDI |-> "ADD", ADDIU |-> "ADDU", SLTI |-> "SLT", SLTIU |-> "SLTU",
               ANDI |-> "AND", ORI |-> "OR", XORI |-> "XOR"]

\* The likely branches, and the branch that each repeats: unlike those of a MIPS,
\* they do not skip their delay slot when they are not taken, for lbranch is never 0.
Likely == [BEQL |-> "BEQ", BNEL |-> "BNE", BLEZL |-> "BLEZ", BGTZL |-> "BGTZ",
           BLTZL |-> "BLTZ", BGEZL |-> "BGEZ", BLTZALL |-> "BLTZ", BGEZALL |-> "BGEZ"]

Branches == {"BEQ", "BNE", "BLEZ", "BGTZ", "BLTZ", "BGEZ", "BLTZAL", "BGEZAL"} \cup DOMAIN Likely

Condition(op) == IF op \in DOMAIN Likely THEN Likely[op] ELSE op

Taken(op, a, b) ==
    CASE Condition(op) = "BEQ"                -> a = b
      [] Condition(op) = "BNE"                -> a # b
      [] Condition(op) = "BLEZ"               -> Signed(a) <= 0
      [] Condition(op) = "BGTZ"               -> Signed(a) > 0
      [] Condition(op) \in {"BLTZ", "BLTZAL"} -> Signed(a) < 0
      [] Condition(op) \in {"BGEZ", "BGEZAL"} -> Signed(a) >= 0

\* Register 31, or rd of JALR, gets the address behind the delay slot.
Links == {"BLTZAL", "BGEZAL", "BLTZALL", "BGEZALL", "JAL", "JALR"}

Class(op) ==
    CASE op \in {"MULT", "MULTU", "DIV", "DIVU"}    -> "product"
      [] op \in {"SLL", "SRL", "SRA"}               -> "shift"
      [] op \in {"MOVZ", "MOVN"}                    -> "select"
      [] op \in {"MFHI", "MFLO", "MTHI", "MTLO"}    -> "move"
      [] op \in {"LUI"} \cup DOMAIN Immediates      -> "immediate"
      [] op \in Branches                            -> "branch"
      [] op \in {"J", "JAL", "JR", "JALR"}          -> "jump"
      [] op \in Loads                               -> "load"
      [] op \in Stores                              -> "store"
      [] op \in {"MFC0", "MTC0", "CALL"}            -> op
      [] OTHER                                      -> "special"

\* The instruction of that name; a field it does not have is "zero" or 0.
Ins(op, rd, rs, rt, imm) == [op |-> op, rd |-> rd, rs |-> rs, rt |-> rt, imm |-> imm]

\* r[0] is cleared before every instruction is executed.
Put(r, d, v) == [r EXCEPT ![d] = IF d = "zero" THEN 0 ELSE v]

Linked(i, r, next) == IF i.op \in Links THEN Put(r, IF i.op = "JALR" THEN i.rd ELSE "ra", next) ELSE r

\* SC always succeeds.
Conditional(i, r) == IF i.op = "SC" THEN Put(r, i.rt, 1) ELSE r

\* The registers after an instruction that reads or writes nothing else.
Written(i, r) ==
    LET a == r[i.rs]
        b == r[i.rt]
        p == Products(i.op, a, b)
    IN CASE Class(i.op) = "special" -> Put(r, i.rd, Computed(i.op, a, b))
         [] Class(i.op) = "shift"   -> Put(r, i.rd, Shifted(i.op, b, i.imm))
         [] Class(i.op) = "product" -> Put(Put(r, "hi", p.hi), "lo", p.lo)
         [] Class(i.op) = "select"  -> IF (b = 0) = (i.op = "MOVZ") THEN Put(r, i.rd, a) ELSE r
         [] i.op = "MFHI" -> Put(r, i.rd, r["hi"])
         [] i.op = "MFLO" -> Put(r, i.rd, r["lo"])
         [] i.op = "MTHI" -> Put(r, "hi", a)
         [] i.op = "MTLO" -> Put(r, "lo", a)
         [] i.op = "LUI"  -> Put(r, i.rt, Wrap(i.imm * Half))
         [] i.op \in DOMAIN Immediates -> Put(r, i.rt, Computed(Immediates[i.op], a, i.imm))

\* Where control goes behind the delay slot at address slot.
Target(i, r, slot) ==
    CASE i.op \in {"JR", "JALR"} -> r[i.rs]
      [] i.op \in {"J", "JAL"}   -> i.imm
      [] i.op \in Branches       -> IF Taken(i.op, r[i.rs], r[i.rt]) THEN slot + i.imm ELSE slot + 1

Jumps(i, r) == i.op \in Branches => Taken(i.op, r[i.rs], r[i.rt])
=============================================================================
