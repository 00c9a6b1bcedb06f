--------------------------- MODULE SoftArithmetic ---------------------------
(***************************************************************************)
(* The multiplication and division that the compiler calls where the       *)
(* processor has none, and the arithmetic of double words                  *)
(* (hflibc/hflibc.c).  A step is one iteration of a loop; the functions    *)
(* without a loop take one step.  Signed numbers are in two's complement.  *)
(*                                                                         *)
(* What is undefined in C, a shift by more than a word (bm is unsigned,    *)
(* the test for it never holds) and the remainder that a division of       *)
(* double words by zero does not write, is any number.                     *)
(***************************************************************************)
EXTENDS Integers

CONSTANTS BITS,         \* of a word (32)
          Singles,      \* words that are operands
          Doubles       \* double words that are operands

Pow2[n \in Nat] == IF n = 0 THEN 1 ELSE 2 * Pow2[n - 1]

M == Pow2[BITS]                 \* what is as large does not fit a word
H == Pow2[BITS \div 2]          \* nor this half of one
MM == Pow2[2 * BITS]            \* nor this a double word

ASSUME ArithmeticAssumption == /\ BITS \in Nat \ {0}
                               /\ BITS % 2 = 0
                               /\ Singles \subseteq 0 .. M - 1
                               /\ Doubles \subseteq 0 .. MM - 1

VARIABLES at,           \* "idle", the loop it is in, or "done"
          fn, x, y,     \* the function and its arguments
          a, b,         \* what is shifted one way and the other
          acc,          \* answer, lower, quot
          rest,         \* upper, num
          i,
          result

registers == <<a, b, acc, rest, i>>
arithVars == <<at, fn, x, y, registers, result>>

ArithInit == /\ at = "idle" /\ fn = "none"
             /\ x = 0 /\ y = 0
             /\ a = 0 /\ b = 0 /\ acc = 0 /\ rest = 0 /\ i = 0
             /\ result = 0

Divisions       == {"__udivsi3", "__umodsi3", "__divsi3", "__modsi3"}
DoubleDivisions == {"__udivdi3", "__umoddi3", "__divdi3", "__moddi3"}
Remainders      == {"__umodsi3", "__modsi3", "__umoddi3", "__moddi3"}
SignedOnes      == {"__divsi3", "__modsi3", "__divdi3", "__moddi3"}

\* A number v of a width with m values.
Negative(v, m) == 2 * v >= m
Negated(v, m) == (m - v) % m
Magnitude(v, m) == IF Negative(v, m) THEN Negated(v, m) ELSE v

\* What the loops are given, and what is made of their answer.
Operand(f, v, m) == IF f \in SignedOnes THEN Magnitude(v, m) ELSE v
Answer(f, u, v, m, quotient, remainder) ==
    LET n == IF f \in Remainders THEN remainder ELSE quotient
    IN IF f \in SignedOnes /\ Negative(u, m) # Negative(v, m) THEN Negated(n, m) ELSE n

Called(f, u, v) == at = "idle" /\ fn' = f /\ x' = u /\ y' = v
LoopsIn(loop) == at' = loop /\ UNCHANGED result
Finishes(v) == at' = "done" /\ result' = v /\ UNCHANGED <<fn, x, y, registers>>

Return == at = "done" /\ at' = "idle" /\ fn' = "none" /\ x' = 0 /\ y' = 0 /\ result' = 0
          /\ a' = 0 /\ b' = 0 /\ acc' = 0 /\ rest' = 0 /\ i' = 0
-----------------------------------------------------------------------------
(* Products *)

Multiply(u, v) ==
    /\ Called("__mulsi3", u, v)
    /\ LoopsIn("multiply")
    /\ a' = u /\ b' = v /\ acc' = 0
    /\ UNCHANGED <<rest, i>>

MultiplyStep ==
    /\ at = "multiply" /\ b # 0
    /\ acc' = IF b % 2 = 1 THEN (acc + a) % M ELSE acc
    /\ a' = (2 * a) % M
    /\ b' = b \div 2
    /\ UNCHANGED <<at, fn, x, y, rest, i, result>>

MultiplyEnd == at = "multiply" /\ b = 0 /\ Finishes(acc)

\* Halves of a word, and of a double word.
lower(v) == v % H
upper(v) == v \div H
low(v) == v % M
high(v) == v \div M

\* The four products of halves; each sum fits a word.
muldsi3(u, v) ==
    LET p == (lower(u) * lower(v)) % M
        s == (upper(p) + (upper(u) * lower(v))) % M
        t == (lower(s) + (upper(v) * lower(u))) % M
    IN ((upper(s) + upper(t) + (upper(u) * upper(v))) % M) * M + (lower(t) * H) + lower(p)

muldi3(u, v) ==
    LET r == muldsi3(low(u), low(v))
    IN (((high(r) + (high(u) * low(v)) + (low(u) * high(v))) % M) * M) + low(r)
-----------------------------------------------------------------------------
(* Shifts of a double word by n bits, 0 < n <= BITS: the | of two numbers    *)
(* without a common bit is their sum.                                        *)

ashldi3(u, n) ==
    IF n = BITS THEN low(u) * M
    ELSE (((high(u) * Pow2[n]) % M) + (low(u) \div Pow2[BITS - n])) * M + ((low(u) * Pow2[n]) % M)

\* What both shifts to the right leave in the lower word.
carried(u, n) == (low(u) \div Pow2[n]) + ((high(u) * Pow2[BITS - n]) % M)

lshrdi3(u, n) ==
    IF n = BITS THEN high(u)
    ELSE (high(u) \div Pow2[n]) * M + carried(u, n)

Signed(v, m) == IF Negative(v, m) THEN v - m ELSE v

\* The upper word is shifted as a signed number; for n = BITS the lower one stays
\* where it was.
ashrdi3(u, n) ==
    LET s == Signed(high(u), M)
    IN IF n = BITS THEN (IF s < 0 THEN M - 1 ELSE 0) * M + low(u)
       ELSE ((s \div Pow2[n]) % M) * M + carried(u, n)

Shift(f, u, n) == CASE f = "__ashldi3" -> ashldi3(u, n)
                    [] f = "__lshrdi3" -> lshrdi3(u, n)
                    [] f = "__ashrdi3" -> ashrdi3(u, n)

Shifts == {"__ashldi3", "__lshrdi3", "__ashrdi3"}

\* What a function without a loop returns.
Outcomes(f, u, v) ==
    CASE f = "__muldsi3" -> {muldsi3(u, v)}
      [] f = "__muldi3"  -> {muldi3(u, v)}
      [] f \in Shifts    -> IF v = 0 THEN {u} ELSE IF v <= BITS THEN {Shift(f, u, v)} ELSE 0 .. MM - 1

Compute(f, u, v) ==
    /\ Called(f, u, v)
    /\ at' = "done" /\ result' \in Outcomes(f, u, v)
    /\ UNCHANGED registers
-----------------------------------------------------------------------------
(* DivideMod: the divisor, b words of which only a lies in reach, comes down *)
(* bit by bit.                                                               *)

Divide(f, u, v) ==
    LET q == Operand(f, v, M)
    IN /\ Called(f, u, v)
       /\ LoopsIn("divide")
       /\ rest' = Operand(f, u, M) /\ acc' = 0
       /\ a' = (q % 2) * (M \div 2) /\ b' = q
       /\ i' = 0

\* Mutant: the bits of the divisor above the word are not looked at.
FitsLow == rest >= a /\ a # 0
Fits == rest >= a /\ a # 0 /\ b < 2

DivideStep ==
    /\ at = "divide" /\ i < BITS
    /\ acc' = ((2 * acc) % M) + (IF Fits THEN 1 ELSE 0)
    /\ rest' = IF Fits THEN rest - a ELSE rest
    /\ a' = (((b \div 2) % 2) * (M \div 2)) + (a \div 2)
    /\ b' = b \div 2
    /\ i' = i + 1
    /\ UNCHANGED <<at, fn, x, y, result>>

DivideEnd == at = "divide" /\ i = BITS /\ Finishes(Answer(fn, x, y, M, acc, rest))
-----------------------------------------------------------------------------
(* __udivmoddi4: the divisor a, and the bit b of the quotient that it stands *)
(* for, are shifted up until the sign is set, then down.                     *)

\* den = 0: 1 / 0, which is a call of DivideMod, and no remainder.
DivideByZero(f, u) ==
    /\ Called(f, u, 0)
    /\ at' = "done" /\ result' \in IF f \in Remainders THEN 0 .. MM - 1 ELSE {0}
    /\ UNCHANGED registers

DivideDouble(f, u, v) ==
    /\ v # 0
    /\ Called(f, u, v)
    /\ LoopsIn("align")
    /\ rest' = Operand(f, u, MM) /\ acc' = 0
    /\ a' = Operand(f, v, MM) /\ b' = 1
    /\ UNCHANGED i

AlignStep ==
    /\ at = "align"
    /\ IF Negative(a, MM) THEN at' = "subtract" /\ UNCHANGED <<a, b>>
       ELSE a' = (2 * a) % MM /\ b' = (2 * b) % MM /\ UNCHANGED at
    /\ UNCHANGED <<fn, x, y, acc, rest, i, result>>

SubtractStep ==
    /\ at = "subtract" /\ b # 0
    /\ IF a <= rest THEN rest' = rest - a /\ acc' = (acc + b) % MM
       ELSE UNCHANGED <<rest, acc>>
    /\ a' = a \div 2 /\ b' = b \div 2
    /\ UNCHANGED <<at, fn, x, y, i, result>>

SubtractEnd == at = "subtract" /\ b = 0 /\ Finishes(Answer(fn, x, y, MM, acc, rest))
-----------------------------------------------------------------------------
Loops == MultiplyStep \/ MultiplyEnd \/ DivideStep \/ DivideEnd
            \/ AlignStep \/ SubtractStep \/ SubtractEnd

ArithNext ==
    \/ \E u, v \in Singles : \/ Multiply(u, v)
                            \/ Compute("__muldsi3", u, v)
                            \/ \E f \in Divisions : Divide(f, u, v)
    \/ \E u, v \in Doubles : \/ Compute("__muldi3", u, v)
                            \/ \E f \in DoubleDivisions : DivideDouble(f, u, v)
    \/ \E u \in Doubles : \/ \E v \in Singles, f \in Shifts : Compute(f, u, v)
                         \/ \E f \in DoubleDivisions : 0 \in Doubles /\ DivideByZero(f, u)
    \/ Loops
    \/ Return

ArithSpec == ArithInit /\ [][ArithNext]_arithVars
-----------------------------------------------------------------------------
(* Properties *)

\* The quotient of C.
Quotient(s, t) == LET n == (IF s < 0 THEN -s ELSE s) \div (IF t < 0 THEN -t ELSE t)
                  IN IF (s < 0) # (t < 0) THEN -n ELSE n

\* The number that a function should return (where it is defined), one that need
\* not fit its type.  For a negative divisor __modsi3 and __moddi3 give the
\* remainder the sign of the quotient, not that of the dividend as C wants it.
Expected(f, u, v) ==
    CASE f \in {"__mulsi3", "__muldsi3", "__muldi3"} -> u * v
      [] f = "__ashldi3" -> u * Pow2[v]
      [] f = "__lshrdi3" -> u \div Pow2[v]
      [] f = "__ashrdi3" -> Signed(u, MM) \div Pow2[v]
      [] f \in {"__udivsi3", "__udivdi3"} -> u \div v
      [] f \in {"__umodsi3", "__umoddi3"} -> u % v
      [] f = "__divsi3" -> Quotient(Signed(u, M), Signed(v, M))
      [] f = "__divdi3" -> Quotient(Signed(u, MM), Signed(v, MM))
      [] f = "__modsi3" -> Signed(u, M) - v * Quotient(Signed(u, M), v)
      [] f = "__moddi3" -> Signed(u, MM) - v * Quotient(Signed(u, MM), v)

Width(f) == IF f \in Divisions \cup {"__mulsi3"} THEN M ELSE MM

\* Where the property says nothing: C or the code has no result (the first and the
\* third), or the routine is wrong (it negates the remainder when the signs differ;
\* it leaves the lower word as it was).
Defined(f, v) == /\ f \in Divisions \cup DoubleDivisions => v # 0
                 /\ f \in {"__modsi3", "__moddi3"} => ~Negative(v, Width(f))
                 /\ f \in Shifts => v <= BITS
                 /\ f = "__ashrdi3" => v # BITS

\* The routines compute what the compiler takes them for, modulo the width of the
\* result: no bit is lost between the halves of a word, no step of a division
\* takes away what is not there.
ArithmeticExact ==
    at = "done" /\ Defined(fn, y) => result = Expected(fn, x, y) % Width(fn)
=============================================================================
