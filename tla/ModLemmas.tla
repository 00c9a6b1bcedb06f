----------------------------- MODULE ModLemmas -----------------------------
(***************************************************************************)
(* Arithmetic of circular buffers, for any size n: the facts about (x+k)%n *)
(* that the proofs about the semaphore and packet queues rest on; and that *)
(* a function defined by iteration exists.                                 *)
(***************************************************************************)
EXTENDS Integers, WellFoundedInduction, TLAPS

\* An index reduced modulo n is an index of the buffer.
LEMMA ModRange ==
    ASSUME NEW n \in Nat \ {0}, NEW a \in Nat
    PROVE  a % n \in 0 .. n - 1
OBVIOUS

\* Quotient and remainder make up the number.
LEMMA ModDivision ==
    ASSUME NEW n \in Nat \ {0}, NEW a \in Nat
    PROVE  /\ a \div n \in Nat
           /\ a = (a \div n) * n + (a % n)
OBVIOUS

\* The remainder is unique.
LEMMA ModUnique ==
    ASSUME NEW n \in Nat \ {0}, NEW a \in Nat, NEW q \in Int, NEW r \in 0 .. n - 1,
           a = q * n + r
    PROVE  a % n = r
OBVIOUS

\* Two indices less than n apart are different modulo n.
LEMMA ModDistinct ==
    ASSUME NEW n \in Nat \ {0}, NEW x \in 0 .. n - 1,
           NEW j \in 0 .. n - 1, NEW k \in 0 .. n - 1,
           (x + j) % n = (x + k) % n
    PROVE  j = k
OBVIOUS

\* The cell after the one k places from x is the one k + 1 places from x.
LEMMA ModSuccessor ==
    ASSUME NEW n \in Nat \ {0}, NEW x \in 0 .. n - 1, NEW k \in Nat
    PROVE  (((x + k) % n) + 1) % n = (x + k + 1) % n
<1> DEFINE q == (x + k) \div n
           r == (x + k) % n
           a == x + k + 1
<1>0. x + k \in Nat /\ a \in Nat /\ a = (x + k) + 1
  OBVIOUS
<1>1. q \in Nat /\ r \in 0 .. n - 1 /\ x + k = q * n + r
  BY <1>0, ModDivision, ModRange
<1> HIDE DEF q, r, a
<1>2. CASE r + 1 < n
  <2>1. a = q * n + (r + 1) /\ r + 1 \in 0 .. n - 1
    BY <1>0, <1>1, <1>2
  <2>2. a % n = r + 1
    <3> DEFINE r1 == r + 1
    <3>1. r1 \in 0 .. n - 1 /\ a = q * n + r1 /\ q \in Int
      BY <2>1, <1>1
    <3> HIDE DEF r1
    <3>2. a % n = r1
      BY <3>1, <1>0, ModUnique
    <3> QED BY <3>2 DEF r1
  <2>3. (r + 1) % n = r + 1
    BY <1>1, <1>2
  <2> QED BY <2>2, <2>3 DEF r, a
<1>3. CASE r + 1 = n
  <2>1. a = (q + 1) * n + 0
    BY <1>0, <1>1, <1>3
  <2>2. a % n = 0
    <3>1. q + 1 \in Int /\ 0 \in 0 .. n - 1
      BY <1>1
    <3> QED BY <2>1, <3>1, <1>0, ModUnique
  <2>3. (r + 1) % n = 0
    BY <1>3, <1>1
  <2> QED BY <2>2, <2>3 DEF r, a
<1> QED BY <1>1, <1>2, <1>3

\* Moving the start one cell and counting one cell less is the same cell.
LEMMA ModShift ==
    ASSUME NEW n \in Nat \ {0}, NEW x \in 0 .. n - 1, NEW k \in Nat \ {0}
    PROVE  (((x + 1) % n) + (k - 1)) % n = (x + k) % n
<1>1. CASE x + 1 < n
  BY <1>1
<1>2. CASE x + 1 = n
  <2> DEFINE q == (k - 1) \div n
             r == (k - 1) % n
  <2>1. k - 1 \in Nat
    OBVIOUS
  <2>2. q \in Nat /\ r \in 0 .. n - 1 /\ k - 1 = q * n + r
    BY <2>1, ModDivision, ModRange
  <2> HIDE DEF q, r
  <2>3. x + k = (q + 1) * n + r
    BY <2>2, <1>2
  <2>4. (x + k) % n = r
    BY <2>2, <2>3, ModUnique
  <2>5. ((x + 1) % n) = 0
    BY <1>2
  <2> QED BY <2>4, <2>5 DEF r
<1> QED BY <1>1, <1>2
-----------------------------------------------------------------------------
(* Induction *)

\* A set of numbers that is not empty has a least element.
LEMMA LeastNumber ==
    ASSUME NEW S \in SUBSET Nat, S # {}
    PROVE  \E n \in S : \A m \in S : n <= m
<1> DEFINE R == OpToRel(<, Nat)
<1>1. IsWellFoundedOn(R, Nat)
  BY NatLessThanWellFounded
<1>2. \A x, y \in Nat : x < y => <<x, y>> \in R
  BY DEF OpToRel
<1> HIDE DEF R
<1>3. PICK n \in S : \A m \in S : <<m, n>> \notin R
  BY <1>1, WFMin
<1>4. \A m \in S : ~(m < n)
  BY <1>2, <1>3
<1>5. n \in Nat /\ \A m \in S : m \in Nat
  OBVIOUS
<1>6. \A m \in S : n <= m
  BY <1>4, <1>5
<1> QED BY <1>6

\* A set that has 0 and with every number the next one has them all.
LEMMA Induct ==
    ASSUME NEW S, 0 \in S, \A n \in Nat : n \in S => n + 1 \in S
    PROVE  Nat \subseteq S
<1> DEFINE T == Nat \ S
<1> SUFFICES ASSUME T # {} PROVE FALSE
  OBVIOUS
<1>1. PICK n \in T : \A m \in T : n <= m
  BY LeastNumber
<1>2. n # 0 /\ n - 1 \in Nat
  OBVIOUS
<1>3. n - 1 \in S
  BY <1>1, <1>2
<1> QED BY <1>3, <1>2

\* A function that is defined by its value for the number before exists.
LEMMA Iterated ==
    ASSUME NEW S, NEW base \in S, NEW step \in [S -> S]
    PROVE  \E F \in [Nat -> S] : F[0] = base /\ \A n \in Nat : F[n + 1] = step[F[n]]
<1> DEFINE Start(f, n) == f[0] = base /\ \A k \in 1 .. n : f[k] = step[f[k - 1]]
           Reached == {n \in Nat : \E f \in [0 .. n -> S] : Start(f, n)}
<1>1. 0 \in Reached
  <2>1. PICK f : f = [k \in 0 .. 0 |-> base]
    OBVIOUS
  <2>2. f \in [0 .. 0 -> S] /\ f[0] = base
    BY <2>1
  <2> QED BY <2>2
<1>2. ASSUME NEW n \in Nat, n \in Reached PROVE n + 1 \in Reached
  <2>1. PICK f \in [0 .. n -> S] : Start(f, n)
    BY <1>2
  <2>2. PICK g : g = [k \in 0 .. n + 1 |-> IF k = n + 1 THEN step[f[n]] ELSE f[k]]
    OBVIOUS
  <2>3. g \in [0 .. n + 1 -> S]
    BY <2>2
  <2>4. Start(g, n + 1)
    <3>1. g[0] = base
      BY <2>1, <2>2
    <3>2. ASSUME NEW k \in 1 .. n + 1 PROVE g[k] = step[g[k - 1]]
      <4>1. CASE k = n + 1
        BY <4>1, <2>2
      <4>2. CASE k # n + 1
        BY <4>2, <2>1, <2>2
      <4> QED BY <4>1, <4>2
    <3> QED BY <3>1, <3>2
  <2> QED BY <2>3, <2>4
<1>3. Nat \subseteq Reached
  <2> HIDE DEF Reached
  <2> QED BY <1>1, <1>2, Induct
<1>4. ASSUME NEW n \in Nat PROVE \E f \in [0 .. n -> S] : Start(f, n)
  BY <1>3
<1>5. ASSUME NEW n \in Nat, NEW m \in Nat, n <= m,
             NEW f \in [0 .. n -> S], Start(f, n), NEW g \in [0 .. m -> S], Start(g, m)
      PROVE  f[n] = g[n]
  <2> DEFINE Agree == {k \in Nat : k <= n => f[k] = g[k]}
  <2>1. 0 \in Agree
    BY <1>5
  <2>2. ASSUME NEW k \in Nat, k \in Agree PROVE k + 1 \in Agree
    <3>1. CASE k + 1 <= n
      <4>1. f[k] = g[k] /\ k + 1 \in 1 .. n /\ k + 1 \in 1 .. m /\ (k + 1) - 1 = k
        BY <2>2, <3>1, <1>5
      <4>2. f[k + 1] = step[f[k]] /\ g[k + 1] = step[g[k]]
        BY <4>1, <1>5
      <4> QED BY <4>1, <4>2
    <3> QED BY <3>1
  <2>3. Nat \subseteq Agree
    <3> HIDE DEF Agree
    <3> QED BY <2>1, <2>2, Induct
  <2> QED BY <2>3
<1> DEFINE The(n) == CHOOSE f \in [0 .. n -> S] : Start(f, n)
           F == [n \in Nat |-> The(n)[n]]
<1>6. ASSUME NEW n \in Nat PROVE The(n) \in [0 .. n -> S] /\ Start(The(n), n)
  BY <1>4
<1> HIDE DEF The
<1>7. F \in [Nat -> S]
  <2>1. \A n \in Nat : The(n)[n] \in S
    BY <1>6
  <2> QED BY <2>1
<1>8. ASSUME NEW n \in Nat PROVE F[n] = IF n = 0 THEN base ELSE step[F[n - 1]]
  <2>1. CASE n = 0
    BY <2>1, <1>6
  <2>2. CASE n # 0
    <3>1. n - 1 \in Nat /\ n - 1 <= n /\ n \in 1 .. n /\ n - 1 \in 0 .. n
      BY <2>2
    <3>2. The(n)[n] = step[The(n)[n - 1]]
      BY <3>1, <1>6
    <3>3. Start(The(n), n) /\ Start(The(n - 1), n - 1) /\ The(n) \in [0 .. n -> S] /\ The(n - 1) \in [0 .. n - 1 -> S]
      BY <3>1, <1>6
    <3>4. The(n - 1)[n - 1] = The(n)[n - 1]
      <4> HIDE DEF Start
      <4> QED BY <3>1, <3>3, <1>5
    <3> QED BY <2>2, <3>1, <3>2, <3>4
  <2> QED BY <2>1, <2>2
<1> HIDE DEF F
<1>9. F[0] = base
  BY <1>8
<1>10. ASSUME NEW n \in Nat PROVE F[n + 1] = step[F[n]]
  <2>1. n + 1 \in Nat /\ n + 1 # 0 /\ (n + 1) - 1 = n
    OBVIOUS
  <2> QED BY <2>1, <1>8
<1> QED BY <1>7, <1>9, <1>10
=============================================================================
