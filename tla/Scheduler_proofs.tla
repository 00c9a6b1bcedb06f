-------------------------- MODULE Scheduler_proofs --------------------------
(***************************************************************************)
(* The best effort scheduler bypasses no ready task for long, and a child  *)
(* has its parent's timing, for any tasks and nicenesses.                  *)
(*                                                                         *)
(* The scheduler's index i walks round the table and a task's turn comes   *)
(* when its counter, which each visit decrements, is zero.  A walk is      *)
(* counted, not followed: VisitsIs says that between two visits to u there *)
(* is one to t.  So a turn of u costs t as many visits as the niceness of  *)
(* u, but for the first (Waits), and t has no more of them than its own    *)
(* niceness.                                                               *)
(***************************************************************************)
EXTENDS Scheduler, ModLemmas

USE SchedulerAssumption
-----------------------------------------------------------------------------
(* Numbers *)

\* A quotient is known by its remainder.
LEMMA DivUnique ==
    ASSUME NEW n \in Nat \ {0}, NEW a \in Nat, NEW q \in Int, NEW r \in 0 .. n - 1, a = q * n + r
    PROVE  a \div n = q
OBVIOUS

\* Signs of a product.
LEMMA Multiples ==
    ASSUME NEW n \in Nat \ {0}, NEW k \in Int
    PROVE  /\ k * n > 0 => k > 0
           /\ k * n < n => k <= 0
           /\ k \in Nat => k * n \in Nat
OBVIOUS

\* A number of rounds fits what is left of b when, rounded up, it does.
LEMMA CeilingBounds ==
    ASSUME NEW a \in Nat \ {0}, NEW b \in Nat \ {0}, NEW p \in Nat \ {0}, (p - 1) * b < a
    PROVE  p <= Ceiling(a, b)
<1>1. PICK q, r : q = (a + b - 1) \div b /\ r = (a + b - 1) % b
  OBVIOUS
<1>2. a + b - 1 \in Nat
  OBVIOUS
<1>3. q \in Nat /\ a + b - 1 = q * b + r
  BY <1>1, <1>2, ModDivision
<1>4. r \in 0 .. b - 1
  BY <1>1, <1>2, ModRange
<1>5. PICK x, y : x = (p - 1) * b /\ y = q * b
  OBVIOUS
<1>6. x \in Int /\ y \in Int
  BY <1>3, <1>5
<1>7. y - x > 0 - b
  BY <1>3, <1>4, <1>5, <1>6
<1>8. y - x = (q - (p - 1)) * b
  BY <1>3, <1>5
<1>9. (((p - 1) - q)) * b < b
  <2>1. ((p - 1) - q) * b = x - y
    BY <1>3, <1>5
  <2> QED BY <2>1, <1>6, <1>7
<1>10. (p - 1) - q <= 0
  BY <1>9, <1>3, Multiples
<1>11. p <= q
  <2>1. CASE (p - 1) - q < 0
    BY <2>1, <1>3
  <2>2. CASE (p - 1) - q = 0
    <3>1. x = y
      BY <2>2, <1>3, <1>5
    <3> QED BY <3>1, <1>2, <1>3, <1>4, <1>5, <1>6
  <2> QED BY <2>1, <2>2, <1>3, <1>10
<1> QED BY <1>1, <1>11 DEF Ceiling
-----------------------------------------------------------------------------
(* The walk of the best effort scheduler *)

\* Whether i, since it passed u, has passed t.
Seen(i, u, t) == IF u <= i THEN u < t /\ t <= i ELSE t <= i \/ t > u
One(p) == IF p THEN 1 ELSE 0

\* The distance of a slot from i, without the remainder.
LEMMA DistanceIs ==
    ASSUME be \in Slots, NEW last \in Slots, NEW t \in 0 .. last
    PROVE  Distance(t, last) = IF be > last THEN t + 1
                               ELSE IF t > be THEN t - be ELSE t - be + last + 2
<1>1. last \in Nat /\ be \in Nat /\ t \in Nat
  BY DEF Slots
<1>2. CASE be > last
  BY <1>2 DEF Distance
<1>3. CASE be <= last /\ t > be
  <2>1. (t - be - 1) % (last + 2) = t - be - 1
    <3>1. t - be - 1 \in 0 .. last + 1
      BY <1>1, <1>3
    <3> QED BY <3>1, <1>1
  <2> QED BY <2>1, <1>1, <1>3 DEF Distance, Round
<1>4. CASE be <= last /\ t <= be
  <2>1. (t - be - 1) % (last + 2) = t - be + last + 1
    <3>1. PICK m, d : m = last + 2 /\ d = t - be - 1
      OBVIOUS
    <3>2. m \in Nat \ {0} /\ d \in Int /\ d < 0 /\ 0 - m < d
      BY <3>1, <1>1, <1>4
    <3>3. d % m = d + m
      BY <3>2
    <3> QED BY <3>1, <3>3, <1>1
  <2> QED BY <2>1, <1>1, <1>4 DEF Distance, Round
<1> QED BY <1>1, <1>2, <1>3, <1>4

\* No slot is further than one round.
LEMMA DistanceRange ==
    ASSUME be \in Slots, NEW last \in Slots, NEW t \in 0 .. last
    PROVE  Distance(t, last) \in 1 .. Round(last) /\ Round(last) \in Nat \ {0}
BY DistanceIs DEF Round, Slots

\* How the walk to w meets two other tasks: whom it passes, and who was passed last.
LEMMA WalkOrder ==
    ASSUME be \in Slots, NEW last \in Slots, NEW t \in 0 .. last, NEW w \in 0 .. last, t # w
    PROVE  /\ Distance(t, last) # Distance(w, last)
           /\ Distance(t, last) > Distance(w, last) => Seen(be, w, t)
           /\ \A u \in Slots : u # t /\ u # w /\ Distance(t, last) > Distance(w, last) /\ Seen(w, u, t) => Seen(be, u, t)
           /\ \A u \in 0 .. last : u # t /\ u # w =>
                 One(Distance(t, last) > Distance(w, last)) + One(Seen(w, u, t))
                    <= One(Distance(u, last) > Distance(w, last)) + One(Seen(be, u, t))
<1>1. last \in Nat /\ be \in Nat /\ t \in Nat /\ w \in Nat /\ t <= last /\ w <= last
  BY DEF Slots
<1>2. /\ Distance(t, last) = IF be > last THEN t + 1 ELSE IF t > be THEN t - be ELSE t - be + last + 2
      /\ Distance(w, last) = IF be > last THEN w + 1 ELSE IF w > be THEN w - be ELSE w - be + last + 2
  BY DistanceIs
<1>3. Distance(t, last) # Distance(w, last)
  BY <1>1, <1>2
<1>4. Distance(t, last) > Distance(w, last) => Seen(be, w, t)
  BY <1>1, <1>2 DEF Seen
<1>5. ASSUME NEW u \in Slots, u # t, u # w, Distance(t, last) > Distance(w, last), Seen(w, u, t)
      PROVE  Seen(be, u, t)
  <2>1. u \in Nat
    BY DEF Slots
  <2> QED BY <2>1, <1>1, <1>2, <1>5 DEF Seen
<1>6. ASSUME NEW u \in 0 .. last, u # t, u # w
      PROVE  One(Distance(t, last) > Distance(w, last)) + One(Seen(w, u, t))
                    <= One(Distance(u, last) > Distance(w, last)) + One(Seen(be, u, t))
  <2>1. u \in Nat /\ u <= last
    BY <1>1
  <2>2. Distance(u, last) = IF be > last THEN u + 1 ELSE IF u > be THEN u - be ELSE u - be + last + 2
    BY DistanceIs
  <2>3. PICK dt, dw, du : dt = Distance(t, last) /\ dw = Distance(w, last) /\ du = Distance(u, last)
    OBVIOUS
  <2>4. dt \in Int /\ dw \in Int /\ du \in Int
    BY <2>3, <2>2, <2>1, <1>1, <1>2
  <2>5. CASE dt > dw /\ Seen(w, u, t)
    <3>1. Seen(be, u, t)
      <4>1. u \in Slots
        BY <2>1 DEF Slots
      <4> QED BY <4>1, <1>5, <1>6, <2>3, <2>5
    <3>2. du > dw
      BY <2>1, <2>2, <2>3, <2>5, <1>1, <1>2, <1>6 DEF Seen
    <3> QED BY <3>1, <3>2, <2>3, <2>5 DEF One
  <2>6. CASE dt > dw /\ ~Seen(w, u, t)
    <3>1. du > dw \/ Seen(be, u, t)
      BY <2>1, <2>2, <2>3, <2>6, <1>1, <1>2, <1>6 DEF Seen
    <3> QED BY <3>1, <2>3, <2>6 DEF One
  <2>7. CASE ~(dt > dw) /\ Seen(w, u, t)
    <3>1. du > dw \/ Seen(be, u, t)
      BY <2>1, <2>2, <2>3, <2>7, <1>1, <1>2, <1>6 DEF Seen
    <3> QED BY <3>1, <2>3, <2>7 DEF One
  <2>8. CASE ~(dt > dw) /\ ~Seen(w, u, t)
    BY <2>3, <2>8 DEF One
  <2> QED BY <2>5, <2>6, <2>7, <2>8
<1> QED BY <1>3, <1>4, <1>5, <1>6
-----------------------------------------------------------------------------
(* A turn of the best effort scheduler *)

TCB == [ptask : BOOLEAN, period : Nat, capacity : Nat, capacity_counter : Int, priority : Nat,
        deadline_misses : Nat, niceness : Nat \ {0}, niceness_counter : Nat \ {0}, oneshot : BOOLEAN,
        status : {"not_run", "ready", "running", "blocked"}]

Table(tasks) == /\ tasks \in [Slots -> TCB]
                /\ \A t \in Slots : tasks[t].niceness_counter <= tasks[t].niceness

\* While t waits and u has its turns, each visit of i to u that counts, after the
\* first of these turns, was preceded by one to t since the visit before.
Waits(tasks, i, turns) ==
    /\ turns \in [Slots \X Slots -> Nat]
    /\ \A t, u \in Slots : turns[<<t, u>>] > 0 =>
          /\ t # u
          /\ tasks[t].niceness_counter + (turns[<<t, u>>] - 1) * tasks[u].niceness
                + (tasks[u].niceness - tasks[u].niceness_counter) + One(Seen(i, u, t))
                <= tasks[t].niceness

\* w is a ready task whose counter is the first to be zero.
First(tasks, w, last) ==
    /\ w \in Ready(tasks, last)
    /\ \A u \in Ready(tasks, last) : StepsTo(tasks, w, last) <= StepsTo(tasks, u, last)

\* The steps to a ready task are a number.
LEMMA StepsType ==
    ASSUME NEW tasks, Table(tasks), be \in Slots, NEW last \in Slots, NEW t \in Ready(tasks, last)
    PROVE  /\ t \in Slots /\ t \in 0 .. last /\ tasks[t] \in TCB
           /\ StepsTo(tasks, t, last) \in Nat
<1>1. last \in Nat /\ t \in 0 .. last /\ t \in Slots
  BY DEF Ready, Slots
<1>2. tasks[t] \in TCB
  BY <1>1 DEF Table
<1>3. tasks[t].niceness_counter - 1 \in Nat
  BY <1>2 DEF TCB
<1>4. Distance(t, last) \in Nat /\ Round(last) \in Nat \ {0}
  BY <1>1, DistanceRange
<1>5. (tasks[t].niceness_counter - 1) * Round(last) \in Nat
  BY <1>3, <1>4, Multiples
<1> QED BY <1>1, <1>2, <1>4, <1>5 DEF StepsTo

\* The choice exists: some ready task is first.
LEMMA FirstIs ==
    ASSUME NEW tasks, Table(tasks), be \in Slots, NEW last \in Slots, Ready(tasks, last) # {}
    PROVE  First(tasks, BestEffort(tasks, last), last)
<1> DEFINE S == {StepsTo(tasks, t, last) : t \in Ready(tasks, last)}
<1>1. S \in SUBSET Nat /\ S # {}
  BY StepsType
<1>2. PICK m \in S : \A k \in S : m <= k
  BY <1>1, LeastNumber
<1>3. PICK w \in Ready(tasks, last) : m = StepsTo(tasks, w, last)
  BY <1>2
<1>4. \A u \in Ready(tasks, last) : StepsTo(tasks, w, last) <= StepsTo(tasks, u, last)
  BY <1>2, <1>3
<1> QED BY <1>4 DEF First, BestEffort

\* Until the counter of w is zero i passes t as often as w, or once less.
LEMMA VisitsIs ==
    ASSUME NEW tasks, Table(tasks), be \in Slots, NEW last \in Slots, NEW w, First(tasks, w, last),
           NEW t \in Ready(tasks, last), t # w
    PROVE  /\ Visits(t, StepsTo(tasks, w, last), last)
                = tasks[w].niceness_counter - One(Distance(t, last) > Distance(w, last))
           /\ Visits(t, StepsTo(tasks, w, last), last) < tasks[t].niceness_counter
<1>1. /\ w \in Ready(tasks, last) /\ w \in 0 .. last /\ t \in 0 .. last
      /\ tasks[w] \in TCB /\ tasks[t] \in TCB
      /\ StepsTo(tasks, w, last) <= StepsTo(tasks, t, last)
  BY StepsType DEF First
<1>2. PICK R, dw, dt, kw, kt : /\ R = Round(last) /\ dw = Distance(w, last) /\ dt = Distance(t, last)
                               /\ kw = tasks[w].niceness_counter /\ kt = tasks[t].niceness_counter
  OBVIOUS
<1>3. R \in Nat \ {0} /\ dw \in 1 .. R /\ dt \in 1 .. R /\ dw # dt
  BY <1>1, <1>2, DistanceRange, WalkOrder
<1>4. kw \in Nat \ {0} /\ kt \in Nat \ {0}
  BY <1>1, <1>2 DEF TCB
<1>5. PICK a, b : a = (kw - 1) * R /\ b = (kt - 1) * R
  OBVIOUS
<1>6. a \in Nat /\ b \in Nat
  BY <1>3, <1>4, <1>5, Multiples
<1>7. dw + a <= dt + b
  BY <1>1, <1>2, <1>5 DEF StepsTo
<1>8. StepsTo(tasks, w, last) = dw + a
  BY <1>2, <1>5 DEF StepsTo
<1>9. CASE dt < dw
  <2>1. (dw + a - dt) \div R = kw - 1
    <3>1. PICK x, r : x = dw + a - dt /\ r = dw - dt
      OBVIOUS
    <3>2. x \in Nat /\ r \in 0 .. R - 1 /\ x = (kw - 1) * R + r
      BY <3>1, <1>3, <1>5, <1>6, <1>9
    <3>3. kw - 1 \in Int
      BY <1>4
    <3> QED BY <3>1, <3>2, <3>3, <1>3, DivUnique
  <2>2. Visits(t, dw + a, last) = kw
    <3>1. ~(dt > dw + a)
      BY <1>3, <1>6, <1>9
    <3>2. Visits(t, dw + a, last) = ((dw + a - dt) \div R) + 1
      BY <3>1, <1>2, <1>3, <1>6 DEF Visits
    <3> QED BY <2>1, <3>2, <1>4
  <2>3. kw < kt
    <3>1. (kt - kw) * R = b - a
      BY <1>3, <1>4, <1>5
    <3>2. (kt - kw) * R > 0 /\ kt - kw \in Int
      BY <3>1, <1>3, <1>4, <1>6, <1>7, <1>9
    <3>3. kt - kw > 0
      BY <3>2, <1>3, Multiples
    <3> QED BY <3>3, <1>4
  <2>4. ~(dt > dw)
    BY <1>3, <1>9
  <2> QED BY <2>2, <2>3, <2>4, <1>2, <1>4, <1>8 DEF One
<1>10. CASE dt > dw
  <2>1. Visits(t, dw + a, last) = kw - 1
    <3>1. CASE kw = 1
      <4>1. a = 0
        BY <3>1, <1>3, <1>5
      <4> QED BY <4>1, <3>1, <1>2, <1>3, <1>10 DEF Visits
    <3>2. CASE kw # 1
      <4>1. PICK c : c = (kw - 2) * R
        OBVIOUS
      <4>2. kw - 2 \in Nat
        BY <3>2, <1>4
      <4>3. c \in Nat /\ a = c + R
        <5>1. c \in Nat
          BY <4>1, <4>2, <1>3, Multiples
        <5>2. (kw - 1) * R = (kw - 2) * R + R
          BY <1>3, <1>4
        <5> QED BY <5>1, <5>2, <4>1, <1>5
      <4>4. (dw + a - dt) \div R = kw - 2
        <5>1. PICK x, r : x = dw + a - dt /\ r = dw + R - dt
          OBVIOUS
        <5>2. x \in Nat /\ r \in 0 .. R - 1 /\ x = c + r
          BY <5>1, <4>3, <1>3, <1>10
        <5>3. x = (kw - 2) * R + r /\ kw - 2 \in Int
          BY <5>2, <4>1, <4>2
        <5> QED BY <5>1, <5>2, <5>3, <1>3, DivUnique
      <4>5. ~(dt > dw + a)
        BY <4>3, <1>3
      <4>6. Visits(t, dw + a, last) = ((dw + a - dt) \div R) + 1
        BY <4>5, <1>2, <1>3, <1>6 DEF Visits
      <4> QED BY <4>4, <4>6, <1>4
    <3> QED BY <3>1, <3>2
  <2>2. kw <= kt
    <3>1. (kw - kt) * R = a - b
      BY <1>3, <1>4, <1>5
    <3>2. (kw - kt) * R < R /\ kw - kt \in Int
      BY <3>1, <1>3, <1>4, <1>6, <1>7, <1>10
    <3>3. kw - kt <= 0
      BY <3>2, <1>3, Multiples
    <3> QED BY <3>3, <1>4
  <2>3. kw - 1 < kt
    BY <2>2, <1>4
  <2> QED BY <2>1, <2>3, <1>2, <1>4, <1>8, <1>10 DEF One
<1> QED BY <1>3, <1>9, <1>10

\* The counters after a turn of w.
LEMMA CountedIs ==
    ASSUME NEW tasks, Table(tasks), be \in Slots, NEW last \in Slots, NEW w, First(tasks, w, last),
           NEW t \in Slots, NEW c, c = Counted(tasks, w, last)[t]
    PROVE  /\ c \in TCB /\ c.niceness = tasks[t].niceness /\ c.niceness_counter <= c.niceness
           /\ c.ptask = tasks[t].ptask /\ c.period = tasks[t].period
           /\ c.oneshot = tasks[t].oneshot /\ c.status = tasks[t].status
           /\ t = w => c.niceness_counter = tasks[t].niceness
           /\ t # w /\ t \in Ready(tasks, last) =>
                 c.niceness_counter = tasks[t].niceness_counter
                         - (tasks[w].niceness_counter - One(Distance(t, last) > Distance(w, last)))
           /\ t # w /\ t \notin Ready(tasks, last) => c.niceness_counter = tasks[t].niceness_counter
<1>1. tasks[t] \in TCB /\ tasks[t].niceness_counter <= tasks[t].niceness
  BY DEF Table
<1>2. CASE t = w
  <2>1. c = [tasks[t] EXCEPT !.niceness_counter = tasks[t].niceness]
    BY <1>2 DEF Counted
  <2> QED BY <2>1, <1>1, <1>2 DEF TCB
<1>3. CASE t # w /\ t \in Ready(tasks, last)
  <2>1. c = [tasks[t] EXCEPT !.niceness_counter =
                tasks[t].niceness_counter - Visits(t, StepsTo(tasks, w, last), last)]
    BY <1>3 DEF Counted
  <2>2. PICK v : v = Visits(t, StepsTo(tasks, w, last), last)
    OBVIOUS
  <2>3. /\ v = tasks[w].niceness_counter - One(Distance(t, last) > Distance(w, last))
        /\ v < tasks[t].niceness_counter
    BY <2>2, <1>3, VisitsIs
  <2>4. tasks[w].niceness_counter \in Nat \ {0}
    BY StepsType DEF First, TCB
  <2>5. v \in Nat
    BY <2>3, <2>4 DEF One
  <2>6. PICK k : k = tasks[t].niceness_counter - v
    OBVIOUS
  <2>7. k \in Nat \ {0} /\ k <= tasks[t].niceness
    BY <2>3, <2>5, <2>6, <1>1 DEF TCB
  <2>8. c = [tasks[t] EXCEPT !.niceness_counter = k]
    BY <2>1, <2>2, <2>6
  <2>9. c.niceness_counter = k /\ c.niceness = tasks[t].niceness /\ c \in TCB
    BY <2>7, <2>8, <1>1 DEF TCB
  <2>10. /\ c.ptask = tasks[t].ptask /\ c.period = tasks[t].period
         /\ c.oneshot = tasks[t].oneshot /\ c.status = tasks[t].status
    BY <2>8, <1>1 DEF TCB
  <2> QED BY <2>3, <2>6, <2>7, <2>9, <2>10, <1>3
<1>4. CASE t # w /\ t \notin Ready(tasks, last)
  <2>1. c = tasks[t]
    BY <1>4 DEF Counted
  <2> QED BY <2>1, <1>1, <1>4
<1> QED BY <1>2, <1>3, <1>4

\* A turn of w keeps the account of every pair of tasks.
LEMMA TurnKeeps ==
    ASSUME NEW tasks, Table(tasks), be \in Slots, NEW last \in Slots, NEW w, First(tasks, w, last),
           Waits(tasks, be, passed), Turn(tasks, w, last)
    PROVE  Waits(Counted(tasks, w, last), w, passed')
<1>1. PICK C : C = Counted(tasks, w, last)
  OBVIOUS
<1>2. /\ w \in Slots /\ w \in 0 .. last /\ w \in Ready(tasks, last)
      /\ \A t \in Ready(tasks, last) : t \in 0 .. last
      /\ \A t \in Slots : tasks[t] \in TCB /\ tasks[t].niceness_counter <= tasks[t].niceness
  BY StepsType DEF First, Table
<1>3. \A t, u \in Slots : passed'[<<t, u>>] = IF t = w \/ t \notin Ready(tasks, last) THEN 0
                                              ELSE IF u = w THEN passed[<<t, u>>] + 1 ELSE passed[<<t, u>>]
  BY DEF Turn
<1>4. passed' \in [Slots \X Slots -> Nat]
  <2>1. \A p \in Slots \X Slots : passed[p] \in Nat
    BY DEF Waits
  <2> QED BY <2>1 DEF Turn
<1>6. ASSUME NEW t \in Slots
      PROVE  /\ C[t].niceness = tasks[t].niceness
             /\ t = w => C[t].niceness_counter = tasks[t].niceness
             /\ t # w /\ t \in Ready(tasks, last) =>
                   C[t].niceness_counter = tasks[t].niceness_counter
                       - (tasks[w].niceness_counter - One(Distance(t, last) > Distance(w, last)))
             /\ t # w /\ t \notin Ready(tasks, last) => C[t].niceness_counter = tasks[t].niceness_counter
  <2>1. PICK c : c = Counted(tasks, w, last)[t]
    OBVIOUS
  <2> QED BY <1>1, <2>1, CountedIs
<1>5. ASSUME NEW t \in Slots, NEW u \in Slots, passed'[<<t, u>>] > 0
      PROVE  /\ t # u
             /\ C[t].niceness_counter + (passed'[<<t, u>>] - 1) * C[u].niceness
                   + (C[u].niceness - C[u].niceness_counter) + One(Seen(w, u, t)) <= C[t].niceness
  <2>1. t # w /\ t \in Ready(tasks, last)
    BY <1>3, <1>5
  <2>2. PICK p, nt, nu, kt, ku, kw, dt, du, s, s2 :
            /\ p = passed[<<t, u>>]
            /\ nt = tasks[t].niceness /\ nu = tasks[u].niceness
            /\ kt = tasks[t].niceness_counter /\ ku = tasks[u].niceness_counter
            /\ kw = tasks[w].niceness_counter
            /\ dt = One(Distance(t, last) > Distance(w, last))
            /\ du = One(Distance(u, last) > Distance(w, last))
            /\ s = One(Seen(be, u, t)) /\ s2 = One(Seen(w, u, t))
    OBVIOUS
  <2>3. /\ p \in Nat /\ nt \in Nat \ {0} /\ nu \in Nat \ {0} /\ kt \in Nat \ {0} /\ ku \in Nat \ {0}
        /\ kw \in Nat \ {0} /\ kt <= nt
    <3>1. p \in Nat
      BY <2>2 DEF Waits
    <3> QED BY <3>1, <2>2, <1>2 DEF TCB
  <2>4. dt \in {0, 1} /\ du \in {0, 1} /\ s \in {0, 1} /\ s2 \in {0, 1}
    BY <2>2 DEF One
  <2>5. C[t].niceness_counter = kt - (kw - dt) /\ C[t].niceness = nt /\ C[u].niceness = nu
    <3>1. C[t].niceness_counter = kt - (kw - dt)
      BY <1>6, <2>1, <2>2
    <3>2. C[t].niceness = nt /\ C[u].niceness = nu
      BY <1>6, <2>2
    <3> QED BY <3>1, <3>2
  <2>6. PICK x : x = (p - 1) * nu
    OBVIOUS
  <2>7. x \in Int /\ p * nu = x + nu
    BY <2>3, <2>6
  <2>8. p > 0 => t # u /\ kt + x + (nu - ku) + s <= nt
    BY <2>2, <2>6 DEF Waits
  <2>9. CASE u = w
    <3>1. passed'[<<t, u>>] = p + 1
      BY <1>3, <2>1, <2>2, <2>9
    <3>2. C[u].niceness_counter = nu
      BY <1>6, <2>2, <2>9
    <3>3. s2 = 0
      <4>1. ~Seen(w, w, t)
        BY <1>2 DEF Seen, Slots
      <4> QED BY <4>1, <2>2, <2>9 DEF One
    <3>4. dt <= s
      BY <1>2, <2>1, <2>2, <2>9, WalkOrder DEF One
    <3>5. kw = ku
      BY <2>2, <2>9
    <3>6. (kt - (kw - dt)) + p * nu + (nu - nu) + s2 <= nt
      <4>1. CASE p > 0
        BY <4>1, <2>3, <2>4, <2>7, <2>8, <3>3, <3>4, <3>5
      <4>2. CASE p = 0
        <5>1. p * nu = 0
          BY <4>2, <2>3
        <5> QED BY <5>1, <2>3, <2>4, <3>3
      <4> QED BY <4>1, <4>2, <2>3
    <3>7. (passed'[<<t, u>>] - 1) * C[u].niceness = p * nu
      BY <3>1, <2>3, <2>5
    <3> QED BY <3>2, <3>6, <3>7, <2>1, <2>2, <2>5, <2>9
  <2>10. CASE u # w
    <3>1. passed'[<<t, u>>] = p /\ p > 0 /\ t # u
      BY <1>3, <1>5, <2>1, <2>2, <2>8, <2>10
    <3>2. (passed'[<<t, u>>] - 1) * C[u].niceness = x
      BY <3>1, <2>5, <2>6
    <3>3. PICK ku2 : ku2 = C[u].niceness_counter
      OBVIOUS
    <3>4. (kt - (kw - dt)) + x + (nu - ku2) + s2 <= nt
      <4>1. CASE u \in Ready(tasks, last)
        <5>1. ku2 = ku - (kw - du)
          BY <4>1, <3>3, <1>6, <2>2, <2>10
        <5>2. dt + s2 <= du + s
          <6>1. u \in 0 .. last /\ t \in 0 .. last
            BY <4>1, <2>1, <1>2
          <6> QED BY <6>1, <1>2, <2>1, <2>2, <2>10, <3>1, WalkOrder
        <5> QED BY <5>1, <5>2, <2>3, <2>4, <2>7, <2>8, <3>1
      <4>2. CASE u \notin Ready(tasks, last)
        <5>1. ku2 = ku
          BY <4>2, <3>3, <1>6, <2>2, <2>10
        <5>2. dt = 1 /\ s2 = 1 => s = 1
          <6>1. t \in 0 .. last
            BY <2>1, <1>2
          <6> QED BY <6>1, <1>2, <2>1, <2>2, <2>10, <3>1, WalkOrder DEF One
        <5> QED BY <5>1, <5>2, <2>3, <2>4, <2>7, <2>8, <3>1
      <4> QED BY <4>1, <4>2
    <3> QED BY <3>1, <3>2, <3>3, <3>4, <2>2, <2>5
  <2> QED BY <2>9, <2>10
<1> QED BY <1>1, <1>4, <1>5 DEF Waits

\* The account is about nicenesses and their counters alone.
LEMMA WaitsSame ==
    ASSUME NEW A, NEW B, NEW i, NEW turns, Waits(A, i, turns),
           \A t \in Slots : B[t].niceness = A[t].niceness /\ B[t].niceness_counter = A[t].niceness_counter
    PROVE  Waits(B, i, turns)
BY DEF Waits

\* A task that comes starts with no turns given or had.
LEMMA WaitsNew ==
    ASSUME NEW A, NEW B, NEW i, NEW turns, Waits(A, i, turns), NEW id \in Slots, NEW turns2,
           \A t \in Slots \ {id} : B[t] = A[t],
           turns2 = [p \in Slots \X Slots |-> IF p[1] = id \/ p[2] = id THEN 0 ELSE turns[p]]
    PROVE  Waits(B, i, turns2)
<1>1. turns2 \in [Slots \X Slots -> Nat]
  <2>1. \A p \in Slots \X Slots : turns[p] \in Nat
    BY DEF Waits
  <2> QED BY <2>1
<1>2. \A t, u \in Slots : turns2[<<t, u>>] > 0 => t # id /\ u # id /\ turns2[<<t, u>>] = turns[<<t, u>>]
  OBVIOUS
<1> QED BY <1>1, <1>2 DEF Waits
-----------------------------------------------------------------------------
(* The inductive invariant *)

\* The idle task can always be chosen.
IdleReady(tasks) == /\ tasks[Idle].ptask /\ tasks[Idle].period = 0 /\ ~tasks[Idle].oneshot
                    /\ tasks[Idle].status = "ready"

IdleReadyOrRuns ==
    /\ task[Idle].ptask /\ task[Idle].period = 0 /\ ~task[Idle].oneshot
    /\ task[Idle].status = "ready" \/ (task[Idle].status = "running" /\ HF_current_task = Idle)

Indices == {HF_max_index, HF_current_task, HF_task_entry, be} \subseteq Slots

EntryIsCurrent == ~calls => HF_current_task = Idle \/ HF_task_entry = HF_current_task

SchedInv == /\ Table(task) /\ Indices /\ IdleReadyOrRuns
            /\ Waits(task, be, passed)
            /\ ~started => HF_current_task = Idle
            /\ EntryIsCurrent

\* What the steps before a choice leave as it is.
SameTasks(A, B) ==
    \A t \in Slots : /\ B[t].niceness = A[t].niceness /\ B[t].niceness_counter = A[t].niceness_counter
                     /\ B[t].period = A[t].period /\ B[t].oneshot = A[t].oneshot

\* The idle task has a slot, and the loops stay in the table.
LEMMA IdleSlot == Idle \in Slots /\ \A i \in Slots : 0 .. i \subseteq Slots
BY DEF Idle, Slots

\* When the running task loses the core no niceness changes, and the idle task is ready.
LEMMA DemotedKeeps ==
    ASSUME SchedInv
    PROVE  /\ Table(Demoted) /\ SameTasks(task, Demoted) /\ IdleReady(Demoted)
           /\ \A t \in Slots : Demoted[t].ptask = task[t].ptask
<1>1. HF_current_task \in Slots /\ task \in [Slots -> TCB]
      /\ \A t \in Slots : task[t].niceness_counter <= task[t].niceness
  BY DEF SchedInv, Indices, Table
<1>2. ASSUME NEW t \in Slots
      PROVE  /\ Demoted[t] \in TCB
             /\ Demoted[t].niceness = task[t].niceness /\ Demoted[t].niceness_counter = task[t].niceness_counter
             /\ Demoted[t].period = task[t].period /\ Demoted[t].oneshot = task[t].oneshot
             /\ Demoted[t].ptask = task[t].ptask
             /\ Demoted[t].status = IF t = HF_current_task /\ task[t].status = "running" THEN "ready"
                                    ELSE task[t].status
  <2>1. task[t] \in TCB
    BY <1>1
  <2>2. PICK s : s = IF t = HF_current_task /\ task[t].status = "running" THEN "ready" ELSE task[t].status
    OBVIOUS
  <2>3. Demoted[t] = [task[t] EXCEPT !.status = s]
    <3>1. CASE t = HF_current_task
      BY <3>1, <2>1, <2>2, <1>1 DEF Demoted, TCB
    <3>2. CASE t # HF_current_task
      BY <3>2, <2>1, <2>2, <1>1 DEF Demoted, TCB
    <3> QED BY <3>1, <3>2
  <2>4. s \in {"not_run", "ready", "running", "blocked"}
    BY <2>1, <2>2 DEF TCB
  <2> QED BY <2>1, <2>2, <2>3, <2>4 DEF TCB
<1>3. Demoted \in [Slots -> TCB]
  <2>1. DOMAIN Demoted = Slots /\ Demoted = [t \in Slots |-> Demoted[t]]
    BY <1>1 DEF Demoted
  <2> QED BY <2>1, <1>2
<1>4. Table(Demoted)
  BY <1>1, <1>2, <1>3 DEF Table
<1>5. IdleReady(Demoted)
  BY <1>2, IdleSlot DEF IdleReady, SchedInv, IdleReadyOrRuns
<1> QED BY <1>2, <1>4, <1>5 DEF SameTasks

\* The table without a one-shot task that has run its time.
LEMMA WithoutKeeps ==
    ASSUME SchedInv, Expired
    PROVE  /\ Table(Without(task, HF_current_task))
           /\ SameTasks(task, Without(task, HF_current_task))
           /\ IdleReady(Without(task, HF_current_task))
           /\ \A t \in Slots : Without(task, HF_current_task)[t].ptask => task[t].ptask
<1>1. HF_current_task \in Slots /\ task \in [Slots -> TCB]
      /\ \A t \in Slots : task[t].niceness_counter <= task[t].niceness
  BY DEF SchedInv, Indices, Table
<1>2. PICK W : W = Without(task, HF_current_task)
  OBVIOUS
<1>3. HF_current_task # Idle
  BY DEF Expired, SchedInv, IdleReadyOrRuns
<1>4. ASSUME NEW t \in Slots
      PROVE  /\ W[t] \in TCB
             /\ W[t].niceness = task[t].niceness /\ W[t].niceness_counter = task[t].niceness_counter
             /\ W[t].period = task[t].period /\ W[t].oneshot = task[t].oneshot
             /\ W[t].ptask => task[t].ptask
             /\ t # HF_current_task => W[t] = task[t]
  <2>1. task[t] \in TCB
    BY <1>1
  <2>2. CASE t = HF_current_task
    <3>1. W[t] = [[task[t] EXCEPT !.ptask = FALSE] EXCEPT !.status = "not_run"]
      BY <2>2, <1>1, <1>2 DEF Without
    <3> QED BY <3>1, <2>1, <2>2 DEF TCB
  <2>3. CASE t # HF_current_task
    <3>1. W[t] = task[t]
      BY <2>3, <1>1, <1>2 DEF Without
    <3> QED BY <3>1, <2>1
  <2> QED BY <2>2, <2>3
<1>5. W \in [Slots -> TCB]
  <2>1. W = [t \in Slots |-> W[t]]
    BY <1>1, <1>2 DEF Without
  <2> QED BY <2>1, <1>4
<1>6. Table(W)
  BY <1>1, <1>4, <1>5 DEF Table
<1>7. IdleReady(W)
  <2>1. W[Idle] = task[Idle]
    BY <1>3, <1>4, IdleSlot
  <2> QED BY <2>1, <1>3 DEF IdleReady, SchedInv, IdleReadyOrRuns
<1>8. SameTasks(task, W) /\ \A t \in Slots : W[t].ptask => task[t].ptask
  BY <1>4 DEF SameTasks
<1> QED BY <1>2, <1>6, <1>7, <1>8

\* The shortest period, and the first task that has it.
LEMMA RateMonotonicIs ==
    ASSUME NEW A, Table(A), HF_max_index \in Slots
    PROVE  RateMonotonic(A) = Idle
           \/ (RateMonotonic(A) \in Due(A) /\ RateMonotonic(A) \in Slots /\ RateMonotonic(A) # Idle)
<1> SUFFICES ASSUME Due(A) # {}
             PROVE  RateMonotonic(A) \in Due(A) /\ RateMonotonic(A) \in Slots /\ RateMonotonic(A) # Idle
  BY DEF RateMonotonic
<1>1. \A t \in Due(A) : t \in Nat /\ t \in Slots /\ t # Idle /\ A[t].period \in Nat
  <2> TAKE t \in Due(A)
  <2>1. HF_max_index \in 0 .. MAX_TASKS - 1 /\ t \in 1 .. HF_max_index
    BY DEF Due, Released, Slots
  <2>2. t \in Nat /\ t \in Slots /\ t # Idle
    BY <2>1 DEF Slots, Idle
  <2>3. A[t] \in TCB
    BY <2>2 DEF Table
  <2> QED BY <2>2, <2>3 DEF TCB
<1>2. PICK m \in {A[t].period : t \in Due(A)} : \A k \in {A[t].period : t \in Due(A)} : m <= k
  <2>1. {A[t].period : t \in Due(A)} \in SUBSET Nat /\ {A[t].period : t \in Due(A)} # {}
    BY <1>1
  <2> QED BY <2>1, LeastNumber
<1>3. PICK i \in {t \in Due(A) : A[t].period = m} : \A k \in {t \in Due(A) : A[t].period = m} : i <= k
  <2>1. {t \in Due(A) : A[t].period = m} \in SUBSET Nat /\ {t \in Due(A) : A[t].period = m} # {}
    BY <1>1, <1>2
  <2> QED BY <2>1, LeastNumber
<1>4. ASSUME NEW u \in Due(A)
      PROVE  A[i].period < A[u].period \/ (A[i].period = A[u].period /\ i <= u)
  <2>1. m <= A[u].period /\ A[i].period = m /\ m \in Nat /\ A[u].period \in Nat
    BY <1>1, <1>2, <1>3
  <2>2. CASE A[u].period = m
    BY <2>1, <2>2, <1>3
  <2>3. CASE A[u].period # m
    BY <2>1, <2>3
  <2> QED BY <2>2, <2>3
<1>5. RateMonotonic(A) \in Due(A)
  <2> DEFINE P(t) == \A u \in Due(A) : \/ A[t].period < A[u].period
                                       \/ A[t].period = A[u].period /\ t <= u
  <2>1. \E t \in Due(A) : P(t)
    BY <1>3, <1>4
  <2>2. RateMonotonic(A) = CHOOSE t \in Due(A) : P(t)
    BY DEF RateMonotonic
  <2> HIDE DEF P
  <2> QED BY <2>1, <2>2
<1> QED BY <1>1, <1>5

\* A pass of ageing, and a tick for the task that it chooses, if any.
LEMMA AgedIs ==
    ASSUME NEW tcb \in TCB
    PROVE  /\ Aged(tcb) \in TCB
           /\ Aged(tcb).niceness = tcb.niceness /\ Aged(tcb).niceness_counter = tcb.niceness_counter
           /\ Aged(tcb).period = tcb.period /\ Aged(tcb).oneshot = tcb.oneshot
           /\ Aged(tcb).ptask = tcb.ptask /\ Aged(tcb).status = tcb.status
<1>1. CASE tcb.priority = 1
  <2>1. PICK d : d = IF tcb.capacity_counter > 0 THEN Least(tcb.deadline_misses + 1, MissBound)
                     ELSE tcb.deadline_misses
    OBVIOUS
  <2>2. d \in Nat
    BY <2>1 DEF TCB, Least
  <2>3. Aged(tcb) = [[[tcb EXCEPT !.priority = tcb.period] EXCEPT !.deadline_misses = d]
                        EXCEPT !.capacity_counter = tcb.capacity]
    BY <1>1, <2>1 DEF Aged, Restored, TCB
  <2>4. PICK a, b : a = [tcb EXCEPT !.priority = tcb.period] /\ b = [a EXCEPT !.deadline_misses = d]
    OBVIOUS
  <2>5. a \in TCB /\ b \in TCB /\ tcb.capacity \in Int
    <3>1. tcb.period \in Nat /\ tcb.capacity \in Int
      BY DEF TCB
    <3>2. a \in TCB
      BY <2>4, <3>1 DEF TCB
    <3>3. b \in TCB
      BY <2>2, <2>4, <3>2 DEF TCB
    <3> QED BY <3>1, <3>2, <3>3
  <2>6. Aged(tcb) = [b EXCEPT !.capacity_counter = tcb.capacity]
    BY <2>3, <2>4
  <2>7. Aged(tcb) \in TCB
    BY <2>5, <2>6 DEF TCB
  <2> QED BY <2>4, <2>5, <2>6, <2>7 DEF TCB
<1>2. CASE tcb.priority # 1
  <2>1. PICK p : p = IF tcb.priority = 0 THEN PRIORITY_MAX ELSE tcb.priority - 1
    OBVIOUS
  <2>2. p \in Nat
    BY <2>1 DEF TCB
  <2>3. Aged(tcb) = [tcb EXCEPT !.priority = p]
    BY <1>2, <2>1 DEF Aged
  <2> QED BY <2>2, <2>3 DEF TCB
<1> QED BY <1>1, <1>2

\* The pass of the rate monotonic scheduler leaves alone what the other one counts with.
LEMMA RescheduleKeeps ==
    ASSUME NEW A, Table(A), IdleReady(A), HF_max_index \in Slots
    PROVE  /\ Table(HF_TaskReschedule(A)) /\ SameTasks(A, HF_TaskReschedule(A))
           /\ IdleReady(HF_TaskReschedule(A))
           /\ \A t \in Slots : HF_TaskReschedule(A)[t].ptask = A[t].ptask
<1>1. PICK G, B, m : /\ G = [t \in Slots |-> IF t \in Released(A) THEN Aged(A[t]) ELSE A[t]]
                     /\ m = RateMonotonic(A) /\ B = HF_TaskReschedule(A)
  OBVIOUS
<1>2. \A t \in Slots : A[t] \in TCB /\ A[t].niceness_counter <= A[t].niceness
  BY DEF Table
<1>3. ASSUME NEW t \in Slots
      PROVE  /\ G[t] \in TCB
             /\ G[t].niceness = A[t].niceness /\ G[t].niceness_counter = A[t].niceness_counter
             /\ G[t].period = A[t].period /\ G[t].oneshot = A[t].oneshot
             /\ G[t].ptask = A[t].ptask /\ G[t].status = A[t].status
  BY <1>1, <1>2, AgedIs
<1>4. m = Idle \/ (m \in Slots /\ m # Idle)
  BY <1>1, RateMonotonicIs
<1>5. ASSUME NEW t \in Slots
      PROVE  /\ B[t] \in TCB
             /\ B[t].niceness = A[t].niceness /\ B[t].niceness_counter = A[t].niceness_counter
             /\ B[t].period = A[t].period /\ B[t].oneshot = A[t].oneshot
             /\ B[t].ptask = A[t].ptask /\ B[t].status = A[t].status
  <2>1. B = IF m = Idle THEN G ELSE [G EXCEPT ![m].capacity_counter = @ - 1]
    BY <1>1 DEF HF_TaskReschedule
  <2>2. CASE m = Idle \/ t # m
    <3>1. B[t] = G[t]
      BY <2>1, <2>2, <1>1
    <3> QED BY <3>1, <1>3
  <2>3. CASE m # Idle /\ t = m
    <3>1. B[t] = [G[t] EXCEPT !.capacity_counter = G[t].capacity_counter - 1]
      BY <2>1, <2>3, <1>1
    <3>2. G[t].capacity_counter - 1 \in Int
      BY <1>3 DEF TCB
    <3> QED BY <3>1, <3>2, <1>3 DEF TCB
  <2> QED BY <2>2, <2>3
<1>6. B = [t \in Slots |-> B[t]]
  BY <1>1 DEF HF_TaskReschedule
<1>7. Table(B)
  <2>1. B \in [Slots -> TCB]
    BY <1>5, <1>6
  <2> QED BY <2>1, <1>2, <1>5 DEF Table
<1>8. SameTasks(A, B) /\ IdleReady(B)
  BY <1>5, IdleSlot DEF SameTasks, IdleReady
<1> QED BY <1>1, <1>5, <1>7, <1>8

\* The best effort scheduler finds a task and leaves the table in order.
LEMMA ChoiceKeeps ==
    ASSUME NEW A, Table(A), IdleReady(A), be \in Slots, NEW last \in Slots, Waits(A, be, passed),
           RunsBestEffort(A, last)
    PROVE  /\ Table(task') /\ HF_current_task' \in Slots
           /\ HF_task_entry' = HF_current_task' /\ be' = HF_current_task'
           /\ IdleReadyOrRuns' /\ Waits(task', be', passed')
           /\ \A t \in Slots : task'[t].ptask = A[t].ptask
<1>1. PICK w, C : w = BestEffort(A, last) /\ C = Counted(A, w, last)
  OBVIOUS
<1>2. Idle \in Ready(A, last)
  BY IdleSlot DEF Ready, Runnable, IdleReady, Idle, Slots
<1>3. First(A, w, last)
  BY <1>1, <1>2, FirstIs
<1>4. w \in Slots
  BY <1>3, StepsType DEF First
<1>5. /\ HF_current_task' = w /\ HF_task_entry' = w /\ be' = w
      /\ task' = [C EXCEPT ![w].status = "running"] /\ Turn(A, w, last)
  BY <1>1 DEF RunsBestEffort, Runs
<1>6. Waits(C, w, passed')
  BY <1>1, <1>3, <1>5, TurnKeeps
<1>7. ASSUME NEW t \in Slots
      PROVE  /\ C[t] \in TCB /\ C[t].niceness_counter <= C[t].niceness
             /\ C[t].ptask = A[t].ptask /\ C[t].period = A[t].period
             /\ C[t].oneshot = A[t].oneshot /\ C[t].status = A[t].status
  <2>1. PICK c : c = Counted(A, w, last)[t]
    OBVIOUS
  <2> QED BY <1>1, <1>3, <2>1, CountedIs
<1>8. C = [t \in Slots |-> C[t]]
  BY <1>1 DEF Counted
<1>9. PICK B : B = task'
  OBVIOUS
<1>10. ASSUME NEW t \in Slots
       PROVE  /\ B[t] \in TCB
              /\ B[t].niceness = C[t].niceness /\ B[t].niceness_counter = C[t].niceness_counter
              /\ B[t].ptask = C[t].ptask /\ B[t].period = C[t].period /\ B[t].oneshot = C[t].oneshot
              /\ B[t].status = IF t = w THEN "running" ELSE C[t].status
  <2>1. CASE t = w
    <3>1. B[t] = [C[t] EXCEPT !.status = "running"]
      BY <2>1, <1>5, <1>8, <1>9
    <3> QED BY <3>1, <2>1, <1>7 DEF TCB
  <2>2. CASE t # w
    <3>1. B[t] = C[t]
      BY <2>2, <1>5, <1>8, <1>9
    <3> QED BY <3>1, <2>2, <1>7
  <2> QED BY <2>1, <2>2
<1>11. Table(B)
  <2>1. B = [t \in Slots |-> B[t]]
    BY <1>5, <1>8, <1>9
  <2>2. B \in [Slots -> TCB]
    BY <2>1, <1>10
  <2> QED BY <2>2, <1>7, <1>10 DEF Table
<1>12. Waits(B, w, passed')
  <2>1. \A t \in Slots : B[t].niceness = C[t].niceness /\ B[t].niceness_counter = C[t].niceness_counter
    BY <1>10
  <2> QED BY <2>1, <1>6, WaitsSame
<1>13. /\ B[Idle].ptask /\ B[Idle].period = 0 /\ ~B[Idle].oneshot
       /\ B[Idle].status = "ready" \/ (B[Idle].status = "running" /\ w = Idle)
  BY <1>7, <1>10, IdleSlot DEF IdleReady
<1>14. IdleReadyOrRuns'
  BY <1>5, <1>9, <1>13 DEF IdleReadyOrRuns
<1>15. \A t \in Slots : task'[t].ptask = A[t].ptask
  BY <1>7, <1>9, <1>10
<1> QED BY <1>4, <1>5, <1>9, <1>11, <1>12, <1>14, <1>15

\* The last slot in use is a slot.
LEMMA LastIsSlot ==
    ASSUME NEW A, A[Idle].ptask
    PROVE  LastTask(A) \in Slots
<1> DEFINE S == {t \in Slots : A[t].ptask}
<1>1. PICK m \in {MAX_TASKS - t : t \in S} : \A k \in {MAX_TASKS - t : t \in S} : m <= k
  <2>1. {MAX_TASKS - t : t \in S} \in SUBSET Nat /\ {MAX_TASKS - t : t \in S} # {}
    BY IdleSlot DEF Slots
  <2> QED BY <2>1, LeastNumber
<1>2. PICK x \in S : m = MAX_TASKS - x
  BY <1>1
<1>3. \A y \in S : x >= y
  <2> TAKE y \in S
  <2>1. m <= MAX_TASKS - y
    BY <1>1
  <2>2. x \in Nat /\ y \in Nat
    BY DEF Slots
  <2> QED BY <2>1, <2>2, <1>2
<1>4. Max(S) \in S
  <2> HIDE DEF S
  <2> QED BY <1>3 DEF Max
<1> QED BY <1>4 DEF LastTask

\* The slot for a new task is a free one of the table.
LEMMA FreeSlotIs ==
    ASSUME FreeSlots # {}
    PROVE  Min(FreeSlots) \in Slots /\ ~task[Min(FreeSlots)].ptask
<1>1. FreeSlots \in SUBSET Nat
  BY DEF FreeSlots, Slots
<1>2. PICK i \in FreeSlots : \A k \in FreeSlots : i <= k
  BY <1>1, LeastNumber
<1>3. Min(FreeSlots) \in FreeSlots
  BY <1>2 DEF Min
<1> QED BY <1>3 DEF FreeSlots

\* A task that comes to a free slot.
LEMMA NewTaskKeeps ==
    ASSUME SchedInv, NEW tcb \in TCB, tcb.niceness_counter <= tcb.niceness, FreeSlots # {},
           task' = [task EXCEPT ![Min(FreeSlots)] = tcb],
           HF_max_index' = IF Min(FreeSlots) > HF_max_index THEN Min(FreeSlots) ELSE HF_max_index,
           passed' = [p \in Slots \X Slots |-> IF p[1] = Min(FreeSlots) \/ p[2] = Min(FreeSlots) THEN 0 ELSE passed[p]],
           HF_task_entry' \in Slots, UNCHANGED <<HF_current_task, be, started, calls>>, EntryIsCurrent'
    PROVE  SchedInv'
<1>1. PICK i : i = Min(FreeSlots)
  OBVIOUS
<1>2. i \in Slots /\ ~task[i].ptask
  BY <1>1, FreeSlotIs
<1>3. i # Idle
  BY <1>2 DEF SchedInv, IdleReadyOrRuns
<1>4. task' = [task EXCEPT ![i] = tcb] /\ task \in [Slots -> TCB]
  BY <1>1 DEF SchedInv, Table
<1>5. \A t \in Slots : task'[t] = IF t = i THEN tcb ELSE task[t]
  BY <1>4
<1>6. Table(task)'
  <2>1. task' \in [Slots -> TCB]
    BY <1>4
  <2> QED BY <2>1, <1>5 DEF SchedInv, Table
<1>7. Indices'
  BY <1>1, <1>2 DEF SchedInv, Indices
<1>8. Waits(task', be', passed')
  <2>1. PICK B, turns2 : B = task' /\ turns2 = passed'
    OBVIOUS
  <2>2. \A t \in Slots \ {i} : B[t] = task[t]
    BY <2>1, <1>5
  <2>3. turns2 = [p \in Slots \X Slots |-> IF p[1] = i \/ p[2] = i THEN 0 ELSE passed[p]]
    BY <2>1, <1>1
  <2>4. Waits(task, be, passed)
    BY DEF SchedInv
  <2>5. Waits(B, be, turns2)
    BY <1>2, <2>2, <2>3, <2>4, WaitsNew
  <2> QED BY <2>1, <2>5
<1>9. IdleReadyOrRuns'
  BY <1>3, <1>5, IdleSlot DEF SchedInv, IdleReadyOrRuns
<1> QED BY <1>6, <1>7, <1>8, <1>9 DEF SchedInv
-----------------------------------------------------------------------------
(* The tasks the calls make *)

\* A task as the calls that add one make it.
LEMMA NoTaskIs == NoTask \in TCB /\ NoTask.period = 0 /\ NoTask.status = "not_run"
BY DEF NoTask, TCB

\* A best effort task has its niceness left to count, and no period.
LEMMA BestIs ==
    ASSUME NEW n \in Nat \ {0}, NEW once \in BOOLEAN
    PROVE  /\ Best(n, once) \in TCB /\ Best(n, once).ptask /\ Best(n, once).period = 0
           /\ Best(n, once).niceness = n /\ Best(n, once).niceness_counter = n
           /\ Best(n, once).oneshot = once
<1>1. PICK a, b, c, d : /\ a = [NoTask EXCEPT !.ptask = TRUE]
                        /\ b = [a EXCEPT !.niceness = n]
                        /\ c = [b EXCEPT !.niceness_counter = n]
                        /\ d = [c EXCEPT !.oneshot = once]
  OBVIOUS
<1>2. Best(n, once) = d
  BY <1>1 DEF Best
<1>3. a \in TCB /\ a.ptask /\ a.period = 0
  BY <1>1, NoTaskIs DEF TCB
<1>4. b \in TCB /\ b.ptask /\ b.period = 0 /\ b.niceness = n
  BY <1>1, <1>3 DEF TCB
<1>5. c \in TCB /\ c.ptask /\ c.period = 0 /\ c.niceness = n /\ c.niceness_counter = n
  BY <1>1, <1>4 DEF TCB
<1>6. d \in TCB /\ d.ptask /\ d.period = 0 /\ d.niceness = n /\ d.niceness_counter = n /\ d.oneshot = once
  BY <1>1, <1>5 DEF TCB
<1> QED BY <1>2, <1>6

\* A periodic task has nothing left to wait for from the other scheduler.
LEMMA PeriodicIs ==
    ASSUME NEW p \in Nat, NEW cap \in Nat
    PROVE  Periodic(p, cap) \in TCB /\ Periodic(p, cap).niceness_counter <= Periodic(p, cap).niceness
<1>1. PICK a, b, c, d, e :
          /\ a = [NoTask EXCEPT !.ptask = TRUE]
          /\ b = [a EXCEPT !.period = p]
          /\ c = [b EXCEPT !.capacity = cap]
          /\ d = [c EXCEPT !.capacity_counter = cap]
          /\ e = [d EXCEPT !.priority = p]
  OBVIOUS
<1>2. Periodic(p, cap) = e
  BY <1>1 DEF Periodic
<1>3. NoTask.niceness_counter = 1 /\ NoTask.niceness = 1
  BY DEF NoTask
<1>4. a \in TCB /\ a.niceness_counter = 1 /\ a.niceness = 1
  BY <1>1, <1>3, NoTaskIs DEF TCB
<1>5. b \in TCB /\ b.niceness_counter = 1 /\ b.niceness = 1
  BY <1>1, <1>4 DEF TCB
<1>6. c \in TCB /\ c.niceness_counter = 1 /\ c.niceness = 1
  BY <1>1, <1>5 DEF TCB
<1>7. d \in TCB /\ d.niceness_counter = 1 /\ d.niceness = 1
  <2>1. cap \in Int /\ d = [c EXCEPT !.capacity_counter = cap]
    BY <1>1
  <2> QED BY <2>1, <1>6 DEF TCB
<1>8. e \in TCB /\ e.niceness_counter = 1 /\ e.niceness = 1
  BY <1>1, <1>7 DEF TCB
<1> QED BY <1>2, <1>8
-----------------------------------------------------------------------------
(* The steps *)

\* The table is in order before any task is added.
LEMMA SchedInit == Init => SchedInv
<1> SUFFICES ASSUME Init PROVE SchedInv
  OBVIOUS
<1>1. PICK a : a = Best(IDLE_NICENESS, FALSE)
  OBVIOUS
<1>2. NoTask \in TCB /\ NoTask.niceness_counter <= NoTask.niceness
  BY DEF NoTask, TCB
<1>3. PICK b : b = [a EXCEPT !.status = "running"]
  OBVIOUS
<1>4. /\ b \in TCB /\ b.niceness_counter <= b.niceness
      /\ b.ptask /\ b.period = 0 /\ ~b.oneshot /\ b.status = "running"
  <2>1. /\ a \in TCB /\ a.ptask /\ a.period = 0 /\ ~a.oneshot
        /\ a.niceness = IDLE_NICENESS /\ a.niceness_counter = IDLE_NICENESS
    BY <1>1, BestIs
  <2> QED BY <2>1, <1>3 DEF TCB
<1>5. task = [t \in Slots |-> IF t = Idle THEN b ELSE NoTask]
  BY <1>1, <1>3 DEF Init
<1>6. Table(task)
  <2>1. \A t \in Slots : task[t] \in TCB /\ task[t].niceness_counter <= task[t].niceness
    BY <1>2, <1>4, <1>5
  <2> QED BY <2>1, <1>5 DEF Table
<1>7. Indices
  BY IdleSlot DEF Init, Indices, Idle
<1>8. IdleReadyOrRuns
  BY <1>4, <1>5, IdleSlot DEF Init, IdleReadyOrRuns
<1>9. Waits(task, be, passed)
  <2>1. passed = [p \in Slots \X Slots |-> 0]
    BY DEF Init
  <2> QED BY <2>1 DEF Waits
<1> QED BY <1>6, <1>7, <1>8, <1>9 DEF SchedInv, EntryIsCurrent, Init

\* The timer interrupt keeps the invariant, whichever scheduler finds a task.
LEMMA DispatchKeeps ==
    ASSUME SchedInv, HF_DispatcherISR
    PROVE  SchedInv' /\ \A t \in Slots : task'[t].ptask => task[t].ptask
<1>1. be \in Slots /\ HF_max_index \in Slots /\ Waits(task, be, passed) /\ started' = started /\ started
  BY DEF SchedInv, Indices, HF_DispatcherISR
<1>2. ASSUME NEW A, Table(A), IdleReady(A), SameTasks(task, A), NEW last \in Slots, RunsBestEffort(A, last),
             HF_max_index' \in Slots, \A t \in Slots : A[t].ptask => task[t].ptask
      PROVE  SchedInv' /\ \A t \in Slots : task'[t].ptask => task[t].ptask
  <2>1. Waits(A, be, passed)
    <3>1. \A t \in Slots : A[t].niceness = task[t].niceness /\ A[t].niceness_counter = task[t].niceness_counter
      BY <1>2 DEF SameTasks
    <3> QED BY <3>1, <1>1, WaitsSame
  <2>2. /\ Table(task') /\ HF_current_task' \in Slots
        /\ HF_task_entry' = HF_current_task' /\ be' = HF_current_task'
        /\ IdleReadyOrRuns' /\ Waits(task', be', passed')
        /\ \A t \in Slots : task'[t].ptask = A[t].ptask
    BY <2>1, <1>1, <1>2, ChoiceKeeps
  <2> QED BY <2>2, <1>1, <1>2 DEF SchedInv, Indices, EntryIsCurrent
<1>3. CASE Expired
  <2>1. PICK A, last : A = Without(task, HF_current_task) /\ last = HF_max_index'
    OBVIOUS
  <2>2. HF_max_index' = LastAfter(task, HF_current_task) /\ RunsBestEffort(Without(task, HF_current_task), HF_max_index')
    BY <1>3 DEF HF_DispatcherISR
  <2>3. Table(A) /\ IdleReady(A) /\ SameTasks(task, A) /\ \A t \in Slots : A[t].ptask => task[t].ptask
    BY <2>1, <1>3, WithoutKeeps
  <2>4. last \in Slots
    <3>1. LastTask(A) \in Slots
      BY <2>3, LastIsSlot DEF IdleReady
    <3> QED BY <3>1, <2>1, <2>2, <1>1 DEF LastAfter
  <2>5. RunsBestEffort(A, last)
    BY <2>1, <2>2 DEF RunsBestEffort, Runs, Turn
  <2> QED BY <2>1, <2>3, <2>4, <2>5, <1>2
<1>4. CASE ~Expired /\ RateMonotonic(Demoted) # Idle
  <2>1. PICK t, A, B : t = RateMonotonic(Demoted) /\ A = Demoted /\ B = HF_TaskReschedule(Demoted)
    OBVIOUS
  <2>2. Table(A) /\ SameTasks(task, A) /\ IdleReady(A) /\ \A x \in Slots : A[x].ptask = task[x].ptask
    BY <2>1, DemotedKeeps
  <2>3. Table(B) /\ SameTasks(A, B) /\ IdleReady(B) /\ \A x \in Slots : B[x].ptask = A[x].ptask
    BY <2>1, <2>2, <1>1, RescheduleKeeps
  <2>4. t \in Slots /\ t # Idle
    BY <2>1, <2>2, <1>1, <1>4, RateMonotonicIs
  <2>5. /\ HF_current_task' = t /\ HF_task_entry' = t /\ task' = [B EXCEPT ![t].status = "running"]
        /\ UNCHANGED <<be, passed, HF_max_index>>
    BY <2>1, <1>4 DEF HF_DispatcherISR, Runs
  <2>6. \A x \in Slots : B[x] \in TCB /\ B[x].niceness_counter <= B[x].niceness
    BY <2>3 DEF Table
  <2>7. PICK C : C = task'
    OBVIOUS
  <2>8. ASSUME NEW x \in Slots
        PROVE  /\ C[x] \in TCB
               /\ C[x].niceness = B[x].niceness /\ C[x].niceness_counter = B[x].niceness_counter
               /\ C[x].ptask = B[x].ptask
               /\ x # t => C[x] = B[x]
    <3>1. DOMAIN B = Slots
      BY <2>3 DEF Table
    <3>2. CASE x = t
      <4>1. C[x] = [B[x] EXCEPT !.status = "running"]
        BY <3>1, <3>2, <2>5, <2>7
      <4> QED BY <4>1, <3>2, <2>6 DEF TCB
    <3>3. CASE x # t
      <4>1. C[x] = B[x]
        BY <3>1, <3>3, <2>5, <2>7
      <4> QED BY <4>1, <2>6
    <3> QED BY <3>2, <3>3
  <2>9. Table(C)
    <3>1. C = [x \in Slots |-> C[x]]
      <4>1. B = [x \in Slots |-> B[x]]
        BY <2>3 DEF Table
      <4> QED BY <4>1, <2>5, <2>7
    <3>2. C \in [Slots -> TCB]
      BY <3>1, <2>8
    <3> QED BY <3>2, <2>6, <2>8 DEF Table
  <2>10. Waits(C, be, passed)
    <3>1. \A x \in Slots : C[x].niceness = task[x].niceness /\ C[x].niceness_counter = task[x].niceness_counter
      BY <2>2, <2>3, <2>8 DEF SameTasks
    <3> QED BY <3>1, <1>1, WaitsSame
  <2>11. Waits(task', be', passed')
    BY <2>5, <2>7, <2>10
  <2>12. IdleReadyOrRuns'
    <3>1. C[Idle] = B[Idle]
      BY <2>4, <2>8, IdleSlot
    <3> QED BY <3>1, <2>3, <2>7 DEF IdleReady, IdleReadyOrRuns
  <2>13. \A x \in Slots : task'[x].ptask = task[x].ptask
    BY <2>2, <2>3, <2>7, <2>8
  <2>14. Indices' /\ EntryIsCurrent'
    BY <2>4, <2>5 DEF SchedInv, Indices, EntryIsCurrent
  <2>15. Table(task')
    BY <2>7, <2>9
  <2> QED BY <2>11, <2>12, <2>13, <2>14, <2>15, <1>1 DEF SchedInv
<1>5. CASE ~Expired /\ RateMonotonic(Demoted) = Idle
  <2>1. PICK A, B, last : A = Demoted /\ B = HF_TaskReschedule(Demoted) /\ last = HF_max_index
    OBVIOUS
  <2>2. Table(A) /\ SameTasks(task, A) /\ IdleReady(A) /\ \A x \in Slots : A[x].ptask = task[x].ptask
    BY <2>1, DemotedKeeps
  <2>3. Table(B) /\ SameTasks(A, B) /\ IdleReady(B) /\ \A x \in Slots : B[x].ptask = A[x].ptask
    BY <2>1, <2>2, <1>1, RescheduleKeeps
  <2>4. RunsBestEffort(HF_TaskReschedule(Demoted), HF_max_index) /\ HF_max_index' = HF_max_index
    BY <1>5 DEF HF_DispatcherISR
  <2>5. RunsBestEffort(B, last)
    BY <2>1, <2>4
  <2>6. SameTasks(task, B)
    BY <2>2, <2>3 DEF SameTasks
  <2> QED BY <2>1, <2>2, <2>3, <2>4, <2>5, <2>6, <1>1, <1>2
<1> QED BY <1>3, <1>4, <1>5

\* So does giving the core up.
LEMMA YieldKeeps ==
    ASSUME SchedInv, HF_TaskYield
    PROVE  SchedInv' /\ \A t \in Slots : task'[t].ptask => task[t].ptask
<1>1. be \in Slots /\ HF_max_index \in Slots /\ Waits(task, be, passed)
  BY DEF SchedInv, Indices
<1>2. PICK A, last : A = Demoted /\ last = HF_max_index
  OBVIOUS
<1>3. Table(A) /\ SameTasks(task, A) /\ IdleReady(A) /\ \A x \in Slots : A[x].ptask = task[x].ptask
  BY <1>2, DemotedKeeps
<1>4. RunsBestEffort(A, last) /\ UNCHANGED <<HF_max_index, started>> /\ started
  BY <1>2 DEF HF_TaskYield, Calling
<1>5. Waits(A, be, passed)
  <2>1. \A t \in Slots : A[t].niceness = task[t].niceness /\ A[t].niceness_counter = task[t].niceness_counter
    BY <1>3 DEF SameTasks
  <2> QED BY <2>1, <1>1, WaitsSame
<1>6. /\ Table(task') /\ HF_current_task' \in Slots
      /\ HF_task_entry' = HF_current_task' /\ be' = HF_current_task'
      /\ IdleReadyOrRuns' /\ Waits(task', be', passed')
      /\ \A t \in Slots : task'[t].ptask = A[t].ptask
  BY <1>1, <1>2, <1>3, <1>4, <1>5, ChoiceKeeps
<1> QED BY <1>1, <1>3, <1>4, <1>6 DEF SchedInv, Indices, EntryIsCurrent

\* What NewTaskKeeps is about.
LEMMA AddKeeps ==
    ASSUME SchedInv, NEW tcb \in TCB, tcb.niceness_counter <= tcb.niceness, ~started, Add(tcb)
    PROVE  SchedInv'
<1>1. /\ FreeSlots # {} /\ task' = [task EXCEPT ![Min(FreeSlots)] = tcb]
      /\ HF_task_entry' = Min(FreeSlots)
      /\ HF_max_index' = IF Min(FreeSlots) > HF_max_index THEN Min(FreeSlots) ELSE HF_max_index
      /\ passed' = [p \in Slots \X Slots |-> IF p[1] = Min(FreeSlots) \/ p[2] = Min(FreeSlots) THEN 0 ELSE passed[p]]
      /\ UNCHANGED <<HF_current_task, be, started, calls>>
  BY DEF Add
<1>2. HF_task_entry' \in Slots
  BY <1>1, FreeSlotIs
<1>3. EntryIsCurrent'
  BY <1>1 DEF SchedInv, EntryIsCurrent
<1> QED BY <1>1, <1>2, <1>3, NewTaskKeeps

\* So does a fork, whose child has the timing of the slot the kernel looked at last.
LEMMA ForkKeeps ==
    ASSUME SchedInv, HF_Fork
    PROVE  /\ SchedInv'
           /\ ~calls => \A i \in Slots : ~task[i].ptask /\ task'[i].ptask =>
                           /\ task'[i].period = task[HF_current_task].period
                           /\ task'[i].capacity = task[HF_current_task].capacity
<1>1. PICK p, e, c : p = task[HF_current_task] /\ e = task[HF_task_entry] /\ c = Child(p, e)
  OBVIOUS
<1>2. p \in TCB /\ e \in TCB /\ HF_current_task \in Slots /\ HF_current_task # Idle
  BY <1>1 DEF HF_Fork, SchedInv, Indices, Table
<1>3. PICK b : b = IF p.period = 0 THEN Best(p.niceness, p.oneshot) ELSE Periodic(p.period, p.capacity)
  OBVIOUS
<1>4. b \in TCB /\ b.niceness_counter <= b.niceness
  <2>1. CASE p.period = 0
    <3>1. p.niceness \in Nat \ {0} /\ p.oneshot \in BOOLEAN
      BY <1>2 DEF TCB
    <3> QED BY <3>1, <2>1, <1>3, BestIs
  <2>2. CASE p.period # 0
    <3>1. p.period \in Nat /\ p.capacity \in Nat
      BY <1>2 DEF TCB
    <3> QED BY <3>1, <2>2, <1>3, PeriodicIs
  <2> QED BY <2>1, <2>2
<1>5. /\ c \in TCB /\ c.niceness_counter <= c.niceness
      /\ c.period = e.period /\ c.capacity = e.capacity
  <2>1. c = [[[[b EXCEPT !.period = e.period] EXCEPT !.capacity = e.capacity] EXCEPT !.capacity_counter = 0]
                EXCEPT !.status = "ready"]
    BY <1>1, <1>3 DEF Child
  <2>2. PICK b1, b2, b3 : /\ b1 = [b EXCEPT !.period = e.period]
                          /\ b2 = [b1 EXCEPT !.capacity = e.capacity]
                          /\ b3 = [b2 EXCEPT !.capacity_counter = 0]
    OBVIOUS
  <2>3. e.period \in Nat /\ e.capacity \in Nat
    BY <1>2 DEF TCB
  <2>4. b1 \in TCB /\ b1.niceness_counter <= b1.niceness /\ b1.period = e.period
    BY <2>2, <2>3, <1>4 DEF TCB
  <2>5. /\ b2 \in TCB /\ b2.niceness_counter <= b2.niceness
        /\ b2.period = e.period /\ b2.capacity = e.capacity
    BY <2>2, <2>3, <2>4 DEF TCB
  <2>6. /\ b3 \in TCB /\ b3.niceness_counter <= b3.niceness
        /\ b3.period = e.period /\ b3.capacity = e.capacity
    <3>1. 0 \in Int /\ b3 = [b2 EXCEPT !.capacity_counter = 0]
      BY <2>2
    <3> QED BY <3>1, <2>5 DEF TCB
  <2>7. c = [b3 EXCEPT !.status = "ready"]
    BY <2>1, <2>2
  <2> QED BY <2>6, <2>7 DEF TCB
<1>6. /\ FreeSlots # {} /\ task' = [task EXCEPT ![Min(FreeSlots)] = c]
      /\ HF_task_entry' = HF_current_task /\ started
      /\ HF_max_index' = IF Min(FreeSlots) > HF_max_index THEN Min(FreeSlots) ELSE HF_max_index
      /\ passed' = [q \in Slots \X Slots |-> IF q[1] = Min(FreeSlots) \/ q[2] = Min(FreeSlots) THEN 0 ELSE passed[q]]
      /\ UNCHANGED <<HF_current_task, be, started, calls>>
  BY <1>1 DEF HF_Fork
<1>7. SchedInv'
  <2>1. EntryIsCurrent' /\ HF_task_entry' \in Slots
    BY <1>2, <1>6 DEF EntryIsCurrent
  <2> QED BY <2>1, <1>5, <1>6, NewTaskKeeps
<1>8. ASSUME ~calls, NEW i \in Slots, ~task[i].ptask, task'[i].ptask
      PROVE  /\ task'[i].period = task[HF_current_task].period
             /\ task'[i].capacity = task[HF_current_task].capacity
  <2>1. e = p
    BY <1>1, <1>2, <1>8 DEF SchedInv, EntryIsCurrent
  <2>2. DOMAIN task = Slots
    BY DEF SchedInv, Table
  <2>3. i = Min(FreeSlots)
    BY <1>6, <1>8, <2>2
  <2>4. task'[i] = c
    BY <1>6, <2>2, <2>3
  <2> QED BY <2>1, <2>4, <1>1, <1>5
<1> QED BY <1>7, <1>8

\* So do stopping and resuming a task.
LEMMA SetStatusKeeps ==
    ASSUME SchedInv, NEW id \in Slots, NEW status \in {"blocked", "ready"}, SetStatus(id, status)
    PROVE  SchedInv' /\ \A t \in Slots : task'[t].ptask = task[t].ptask
<1>1. /\ id # Idle /\ HF_task_entry' = id /\ calls /\ started
      /\ UNCHANGED <<HF_max_index, HF_current_task, be, started, calls, passed>>
      /\ task' = IF task[id].ptask /\ task[id].status # "not_run" THEN [task EXCEPT ![id].status = status] ELSE task
  BY DEF SetStatus, Calling
<1>2. \A t \in Slots : task[t] \in TCB /\ task[t].niceness_counter <= task[t].niceness
  BY DEF SchedInv, Table
<1>3. PICK B : B = task'
  OBVIOUS
<1>4. task = [t \in Slots |-> task[t]]
  BY DEF SchedInv, Table
<1>5. ASSUME NEW t \in Slots
      PROVE  /\ B[t] \in TCB
             /\ B[t].niceness = task[t].niceness /\ B[t].niceness_counter = task[t].niceness_counter
             /\ B[t].ptask = task[t].ptask
             /\ t # id => B[t] = task[t]
  <2>1. CASE t = id
    <3>1. B[t] = task[t] \/ B[t] = [task[t] EXCEPT !.status = status]
      BY <2>1, <1>1, <1>3, <1>4
    <3> QED BY <3>1, <2>1, <1>2 DEF TCB
  <2>2. CASE t # id
    <3>1. B[t] = task[t]
      BY <2>2, <1>1, <1>3, <1>4
    <3> QED BY <3>1, <1>2
  <2> QED BY <2>1, <2>2
<1>6. Table(B)
  <2>1. B = [t \in Slots |-> B[t]]
    BY <1>1, <1>3, <1>4
  <2>2. B \in [Slots -> TCB]
    BY <2>1, <1>5
  <2> QED BY <2>2, <1>2, <1>5 DEF Table
<1>7. Waits(B, be, passed)
  BY <1>5, WaitsSame DEF SchedInv
<1>8. B[Idle] = task[Idle]
  BY <1>1, <1>5, IdleSlot
<1>9. IdleReadyOrRuns'
  BY <1>1, <1>3, <1>8 DEF SchedInv, IdleReadyOrRuns
<1>10. Indices' /\ EntryIsCurrent'
  BY <1>1 DEF SchedInv, Indices, EntryIsCurrent
<1>11. Table(task') /\ Waits(task', be', passed')
  BY <1>1, <1>3, <1>6, <1>7
<1>12. \A t \in Slots : task'[t].ptask = task[t].ptask
  BY <1>3, <1>5
<1> QED BY <1>1, <1>9, <1>10, <1>11, <1>12 DEF SchedInv

ForkStep == ~calls /\ started => \A i \in Slots : ~task[i].ptask /\ task'[i].ptask =>
                /\ task'[i].period = task[HF_current_task].period
                /\ task'[i].capacity = task[HF_current_task].capacity

\* Every step keeps the invariant, and a fork gives the child its parent's timing.
LEMMA SchedNext == SchedInv /\ [Next]_vars => SchedInv' /\ (ForkStep \/ UNCHANGED vars)
<1> SUFFICES ASSUME SchedInv, [Next]_vars PROVE SchedInv' /\ (ForkStep \/ UNCHANGED vars)
  OBVIOUS
<1>1. CASE HF_Start
  <2>1. SchedInv'
    BY <1>1 DEF HF_Start, SchedInv, Indices, IdleReadyOrRuns, EntryIsCurrent
  <2> QED BY <2>1, <1>1 DEF HF_Start, ForkStep
<1>2. CASE HF_DispatcherISR
  BY <1>2, DispatchKeeps DEF ForkStep
<1>3. CASE HF_TaskYield
  BY <1>3, YieldKeeps DEF ForkStep
<1>4. CASE HF_Fork
  BY <1>4, ForkKeeps DEF ForkStep
<1>5. ASSUME NEW id \in Slots, HF_BlockTask(id) \/ HF_ResumeTask(id) PROVE SchedInv' /\ ForkStep
  BY <1>5, SetStatusKeeps DEF HF_BlockTask, HF_ResumeTask, ForkStep
<1>6. ASSUME NEW n \in Nicenesses, NEW once \in BOOLEAN, HF_AddTask(n, once) PROVE SchedInv' /\ ForkStep
  <2>1. ~started /\ Add(Best(n, once))
    BY <1>6 DEF HF_AddTask
  <2>2. PICK b : b = Best(n, once)
    OBVIOUS
  <2>3. b \in TCB /\ b.niceness_counter <= b.niceness
    BY <2>2, BestIs DEF TCB
  <2> QED BY <2>1, <2>2, <2>3, AddKeeps DEF ForkStep
<1>7. ASSUME NEW o \in Offered, HF_AddPeriodicTask(o[1], o[2]) PROVE SchedInv' /\ ForkStep
  <2>1. ~started /\ Add(Periodic(o[1], o[2]))
    BY <1>7 DEF HF_AddPeriodicTask
  <2>2. PICK b : b = Periodic(o[1], o[2])
    OBVIOUS
  <2>3. o[1] \in Nat /\ o[2] \in Nat
    OBVIOUS
  <2>4. b \in TCB /\ b.niceness_counter <= b.niceness
    BY <2>2, <2>3, PeriodicIs
  <2> QED BY <2>1, <2>2, <2>4, AddKeeps DEF ForkStep
<1>8. CASE UNCHANGED vars
  BY <1>8 DEF vars, SchedInv, Indices, IdleReadyOrRuns, EntryIsCurrent
<1> QED BY <1>1, <1>2, <1>3, <1>4, <1>5, <1>6, <1>7, <1>8 DEF Next

\* The account of the turns gives the bound.
LEMMA InvBounds == SchedInv => BoundedBypass
<1> SUFFICES ASSUME SchedInv, NEW t \in Slots, NEW u \in Slots
             PROVE  passed[<<t, u>>] <= Ceiling(task[t].niceness, task[u].niceness)
  BY DEF BoundedBypass
<1>1. PICK p, a, b : p = passed[<<t, u>>] /\ a = task[t].niceness /\ b = task[u].niceness
  OBVIOUS
<1>2. task[t] \in TCB /\ task[u] \in TCB /\ task[u].niceness_counter <= b
  BY <1>1 DEF SchedInv, Table
<1>3. p \in Nat /\ a \in Nat \ {0} /\ b \in Nat \ {0}
  BY <1>1, <1>2 DEF SchedInv, Waits, TCB
<1>4. CASE p = 0
  <2>1. 0 <= Ceiling(a, b)
    <3>1. a + b - 1 \in Nat
      BY <1>3
    <3>2. (a + b - 1) \div b \in Nat
      BY <3>1, <1>3, ModDivision
    <3> QED BY <3>2 DEF Ceiling
  <2> QED BY <2>1, <1>1, <1>4
<1>5. CASE p # 0
  <2>1. PICK x : x = (p - 1) * b
    OBVIOUS
  <2>2. task[t].niceness_counter + x + (b - task[u].niceness_counter) + One(Seen(be, u, t)) <= a
    BY <1>1, <1>3, <1>5, <2>1 DEF SchedInv, Waits
  <2>3. x \in Int
    BY <1>3, <2>1
  <2>4. x < a
    BY <2>2, <2>3, <1>2, <1>3 DEF TCB, One
  <2> QED BY <2>1, <2>4, <1>1, <1>3, <1>5, CeilingBounds
<1> QED BY <1>4, <1>5

\* However many tasks there are, of whatever nicenesses, and however they come, stop and go,
\* a ready task sees another one have no more turns of the best effort scheduler than the
\* ratio of their nicenesses, rounded up.
THEOREM BypassAlwaysBounded == Spec => []BoundedBypass
BY SchedInit, SchedNext, InvBounds, PTL DEF Spec

\* Whatever tasks the application has, and whenever it forks, a child has the timing
\* of the task that forked, as long as the application makes no other call.
THEOREM ForkAlwaysInherits == Spec => ForkInherits
<1>1. SchedInv /\ [Next]_vars => [ForkStep]_vars
  BY SchedNext
<1> QED BY <1>1, SchedInit, SchedNext, PTL DEF Spec, ForkInherits, ForkStep
=============================================================================
