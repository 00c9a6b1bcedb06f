------------------------- MODULE SoftArithmetic_proofs -------------------------
(***************************************************************************)
(* The arithmetic that hf_risc has no instructions for, which hflibc.c     *)
(* does with shifts and sums, is exact for words of any even width.        *)
(*                                                                         *)
(* A function without a loop is computed from the halves of its arguments: *)
(* Computed.  A loop is known by what its turns keep.  In __mulsi3 the sum *)
(* and the product that is left make up the product (MultiplyInv).  In     *)
(* DivideMod, after n turns, the first n bits of the quotient are found    *)
(* and what rests is below the divisor in its place (DivideInv): the       *)
(* divisor is in two words, which one turn shifts together.  __udivmoddi4  *)
(* brings the divisor to a place from which it is taken away (AlignInv,    *)
(* SubtractInv); that the place is high enough is what its first loop is   *)
(* for.                                                                    *)
(***************************************************************************)
EXTENDS SoftArithmetic, ModLemmas

-----------------------------------------------------------------------------
(* Powers of two, and the widths *)

\* Pow2 is what its definition says.
LEMMA Pow2Is ==
    /\ Pow2 \in [Nat -> Nat \ {0}]
    /\ Pow2[0] = 1
    /\ \A n \in Nat : Pow2[n + 1] = 2 * Pow2[n]
<1> DEFINE Body(f) == [n \in Nat |-> IF n = 0 THEN 1 ELSE 2 * f[n - 1]]
           double == [k \in Nat \ {0} |-> 2 * k]
<1>1. Pow2 = CHOOSE f : f = Body(f)
  BY DEF Pow2
<1>2. \E f : f = Body(f)
  <2>1. double \in [Nat \ {0} -> Nat \ {0}] /\ 1 \in Nat \ {0}
    OBVIOUS
  <2>2. PICK f \in [Nat -> Nat \ {0}] : f[0] = 1 /\ \A n \in Nat : f[n + 1] = double[f[n]]
    <3>1. PICK S, base, step : S = Nat \ {0} /\ base = 1 /\ step = double
      OBVIOUS
    <3>2. base \in S /\ step \in [S -> S]
      BY <2>1, <3>1
    <3> HIDE DEF double
    <3>3. \E f \in [Nat -> S] : f[0] = base /\ \A n \in Nat : f[n + 1] = step[f[n]]
      BY <3>2, Iterated
    <3> QED BY <3>1, <3>3
  <2>3. \A n \in Nat : f[n] = IF n = 0 THEN 1 ELSE 2 * f[n - 1]
    <3>1. ASSUME NEW n \in Nat, n # 0 PROVE f[n] = 2 * f[n - 1]
      <4>1. n - 1 \in Nat /\ (n - 1) + 1 = n
        BY <3>1
      <4>2. f[n] = double[f[n - 1]] /\ f[n - 1] \in Nat \ {0}
        BY <2>2, <4>1
      <4> QED BY <4>2
    <3> QED BY <2>2, <3>1
  <2>4. f = [n \in Nat |-> f[n]]
    OBVIOUS
  <2> QED BY <2>3, <2>4
<1>3. Pow2 = Body(Pow2)
  BY <1>1, <1>2
<1>4. \A n \in Nat : Pow2[n] = IF n = 0 THEN 1 ELSE 2 * Pow2[n - 1]
  BY <1>3
<1> DEFINE Positive == {n \in Nat : Pow2[n] \in Nat \ {0}}
<1>5. 0 \in Positive
  BY <1>4
<1>6. ASSUME NEW n \in Nat PROVE Pow2[n + 1] = 2 * Pow2[n]
  BY <1>4
<1>7. Nat \subseteq Positive
  <2>1. \A n \in Nat : n \in Positive => n + 1 \in Positive
    BY <1>6
  <2> HIDE DEF Positive
  <2> QED BY <1>5, <2>1, Induct
<1>8. Pow2 \in [Nat -> Nat \ {0}]
  <2>1. Pow2 = [n \in Nat |-> Pow2[n]]
    BY <1>3
  <2> QED BY <2>1, <1>7
<1> QED BY <1>4, <1>6, <1>8

\* Exponents add.
LEMMA Pow2Plus ==
    ASSUME NEW m \in Nat, NEW n \in Nat
    PROVE  Pow2[m + n] = Pow2[m] * Pow2[n]
<1> DEFINE S == {k \in Nat : Pow2[m + k] = Pow2[m] * Pow2[k]}
<1>1. 0 \in S
  BY Pow2Is
<1>2. ASSUME NEW k \in Nat, k \in S PROVE k + 1 \in S
  <2>1. PICK p, q, r : p = Pow2[m] /\ q = Pow2[k] /\ r = Pow2[m + k]
    OBVIOUS
  <2>2. p \in Nat /\ q \in Nat /\ r = p * q
    BY <2>1, <1>2, Pow2Is
  <2>3. Pow2[m + (k + 1)] = 2 * r
    <3>1. m + k \in Nat /\ m + (k + 1) = (m + k) + 1
      OBVIOUS
    <3> QED BY <3>1, <2>1, Pow2Is
  <2>4. Pow2[k + 1] = 2 * q
    BY <2>1, Pow2Is
  <2>5. 2 * r = p * (2 * q)
    BY <2>2
  <2> QED BY <2>1, <2>3, <2>4, <2>5
<1>3. Nat \subseteq S
  <2> HIDE DEF S
  <2> QED BY <1>1, <1>2, Induct
<1> QED BY <1>3

\* A half word, a word and a double word, and the half of a word.
LEMMA Widths ==
    /\ H \in Nat /\ H >= 2 /\ M \in Nat /\ MM \in Nat
    /\ M = H * H /\ MM = M * M
    /\ BITS - 1 \in Nat /\ M = 2 * Pow2[BITS - 1] /\ M \div 2 = Pow2[BITS - 1]
    /\ \E h \in Nat : MM = 2 * h
<1>1. BITS \in Nat /\ BITS >= 2 /\ BITS \div 2 \in Nat /\ BITS = BITS \div 2 + BITS \div 2
      /\ BITS \div 2 >= 1
  BY ArithmeticAssumption
<1>2. PICK k : k = BITS \div 2
  OBVIOUS
<1>3. M = H * H
  BY <1>1, <1>2, Pow2Plus DEF M, H
<1>4. MM = M * M
  <2>1. 2 * BITS = BITS + BITS
    BY <1>1
  <2> QED BY <2>1, <1>1, Pow2Plus DEF M, MM
<1>5. H \in Nat /\ M \in Nat /\ MM \in Nat
  <2>1. 2 * BITS \in Nat
    BY <1>1
  <2> QED BY <2>1, <1>1, Pow2Is DEF H, M, MM
<1>6. H >= 2
  <2>1. k - 1 \in Nat /\ (k - 1) + 1 = k
    BY <1>1, <1>2
  <2>2. Pow2[k] = 2 * Pow2[k - 1] /\ Pow2[k - 1] \in Nat \ {0}
    BY <2>1, Pow2Is
  <2> QED BY <2>2, <1>2 DEF H
<1>7. BITS - 1 \in Nat /\ M = 2 * Pow2[BITS - 1] /\ Pow2[BITS - 1] \in Nat
  <2>1. BITS - 1 \in Nat /\ (BITS - 1) + 1 = BITS
    BY <1>1
  <2> QED BY <2>1, Pow2Is DEF M
<1>8. M \div 2 = Pow2[BITS - 1]
  BY <1>7
<1>9. MM = 2 * (Pow2[BITS - 1] * M)
  <2>1. PICK p, q : p = Pow2[BITS - 1] /\ q = M
    OBVIOUS
  <2>2. p \in Nat /\ q \in Nat /\ q = 2 * p
    BY <2>1, <1>5, <1>7
  <2>3. q * q = 2 * (p * q)
    BY <2>2
  <2> QED BY <2>1, <2>3, <1>4
<1>10. Pow2[BITS - 1] * M \in Nat
  BY <1>5, <1>7
<1> QED BY <1>3, <1>4, <1>5, <1>6, <1>7, <1>8, <1>9, <1>10

-----------------------------------------------------------------------------
(* Parts and products *)

\* The quotient and the remainder are known by what they make up.
LEMMA PartsUnique ==
    ASSUME NEW n \in Nat \ {0}, NEW v \in Int, NEW q \in Int, NEW r \in 0 .. n - 1, v = q * n + r
    PROVE  v \div n = q /\ v % n = r
OBVIOUS

\* A number is its upper and its lower part.
LEMMA Parts ==
    ASSUME NEW n \in Nat \ {0}, NEW v \in Int
    PROVE  /\ v \div n \in Int /\ v % n \in 0 .. n - 1
           /\ v = (v \div n) * n + (v % n)
           /\ v \in Nat => v \div n \in Nat
<1>1. CASE v \in Nat
  <2>1. v \div n \in Nat /\ v = (v \div n) * n + (v % n)
    BY <1>1, ModDivision
  <2>2. v % n \in 0 .. n - 1
    BY <1>1, ModRange
  <2> QED BY <2>1, <2>2
<1>2. CASE v \notin Nat
  <2>1. PICK w : w = -v
    OBVIOUS
  <2>2. w \in Nat /\ v = -w
    BY <1>2, <2>1
  <2>3. PICK q, r : q = w \div n /\ r = w % n
    OBVIOUS
  <2>4. q \in Nat /\ r \in 0 .. n - 1 /\ w = q * n + r
    BY <2>2, <2>3, ModDivision, ModRange
  <2>5. PICK p, s : p = (IF r = 0 THEN -q ELSE -q - 1) /\ s = IF r = 0 THEN 0 ELSE n - r
    OBVIOUS
  <2>6. p \in Int /\ s \in 0 .. n - 1
    BY <2>4, <2>5
  <2>7. v = p * n + s
    BY <2>2, <2>4, <2>5
  <2>8. v \div n = p /\ v % n = s
    BY <2>6, <2>7, PartsUnique
  <2>9. v \div n \in Int /\ v % n \in 0 .. n - 1
    BY <2>6, <2>8
  <2>10. v = (v \div n) * n + (v % n)
    BY <2>7, <2>8
  <2> QED BY <1>2, <2>9, <2>10
<1> QED BY <1>1, <1>2

\* The same of a number that is not negative, for which the quotient is not either.
Splits(v, n, q, r) == q \in Nat /\ r \in 0 .. n - 1 /\ v = q * n + r

\* The quotient and the remainder of a number that is not negative split it.
LEMMA NatParts ==
    ASSUME NEW n \in Nat \ {0}, NEW v, v \in Nat, NEW q, NEW r, q = v \div n, r = v % n
    PROVE  Splits(v, n, q, r)
BY ModDivision, ModRange DEF Splits

\* A multiple of the divisor leaves the remainder alone.
LEMMA ModSame ==
    ASSUME NEW m \in Nat \ {0}, NEW a1 \in Int, NEW b1 \in Int, NEW k \in Int, a1 = b1 + k * m
    PROVE  a1 % m = b1 % m
<1>1. PICK q, r : q = b1 \div m /\ r = b1 % m
  OBVIOUS
<1>2. q \in Int /\ r \in 0 .. m - 1 /\ b1 = q * m + r
  BY <1>1, Parts
<1>3. a1 = (q + k) * m + r
  BY <1>2
<1>4. q + k \in Int
  BY <1>2
<1>5. a1 % m = r
  BY <1>2, <1>3, <1>4, PartsUnique
<1> QED BY <1>1, <1>5

\* Nothing is lost of a number that fits.
LEMMA ModBelow ==
    ASSUME NEW m \in Nat \ {0}, NEW v \in 0 .. m - 1
    PROVE  v % m = v
OBVIOUS

\* A factor that is positive keeps the order of what it multiplies.
LEMMA Cancels ==
    ASSUME NEW n \in Nat \ {0}, NEW p \in Int, NEW q \in Int
    PROVE  /\ p * n < q * n => p < q
           /\ p * n <= q * n => p <= q
           /\ p * n = q * n => p = q
           /\ p <= q => p * n <= q * n
           /\ p < q => p * n < q * n
OBVIOUS

\* The upper part of a number of q parts of size n is one of q.
LEMMA UpperBelow ==
    ASSUME NEW n \in Nat \ {0}, NEW q \in Nat, NEW v \in 0 .. q * n - 1
    PROVE  v \div n \in 0 .. q - 1
<1>1. PICK d, r : d = v \div n /\ r = v % n
  OBVIOUS
<1>2. v \in Nat
  OBVIOUS
<1>3. d \in Nat /\ r \in 0 .. n - 1 /\ v = d * n + r
  <2>1. Splits(v, n, d, r)
    BY <1>1, <1>2, NatParts
  <2> QED BY <2>1 DEF Splits
<1>4. d * n < q * n
  <2>1. d * n \in Int /\ q * n \in Int
    BY <1>3
  <2> QED BY <2>1, <1>3
<1>5. d < q
  BY <1>3, <1>4, Cancels
<1> QED BY <1>1, <1>3, <1>5

\* A product grows with its factors.
LEMMA ProductBound ==
    ASSUME NEW p \in Nat, NEW q \in Nat, NEW u \in 0 .. p, NEW v \in 0 .. q
    PROVE  u * v \in Nat /\ u * v <= p * q
<1>1. u * v <= p * v /\ p * v <= p * q
  OBVIOUS
<1>2. u * v \in Nat /\ p * v \in Nat /\ p * q \in Nat
  OBVIOUS
<1> QED BY <1>1, <1>2

\* The halves of a word.
LEMMA HalvesOf ==
    ASSUME NEW v \in 0 .. M - 1, NEW q, NEW r, q = v \div H, r = v % H
    PROVE  q \in 0 .. H - 1 /\ r \in 0 .. H - 1 /\ v = q * H + r
<1>1. H \in Nat \ {0} /\ v \in Nat /\ v \in 0 .. H * H - 1
  BY Widths
<1>2. q \in Nat /\ r \in 0 .. H - 1 /\ v = q * H + r
  <2>1. Splits(v, H, q, r)
    BY <1>1, NatParts
  <2> QED BY <2>1 DEF Splits
<1>3. v \div H \in 0 .. H - 1
  BY <1>1, UpperBelow
<1> QED BY <1>2, <1>3

\* The sum of a product of two halves and a third fits a word.
LEMMA HalvesFit ==
    ASSUME NEW u \in 0 .. H - 1, NEW v \in 0 .. H - 1, NEW w \in 0 .. H - 1
    PROVE  w + u * v \in 0 .. M - 1 /\ u * v \in 0 .. M - 1
<1>1. PICK h : h = H - 1
  OBVIOUS
<1>2. h \in Nat /\ H = h + 1 /\ M = H * H
  BY <1>1, Widths
<1>3. M = h * h + 2 * h + 1
  BY <1>2
<1>4. u * v \in Nat /\ u * v <= h * h
  BY <1>1, <1>2, ProductBound
<1>5. h * h \in Nat
  BY <1>2
<1> QED BY <1>1, <1>2, <1>3, <1>4, <1>5

\* The product of two words, from the products of their halves.
LEMMA WideProduct ==
    ASSUME NEW u \in 0 .. M - 1, NEW v \in 0 .. M - 1
    PROVE  muldsi3(u, v) = u * v /\ u * v \in 0 .. MM - 1
<1>1. PICK uh, ul, vh, vl : uh = upper(u) /\ ul = lower(u) /\ vh = upper(v) /\ vl = lower(v)
  OBVIOUS
<1>2. H \in Nat \ {0} /\ M \in Nat \ {0} /\ M = H * H /\ MM = M * M
  BY Widths
<1>3. /\ uh \in 0 .. H - 1 /\ ul \in 0 .. H - 1 /\ u = uh * H + ul
      /\ vh \in 0 .. H - 1 /\ vl \in 0 .. H - 1 /\ v = vh * H + vl
  <2>1. /\ uh = u \div H /\ ul = u % H
        /\ vh = v \div H /\ vl = v % H
    BY <1>1 DEF upper, lower
  <2>2. uh \in 0 .. H - 1 /\ ul \in 0 .. H - 1 /\ u = uh * H + ul
    BY <2>1, HalvesOf
  <2>3. vh \in 0 .. H - 1 /\ vl \in 0 .. H - 1 /\ v = vh * H + vl
    BY <2>1, HalvesOf
  <2> QED BY <2>2, <2>3
<1>4. PICK p : p = ul * vl
  OBVIOUS
<1>5. p \in 0 .. M - 1 /\ p % M = p
  BY <1>2, <1>3, <1>4, HalvesFit, ModBelow
<1>6. PICK ph, pl : ph = p \div H /\ pl = p % H
  OBVIOUS
<1>7. ph \in 0 .. H - 1 /\ pl \in 0 .. H - 1 /\ p = ph * H + pl
  BY <1>5, <1>6, HalvesOf
<1>8. PICK s : s = ph + uh * vl
  OBVIOUS
<1>9. s \in 0 .. M - 1 /\ s % M = s
  BY <1>2, <1>3, <1>7, <1>8, HalvesFit, ModBelow
<1>10. PICK sh, sl : sh = s \div H /\ sl = s % H
  OBVIOUS
<1>11. sh \in 0 .. H - 1 /\ sl \in 0 .. H - 1 /\ s = sh * H + sl
  BY <1>9, <1>10, HalvesOf
<1>12. PICK t : t = sl + vh * ul
  OBVIOUS
<1>13. t \in 0 .. M - 1 /\ t % M = t
  BY <1>2, <1>3, <1>11, <1>12, HalvesFit, ModBelow
<1>14. PICK th, tl : th = t \div H /\ tl = t % H
  OBVIOUS
<1>15. th \in 0 .. H - 1 /\ tl \in 0 .. H - 1 /\ t = th * H + tl
  BY <1>13, <1>14, HalvesOf
<1>16. PICK top : top = sh + th + uh * vh
  OBVIOUS
<1>17. muldsi3(u, v) = (top % M) * M + (tl * H) + pl
  BY <1>1, <1>4, <1>5, <1>6, <1>8, <1>9, <1>10, <1>12, <1>13, <1>14, <1>16 DEF muldsi3, upper, lower
<1>18. u * v = top * M + tl * H + pl
  <2>1. u * v = (uh * vh) * (H * H) + (uh * vl + vh * ul) * H + ul * vl
    BY <1>2, <1>3
  <2>2. uh * vl + vh * ul = sh * H + t - ph
    <3>1. uh * vl \in Int /\ vh * ul \in Int /\ sh * H \in Int
      BY <1>2, <1>3, <1>11
    <3> QED BY <3>1, <1>2, <1>7, <1>8, <1>11, <1>12, <1>13
  <2>3. (sh * H + t - ph) * H + (ph * H + pl) = sh * (H * H) + th * (H * H) + tl * H + pl
    <3>1. t = th * H + tl /\ {sh, t, th, tl, ph, pl, H} \subseteq Int
      BY <1>2, <1>7, <1>11, <1>13, <1>15
    <3> QED BY <3>1
  <2>4. (uh * vh) * M + sh * M + th * M = top * M
    BY <1>2, <1>3, <1>11, <1>15, <1>16
  <2>5. {(uh * vh) * M, sh * M, th * M, top * M, tl * H, pl, (sh * H + t - ph) * H} \subseteq Int
    BY <1>2, <1>3, <1>7, <1>11, <1>13, <1>15, <1>16
  <2>6. u * v = (uh * vh) * M + (sh * H + t - ph) * H + (ph * H + pl)
    BY <2>1, <2>2, <1>2, <1>4, <1>7
  <2> QED BY <2>3, <2>4, <2>5, <2>6, <1>2, <1>7
<1>19. u * v \in 0 .. MM - 1
  <2>1. M - 1 \in Nat /\ (M - 1) * (M - 1) < M * M
    BY <1>2
  <2>2. u * v \in Nat /\ u * v <= (M - 1) * (M - 1)
    BY <2>1, ProductBound
  <2>3. M * M \in Nat /\ (M - 1) * (M - 1) \in Nat
    BY <1>2
  <2> QED BY <2>1, <2>2, <2>3, <1>2
<1>20. top \in 0 .. M - 1
  <2>1. top \in Nat
    BY <1>3, <1>11, <1>15, <1>16
  <2>2. top * M <= u * v
    <3>1. tl * H \in Nat /\ pl \in Nat /\ top * M \in Nat
      BY <2>1, <1>2, <1>7, <1>15
    <3> QED BY <3>1, <1>18
  <2>3. top * M < M * M
    <3>1. top * M \in Nat /\ M * M \in Nat /\ u * v \in Nat
      BY <2>1, <1>2, <1>19
    <3> QED BY <3>1, <2>2, <1>2, <1>19
  <2>4. top < M
    BY <2>1, <2>3, <1>2, Cancels
  <2> QED BY <2>1, <2>4, <1>2
<1> QED BY <1>2, <1>17, <1>18, <1>19, <1>20, ModBelow

\* The words of a double word.
LEMMA DoubleParts ==
    ASSUME NEW u \in 0 .. MM - 1
    PROVE  high(u) \in 0 .. M - 1 /\ low(u) \in 0 .. M - 1 /\ u = high(u) * M + low(u)
<1>1. M \in Nat \ {0} /\ u \in Nat /\ u \in 0 .. M * M - 1
  BY Widths
<1>2. PICK q, r : q = u \div M /\ r = u % M
  OBVIOUS
<1>3. q \in Nat /\ r \in 0 .. M - 1 /\ u = q * M + r
  <2>1. Splits(u, M, q, r)
    BY <1>1, <1>2, NatParts
  <2> QED BY <2>1 DEF Splits
<1>4. u \div M \in 0 .. M - 1
  BY <1>1, UpperBelow
<1> QED BY <1>2, <1>3, <1>4 DEF high, low

\* __muldi3, which drops the product of the upper words, is the product of two
\* double words, modulo a double word.
LEMMA DoubleProduct ==
    ASSUME NEW u \in 0 .. MM - 1, NEW v \in 0 .. MM - 1
    PROVE  muldi3(u, v) = (u * v) % MM
<1>1. PICK uh, ul, vh, vl : uh = high(u) /\ ul = low(u) /\ vh = high(v) /\ vl = low(v)
  OBVIOUS
<1>2. M \in Nat \ {0} /\ MM \in Nat \ {0} /\ MM = M * M
  BY Widths
<1>3. /\ uh \in 0 .. M - 1 /\ ul \in 0 .. M - 1 /\ u = uh * M + ul
      /\ vh \in 0 .. M - 1 /\ vl \in 0 .. M - 1 /\ v = vh * M + vl
  BY <1>1, DoubleParts
<1>4. PICK r, rh, rl : r = ul * vl /\ rh = high(r) /\ rl = low(r)
  OBVIOUS
<1>5. muldsi3(ul, vl) = r /\ r \in 0 .. MM - 1
  BY <1>3, <1>4, WideProduct
<1>6. rh \in 0 .. M - 1 /\ rl \in 0 .. M - 1 /\ r = rh * M + rl
  BY <1>4, <1>5, DoubleParts
<1>7. PICK c : c = rh + (uh * vl) + (ul * vh)
  OBVIOUS
<1>8. c \in Nat
  BY <1>3, <1>6, <1>7
<1>9. PICK d, e : d = c \div M /\ e = c % M
  OBVIOUS
<1>10. d \in Nat /\ e \in 0 .. M - 1 /\ c = d * M + e
  <2>1. Splits(c, M, d, e)
    BY <1>2, <1>8, <1>9, NatParts
  <2> QED BY <2>1 DEF Splits
<1>11. muldi3(u, v) = e * M + rl
  BY <1>1, <1>4, <1>5, <1>7, <1>9 DEF muldi3
<1>12. u * v = (uh * vh + d) * (M * M) + (e * M + rl)
  <2>1. u * v = (uh * vh) * (M * M) + (uh * vl + ul * vh) * M + ul * vl
    BY <1>2, <1>3
  <2>2. (uh * vl + ul * vh) * M + ul * vl = c * M + rl
    <3>1. uh * vl \in Int /\ ul * vh \in Int
      BY <1>3
    <3>2. PICK z : z = uh * vl + ul * vh
      OBVIOUS
    <3>3. c = rh + z /\ z \in Int
      BY <3>1, <3>2, <1>6, <1>7
    <3>4. c * M = rh * M + z * M
      BY <3>3, <1>2, <1>6
    <3>5. {c * M, rh * M, z * M} \subseteq Int
      BY <3>3, <1>2, <1>6, <1>8
    <3> QED BY <3>2, <3>4, <3>5, <1>4, <1>6
  <2>3. c * M = d * (M * M) + e * M
    BY <1>2, <1>10
  <2>4. PICK z, k : z = M * M /\ k = uh * vh
    OBVIOUS
  <2>5. z \in Int /\ k \in Int
    BY <2>4, <1>2, <1>3
  <2>6. (k + d) * z = k * z + d * z
    BY <2>5, <1>10
  <2>7. {k * z, d * z, c * M, e * M} \subseteq Int /\ {(uh * vl + ul * vh) * M, ul * vl} \subseteq Int
    BY <2>5, <1>2, <1>3, <1>8, <1>10
  <2> QED BY <2>1, <2>2, <2>3, <2>4, <2>6, <2>7, <1>6
<1>13. e * M + rl \in 0 .. MM - 1
  <2>1. e * M <= (M - 1) * M
    BY <1>2, <1>10, Cancels
  <2>2. (M - 1) * M = M * M - M
    BY <1>2
  <2>3. e * M \in Nat /\ M * M \in Nat
    BY <1>2, <1>10
  <2> QED BY <2>1, <2>2, <2>3, <1>2, <1>6
<1>14. uh * vh + d \in Int /\ u * v \in Int
  BY <1>3, <1>10, <1>2
<1>15. (u * v) % MM = e * M + rl
  <2>1. PICK w, q, z : w = u * v /\ q = uh * vh + d /\ z = e * M + rl
    OBVIOUS
  <2>2. w = q * MM + z /\ w \in Int /\ q \in Int /\ z \in 0 .. MM - 1
    BY <2>1, <1>2, <1>12, <1>13, <1>14
  <2>3. w % MM = z
    BY <2>2, <1>2, PartsUnique
  <2> QED BY <2>1, <2>3
<1> QED BY <1>11, <1>15

-----------------------------------------------------------------------------
(* Shifts *)

\* A shift by n bits splits a word in two.
LEMMA Pieces ==
    ASSUME NEW n \in 1 .. BITS - 1
    PROVE  /\ Pow2[n] \in Nat \ {0} /\ Pow2[BITS - n] \in Nat \ {0}
           /\ M = Pow2[n] * Pow2[BITS - n]
<1>1. n \in Nat /\ BITS - n \in Nat /\ n + (BITS - n) = BITS
  BY ArithmeticAssumption
<1> QED BY <1>1, Pow2Is, Pow2Plus DEF M

\* d rows of q cells and part of one more.
LEMMA Joined ==
    ASSUME NEW p \in Nat \ {0}, NEW q \in Nat \ {0}, NEW d \in 0 .. p - 1, NEW e \in 0 .. q - 1
    PROVE  d * q + e \in 0 .. p * q - 1
<1>1. d * q <= (p - 1) * q
  BY Cancels
<1>2. (p - 1) * q = p * q - q
  OBVIOUS
<1>3. d * q \in Nat /\ p * q \in Nat
  OBVIOUS
<1> QED BY <1>1, <1>2, <1>3

\* The upper cells of a word of p cells of size q.
LEMMA WordSplit ==
    ASSUME NEW p \in Nat \ {0}, NEW q \in Nat \ {0}, M = p * q, NEW v \in 0 .. M - 1
    PROVE  \E c \in 0 .. p - 1, d \in 0 .. q - 1 : v = c * q + d /\ v \div q = c
<1>1. PICK c, d : c = v \div q /\ d = v % q
  OBVIOUS
<1>2. v \in Nat
  BY Widths
<1>3. Splits(v, q, c, d)
  BY <1>1, <1>2, NatParts
<1>4. v \div q \in 0 .. p - 1
  <2>1. v \in 0 .. p * q - 1
    OBVIOUS
  <2> QED BY <2>1, UpperBelow
<1>5. c \in 0 .. p - 1 /\ d \in 0 .. q - 1 /\ v = c * q + d
  BY <1>1, <1>3, <1>4 DEF Splits
<1> QED BY <1>1, <1>5

\* __ashldi3 shifts both words of a double word, and what the lower one loses the
\* upper one gains.
LEMMA LeftShift ==
    ASSUME NEW u \in 0 .. MM - 1, NEW n \in 1 .. BITS
    PROVE  ashldi3(u, n) = (u * Pow2[n]) % MM
<1>1. PICK uh, ul : uh = high(u) /\ ul = low(u)
  OBVIOUS
<1>2. M \in Nat \ {0} /\ MM \in Nat \ {0} /\ MM = M * M
  BY Widths
<1>3. uh \in 0 .. M - 1 /\ ul \in 0 .. M - 1 /\ u = uh * M + ul
  BY <1>1, DoubleParts
<1>4. CASE n = BITS
  <2>1. ashldi3(u, n) = ul * M /\ Pow2[n] = M
    BY <1>1, <1>4 DEF ashldi3, M
  <2>2. u * M = uh * MM + ul * M
    BY <1>2, <1>3
  <2>3. ul * M + 0 \in 0 .. M * M - 1
    BY <1>2, <1>3, Joined
  <2>4. PICK w, z : w = u * M /\ z = ul * M
    OBVIOUS
  <2>5. w \in Int /\ z \in 0 .. MM - 1 /\ w = uh * MM + z
    BY <2>2, <2>3, <2>4, <1>2, <1>3
  <2>6. uh \in Int
    BY <1>2, <1>3
  <2>7. w % MM = z
    BY <2>5, <2>6, <1>2, PartsUnique
  <2> QED BY <2>1, <2>4, <2>7
<1>5. CASE n # BITS
  <2>1. PICK p, q : p = Pow2[n] /\ q = Pow2[BITS - n]
    OBVIOUS
  <2>2. p \in Nat \ {0} /\ q \in Nat \ {0} /\ M = p * q
    <3>1. n \in 1 .. BITS - 1
      BY <1>5, ArithmeticAssumption
    <3> QED BY <3>1, <2>1, Pieces
  <2>3. PICK c \in 0 .. p - 1, d \in 0 .. q - 1 : ul = c * q + d /\ ul \div q = c
    BY <2>2, <1>3, WordSplit
  <2>4. M = q * p
    BY <2>2
  <2>5. uh \in Nat
    BY <1>2, <1>3
  <2>6. PICK s, t : s = uh \div q /\ t = uh % q
    OBVIOUS
  <2>7. Splits(uh, q, s, t)
    BY <2>2, <2>5, <2>6, NatParts
  <2>8. s \in Nat /\ t \in 0 .. q - 1 /\ uh = s * q + t
    BY <2>7 DEF Splits
  <2>9. d * p + c \in 0 .. M - 1 /\ t * p + c \in 0 .. M - 1
    BY <2>2, <2>3, <2>4, <2>8, Joined
  <2>10. (ul * p) % M = d * p
    <3>1. PICK w, z : w = ul * p /\ z = d * p
      OBVIOUS
    <3>2. w = c * M + z
      BY <3>1, <2>2, <2>3
    <3>3. w \in Int /\ z \in 0 .. M - 1
      <4>1. z \in Nat /\ z + c \in 0 .. M - 1
        BY <3>1, <2>2, <2>3, <2>9
      <4> QED BY <4>1, <3>1, <1>3, <2>2, <2>3
    <3>4. c \in Int
      BY <2>2, <2>3
    <3>5. w % M = z
      BY <3>2, <3>3, <3>4, <1>2, PartsUnique
    <3> QED BY <3>1, <3>5
  <2>11. (uh * p) % M = t * p
    <3>1. PICK w, z : w = uh * p /\ z = t * p
      OBVIOUS
    <3>2. w = s * M + z
      BY <3>1, <2>2, <2>8
    <3>3. w \in Int /\ z \in 0 .. M - 1
      <4>1. z \in Nat /\ z + c \in 0 .. M - 1
        BY <3>1, <2>2, <2>8, <2>9
      <4> QED BY <4>1, <3>1, <1>3, <2>2, <2>3
    <3>4. s \in Int
      BY <2>8
    <3>5. w % M = z
      BY <3>2, <3>3, <3>4, <1>2, PartsUnique
    <3> QED BY <3>1, <3>5
  <2>12. ashldi3(u, n) = (t * p + c) * M + d * p
    BY <1>1, <1>5, <2>1, <2>3, <2>10, <2>11 DEF ashldi3
  <2>13. u * p = s * MM + ((t * p + c) * M + d * p)
    <3>1. u * p = (uh * p) * M + ul * p
      BY <1>2, <1>3, <2>2
    <3>2. uh * p = s * M + t * p
      BY <2>2, <2>8
    <3>3. ul * p = c * M + d * p
      BY <2>2, <2>3
    <3>4. PICK z, y1 : z = t * p /\ y1 = d * p
      OBVIOUS
    <3>5. z \in Int /\ y1 \in Int
      BY <3>4, <2>2, <2>3, <2>8
    <3>6. (s * M + z) * M + (c * M + y1) = s * (M * M) + ((z + c) * M + y1)
      BY <3>5, <1>2, <2>3, <2>8
    <3> QED BY <3>1, <3>2, <3>3, <3>4, <3>6, <1>2
  <2>14. (t * p + c) * M + d * p \in 0 .. MM - 1
    <3>1. PICK z, y1 : z = t * p + c /\ y1 = d * p
      OBVIOUS
    <3>2. y1 \in Nat /\ y1 + c \in 0 .. M - 1 /\ z \in 0 .. M - 1
      BY <3>1, <2>2, <2>3, <2>9
    <3>3. y1 \in 0 .. M - 1
      <4>1. c \in Nat
        BY <2>2, <2>3
      <4> QED BY <3>2, <4>1, <1>2
    <3>4. z * M + y1 \in 0 .. M * M - 1
      BY <3>2, <3>3, <1>2, Joined
    <3> QED BY <3>1, <3>4, <1>2
  <2>15. PICK w, z : w = u * p /\ z = (t * p + c) * M + d * p
    OBVIOUS
  <2>16. w \in Int /\ z \in 0 .. MM - 1 /\ w = s * MM + z
    BY <2>13, <2>14, <2>15, <1>2, <2>2
  <2>17. s \in Int
    BY <2>8
  <2>18. w % MM = z
    BY <2>16, <2>17, <1>2, PartsUnique
  <2> QED BY <2>1, <2>12, <2>15, <2>18
<1> QED BY <1>4, <1>5

\* What the word that is shifted out of leaves in the lower one, for a word s
\* with a sign or without.
LEMMA RightPieces ==
    ASSUME NEW u \in 0 .. MM - 1, NEW n \in 1 .. BITS - 1, NEW s \in Int,
           s = high(u) \/ s = high(u) - M
    PROVE  \E k \in 0 .. M - 1 : carried(u, n) = k /\ (s * M + low(u)) \div Pow2[n] = (s \div Pow2[n]) * M + k
<1>1. PICK uh, ul : uh = high(u) /\ ul = low(u)
  OBVIOUS
<1>2. M \in Nat \ {0}
  BY Widths
<1>3. uh \in 0 .. M - 1 /\ ul \in 0 .. M - 1 /\ u = uh * M + ul
  BY <1>1, DoubleParts
<1>4. PICK p, q : p = Pow2[n] /\ q = Pow2[BITS - n]
  OBVIOUS
<1>5. p \in Nat \ {0} /\ q \in Nat \ {0} /\ M = p * q
  BY <1>4, Pieces
<1>6. PICK c, d : c = s \div p /\ d = s % p
  OBVIOUS
<1>7. c \in Int /\ d \in 0 .. p - 1 /\ s = c * p + d
  <2>1. s \div p \in Int /\ s % p \in 0 .. p - 1 /\ s = (s \div p) * p + (s % p)
    BY <1>5, Parts
  <2> QED BY <2>1, <1>6
<1>8. PICK e \in 0 .. q - 1, f \in 0 .. p - 1 : ul = e * p + f /\ ul \div p = e
  <2>1. M = q * p
    BY <1>5
  <2> QED BY <2>1, <1>3, <1>5, WordSplit
<1>9. d * q + e \in 0 .. M - 1
  BY <1>5, <1>7, <1>8, Joined
<1>10. (uh * q) % M = d * q
  <2>1. PICK z : z = d * q
    OBVIOUS
  <2>2. z \in 0 .. M - 1
    <3>1. z \in Nat /\ z + e \in 0 .. M - 1
      BY <2>1, <1>5, <1>7, <1>8, <1>9
    <3>2. e \in Nat
      BY <1>5, <1>8
    <3> QED BY <3>1, <3>2, <1>2
  <2>3. s * q = c * M + z
    BY <2>1, <1>5, <1>7
  <2>4. \E k \in Int : uh * q = k * M + z
    <3>1. CASE s = uh
      BY <3>1, <2>3, <1>7
    <3>2. CASE s = uh - M
      <4>1. uh * q = s * q + q * M
        BY <3>2, <1>2, <1>3, <1>5
      <4>2. uh * q = (c + q) * M + z
        <5>1. (c + q) * M = c * M + q * M
          BY <1>2, <1>5, <1>7
        <5>2. {c * M, q * M, z} \subseteq Int
          BY <2>2, <1>2, <1>5, <1>7
        <5> QED BY <5>1, <5>2, <4>1, <2>3
      <4>3. c + q \in Int
        BY <1>5, <1>7
      <4> QED BY <4>2, <4>3
    <3> QED BY <3>1, <3>2, <1>1
  <2>5. PICK k \in Int : uh * q = k * M + z
    BY <2>4
  <2>6. PICK w : w = uh * q
    OBVIOUS
  <2>7. w \in Int /\ w = k * M + z
    BY <2>5, <2>6, <1>3, <1>5
  <2>8. w % M = z
    BY <2>2, <2>7, <1>2, PartsUnique
  <2> QED BY <2>1, <2>6, <2>8
<1>11. carried(u, n) = e + d * q
  BY <1>1, <1>4, <1>8, <1>10 DEF carried
<1>12. (s * M + ul) \div p = c * M + (e + d * q)
  <2>1. s * M = (c * M + d * q) * p
    BY <1>2, <1>5, <1>7
  <2>2. PICK z : z = d * q
    OBVIOUS
  <2>3. z \in Int
    BY <2>2, <1>5, <1>7
  <2>4. (c * M + z) * p + (e * p + f) = (c * M + (e + z)) * p + f
    <3>1. PICK y1 : y1 = c * M
      OBVIOUS
    <3>2. y1 \in Int
      BY <3>1, <1>2, <1>7
    <3>3. (y1 + z) * p + (e * p + f) = (y1 + (e + z)) * p + f
      BY <3>2, <2>3, <1>5, <1>8
    <3> QED BY <3>1, <3>3
  <2>5. PICK w, r : w = s * M + ul /\ r = c * M + (e + z)
    OBVIOUS
  <2>6. w \in Int /\ r \in Int /\ w = r * p + f
    BY <2>1, <2>2, <2>3, <2>4, <2>5, <1>2, <1>3, <1>7, <1>8
  <2>7. w \div p = r
    BY <2>6, <1>5, <1>8, PartsUnique
  <2> QED BY <2>2, <2>5, <2>7
<1>13. PICK k : k = e + d * q
  OBVIOUS
<1>14. k \in 0 .. M - 1
  <2>1. d * q \in Int
    BY <1>5, <1>7
  <2> QED BY <2>1, <1>8, <1>9, <1>13
<1> QED BY <1>1, <1>4, <1>6, <1>11, <1>12, <1>13, <1>14

\* __lshrdi3 is the quotient by the power of two.
LEMMA RightShift ==
    ASSUME NEW u \in 0 .. MM - 1, NEW n \in 1 .. BITS
    PROVE  lshrdi3(u, n) = (u \div Pow2[n]) % MM
<1>1. M \in Nat \ {0} /\ MM \in Nat \ {0} /\ MM = M * M
  BY Widths
<1>2. PICK v : v = u \div Pow2[n]
  OBVIOUS
<1>3. v \in 0 .. MM - 1
  <2>1. PICK p, r : p = Pow2[n] /\ r = u % p
    OBVIOUS
  <2>2. p \in Nat \ {0}
    <3>1. n \in Nat
      OBVIOUS
    <3> QED BY <3>1, <2>1, Pow2Is
  <2>3. u \in Nat
    BY <1>1
  <2>4. Splits(u, p, v, r)
    BY <2>1, <2>2, <2>3, <1>2, NatParts
  <2>5. v \in Nat /\ r \in Nat /\ u = v * p + r
    BY <2>2, <2>4 DEF Splits
  <2>6. v * 1 <= v * p
    BY <2>2, <2>5
  <2>7. v * p \in Nat
    BY <2>2, <2>5
  <2> QED BY <2>3, <2>5, <2>6, <2>7, <1>1
<1>4. lshrdi3(u, n) = v
  <2>1. CASE n = BITS
    BY <2>1, <1>2 DEF lshrdi3, high, M
  <2>2. CASE n # BITS
    <3>1. n \in 1 .. BITS - 1
      BY <2>2, ArithmeticAssumption
    <3>2. PICK s : s = high(u)
      OBVIOUS
    <3>3. s \in Int /\ u = s * M + low(u)
      BY <3>2, DoubleParts
    <3>4. PICK k \in 0 .. M - 1 : carried(u, n) = k /\ (s * M + low(u)) \div Pow2[n] = (s \div Pow2[n]) * M + k
      BY <3>1, <3>2, <3>3, RightPieces
    <3> QED BY <2>2, <3>2, <3>3, <3>4, <1>2 DEF lshrdi3
  <2> QED BY <2>1, <2>2
<1> QED BY <1>1, <1>2, <1>3, <1>4, ModBelow

\* The sign of a double word is that of its upper word.
LEMMA SignedParts ==
    ASSUME NEW u \in 0 .. MM - 1
    PROVE  /\ Signed(u, MM) = Signed(high(u), M) * M + low(u)
           /\ Signed(high(u), M) = high(u) \/ Signed(high(u), M) = high(u) - M
<1>1. PICK uh, ul, h : uh = high(u) /\ ul = low(u) /\ h = Pow2[BITS - 1]
  OBVIOUS
<1>2. M \in Nat \ {0} /\ MM \in Nat \ {0} /\ MM = M * M /\ h \in Nat /\ M = 2 * h
  BY <1>1, Widths, Pow2Is
<1>3. uh \in 0 .. M - 1 /\ ul \in 0 .. M - 1 /\ u = uh * M + ul
  BY <1>1, DoubleParts
<1>4. CASE uh >= h
  <2>1. h * M <= uh * M
    BY <1>2, <1>3, <1>4, Cancels
  <2>2. h * M \in Nat /\ uh * M \in Nat /\ MM = 2 * (h * M)
    BY <1>2, <1>3
  <2>3. 2 * u >= MM /\ 2 * uh >= M
    BY <2>1, <2>2, <1>2, <1>3, <1>4
  <2>4. (uh - M) * M + ul = u - MM
    BY <1>2, <1>3
  <2> QED BY <2>3, <2>4, <1>1 DEF Signed, Negative
<1>5. CASE uh < h
  <2>1. uh * M <= (h - 1) * M
    BY <1>2, <1>3, <1>5, Cancels
  <2>2. h * M \in Nat /\ uh * M \in Nat /\ MM = 2 * (h * M) /\ (h - 1) * M = h * M - M
    BY <1>2, <1>3
  <2>3. 2 * u < MM /\ 2 * uh < M
    BY <2>1, <2>2, <1>2, <1>3, <1>5
  <2>4. ~(2 * u >= MM) /\ ~(2 * uh >= M)
    BY <2>3, <1>2, <1>3
  <2> QED BY <2>4, <1>1, <1>3 DEF Signed, Negative
<1> QED BY <1>2, <1>3, <1>4, <1>5

\* __ashrdi3 is that of the signed number, rounded down.
LEMMA SignedShift ==
    ASSUME NEW u \in 0 .. MM - 1, NEW n \in 1 .. BITS - 1
    PROVE  ashrdi3(u, n) = (Signed(u, MM) \div Pow2[n]) % MM
<1>1. M \in Nat \ {0} /\ MM \in Nat \ {0} /\ MM = M * M
  BY Widths
<1>2. PICK s, c : s = Signed(high(u), M) /\ c = s \div Pow2[n]
  OBVIOUS
<1>3. s \in Int /\ (s = high(u) \/ s = high(u) - M) /\ Signed(u, MM) = s * M + low(u)
  <2>1. (s = high(u) \/ s = high(u) - M) /\ Signed(u, MM) = s * M + low(u)
    BY <1>2, SignedParts
  <2>2. high(u) \in Int
    BY DoubleParts
  <2> QED BY <2>1, <2>2, <1>1
<1>4. PICK k \in 0 .. M - 1 : carried(u, n) = k /\ (s * M + low(u)) \div Pow2[n] = (s \div Pow2[n]) * M + k
  BY <1>3, RightPieces
<1>5. n # BITS
  BY ArithmeticAssumption
<1>6. ashrdi3(u, n) = (c % M) * M + k
  BY <1>2, <1>4, <1>5 DEF ashrdi3
<1>7. c \in Int
  <2>1. PICK p : p = Pow2[n]
    OBVIOUS
  <2>2. p \in Nat \ {0}
    <3>1. n \in Nat
      OBVIOUS
    <3> QED BY <3>1, <2>1, Pow2Is
  <2> QED BY <2>1, <2>2, <1>2, <1>3, Parts
<1>8. PICK d, e : d = c \div M /\ e = c % M
  OBVIOUS
<1>9. d \in Int /\ e \in 0 .. M - 1 /\ c = d * M + e
  <2>1. c \div M \in Int /\ c % M \in 0 .. M - 1 /\ c = (c \div M) * M + (c % M)
    BY <1>1, <1>7, Parts
  <2> QED BY <2>1, <1>8
<1>10. c * M + k = d * MM + (e * M + k)
  BY <1>1, <1>9
<1>11. e * M + k \in 0 .. MM - 1
  BY <1>1, <1>9, Joined
<1>12. PICK w, z : w = c * M + k /\ z = e * M + k
  OBVIOUS
<1>13. w \in Int /\ z \in 0 .. MM - 1 /\ w = d * MM + z
  BY <1>1, <1>7, <1>10, <1>11, <1>12
<1>14. w % MM = z
  BY <1>1, <1>9, <1>13, PartsUnique
<1> QED BY <1>2, <1>3, <1>4, <1>6, <1>8, <1>12, <1>14

-----------------------------------------------------------------------------
(* What is expected *)

\* What the functions without a loop return is what is expected of them.
LEMMA Computed ==
    ASSUME NEW f, NEW u, NEW v, NEW r, r \in Outcomes(f, u, v), Defined(f, v),
           \/ f = "__muldsi3" /\ u \in 0 .. M - 1 /\ v \in 0 .. M - 1
           \/ f = "__muldi3" /\ u \in 0 .. MM - 1 /\ v \in 0 .. MM - 1
           \/ f \in Shifts /\ u \in 0 .. MM - 1 /\ v \in 0 .. M - 1
    PROVE  r = Expected(f, u, v) % Width(f)
<1>1. M \in Nat \ {0} /\ MM \in Nat \ {0} /\ MM = M * M /\ BITS \in Nat
  BY Widths, ArithmeticAssumption
<1>2. CASE f = "__muldsi3" /\ u \in 0 .. M - 1 /\ v \in 0 .. M - 1
  <2>1. r = u * v /\ u * v \in 0 .. MM - 1
    BY <1>2, WideProduct DEF Outcomes, Shifts
  <2>2. Expected(f, u, v) = u * v /\ Width(f) = MM
    BY <1>2 DEF Expected, Width, Divisions
  <2>3. (u * v) % MM = u * v
    BY <2>1, <1>1, ModBelow
  <2> QED BY <2>1, <2>2, <2>3
<1>3. CASE f = "__muldi3" /\ u \in 0 .. MM - 1 /\ v \in 0 .. MM - 1
  <2>1. r = (u * v) % MM
    BY <1>3, DoubleProduct DEF Outcomes, Shifts
  <2>2. Expected(f, u, v) = u * v /\ Width(f) = MM
    BY <1>3 DEF Expected, Width, Divisions
  <2> QED BY <2>1, <2>2
<1>4. CASE f \in Shifts /\ u \in 0 .. MM - 1 /\ v \in 0 .. M - 1
  <2>1. v \in 0 .. BITS /\ (f = "__ashrdi3" => v # BITS)
    BY <1>1, <1>4 DEF Defined
  <2>2. Width(f) = MM
    BY <1>4 DEF Width, Shifts, Divisions
  <2>3. Outcomes(f, u, v) = IF v = 0 THEN {u} ELSE IF v <= BITS THEN {Shift(f, u, v)} ELSE 0 .. MM - 1
    BY <1>4 DEF Outcomes, Shifts
  <2>4. r = IF v = 0 THEN u ELSE Shift(f, u, v)
    BY <2>1, <2>3, <1>1
  <2>5. u % MM = u /\ u \in Int
    BY <1>1, <1>4, ModBelow
  <2>6. v # 0 => v \in 1 .. BITS
    BY <2>1, <1>1
  <2>7. CASE f = "__ashldi3"
    <3>1. Expected(f, u, v) = u * Pow2[v]
      BY <2>7 DEF Expected
    <3>2. CASE v = 0
      BY <3>1, <3>2, <2>2, <2>4, <2>5, Pow2Is
    <3>3. CASE v # 0
      <4>1. ashldi3(u, v) = (u * Pow2[v]) % MM
        BY <3>3, <2>6, <1>4, LeftShift
      <4> QED BY <4>1, <3>1, <3>3, <2>2, <2>4, <2>7 DEF Shift
    <3> QED BY <3>2, <3>3
  <2>8. CASE f = "__lshrdi3"
    <3>1. Expected(f, u, v) = u \div Pow2[v]
      BY <2>8 DEF Expected
    <3>2. CASE v = 0
      <4>1. u \div 1 = u
        BY <2>5
      <4> QED BY <4>1, <3>1, <3>2, <2>2, <2>4, <2>5, Pow2Is
    <3>3. CASE v # 0
      <4>1. lshrdi3(u, v) = (u \div Pow2[v]) % MM
        BY <3>3, <2>6, <1>4, RightShift
      <4> QED BY <4>1, <3>1, <3>3, <2>2, <2>4, <2>8 DEF Shift
    <3> QED BY <3>2, <3>3
  <2>9. CASE f = "__ashrdi3"
    <3>1. Expected(f, u, v) = Signed(u, MM) \div Pow2[v]
      BY <2>9 DEF Expected
    <3>2. CASE v = 0
      <4>1. PICK s : s = Signed(u, MM)
        OBVIOUS
      <4>2. s = u \/ s = u - MM
        BY <4>1 DEF Signed
      <4>3. s \in Int /\ s \div 1 = s
        BY <4>2, <2>5, <1>1
      <4>4. s % MM = u
        <5>1. CASE s = u
          BY <5>1, <2>5
        <5>2. CASE s = u - MM
          <6>1. PICK k : k = 1
            OBVIOUS
          <6>2. k \in Int /\ u = s + k * MM
            BY <5>2, <6>1, <2>5, <1>1
          <6>3. u % MM = s % MM
            BY <6>2, <4>3, <2>5, <1>1, ModSame
          <6> QED BY <6>3, <2>5
        <5> QED BY <4>2, <5>1, <5>2
      <4> QED BY <4>1, <4>3, <4>4, <3>1, <3>2, <2>2, <2>4, Pow2Is
    <3>3. CASE v # 0
      <4>1. v \in 1 .. BITS - 1
        BY <3>3, <2>1, <2>6, <2>9, <1>1
      <4>2. ashrdi3(u, v) = (Signed(u, MM) \div Pow2[v]) % MM
        BY <4>1, <1>4, SignedShift
      <4> QED BY <4>2, <3>1, <3>3, <2>2, <2>4, <2>9 DEF Shift
    <3> QED BY <3>2, <3>3
  <2> QED BY <2>7, <2>8, <2>9, <1>4 DEF Shifts
<1> QED BY <1>2, <1>3, <1>4

\* The magnitude of a number is that of the signed one.
LEMMA SignedIs ==
    ASSUME NEW m \in Nat \ {0}, NEW v \in 0 .. m - 1
    PROVE  /\ Magnitude(v, m) = IF Negative(v, m) THEN m - v ELSE v
           /\ Magnitude(v, m) \in 0 .. m - 1
           /\ v # 0 => Magnitude(v, m) # 0
           /\ Signed(v, m) = IF Negative(v, m) THEN -Magnitude(v, m) ELSE Magnitude(v, m)
           /\ Negative(v, m) => Magnitude(v, m) # 0
<1>1. Negative(v, m) => m - v \in 1 .. m - 1 /\ (m - v) % m = m - v
  <2>1. CASE Negative(v, m)
    <3>1. m - v \in 1 .. m - 1
      BY <2>1 DEF Negative
    <3>2. m - v \in 0 .. m - 1
      BY <3>1
    <3> QED BY <3>1, <3>2, ModBelow
  <2> QED BY <2>1
<1>2. Magnitude(v, m) = IF Negative(v, m) THEN m - v ELSE v
  BY <1>1 DEF Magnitude, Negated
<1>3. Magnitude(v, m) \in 0 .. m - 1 /\ (v # 0 => Magnitude(v, m) # 0) /\ (Negative(v, m) => Magnitude(v, m) # 0)
  BY <1>1, <1>2
<1>4. Signed(v, m) = IF Negative(v, m) THEN -Magnitude(v, m) ELSE Magnitude(v, m)
  BY <1>2 DEF Signed
<1> QED BY <1>2, <1>3, <1>4

\* The magnitude of an operand fits the width, and only that of 0 is 0.
LEMMA OperandRange ==
    ASSUME NEW f, NEW m \in Nat \ {0}, NEW v \in 0 .. m - 1
    PROVE  /\ Operand(f, v, m) \in 0 .. m - 1
           /\ v # 0 => Operand(f, v, m) # 0
BY SignedIs DEF Operand

\* The negated answer is the same, modulo the width, as that below zero.
LEMMA NegatedIs ==
    ASSUME NEW m \in Nat \ {0}, NEW n \in Nat
    PROVE  Negated(n, m) = (-n) % m
<1>1. PICK c, d, k : c = m - n /\ d = -n /\ k = 1
  OBVIOUS
<1>2. c \in Int /\ d \in Int /\ k \in Int /\ c = d + k * m
  BY <1>1
<1>3. c % m = d % m
  BY <1>2, ModSame
<1> QED BY <1>1, <1>3 DEF Negated

\* What is made of the quotient and the remainder of the operands is what is
\* expected of the division.
LEMMA Answered ==
    ASSUME NEW f \in Divisions \cup DoubleDivisions, NEW m, m = Width(f),
           NEW u \in 0 .. m - 1, NEW v \in 0 .. m - 1, Defined(f, v),
           NEW q \in Nat, NEW r \in 0 .. Operand(f, v, m) - 1,
           Operand(f, u, m) = q * Operand(f, v, m) + r
    PROVE  Answer(f, u, v, m, q, r) = Expected(f, u, v) % Width(f)
<1>1. m \in Nat \ {0}
  BY Widths DEF Width
<1>2. v # 0
  BY DEF Defined
<1>3. PICK c, d : c = Operand(f, u, m) /\ d = Operand(f, v, m)
  OBVIOUS
<1>4. c \in 0 .. m - 1 /\ d \in 1 .. m - 1
  BY <1>1, <1>2, <1>3, OperandRange
<1>5. c = q * d + r /\ r \in 0 .. d - 1
  BY <1>3
<1>6. c \div d = q /\ c % d = r
  <2>1. d \in Nat \ {0} /\ c \in Int /\ q \in Int
    BY <1>1, <1>4
  <2> QED BY <2>1, <1>5, PartsUnique
<1>7. q \in 0 .. m - 1 /\ r \in 0 .. m - 1
  <2>1. q * 1 <= q * d
    BY <1>1, <1>4
  <2>2. q * d \in Nat
    BY <1>1, <1>4
  <2> QED BY <2>1, <2>2, <1>1, <1>4, <1>5
<1>8. CASE f \notin SignedOnes
  <2>1. c = u /\ d = v
    BY <1>3, <1>8 DEF Operand
  <2>2. CASE f \in {"__udivsi3", "__udivdi3"}
    <3>1. Expected(f, u, v) = q
      BY <2>1, <2>2, <1>6 DEF Expected
    <3>2. Answer(f, u, v, m, q, r) = q
      BY <2>2, <1>8 DEF Answer, Remainders
    <3> QED BY <3>1, <3>2, <1>1, <1>7, ModBelow
  <2>3. CASE f \in {"__umodsi3", "__umoddi3"}
    <3>1. Expected(f, u, v) = r
      BY <2>1, <2>3, <1>6 DEF Expected
    <3>2. Answer(f, u, v, m, q, r) = r
      BY <2>3, <1>8 DEF Answer, Remainders
    <3> QED BY <3>1, <3>2, <1>1, <1>7, ModBelow
  <2> QED BY <2>2, <2>3, <1>8 DEF SignedOnes, Divisions, DoubleDivisions
<1>9. CASE f \in SignedOnes
  <2>1. PICK s, t : s = Signed(u, m) /\ t = Signed(v, m)
    OBVIOUS
  <2>2. PICK nu, nv \in BOOLEAN : nu = Negative(u, m) /\ nv = Negative(v, m)
    <3>1. Negative(u, m) \in BOOLEAN /\ Negative(v, m) \in BOOLEAN
      BY DEF Negative
    <3> QED BY <3>1, Zenon
  <2>3. /\ s = IF nu THEN -c ELSE c
        /\ t = IF nv THEN -d ELSE d
        /\ nu => c # 0
    BY <2>1, <2>2, <1>1, <1>3, <1>9, SignedIs DEF Operand
  <2>4. s < 0 <=> nu
    BY <2>3, <1>1, <1>4
  <2>5. t < 0 <=> nv
    BY <2>3, <1>1, <1>4
  <2>6. (IF s < 0 THEN -s ELSE s) = c /\ (IF t < 0 THEN -t ELSE t) = d
    BY <2>3, <2>4, <2>5, <1>1, <1>4
  <2>7. Quotient(s, t) = IF nu # nv THEN -q ELSE q
    <3>1. ((s < 0) # (t < 0)) <=> (nu # nv)
      BY <2>4, <2>5
    <3> QED BY <3>1, <2>6, <1>6 DEF Quotient
  <2>8. CASE f \notin Remainders
    <3>1. Expected(f, u, v) = Quotient(s, t)
      BY <2>1, <2>8, <1>9 DEF Expected, Width, SignedOnes, Remainders, Divisions
    <3>2. Answer(f, u, v, m, q, r) = IF nu # nv THEN Negated(q, m) ELSE q
      BY <2>2, <2>8, <1>9 DEF Answer
    <3> QED BY <3>1, <3>2, <2>7, <1>1, <1>7, NegatedIs, ModBelow
  <2>9. CASE f \in Remainders
    <3>1. nv = FALSE /\ t = v /\ d = v
      <4>1. ~nv
        BY <2>2, <2>9, <1>9 DEF Defined, SignedOnes, Remainders
      <4> QED BY <4>1, <2>1, <2>2, <2>3 DEF Signed
    <3>2. Expected(f, u, v) = s - v * Quotient(s, v)
      BY <2>1, <2>9, <1>9 DEF Expected, Width, SignedOnes, Remainders, Divisions
    <3>3. Answer(f, u, v, m, q, r) = IF nu THEN Negated(r, m) ELSE r
      BY <2>2, <2>9, <3>1, <1>9 DEF Answer
    <3>4. s - v * Quotient(s, v) = IF nu THEN -r ELSE r
      <4>1. PICK z : z = q * d
        OBVIOUS
      <4>2. z \in Int /\ c = z + r
        BY <4>1, <1>1, <1>4, <1>5
      <4>3. d * q = z /\ d * (-q) = -z
        BY <4>1, <1>1, <1>4
      <4>4. CASE nu
        <5>1. Quotient(s, v) = -q /\ s = -c
          BY <4>4, <2>3, <2>7, <3>1
        <5>2. -c - (-z) = -r
          BY <4>2, <1>7, <1>1
        <5> QED BY <4>3, <4>4, <5>1, <5>2, <3>1
      <4>5. CASE ~nu
        <5>1. Quotient(s, v) = q /\ s = c
          BY <4>5, <2>3, <2>7, <3>1
        <5>2. c - z = r
          BY <4>2, <1>7, <1>1
        <5> QED BY <4>3, <4>5, <5>1, <5>2, <3>1
      <4> QED BY <4>4, <4>5
    <3> QED BY <3>2, <3>3, <3>4, <1>1, <1>7, NegatedIs, ModBelow
  <2> QED BY <2>8, <2>9
<1> QED BY <1>8, <1>9

-----------------------------------------------------------------------------
(* The inductive invariant *)

\* The arguments of the loops over a word, and of those over a double word: what
\* is divided, and by what.
Dividend(m) == Operand(fn, x, m)
Divisor(m) == Operand(fn, y, m)

\* __mulsi3: what is left to add is a times b.
MultiplyInv ==
    at = "multiply" =>
        /\ fn = "__mulsi3"
        /\ x \in 0 .. M - 1 /\ y \in 0 .. M - 1
        /\ a \in 0 .. M - 1 /\ acc \in 0 .. M - 1 /\ b \in Nat
        /\ (acc + a * b) % M = (x * y) % M

\* The number that the words c, and d above it, hold.
Together(c, d) == d * M + c

\* DivideMod after n bits of the quotient of u and v: s are those bits, r is below
\* the divisor in the place of the last of them, and c and d hold the divisor in
\* the place of the next.
Divided(u, v, n, s, r) == /\ s \in Nat /\ r \in Nat
                          /\ s < Pow2[n] /\ r < v * Pow2[BITS - n]
                          /\ u = s * (v * Pow2[BITS - n]) + r
InPlace(v, n, c, d) == /\ c \in 0 .. M - 1 /\ d \in Nat
                       /\ Together(c, d \div 2) = v * Pow2[BITS - (n + 1)]

DivideInv ==
    at = "divide" =>
        /\ fn \in Divisions
        /\ x \in 0 .. M - 1 /\ y \in 0 .. M - 1
        /\ i \in 0 .. BITS
        /\ y # 0 => /\ Divided(Dividend(M), Divisor(M), i, acc, rest)
                    /\ i < BITS => InPlace(Divisor(M), i, a, b)

\* __udivmoddi4: a is the divisor in the place of the bit b.
Placed == \E j \in 0 .. 2 * BITS : b = Pow2[j] /\ a = Divisor(MM) * b

DoubleArguments == /\ fn \in DoubleDivisions
                   /\ x \in 0 .. MM - 1 /\ y \in 1 .. MM - 1
                   /\ a \in 0 .. MM - 1 /\ b \in Nat /\ acc \in Nat /\ rest \in Nat

AlignInv ==
    at = "align" => DoubleArguments /\ Placed /\ acc = 0 /\ rest = Dividend(MM)

SubtractInv ==
    at = "subtract" =>
        /\ DoubleArguments
        /\ Dividend(MM) = acc * Divisor(MM) + rest
        /\ IF b = 0 THEN rest < Divisor(MM) ELSE Placed /\ rest < 2 * a

\* The inductive invariant: what each loop keeps, and what is returned.
ArithInv == MultiplyInv /\ DivideInv /\ AlignInv /\ SubtractInv /\ ArithmeticExact

-----------------------------------------------------------------------------
(* A turn of each loop *)

\* The last bit of a number and the rest of them.
LEMMA Halved ==
    ASSUME NEW v \in Nat
    PROVE  v \div 2 \in Nat /\ v % 2 \in {0, 1} /\ v = 2 * (v \div 2) + (v % 2)
OBVIOUS

\* A bit of the multiplier moves from the product that is left to the sum.
LEMMA MultiplyTurn ==
    ASSUME NEW s \in 0 .. M - 1, NEW c \in 0 .. M - 1, NEW d \in Nat,
           NEW s1, s1 = (IF d % 2 = 1 THEN (s + c) % M ELSE s), NEW c1, c1 = (2 * c) % M, NEW e, e = d \div 2
    PROVE  /\ s1 \in 0 .. M - 1 /\ c1 \in 0 .. M - 1 /\ e \in Nat
           /\ (s1 + c1 * e) % M = (s + c * d) % M
<1>1. M \in Nat \ {0}
  BY Widths
<1>2. PICK t : t = d % 2
  OBVIOUS
<1>3. e \in Nat /\ t \in {0, 1} /\ d = 2 * e + t
  BY <1>2, Halved
<1>4. PICK k2 : k2 = (2 * c) \div M
  OBVIOUS
<1>5. k2 \in Nat /\ c1 \in 0 .. M - 1 /\ 2 * c = k2 * M + c1
  <2>1. PICK v : v = 2 * c
    OBVIOUS
  <2>2. v \in Nat
    BY <2>1, <1>1
  <2>3. Splits(v, M, k2, c1)
    BY <2>1, <2>2, <1>1, <1>4, NatParts
  <2> QED BY <2>1, <2>3 DEF Splits
<1>6. PICK k1 \in Int : s1 \in 0 .. M - 1 /\ s + t * c = k1 * M + s1
  <2>1. CASE t = 1
    <3>1. PICK v, q : v = s + c /\ q = v \div M
      OBVIOUS
    <3>2. v \in Nat /\ s1 = v % M
      BY <2>1, <3>1, <1>1, <1>2
    <3>3. Splits(v, M, q, s1)
      BY <3>1, <3>2, <1>1, NatParts
    <3>4. q \in Int /\ s1 \in 0 .. M - 1 /\ v = q * M + s1
      BY <3>3 DEF Splits
    <3>5. s + t * c = v
      BY <2>1, <3>1, <1>1
    <3> QED BY <3>4, <3>5
  <2>2. CASE t = 0
    <3>1. s1 = s /\ s + t * c = 0 * M + s1
      BY <2>2, <1>1, <1>2
    <3> QED BY <3>1
  <2> QED BY <1>3, <2>1, <2>2
<1>7. PICK p, w, z : p = c * d /\ w = k2 * e /\ z = c1 * e
  OBVIOUS
<1>8. p \in Int /\ w \in Int /\ z \in Int
  <2>1. c \in Int /\ c1 \in Int
    BY <1>1, <1>5
  <2> QED BY <2>1, <1>3, <1>5, <1>7
<1>9. p = w * M + z + t * c
  <2>1. p = (2 * c) * e + t * c
    BY <1>1, <1>3, <1>7
  <2>2. (k2 * M + c1) * e = w * M + z
    BY <1>1, <1>3, <1>5, <1>7
  <2> QED BY <2>1, <2>2, <1>5
<1>10. s + p = (s1 + z) + (k1 + w) * M
  <2>1. (k1 + w) * M = k1 * M + w * M
    BY <1>1, <1>6, <1>8
  <2>2. k1 * M \in Int /\ w * M \in Int /\ t * c \in Int /\ s \in Int /\ s1 \in Int
    BY <1>1, <1>3, <1>6, <1>8
  <2> QED BY <2>1, <2>2, <1>6, <1>8, <1>9
<1>11. PICK v, u, k : v = s + p /\ u = s1 + z /\ k = k1 + w
  OBVIOUS
<1>12. v \in Int /\ u \in Int /\ k \in Int
  <2>1. s \in Int /\ s1 \in Int
    BY <1>1, <1>6
  <2> QED BY <2>1, <1>6, <1>8, <1>11
<1>13. v % M = u % M
  <2>1. v = u + k * M
    BY <1>10, <1>11
  <2>2. PICK m : m = M
    OBVIOUS
  <2>3. m \in Nat \ {0} /\ v = u + k * m
    BY <1>1, <2>1, <2>2
  <2>4. v % m = u % m
    BY <2>3, <1>12, ModSame
  <2> QED BY <2>2, <2>4
<1> QED BY <1>3, <1>5, <1>6, <1>7, <1>11, <1>13

\* Where i bits of the quotient are left to find, the place of the divisor.
LEMMA Places ==
    ASSUME NEW n \in 0 .. BITS - 1
    PROVE  /\ Pow2[n] \in Nat \ {0} /\ Pow2[n + 1] = 2 * Pow2[n]
           /\ Pow2[BITS - (n + 1)] \in Nat \ {0}
           /\ Pow2[BITS - n] = 2 * Pow2[BITS - (n + 1)]
           /\ Pow2[n + 1] <= M
           /\ n + 1 < BITS => Pow2[BITS - (n + 1)] = 2 * Pow2[BITS - ((n + 1) + 1)] /\ Pow2[BITS - ((n + 1) + 1)] \in Nat
<1>1. BITS \in Nat
  BY ArithmeticAssumption
<1>2. n \in Nat /\ n + 1 \in Nat /\ BITS - (n + 1) \in Nat /\ (BITS - (n + 1)) + 1 = BITS - n
      /\ (n + 1) + (BITS - (n + 1)) = BITS
  BY <1>1
<1>3. Pow2[n] \in Nat \ {0} /\ Pow2[n + 1] = 2 * Pow2[n] /\ Pow2[BITS - (n + 1)] \in Nat \ {0}
  BY <1>2, Pow2Is
<1>4. Pow2[BITS - n] = 2 * Pow2[BITS - (n + 1)]
  BY <1>2, Pow2Is
<1>5. Pow2[n + 1] <= M
  <2>1. PICK p, q : p = Pow2[n + 1] /\ q = Pow2[BITS - (n + 1)]
    OBVIOUS
  <2>2. p \in Nat /\ q \in Nat \ {0}
    BY <2>1, <1>3
  <2>3. M = p * q
    BY <2>1, <1>2, Pow2Plus DEF M
  <2>4. p * 1 <= p * q
    BY <2>2
  <2> QED BY <2>1, <2>2, <2>3, <2>4
<1>6. n + 1 < BITS => Pow2[BITS - (n + 1)] = 2 * Pow2[BITS - ((n + 1) + 1)] /\ Pow2[BITS - ((n + 1) + 1)] \in Nat
  <2>1. CASE n + 1 < BITS
    <3>1. BITS - ((n + 1) + 1) \in Nat /\ (BITS - ((n + 1) + 1)) + 1 = BITS - (n + 1)
      BY <2>1, <1>1
    <3> QED BY <3>1, Pow2Is
  <2> QED BY <2>1
<1> QED BY <1>3, <1>4, <1>5, <1>6

\* The halves of the divisor in one place are those of it in the next one.
Lower(c, d) == ((d % 2) * (M \div 2)) + (c \div 2)

\* DivideMod halves the divisor of two words by a shift of each.
LEMMA Lowered ==
    ASSUME NEW c \in 0 .. M - 1, NEW d \in Nat, NEW g \in Nat, Together(c, d) = 2 * g,
           NEW e, e = Lower(c, d)
    PROVE  e \in 0 .. M - 1 /\ Together(e, d \div 2) = g
<1>1. PICK h : h = M \div 2
  OBVIOUS
<1>2. h \in Nat \ {0} /\ M = 2 * h
  <2>1. BITS - 1 \in Nat
    BY Widths
  <2> QED BY <2>1, <1>1, Widths, Pow2Is
<1>3. PICK d1, d0 : d1 = d \div 2 /\ d0 = d % 2
  OBVIOUS
<1>4. d1 \in Nat /\ d0 \in {0, 1} /\ d = 2 * d1 + d0
  BY <1>3, Halved
<1>5. PICK w : w = d * h
  OBVIOUS
<1>6. w \in Nat /\ d * M = 2 * w /\ d * M + c = 2 * g
  BY <1>2, <1>5 DEF Together
<1>7. PICK c1 : c1 = c \div 2
  OBVIOUS
<1>8. c1 \in Nat /\ c = 2 * c1 /\ c1 <= h - 1
  <2>1. c \in Nat
    BY <1>2
  <2>2. PICK c0 : c0 = c % 2
    OBVIOUS
  <2>3. c1 \in Nat /\ c0 \in {0, 1} /\ c = 2 * c1 + c0
    BY <2>1, <2>2, <1>7, Halved
  <2>4. c0 = 0
    BY <2>1, <2>3, <1>6
  <2> QED BY <2>3, <2>4, <1>2
<1>9. w = d1 * M + d0 * h
  BY <1>2, <1>4, <1>5
<1>10. d0 * h \in {0, h}
  BY <1>2, <1>4
<1>11. d1 * M \in Nat
  BY <1>2, <1>4
<1>12. e = d0 * h + c1
  BY <1>1, <1>3, <1>7 DEF Lower
<1>13. e \in 0 .. M - 1
  BY <1>2, <1>8, <1>10, <1>12
<1>14. d1 * M + e = g
  <2>1. w + c1 = g
    <3>1. PICK z : z = d * M
      OBVIOUS
    <3> QED BY <3>1, <1>6, <1>8
  <2>2. PICK z, k : z = d1 * M /\ k = d0 * h
    OBVIOUS
  <2>3. z \in Nat /\ k \in Nat /\ w = z + k /\ e = k + c1
    BY <2>2, <1>2, <1>9, <1>10, <1>11, <1>12
  <2> QED BY <2>1, <2>2, <2>3, <1>8
<1> QED BY <1>3, <1>13, <1>14 DEF Together

\* A turn of DivideMod's loop finds one more bit of the quotient.
LEMMA DivideTurn ==
    ASSUME NEW n \in 0 .. BITS - 1, NEW u \in 0 .. M - 1, NEW v \in 1 .. M - 1,
           NEW s, NEW r, Divided(u, v, n, s, r), NEW c, NEW d, InPlace(v, n, c, d),
           NEW fits \in BOOLEAN, fits <=> (r >= c /\ c # 0 /\ d < 2)
    PROVE  /\ Divided(u, v, n + 1, ((2 * s) % M) + (IF fits THEN 1 ELSE 0), IF fits THEN r - c ELSE r)
           /\ n + 1 < BITS => InPlace(v, n + 1, (((d \div 2) % 2) * (M \div 2)) + (c \div 2), d \div 2)
<1>1. M \in Nat \ {0} /\ v \in Nat \ {0} /\ u \in Nat /\ u < M
  BY Widths
<1>2. PICK p : p = v * Pow2[BITS - (n + 1)]
  OBVIOUS
<1>3. p \in Nat \ {0} /\ v * Pow2[BITS - n] = 2 * p
  <2>1. PICK z : z = Pow2[BITS - (n + 1)]
    OBVIOUS
  <2>2. z \in Nat \ {0} /\ Pow2[BITS - n] = 2 * z
    BY <2>1, Places
  <2> QED BY <2>1, <2>2, <1>1, <1>2
<1>4. s \in Nat /\ r \in Nat /\ s < Pow2[n] /\ r < 2 * p /\ u = s * (2 * p) + r
  BY <1>3 DEF Divided
<1>5. PICK e : e = d \div 2
  OBVIOUS
<1>6. c \in 0 .. M - 1 /\ d \in Nat /\ e \in Nat /\ e * M + c = p
  <2>1. d \in Nat
    BY DEF InPlace
  <2> QED BY <2>1, <1>2, <1>5, Halved DEF InPlace, Together
<1>7. r < M
  <2>1. s * (2 * p) \in Nat
    BY <1>3, <1>4
  <2> QED BY <2>1, <1>1, <1>4
<1>8. fits <=> p <= r
  <2>1. CASE d < 2
    <3>1. e = 0
      BY <2>1, <1>5, <1>6
    <3>2. p = c
      BY <3>1, <1>1, <1>6
    <3> QED BY <2>1, <3>2, <1>1, <1>3, <1>4, <1>6
  <2>2. CASE ~(d < 2)
    <3>1. e >= 1
      BY <2>2, <1>5, <1>6
    <3>2. e * M >= M /\ e * M \in Nat
      BY <3>1, <1>1, <1>6
    <3> QED BY <2>2, <3>2, <1>1, <1>4, <1>6, <1>7
  <2> QED BY <2>1, <2>2
<1>9. fits => p = c
  <2>1. ASSUME fits PROVE e = 0
    BY <2>1, <1>5, <1>6
  <2> QED BY <2>1, <1>1, <1>6
<1>10. Pow2[n + 1] = 2 * Pow2[n] /\ Pow2[n + 1] <= M /\ Pow2[n] \in Nat
  BY Places
<1>11. (2 * s) % M = 2 * s
  <2>1. PICK w : w = 2 * s
    OBVIOUS
  <2>2. w \in 0 .. M - 1
    BY <2>1, <1>1, <1>4, <1>10
  <2> QED BY <2>1, <2>2, <1>1, ModBelow
<1>12. PICK s1, r1 : s1 = ((2 * s) % M) + (IF fits THEN 1 ELSE 0) /\ r1 = IF fits THEN r - c ELSE r
  OBVIOUS
<1>13. s1 = 2 * s + (IF fits THEN 1 ELSE 0) /\ r1 = IF fits THEN r - p ELSE r
  BY <1>9, <1>11, <1>12
<1>14. s1 \in Nat /\ r1 \in Nat /\ s1 < Pow2[n + 1] /\ r1 < p
  <2>1. CASE fits
    BY <2>1, <1>3, <1>4, <1>8, <1>10, <1>13
  <2>2. CASE ~fits
    BY <2>2, <1>3, <1>4, <1>8, <1>10, <1>13
  <2> QED BY <2>1, <2>2
<1>15. u = s1 * p + r1
  <2>1. PICK w : w = s * p
    OBVIOUS
  <2>2. w \in Int /\ s * (2 * p) = 2 * w
    BY <2>1, <1>3, <1>4
  <2>3. CASE fits
    <3>1. s1 * p = 2 * w + p
      BY <2>1, <2>3, <1>3, <1>4, <1>13
    <3> QED BY <3>1, <2>2, <2>3, <1>3, <1>4, <1>13
  <2>4. CASE ~fits
    <3>1. s1 * p = 2 * w
      BY <2>1, <2>4, <1>3, <1>4, <1>13
    <3> QED BY <3>1, <2>2, <2>4, <1>3, <1>4, <1>13
  <2> QED BY <2>3, <2>4
<1>16. Divided(u, v, n + 1, s1, r1)
  BY <1>2, <1>14, <1>15 DEF Divided
<1>17. ASSUME n + 1 < BITS
       PROVE  InPlace(v, n + 1, ((e % 2) * (M \div 2)) + (c \div 2), e)
  <2>1. PICK g : g = v * Pow2[BITS - ((n + 1) + 1)]
    OBVIOUS
  <2>2. g \in Nat /\ p = 2 * g
    <3>1. PICK z : z = Pow2[BITS - ((n + 1) + 1)]
      OBVIOUS
    <3>2. z \in Nat /\ Pow2[BITS - (n + 1)] = 2 * z
      BY <3>1, <1>17, Places
    <3> QED BY <3>1, <3>2, <2>1, <1>1, <1>2
  <2>3. PICK c1 : c1 = Lower(c, e)
    OBVIOUS
  <2>4. c1 \in 0 .. M - 1 /\ Together(c1, e \div 2) = g
    <3>1. Together(c, e) = 2 * g
      BY <2>2, <1>6 DEF Together
    <3> QED BY <3>1, <2>2, <2>3, <1>6, Lowered
  <2> QED BY <2>1, <2>3, <2>4, <1>6 DEF InPlace, Lower
<1> QED BY <1>5, <1>12, <1>16, <1>17

\* The first place of the divisor.
LEMMA DivideStart ==
    ASSUME NEW u \in 0 .. M - 1, NEW v \in 1 .. M - 1
    PROVE  Divided(u, v, 0, 0, u) /\ InPlace(v, 0, (v % 2) * (M \div 2), v)
<1>1. M \in Nat \ {0} /\ v \in Nat \ {0} /\ u \in Nat /\ u < M /\ BITS \in Nat /\ M = Pow2[BITS]
  BY Widths, ArithmeticAssumption DEF M
<1>2. v * M >= M /\ v * M \in Nat
  BY <1>1
<1>3. Divided(u, v, 0, 0, u)
  <2>1. BITS - 0 = BITS /\ 0 < Pow2[0]
    BY <1>1, Pow2Is
  <2>2. u < v * Pow2[BITS - 0] /\ u = 0 * (v * Pow2[BITS - 0]) + u
    BY <2>1, <1>1, <1>2
  <2> QED BY <2>1, <2>2, <1>1 DEF Divided
<1>4. PICK e, c : e = v % 2 /\ c = e * (M \div 2)
  OBVIOUS
<1>5. PICK h : h = M \div 2
  OBVIOUS
<1>6. h \in Nat /\ M = 2 * h /\ h = Pow2[BITS - (0 + 1)]
  BY <1>5, Widths, Pow2Is
<1>7. v \div 2 \in Nat /\ e \in {0, 1} /\ v = 2 * (v \div 2) + e
  BY <1>1, <1>4, Halved
<1>8. c \in {0, h}
  BY <1>4, <1>5, <1>6, <1>7
<1>9. c \in 0 .. M - 1
  BY <1>1, <1>6, <1>8
<1>10. (v \div 2) * M + c = v * h
  BY <1>4, <1>5, <1>6, <1>7
<1> QED BY <1>1, <1>3, <1>4, <1>6, <1>9, <1>10 DEF InPlace, Together

\* What __udivmoddi4 knows: of its arguments u and v, of the place that it has
\* brought the divisor to, and of what it has taken away.
LEMMA SubtractTurn ==
    ASSUME NEW u \in 0 .. MM - 1, NEW v \in 1 .. MM - 1,
           NEW s \in Nat, NEW r \in Nat, u = s * v + r,
           NEW c \in Nat, NEW d \in Nat \ {0}, c = v * d, c <= r
    PROVE  /\ (s + d) % MM = s + d
           /\ u = (s + d) * v + (r - c)
<1>1. MM \in Nat \ {0} /\ v \in Nat \ {0} /\ u \in Nat /\ u < MM
  BY Widths
<1>2. PICK t : t = s + d
  OBVIOUS
<1>3. t \in Nat /\ t * v = s * v + c
  BY <1>1, <1>2
<1>4. u = t * v + (r - c)
  <2>1. s * v \in Int /\ t * v \in Int
    BY <1>1, <1>3
  <2> QED BY <2>1, <1>3
<1>5. t * 1 <= t * v
  BY <1>1, <1>3
<1>6. t \in 0 .. MM - 1
  <2>1. t * v \in Nat
    BY <1>1, <1>3
  <2> QED BY <2>1, <1>1, <1>3, <1>4, <1>5
<1> QED BY <1>1, <1>2, <1>4, <1>6, ModBelow

-----------------------------------------------------------------------------
(* The calls of words *)

\* The arguments of the calls fit their widths.
LEMMA Argued ==
    /\ M \in Nat \ {0} /\ MM \in Nat \ {0}
    /\ \A u \in Singles : u \in 0 .. M - 1
    /\ \A u \in Doubles : u \in 0 .. MM - 1
BY Widths, ArithmeticAssumption

\* A parameter for each conjunct: what an action leaves untrue of the others.
LEMMA OnlyLoop ==
    ASSUME NEW loop, at' = loop
    PROVE  /\ loop # "multiply" => MultiplyInv'
           /\ loop # "divide" => DivideInv'
           /\ loop # "align" => AlignInv'
           /\ loop # "subtract" => SubtractInv'
           /\ loop # "done" => ArithmeticExact'
BY DEF MultiplyInv, DivideInv, AlignInv, SubtractInv, ArithmeticExact

\* Nothing is called at first.
LEMMA InitHolds == ArithInit => ArithInv
BY DEF ArithInit, ArithInv, MultiplyInv, DivideInv, AlignInv, SubtractInv, ArithmeticExact

\* The functions without a loop.
LEMMA ComputeKeeps ==
    ASSUME NEW f, NEW u, NEW v, Compute(f, u, v),
           \/ f = "__muldsi3" /\ u \in Singles /\ v \in Singles
           \/ f = "__muldi3" /\ u \in Doubles /\ v \in Doubles
           \/ f \in Shifts /\ u \in Doubles /\ v \in Singles
    PROVE  ArithInv'
<1>1. at' = "done" /\ fn' = f /\ x' = u /\ y' = v /\ result' \in Outcomes(f, u, v)
  BY DEF Compute, Called
<1>2. ASSUME Defined(f, v) PROVE result' = Expected(f, u, v) % Width(f)
  <2>1. PICK r : r = result'
    OBVIOUS
  <2>2. \/ f = "__muldsi3" /\ u \in 0 .. M - 1 /\ v \in 0 .. M - 1
        \/ f = "__muldi3" /\ u \in 0 .. MM - 1 /\ v \in 0 .. MM - 1
        \/ f \in Shifts /\ u \in 0 .. MM - 1 /\ v \in 0 .. M - 1
    BY Argued
  <2>3. r = Expected(f, u, v) % Width(f)
    BY <2>1, <2>2, <1>1, <1>2, Computed
  <2> QED BY <2>1, <2>3
<1>3. Defined(fn, y)' <=> Defined(f, v)
  BY <1>1 DEF Defined, Width, Negative
<1>4. Expected(fn, x, y)' = Expected(f, u, v)
  BY <1>1 DEF Expected, Quotient, Signed, Negative
<1>5. Width(fn)' = Width(f)
  BY <1>1 DEF Width
<1>6. ArithmeticExact'
  BY <1>1, <1>2, <1>3, <1>4, <1>5 DEF ArithmeticExact
<1> QED BY <1>1, <1>6, OnlyLoop DEF ArithInv

\* __mulsi3: the call, a turn of its loop, and its return.
LEMMA MultiplyKeeps ==
    ASSUME NEW u \in Singles, NEW v \in Singles, Multiply(u, v)
    PROVE  ArithInv'
<1>1. at' = "multiply" /\ fn' = "__mulsi3" /\ x' = u /\ y' = v /\ a' = u /\ b' = v /\ acc' = 0
  BY DEF Multiply, Called, LoopsIn
<1>2. u \in 0 .. M - 1 /\ v \in 0 .. M - 1 /\ M \in Nat \ {0}
  BY Argued
<1>3. v \in Nat /\ 0 \in 0 .. M - 1 /\ 0 + u * v = u * v
  BY <1>2
<1>4. MultiplyInv'
  BY <1>1, <1>2, <1>3 DEF MultiplyInv
<1> QED BY <1>1, <1>4, OnlyLoop DEF ArithInv

\* A turn moves a bit of the multiplier to the sum.
LEMMA MultiplyStepKeeps ==
    ASSUME MultiplyInv, MultiplyStep
    PROVE  ArithInv'
<1>1. /\ at = "multiply" /\ at' = at /\ fn' = fn /\ x' = x /\ y' = y
      /\ acc' = (IF b % 2 = 1 THEN (acc + a) % M ELSE acc) /\ a' = (2 * a) % M /\ b' = b \div 2
  BY DEF MultiplyStep
<1>2. /\ fn = "__mulsi3" /\ x \in 0 .. M - 1 /\ y \in 0 .. M - 1
      /\ a \in 0 .. M - 1 /\ acc \in 0 .. M - 1 /\ b \in Nat
      /\ (acc + a * b) % M = (x * y) % M
  BY <1>1 DEF MultiplyInv
<1>3. PICK s1, c1, e : s1 = acc' /\ c1 = a' /\ e = b'
  OBVIOUS
<1>4. /\ s1 \in 0 .. M - 1 /\ c1 \in 0 .. M - 1 /\ e \in Nat
      /\ (s1 + c1 * e) % M = (acc + a * b) % M
  BY <1>1, <1>2, <1>3, MultiplyTurn
<1>5. MultiplyInv'
  BY <1>1, <1>2, <1>3, <1>4 DEF MultiplyInv
<1> QED BY <1>1, <1>5, OnlyLoop DEF ArithInv

\* No bit is left: the sum is the product.
LEMMA MultiplyEndKeeps ==
    ASSUME MultiplyInv, MultiplyEnd
    PROVE  ArithInv'
<1>1. at = "multiply" /\ b = 0 /\ at' = "done" /\ result' = acc /\ fn' = fn /\ x' = x /\ y' = y
  BY DEF MultiplyEnd, Finishes
<1>2. /\ fn = "__mulsi3" /\ a \in 0 .. M - 1 /\ acc \in 0 .. M - 1
      /\ (acc + a * b) % M = (x * y) % M
  BY <1>1 DEF MultiplyInv
<1>3. M \in Nat \ {0}
  BY Argued
<1>4. acc + a * b = acc
  BY <1>1, <1>2, <1>3
<1>5. acc % M = acc
  BY <1>2, <1>3, ModBelow
<1>6. Expected(fn, x, y) = x * y /\ Width(fn) = M
  BY <1>2 DEF Expected, Width
<1>7. result' = Expected(fn, x, y) % Width(fn)
  BY <1>1, <1>2, <1>4, <1>5, <1>6
<1>8. ArithmeticExact'
  BY <1>1, <1>7 DEF ArithmeticExact, Defined, Expected, Width, Quotient, Signed, Negative
<1> QED BY <1>1, <1>8, OnlyLoop DEF ArithInv

\* The divisions of words: the call puts the divisor in the first place.
LEMMA DivideKeeps ==
    ASSUME NEW u \in Singles, NEW v \in Singles, NEW f \in Divisions, Divide(f, u, v)
    PROVE  ArithInv'
<1>1. PICK c, d : c = Operand(f, u, M) /\ d = Operand(f, v, M)
  OBVIOUS
<1>2. /\ at' = "divide" /\ fn' = f /\ x' = u /\ y' = v
      /\ rest' = c /\ acc' = 0 /\ a' = (d % 2) * (M \div 2) /\ b' = d /\ i' = 0
  BY <1>1 DEF Divide, Called, LoopsIn
<1>3. u \in 0 .. M - 1 /\ v \in 0 .. M - 1 /\ M \in Nat \ {0}
  BY Argued
<1>4. c \in 0 .. M - 1 /\ d \in 0 .. M - 1 /\ (v # 0 => d # 0)
  BY <1>1, <1>3, OperandRange
<1>5. Dividend(M)' = c /\ Divisor(M)' = d
  BY <1>1, <1>2 DEF Dividend, Divisor, Operand, Magnitude, Negative, Negated
<1>6. 0 \in 0 .. BITS
  BY ArithmeticAssumption
<1>7. ASSUME v # 0 PROVE Divided(c, d, 0, 0, c) /\ InPlace(d, 0, (d % 2) * (M \div 2), d)
  <2>1. d \in 1 .. M - 1
    BY <1>3, <1>4, <1>7
  <2> QED BY <2>1, <1>4, DivideStart
<1>8. DivideInv'
  <2>1. y' # 0 => /\ Divided(Dividend(M)', Divisor(M)', i', acc', rest')
                  /\ i' < BITS => InPlace(Divisor(M)', i', a', b')
    BY <1>2, <1>5, <1>7
  <2> QED BY <2>1, <1>2, <1>3, <1>6 DEF DivideInv, Dividend, Divisor, Divided, InPlace
<1> QED BY <1>2, <1>8, OnlyLoop DEF ArithInv

\* A turn finds a bit of the quotient.
LEMMA DivideStepKeeps ==
    ASSUME DivideInv, DivideStep
    PROVE  ArithInv'
<1>1. /\ at = "divide" /\ i < BITS /\ at' = at /\ fn' = fn /\ x' = x /\ y' = y /\ i' = i + 1
      /\ acc' = ((2 * acc) % M) + (IF Fits THEN 1 ELSE 0)
      /\ rest' = (IF Fits THEN rest - a ELSE rest)
      /\ a' = (((b \div 2) % 2) * (M \div 2)) + (a \div 2)
      /\ b' = b \div 2
  BY DEF DivideStep
<1>2. fn \in Divisions /\ x \in 0 .. M - 1 /\ y \in 0 .. M - 1 /\ i \in 0 .. BITS
  BY <1>1 DEF DivideInv
<1>3. M \in Nat \ {0} /\ BITS \in Nat
  BY Argued, ArithmeticAssumption
<1>4. PICK u, v, n : u = Dividend(M) /\ v = Divisor(M) /\ n = i
  OBVIOUS
<1>5. n \in 0 .. BITS - 1 /\ n + 1 \in 0 .. BITS
  BY <1>1, <1>2, <1>3, <1>4
<1>6. Dividend(M)' = u /\ Divisor(M)' = v
  BY <1>1, <1>4 DEF Dividend, Divisor, Operand, Magnitude, Negative, Negated
<1>7. ASSUME y # 0
      PROVE  /\ Divided(u, v, i + 1, acc', rest')
             /\ i + 1 < BITS => InPlace(v, i + 1, a', b')
  <2>1. u \in 0 .. M - 1 /\ v \in 1 .. M - 1
    <3>1. v \in 0 .. M - 1 /\ v # 0
      BY <1>2, <1>3, <1>4, <1>7, OperandRange DEF Divisor
    <3>2. u \in 0 .. M - 1
      BY <1>2, <1>3, <1>4, OperandRange DEF Dividend
    <3> QED BY <3>1, <3>2, <1>3
  <2>2. Divided(u, v, n, acc, rest) /\ InPlace(v, n, a, b)
    BY <1>1, <1>4, <1>7 DEF DivideInv
  <2>3. PICK fits \in BOOLEAN : fits <=> (rest >= a /\ a # 0 /\ b < 2)
    OBVIOUS
  <2>4. /\ Divided(u, v, n + 1, ((2 * acc) % M) + (IF fits THEN 1 ELSE 0), IF fits THEN rest - a ELSE rest)
        /\ n + 1 < BITS => InPlace(v, n + 1, (((b \div 2) % 2) * (M \div 2)) + (a \div 2), b \div 2)
    BY <1>5, <2>1, <2>2, <2>3, DivideTurn
  <2>5. fits <=> Fits
    BY <2>3 DEF Fits
  <2> QED BY <1>1, <1>4, <2>4, <2>5
<1>8. DivideInv'
  <2>1. y' # 0 => /\ Divided(Dividend(M)', Divisor(M)', i', acc', rest')
                  /\ i' < BITS => InPlace(Divisor(M)', i', a', b')
    BY <1>1, <1>6, <1>7
  <2>2. i' \in 0 .. BITS
    BY <1>1, <1>4, <1>5
  <2> QED BY <2>1, <2>2, <1>1, <1>2 DEF DivideInv, Dividend, Divisor, Divided, InPlace
<1> QED BY <1>1, <1>8, OnlyLoop DEF ArithInv

\* What ends a division.
LEMMA FinishesKeeps ==
    ASSUME NEW m, m = Width(fn), fn \in Divisions \cup DoubleDivisions, x \in 0 .. m - 1, y \in 0 .. m - 1,
           y # 0 => acc \in Nat /\ rest \in 0 .. Divisor(m) - 1 /\ Dividend(m) = acc * Divisor(m) + rest,
           Finishes(Answer(fn, x, y, m, acc, rest))
    PROVE  ArithInv'
<1>1. at' = "done" /\ result' = Answer(fn, x, y, m, acc, rest) /\ fn' = fn /\ x' = x /\ y' = y
  BY DEF Finishes
<1>2. ASSUME Defined(fn, y) PROVE result' = Expected(fn, x, y) % Width(fn)
  <2>1. y # 0
    BY <1>2 DEF Defined
  <2>2. PICK q, r, f, u, v : q = acc /\ r = rest /\ f = fn /\ u = x /\ v = y
    OBVIOUS
  <2>3. /\ q \in Nat /\ r \in 0 .. Operand(f, v, m) - 1
        /\ Operand(f, u, m) = q * Operand(f, v, m) + r
    BY <2>1, <2>2 DEF Dividend, Divisor
  <2>4. Answer(f, u, v, m, q, r) = Expected(f, u, v) % Width(f)
    BY <2>2, <2>3, <1>2, Answered
  <2> QED BY <1>1, <2>2, <2>4
<1>3. ArithmeticExact'
  BY <1>1, <1>2 DEF ArithmeticExact, Defined, Expected, Width, Quotient, Signed, Negative
<1> QED BY <1>1, <1>3, OnlyLoop DEF ArithInv

\* All bits are found: what rests is the remainder.
LEMMA DivideEndKeeps ==
    ASSUME DivideInv, DivideEnd
    PROVE  ArithInv'
<1>1. at = "divide" /\ i = BITS /\ Finishes(Answer(fn, x, y, M, acc, rest))
  BY DEF DivideEnd
<1>2. fn \in Divisions /\ x \in 0 .. M - 1 /\ y \in 0 .. M - 1
  BY <1>1 DEF DivideInv
<1>3. M = Width(fn)
  BY <1>2 DEF Width
<1>4. ASSUME y # 0
      PROVE  acc \in Nat /\ rest \in 0 .. Divisor(M) - 1 /\ Dividend(M) = acc * Divisor(M) + rest
  <2>1. Divided(Dividend(M), Divisor(M), BITS, acc, rest)
    BY <1>1, <1>4 DEF DivideInv
  <2>2. Divisor(M) \in Nat
    BY <1>2, Argued, OperandRange DEF Divisor
  <2>3. BITS - BITS = 0 /\ Divisor(M) * Pow2[0] = Divisor(M)
    BY <2>2, Pow2Is, ArithmeticAssumption
  <2> QED BY <2>1, <2>2, <2>3 DEF Divided
<1> QED BY <1>1, <1>2, <1>3, <1>4, FinishesKeeps

-----------------------------------------------------------------------------
(* The calls of double words, and the theorem *)

\* The operands of a division of double words, as its loops use them.
LEMMA Operands ==
    ASSUME DoubleArguments
    PROVE  Divisor(MM) \in 1 .. MM - 1 /\ Dividend(MM) \in 0 .. MM - 1
<1>1. MM \in Nat \ {0}
  BY Argued
<1>2. x \in 0 .. MM - 1 /\ y \in 0 .. MM - 1 /\ y # 0
  BY <1>1 DEF DoubleArguments
<1>3. Divisor(MM) \in 0 .. MM - 1 /\ Divisor(MM) # 0 /\ Dividend(MM) \in 0 .. MM - 1
  BY <1>1, <1>2, OperandRange DEF Divisor, Dividend
<1> QED BY <1>1, <1>3

\* The operands are those of the call, whatever the loop does.
LEMMA OperandsStay ==
    ASSUME NEW m \in {M, MM}, fn' = fn, x' = x, y' = y
    PROVE  Dividend(m)' = Dividend(m) /\ Divisor(m)' = Divisor(m)
BY DEF Dividend, Divisor, Operand, Magnitude, Negative, Negated

\* The divisions of double words: the call.
LEMMA DivideDoubleKeeps ==
    ASSUME NEW u \in Doubles, NEW v \in Doubles, NEW f \in DoubleDivisions, DivideDouble(f, u, v)
    PROVE  ArithInv'
<1>1. PICK c, d : c = Operand(f, u, MM) /\ d = Operand(f, v, MM)
  OBVIOUS
<1>2. /\ v # 0 /\ at' = "align" /\ fn' = f /\ x' = u /\ y' = v
      /\ rest' = c /\ acc' = 0 /\ a' = d /\ b' = 1
  BY <1>1 DEF DivideDouble, Called, LoopsIn
<1>3. u \in 0 .. MM - 1 /\ v \in 0 .. MM - 1 /\ v \in 1 .. MM - 1 /\ MM \in Nat \ {0}
  BY <1>2, Argued
<1>4. c \in 0 .. MM - 1 /\ d \in 0 .. MM - 1
  BY <1>1, <1>3, OperandRange
<1>5. Dividend(MM)' = c /\ Divisor(MM)' = d
  BY <1>1, <1>2 DEF Dividend, Divisor, Operand, Magnitude, Negative, Negated
<1>6. DoubleArguments'
  BY <1>2, <1>3, <1>4 DEF DoubleArguments
<1>7. Placed'
  <2>1. 0 \in 0 .. 2 * BITS /\ 1 = Pow2[0] /\ d = d * 1
    BY <1>3, <1>4, Pow2Is, ArithmeticAssumption
  <2>2. b' = Pow2[0] /\ a' = Divisor(MM)' * b'
    BY <2>1, <1>2, <1>5
  <2> QED BY <2>1, <2>2 DEF Placed
<1>8. AlignInv'
  BY <1>2, <1>5, <1>6, <1>7 DEF AlignInv
<1> QED BY <1>2, <1>8, OnlyLoop DEF ArithInv

\* The first loop of __udivmoddi4 shifts the divisor left until it is no longer
\* below the dividend or its upper bit is set: then the dividend is below its double.
LEMMA AlignStepKeeps ==
    ASSUME AlignInv, AlignStep
    PROVE  ArithInv'
<1>1. at = "align" /\ fn' = fn /\ x' = x /\ y' = y /\ acc' = acc /\ rest' = rest
  BY DEF AlignStep
<1>2. DoubleArguments /\ Placed /\ acc = 0 /\ rest = Dividend(MM)
  BY <1>1 DEF AlignInv
<1>3. PICK u, v : u = Dividend(MM) /\ v = Divisor(MM)
  OBVIOUS
<1>4. u \in 0 .. MM - 1 /\ v \in 1 .. MM - 1 /\ MM \in Nat \ {0}
  BY <1>2, <1>3, Operands, Argued
<1>5. Dividend(MM)' = u /\ Divisor(MM)' = v
  BY <1>1, <1>3, OperandsStay
<1>6. a \in 0 .. MM - 1 /\ b \in Nat
  BY <1>2 DEF DoubleArguments
<1>7. CASE Negative(a, MM)
  <2>1. at' = "subtract" /\ a' = a /\ b' = b
    BY <1>7, <1>1 DEF AlignStep
  <2>2. DoubleArguments'
    BY <2>1, <1>1, <1>2 DEF DoubleArguments
  <2>3. Placed'
    BY <2>1, <1>2, <1>3, <1>5 DEF Placed
  <2>4. u = 0 * v + u
    BY <1>4
  <2>5. b # 0 /\ u < 2 * a
    <3>1. b # 0
      BY <1>2, Pow2Is, ArithmeticAssumption DEF Placed
    <3>2. 2 * a >= MM
      BY <1>7 DEF Negative
    <3> QED BY <3>1, <3>2, <1>4, <1>6
  <2>6. SubtractInv'
    <3>1. Dividend(MM)' = acc' * Divisor(MM)' + rest'
      BY <2>4, <1>1, <1>2, <1>3, <1>5
    <3>2. b' # 0 /\ rest' < 2 * a'
      BY <2>1, <2>5, <1>1, <1>2, <1>3
    <3> QED BY <3>1, <3>2, <2>2, <2>3 DEF SubtractInv
  <2> QED BY <2>1, <2>6, OnlyLoop DEF ArithInv
<1>8. CASE ~Negative(a, MM)
  <2>1. at' = "align" /\ a' = (2 * a) % MM /\ b' = (2 * b) % MM
    BY <1>8, <1>1 DEF AlignStep
  <2>2. PICK j \in 0 .. 2 * BITS : b = Pow2[j] /\ a = v * b
    BY <1>2, <1>3 DEF Placed
  <2>3. 2 * a < MM
    BY <1>8, <1>4, <1>6 DEF Negative
  <2>4. b <= a
    <3>1. b * 1 <= b * v
      BY <1>4, <1>6
    <3>2. b * v = a
      BY <2>2, <1>4, <1>6
    <3> QED BY <3>1, <3>2, <1>4, <1>6
  <2>5. PICK c, d : c = 2 * a /\ d = 2 * b
    OBVIOUS
  <2>6. c \in 0 .. MM - 1 /\ d \in 0 .. MM - 1 /\ c = v * d
    BY <2>2, <2>3, <2>4, <2>5, <1>4, <1>6
  <2>7. a' = c /\ b' = d
    BY <2>1, <2>5, <2>6, <1>4, ModBelow
  <2>8. DoubleArguments'
    <3>1. d \in Nat
      BY <2>6, <1>4
    <3> QED BY <3>1, <2>6, <2>7, <1>1, <1>2 DEF DoubleArguments
  <2>9. j + 1 \in 0 .. 2 * BITS /\ d = Pow2[j + 1]
    <3>1. 2 * BITS \in Nat /\ j \in Nat
      BY ArithmeticAssumption
    <3>2. j # 2 * BITS
      BY <2>2, <2>4, <1>4, <1>6 DEF MM
    <3>3. j + 1 \in 0 .. 2 * BITS
      BY <3>1, <3>2
    <3>4. Pow2[j + 1] = 2 * Pow2[j]
      BY <3>1, Pow2Is
    <3> QED BY <3>3, <3>4, <2>2, <2>5
  <2>10. Placed'
    BY <2>6, <2>7, <2>9, <1>5 DEF Placed
  <2>11. AlignInv'
    BY <2>1, <2>8, <2>10, <1>1, <1>2, <1>3, <1>5 DEF AlignInv
  <2> QED BY <2>1, <2>11, OnlyLoop DEF ArithInv
<1> QED BY <1>7, <1>8

\* The second loop takes the divisor away in each place it fits.
LEMMA SubtractStepKeeps ==
    ASSUME SubtractInv, SubtractStep
    PROVE  ArithInv'
<1>1. /\ at = "subtract" /\ at' = at /\ b # 0 /\ fn' = fn /\ x' = x /\ y' = y
      /\ a' = a \div 2 /\ b' = b \div 2
  BY DEF SubtractStep
<1>2. PICK u, v : u = Dividend(MM) /\ v = Divisor(MM)
  OBVIOUS
<1>3. DoubleArguments /\ u = acc * v + rest /\ Placed /\ rest < 2 * a
  BY <1>1, <1>2 DEF SubtractInv
<1>4. u \in 0 .. MM - 1 /\ v \in 1 .. MM - 1 /\ MM \in Nat \ {0}
  BY <1>2, <1>3, Operands, Argued
<1>5. Dividend(MM)' = u /\ Divisor(MM)' = v
  BY <1>1, <1>2, OperandsStay
<1>6. a \in 0 .. MM - 1 /\ a \in Nat /\ b \in Nat \ {0} /\ acc \in Nat /\ rest \in Nat
  BY <1>1, <1>3, <1>4 DEF DoubleArguments
<1>7. PICK j \in 0 .. 2 * BITS : b = Pow2[j] /\ a = v * b
  BY <1>2, <1>3 DEF Placed
<1>8. acc' \in Nat /\ rest' \in Nat /\ u = acc' * v + rest' /\ rest' < a
  <2>1. CASE a <= rest
    <3>1. rest' = rest - a /\ acc' = (acc + b) % MM
      BY <2>1 DEF SubtractStep
    <3>2. PICK s, r, c, d : s = acc /\ r = rest /\ c = a /\ d = b
      OBVIOUS
    <3>3. (s + d) % MM = s + d /\ u = (s + d) * v + (r - c)
      <4>1. s \in Nat /\ r \in Nat /\ c \in Nat /\ d \in Nat \ {0} /\ c <= r
        BY <2>1, <3>2, <1>6
      <4>2. u = s * v + r /\ c = v * d
        BY <3>2, <1>3, <1>7
      <4> QED BY <4>1, <4>2, <1>4, SubtractTurn
    <3>4. acc' = s + d /\ rest' = r - c
      BY <3>1, <3>2, <3>3
    <3>5. s + d \in Nat /\ r - c \in Nat /\ r - c < a
      BY <2>1, <3>2, <1>3, <1>6
    <3> QED BY <3>3, <3>4, <3>5
  <2>2. CASE ~(a <= rest)
    <3>1. acc' = acc /\ rest' = rest
      BY <2>2 DEF SubtractStep
    <3> QED BY <3>1, <2>2, <1>3, <1>6
  <2> QED BY <2>1, <2>2
<1>9. PICK c, d : c = a \div 2 /\ d = b \div 2
  OBVIOUS
<1>10. c \in Nat /\ d \in Nat /\ c <= a
  <2>1. PICK c0 : c0 = a % 2
    OBVIOUS
  <2>2. c \in Nat /\ c0 \in {0, 1} /\ a = 2 * c + c0
    BY <2>1, <1>6, <1>9, Halved
  <2> QED BY <2>2, <1>6, <1>9, Halved
<1>11. DoubleArguments'
  <2>1. c \in 0 .. MM - 1
    BY <1>4, <1>6, <1>10
  <2> QED BY <2>1, <1>1, <1>3, <1>8, <1>9, <1>10 DEF DoubleArguments
<1>12. IF d = 0 THEN rest' < v ELSE Placed' /\ rest' < 2 * c
  <2>1. CASE j = 0
    <3>1. b = 1
      BY <2>1, <1>7, Pow2Is
    <3>2. d = 0 /\ a = v
      BY <3>1, <1>4, <1>7, <1>9
    <3> QED BY <3>2, <1>8
  <2>2. CASE j # 0
    <3>1. j - 1 \in Nat /\ j - 1 \in 0 .. 2 * BITS /\ (j - 1) + 1 = j
      BY <2>2, ArithmeticAssumption
    <3>2. PICK p : p = Pow2[j - 1]
      OBVIOUS
    <3>3. p \in Nat \ {0} /\ b = 2 * p
      BY <3>1, <3>2, <1>7, Pow2Is
    <3>4. d = p
      BY <3>3, <1>9
    <3>5. PICK w : w = v * p
      OBVIOUS
    <3>6. w \in Nat /\ a = 2 * w
      BY <3>3, <3>5, <1>4, <1>7
    <3>7. c = w
      BY <3>6, <1>9
    <3>8. Placed'
      BY <3>1, <3>2, <3>4, <3>5, <3>7, <1>1, <1>5, <1>9 DEF Placed
    <3> QED BY <3>3, <3>4, <3>6, <3>7, <3>8, <1>8
  <2> QED BY <2>1, <2>2
<1>13. SubtractInv'
  BY <1>1, <1>5, <1>8, <1>9, <1>11, <1>12 DEF SubtractInv
<1> QED BY <1>1, <1>13, OnlyLoop DEF ArithInv

\* Past the last place what rests is below the divisor.
LEMMA SubtractEndKeeps ==
    ASSUME SubtractInv, SubtractEnd
    PROVE  ArithInv'
<1>1. at = "subtract" /\ b = 0 /\ Finishes(Answer(fn, x, y, MM, acc, rest))
  BY DEF SubtractEnd
<1>2. DoubleArguments /\ Dividend(MM) = acc * Divisor(MM) + rest /\ rest < Divisor(MM)
  BY <1>1 DEF SubtractInv
<1>3. Divisor(MM) \in 1 .. MM - 1 /\ MM \in Nat \ {0}
  BY <1>2, Operands, Argued
<1>4. fn \in DoubleDivisions /\ x \in 0 .. MM - 1 /\ y \in 0 .. MM - 1 /\ acc \in Nat /\ rest \in Nat
  BY <1>2, <1>3 DEF DoubleArguments
<1>5. MM = Width(fn)
  BY <1>4 DEF Width, Divisions, DoubleDivisions
<1>6. rest \in 0 .. Divisor(MM) - 1
  BY <1>2, <1>3, <1>4
<1> QED BY <1>1, <1>2, <1>4, <1>5, <1>6, FinishesKeeps

\* A division by zero answers at once, and nothing is expected of it.
LEMMA DivideByZeroKeeps ==
    ASSUME NEW u, NEW f \in DoubleDivisions, DivideByZero(f, u)
    PROVE  ArithInv'
<1>1. at' = "done" /\ fn' = f /\ y' = 0
  BY DEF DivideByZero, Called
<1>2. ~Defined(f, 0)
  BY DEF Defined
<1>3. Defined(fn, y)' <=> Defined(f, 0)
  BY <1>1 DEF Defined, Width, Negative
<1>4. ArithmeticExact'
  BY <1>2, <1>3 DEF ArithmeticExact
<1> QED BY <1>1, <1>4, OnlyLoop DEF ArithInv

\* Every step keeps the invariant.
LEMMA ArithInductive == ArithInv /\ [ArithNext]_arithVars => ArithInv'
<1> SUFFICES ASSUME ArithInv, [ArithNext]_arithVars
             PROVE  ArithInv'
  OBVIOUS
<1>0. MultiplyInv /\ DivideInv /\ AlignInv /\ SubtractInv /\ ArithmeticExact
  BY DEF ArithInv
<1>1. ASSUME NEW u \in Singles, NEW v \in Singles,
             \/ Multiply(u, v)
             \/ Compute("__muldsi3", u, v)
             \/ \E f \in Divisions : Divide(f, u, v)
      PROVE  ArithInv'
  BY <1>1, MultiplyKeeps, ComputeKeeps, DivideKeeps
<1>2. ASSUME NEW u \in Doubles, NEW v \in Doubles,
             \/ Compute("__muldi3", u, v)
             \/ \E f \in DoubleDivisions : DivideDouble(f, u, v)
      PROVE  ArithInv'
  BY <1>2, ComputeKeeps, DivideDoubleKeeps
<1>3. ASSUME NEW u \in Doubles,
             \/ \E v \in Singles, f \in Shifts : Compute(f, u, v)
             \/ \E f \in DoubleDivisions : 0 \in Doubles /\ DivideByZero(f, u)
      PROVE  ArithInv'
  BY <1>3, ComputeKeeps, DivideByZeroKeeps
<1>4. CASE Loops
  BY <1>0, <1>4, MultiplyStepKeeps, MultiplyEndKeeps, DivideStepKeeps, DivideEndKeeps,
     AlignStepKeeps, SubtractStepKeeps, SubtractEndKeeps DEF Loops
<1>5. CASE Return
  <2>1. at' = "idle"
    BY <1>5 DEF Return
  <2> QED BY <2>1, OnlyLoop DEF ArithInv
<1>6. CASE UNCHANGED arithVars
  <2>1. /\ at' = at /\ fn' = fn /\ x' = x /\ y' = y /\ a' = a /\ b' = b /\ acc' = acc
        /\ rest' = rest /\ i' = i /\ result' = result
    BY <1>6 DEF arithVars, registers
  <2>2. Dividend(M)' = Dividend(M) /\ Divisor(M)' = Divisor(M)
        /\ Dividend(MM)' = Dividend(MM) /\ Divisor(MM)' = Divisor(MM)
    BY <2>1, OperandsStay
  <2>3. MultiplyInv'
    BY <2>1, <1>0 DEF MultiplyInv
  <2>4. DivideInv'
    BY <2>1, <2>2, <1>0 DEF DivideInv, Dividend, Divisor, Divided, InPlace
  <2>5. AlignInv' /\ SubtractInv'
    <3>1. DoubleArguments' = DoubleArguments
      BY <2>1 DEF DoubleArguments
    <3>2. Placed' = Placed
      BY <2>1, <2>2 DEF Placed
    <3> QED BY <3>1, <3>2, <2>1, <2>2, <1>0 DEF AlignInv, SubtractInv
  <2>6. ArithmeticExact'
    <3>1. Defined(fn, y)' <=> Defined(fn, y)
      BY <2>1 DEF Defined, Width, Negative
    <3>2. Expected(fn, x, y)' = Expected(fn, x, y)
      BY <2>1 DEF Expected, Quotient, Signed, Negative
    <3>3. Width(fn)' = Width(fn)
      BY <2>1 DEF Width
    <3> QED BY <3>1, <3>2, <3>3, <2>1, <1>0 DEF ArithmeticExact
  <2> QED BY <2>3, <2>4, <2>5, <2>6 DEF ArithInv
<1> QED BY <1>1, <1>2, <1>3, <1>4, <1>5, <1>6 DEF ArithNext

\* Whatever the width of a word, which only has to be even, and for all arguments
\* but the following: when a function of hflibc.c returns, it returns what C expects
\* of the operator that the compiler calls it for, for products, quotients and
\* remainders of words and of double words, with and without a sign, and for shifts
\* of double words (__mulsi3 to __umoddi3).  Nothing is said (Defined) of a divisor
\* of 0 and of shifts by more than a word, for which C or the code has no result,
\* nor of the arguments for which the functions are wrong: __modsi3 and __moddi3 by
\* a negative divisor, and __ashrdi3 by a whole word.
THEOREM ArithmeticAlways == ArithSpec => []ArithmeticExact
<1>1. ArithInv => ArithmeticExact
  BY DEF ArithInv
<1> QED BY <1>1, InitHolds, ArithInductive, PTL DEF ArithSpec
=============================================================================
