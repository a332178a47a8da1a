------------------------- MODULE RetryBackoff_proofs -------------------------
(***************************************************************************)
(* What the 64-bit arithmetic of IsRequestTooEarly decides at every number *)
(* of attempts, and that the table of the other modules decides the same.  *)
(* The proof reads a pair of limbs as the number it stands for, modulo     *)
(* 2^54: 30 s * 2^28 is the last product that does not wrap, and from the  *)
(* 54th doubling on the product is zero.                                   *)
(***************************************************************************)
EXTENDS RetryBackoff, NodeBuffers_proofs

Limbs == [hi : 0..LimbBase - 1, lo : 0..LimbBase - 1]

\* The number of 1024 ns units.
Val(d) == d.hi * 134217728 + d.lo

-----------------------------------------------------------------------------
(* Durations as numbers.                                                   *)

\* The size of a limb.
LEMMA Base == LimbBase = 134217728
BY SMT DEF LimbBase

Limb(n) == n \in Nat /\ n < 134217728

\* A limb is a digit to that base.
LEMMA LimbRange == \A n : n \in 0..LimbBase - 1 <=> Limb(n)
<1>1. LimbBase \in Int /\ LimbBase <= 134217728 /\ 134217728 <= LimbBase
  BY Base, SMT
<1> QED
  BY <1>1, SMT DEF Limb

\* Carrying at most one.
LEMMA Carry ==
    ASSUME NEW n \in Nat, n < 2 * 134217728
    PROVE  /\ n \div 134217728 = IF n < 134217728 THEN 0 ELSE 1
           /\ n % 134217728 = IF n < 134217728 THEN n ELSE n - 134217728
BY SMT

\* A pair of limbs is a number.
LEMMA ValType ==
    ASSUME NEW d \in Limbs
    PROVE  Limb(d.hi) /\ Limb(d.lo) /\ Val(d) \in Nat
<1>1. Limb(d.hi) /\ Limb(d.lo)
  BY LimbRange DEF Limbs
<1> QED
  BY <1>1, SMT DEF Val, Limb

\* Making a pair.
LEMMA DurationType ==
    ASSUME NEW h, Limb(h), NEW l, Limb(l)
    PROVE  /\ Duration(h, l) \in Limbs /\ Duration(h, l).hi = h /\ Duration(h, l).lo = l
           /\ Val(Duration(h, l)) = h * 134217728 + l
BY LimbRange, SMT DEF Duration, Limbs, Val

\* Adding digit by digit, with a carry.
LEMMA DigitSum ==
    ASSUME NEW a \in Nat, NEW b \in Nat, NEW c \in Nat, NEW x \in Nat, NEW y \in Nat,
           NEW z \in Nat, x + y = c * 134217728 + z
    PROVE  (a * 134217728 + x) + (b * 134217728 + y) = (a + b + c) * 134217728 + z
BY SMT

\* A sum that needs a third digit loses 2^54 with it.
LEMMA DigitWrap ==
    ASSUME NEW t \in Nat, NEW z \in Nat, t >= 134217728, NEW v, NEW w,
           v = t * 134217728 + z, w = (t - 134217728) * 134217728 + z
    PROVE  /\ ~(v < 18014398509481984)
           /\ v >= 18014398509481984 => w = v - 18014398509481984
BY SMT

\* The sum is that of the numbers, modulo 2^54.
LEMMA AddSum ==
    ASSUME NEW d \in Limbs, NEW e \in Limbs
    PROVE  /\ Add(d, e) \in Limbs
           /\ Val(d) + Val(e) < 18014398509481984 => Val(Add(d, e)) = Val(d) + Val(e)
           /\ Val(d) + Val(e) >= 18014398509481984
                => Val(Add(d, e)) = Val(d) + Val(e) - 18014398509481984
<1> DEFINE low == d.lo + e.lo
           carry == low \div 134217728
           h == (d.hi + e.hi + carry) % 134217728
           l == low % 134217728
<1>1. Limb(d.hi) /\ Limb(d.lo) /\ Limb(e.hi) /\ Limb(e.lo)
  BY ValType
<1>2. (carry = 0 \/ carry = 1) /\ Limb(l) /\ d.lo + e.lo = carry * 134217728 + l
  <2>1. low \in Nat /\ low < 2 * 134217728
    BY <1>1, SMT DEF Limb
  <2>2. (carry = 0 \/ carry = 1) /\ Limb(l) /\ low = carry * 134217728 + l
    <3> HIDE DEF low
    <3> QED
      BY <2>1, Carry, SMT DEF Limb
  <2> QED
    BY <2>2, SMT
<1> HIDE DEF carry
<1> DEFINE top == d.hi + e.hi + carry
<1>3. top \in Nat /\ top < 2 * 134217728
  BY <1>1, <1>2, SMT DEF Limb
<1>4. /\ Limb(h) /\ (top < 134217728 => h = top)
      /\ top >= 134217728 => h = top - 134217728
  <2> HIDE DEF top
  <2>1. h = top % 134217728
    BY DEF top
  <2> HIDE DEF h
  <2> QED
    BY <1>3, <2>1, Carry, SMT DEF Limb
<1> USE DEF carry
<1>5. Add(d, e) = Duration(h, l)
  BY Base, SMT DEF Add
<1> HIDE DEF h, l, carry, low
<1>6. Add(d, e) \in Limbs /\ Val(Add(d, e)) = h * 134217728 + l
  BY <1>2, <1>4, <1>5, DurationType, SMT
<1>7. Val(d) = d.hi * 134217728 + d.lo /\ Val(e) = e.hi * 134217728 + e.lo
  BY SMT DEF Val
<1>8. /\ d.hi \in Nat /\ d.lo \in Nat /\ e.hi \in Nat /\ e.lo \in Nat
      /\ carry \in Nat /\ h \in Nat /\ l \in Nat /\ l < 134217728
  BY <1>1, <1>2, <1>4, SMT DEF Limb
<1>9. Val(d) + Val(e) = top * 134217728 + l
  <2>1. d.lo + e.lo = carry * 134217728 + l
    BY <1>2, SMT
  <2> QED
    BY <1>7, <1>8, <2>1, DigitSum, SMT
<1>10. top \in Nat /\ Val(d) \in Nat /\ Val(e) \in Nat /\ Val(Add(d, e)) \in Nat
  BY <1>3, <1>6, ValType, SMT
<1> HIDE DEF top
<1>11. CASE top < 134217728
  <2>1. h = top
    BY <1>4, <1>11, SMT
  <2> QED
    BY <1>6, <1>8, <1>9, <1>10, <1>11, <2>1, SMT
<1>12. CASE top >= 134217728
  <2>1. h = top - 134217728
    BY <1>4, <1>12, SMT
  <2>2. Val(Add(d, e)) = (top - 134217728) * 134217728 + l
    BY <1>6, <2>1, SMT
  <2> QED
    BY <1>6, <1>8, <1>9, <1>10, <1>12, <2>2, DigitWrap, SMT
<1> QED
  BY <1>10, <1>11, <1>12, SMT

\* Short of 2^54 it is the sum itself.
LEMMA AddVal ==
    ASSUME NEW d \in Limbs, NEW e \in Limbs, Val(d) + Val(e) < 18014398509481984
    PROVE  Add(d, e) \in Limbs /\ Val(Add(d, e)) = Val(d) + Val(e)
BY AddSum, SMT

\* Below 2^53 no duration is negative, and the order is that of the numbers.
LEMMA LessVal ==
    ASSUME NEW d \in Limbs, NEW e \in Limbs,
           Val(d) < 9007199254740992, Val(e) < 9007199254740992
    PROVE  Less(d, e) <=> Val(d) < Val(e)
<1>1. Limb(d.hi) /\ Limb(d.lo) /\ Limb(e.hi) /\ Limb(e.lo)
  BY ValType
<1>2. d.hi < 67108864 /\ e.hi < 67108864
  BY <1>1, SMT DEF Val, Limb
<1>3. ~(d.hi >= LimbBase \div 2) /\ ~(e.hi >= LimbBase \div 2)
  <2>1. LimbBase \div 2 = 67108864
    BY Base, SMT
  <2>2. d.hi \in Int /\ e.hi \in Int
    BY <1>1 DEF Limb
  <2> QED
    BY <1>2, <2>1, <2>2, SMT
<1>4. Less(d, e) <=> d.hi < e.hi \/ (d.hi = e.hi /\ d.lo < e.lo)
  BY <1>3, SMT DEF Less, Negative
<1>5. \A a, b, x, y \in Nat :
         x < 134217728 /\ y < 134217728
           => (a * 134217728 + x < b * 134217728 + y <=> a < b \/ (a = b /\ x < y))
  BY SMT
<1>6. Val(d) < Val(e) <=> d.hi < e.hi \/ (d.hi = e.hi /\ d.lo < e.lo)
  BY <1>1, <1>5, SMT DEF Val, Limb
<1> QED
  BY <1>4, <1>6, SMT

\* No duration from zero to 2^53 is less than one with the top bit set.
LEMMA NotLessVal ==
    ASSUME NEW d \in Limbs, NEW e \in Limbs,
           Val(d) < 9007199254740992, Val(e) >= 9007199254740992
    PROVE  ~Less(d, e)
<1>1. Limb(d.hi) /\ Limb(d.lo) /\ Limb(e.hi) /\ Limb(e.lo)
  BY ValType, SMT
<1>2. d.hi < 67108864 /\ e.hi >= 67108864 /\ d.hi \in Int /\ e.hi \in Int
  BY <1>1, SMT DEF Val, Limb
<1>3. LimbBase \div 2 = 67108864
  BY Base, SMT
<1> QED
  BY <1>2, <1>3, SMT DEF Less, Negative

\* The two constants of the code.
LEMMA ConstantsVal ==
    /\ initialBackoff \in Limbs /\ Val(initialBackoff) = 29296875
    /\ maxBackoff \in Limbs /\ Val(maxBackoff) = 1440 * 29296875
<1>1. Limb(0) /\ Limb(29296875) /\ Limb(314) /\ Limb(43133408)
  BY SMT DEF Limb
<1> QED
  BY <1>1, DurationType, SMT DEF initialBackoff, maxBackoff

-----------------------------------------------------------------------------
(* The product is defined by recursion; it satisfies its equation.         *)

Doubled(d) == Add(d, d)

\* g is a beginning of the product, up to n.
Doubles(g, n) == \A i \in 0..n : g[i] = IF i = 0 THEN initialBackoff ELSE Doubled(g[i - 1])

\* Two beginnings agree as far as both go.
LEMMA DoublesAgree ==
    ASSUME NEW n \in Nat, NEW m \in Nat, n <= m, NEW g, NEW h, Doubles(g, n), Doubles(h, m)
    PROVE  \A i \in 0..n : g[i] = h[i]
<1> DEFINE T == {i \in 0..n : g[i] # h[i]}
<1> SUFFICES ASSUME T # {} PROVE FALSE
  OBVIOUS
<1>1. T \subseteq Nat
  OBVIOUS
<1>2. PICK i \in T : \A k \in T : i <= k
  BY <1>1, LeastNumber
<1>3. i # 0
  BY <1>2 DEF Doubles
<1>4. g[i - 1] = h[i - 1]
  BY <1>2, <1>3
<1> QED
  BY <1>2, <1>3, <1>4 DEF Doubles

\* There is one of every length.
LEMMA DoublesExist == \A n \in Nat : \E g : Doubles(g, n)
<1> DEFINE T == {n \in Nat : ~\E g : Doubles(g, n)}
<1> SUFFICES ASSUME T # {} PROVE FALSE
  OBVIOUS
<1>1. PICK n \in T : \A k \in T : n <= k
  BY LeastNumber
<1>2. Doubles([i \in 0..0 |-> initialBackoff], 0)
  BY DEF Doubles
<1>3. n # 0
  BY <1>1, <1>2
<1>4. PICK g : Doubles(g, n - 1)
  BY <1>1, <1>3
<1>5. Doubles([i \in 0..n |-> IF i = n THEN Doubled(g[n - 1]) ELSE g[i]], n)
  BY <1>3, <1>4 DEF Doubles
<1> QED
  BY <1>1, <1>5

\* initialBackoff * 2^n is the initial backoff, doubled n times.
LEMMA ProductEquation ==
    \A n \in Nat : Product[n] = IF n = 0 THEN initialBackoff ELSE Add(Product[n - 1], Product[n - 1])
<1> DEFINE G(n) == CHOOSE g : Doubles(g, n)
           W == [n \in Nat |-> G(n)[n]]
<1>1. \A n \in Nat : Doubles(G(n), n)
  BY DoublesExist
<1> HIDE DEF G
<1>2. ASSUME NEW n \in Nat, n # 0
      PROVE  G(n)[n - 1] = G(n - 1)[n - 1]
  <2>1. Doubles(G(n), n) /\ Doubles(G(n - 1), n - 1)
    BY <1>1, <1>2
  <2> QED
    BY <1>2, <2>1, DoublesAgree
<1>3. ASSUME NEW n \in Nat
      PROVE  W[n] = IF n = 0 THEN initialBackoff ELSE Doubled(W[n - 1])
  <2>1. Doubles(G(n), n)
    BY <1>1
  <2>2. CASE n = 0
    BY <2>1, <2>2 DEF Doubles
  <2>3. CASE n # 0
    BY <1>2, <2>1, <2>3 DEF Doubles
  <2> QED
    BY <2>2, <2>3
<1>4. W \in [Nat -> {W[n] : n \in Nat}]
  OBVIOUS
<1> HIDE DEF W
<1>5. W = [n \in Nat |-> IF n = 0 THEN initialBackoff ELSE Doubled(W[n - 1])]
  BY <1>3, <1>4
<1>6. \E g : g = [n \in Nat |-> IF n = 0 THEN initialBackoff ELSE Doubled(g[n - 1])]
  BY <1>5
<1>7. Product = CHOOSE g : g = [n \in Nat |-> IF n = 0 THEN initialBackoff ELSE Doubled(g[n - 1])]
  BY DEF Product, Doubled
<1>8. Product = [n \in Nat |-> IF n = 0 THEN initialBackoff ELSE Doubled(Product[n - 1])]
  BY <1>6, <1>7, Zenon
<1> QED
  BY <1>8 DEF Doubled

\* One doubling more.
LEMMA ProductStep ==
    ASSUME NEW n \in Nat, Product[n] \in Limbs
    PROVE  /\ Product[n + 1] \in Limbs
           /\ Val(Product[n]) < 9007199254740992 => Val(Product[n + 1]) = 2 * Val(Product[n])
           /\ Val(Product[n]) >= 9007199254740992
                => Val(Product[n + 1]) = 2 * Val(Product[n]) - 18014398509481984
<1>1. Product[n + 1] = Add(Product[n], Product[n])
  BY ProductEquation, SMT
<1>2. Val(Product[n]) \in Nat
  BY ValType, SMT
<1> DEFINE v == Val(Product[n])
<1>3. /\ Product[n + 1] \in Limbs
      /\ v + v < 18014398509481984 => Val(Product[n + 1]) = v + v
      /\ v + v >= 18014398509481984 => Val(Product[n + 1]) = v + v - 18014398509481984
  BY <1>1, AddSum, SMT
<1>4. v \in Nat
  BY <1>2, SMT
<1> HIDE DEF v
<1>5. /\ v < 9007199254740992 => v + v < 18014398509481984 /\ v + v = 2 * v
      /\ v >= 9007199254740992 => v + v >= 18014398509481984 /\ v + v = 2 * v
  BY <1>4, SMT
<1> QED
  BY <1>3, <1>4, <1>5, SMT DEF v

\* The products up to 2^28, none of which wraps.
LEMMA ProductValues ==
    \A n \in 0..28 :
        /\ Product[n] \in Limbs /\ Val(Product[n]) < 9007199254740992
        /\ n = 0 => Val(Product[n]) = 29296875
        /\ n = 1 => Val(Product[n]) = 58593750
        /\ n = 2 => Val(Product[n]) = 117187500
        /\ n = 3 => Val(Product[n]) = 234375000
        /\ n = 4 => Val(Product[n]) = 468750000
        /\ n = 5 => Val(Product[n]) = 937500000
        /\ n = 6 => Val(Product[n]) = 1875000000
        /\ n = 7 => Val(Product[n]) = 3750000000
        /\ n = 8 => Val(Product[n]) = 7500000000
        /\ n = 9 => Val(Product[n]) = 15000000000
        /\ n = 10 => Val(Product[n]) = 30000000000
        /\ n > 10 => Val(Product[n]) >= 60000000000
        /\ n = 28 => Val(Product[n]) = 7864320000000000
<1>0. Product[0] \in Limbs /\ Val(Product[0]) = 29296875
  BY ProductEquation, ConstantsVal, SMT
<1>1. Product[1] \in Limbs /\ Val(Product[1]) = 58593750
  BY <1>0, ProductStep, SMT
<1>2. Product[2] \in Limbs /\ Val(Product[2]) = 117187500
  BY <1>1, ProductStep, SMT
<1>3. Product[3] \in Limbs /\ Val(Product[3]) = 234375000
  BY <1>2, ProductStep, SMT
<1>4. Product[4] \in Limbs /\ Val(Product[4]) = 468750000
  BY <1>3, ProductStep, SMT
<1>5. Product[5] \in Limbs /\ Val(Product[5]) = 937500000
  BY <1>4, ProductStep, SMT
<1>6. Product[6] \in Limbs /\ Val(Product[6]) = 1875000000
  BY <1>5, ProductStep, SMT
<1>7. Product[7] \in Limbs /\ Val(Product[7]) = 3750000000
  BY <1>6, ProductStep, SMT
<1>8. Product[8] \in Limbs /\ Val(Product[8]) = 7500000000
  BY <1>7, ProductStep, SMT
<1>9. Product[9] \in Limbs /\ Val(Product[9]) = 15000000000
  BY <1>8, ProductStep, SMT
<1>10. Product[10] \in Limbs /\ Val(Product[10]) = 30000000000
  BY <1>9, ProductStep, SMT
<1>11. Product[11] \in Limbs /\ Val(Product[11]) = 60000000000
  BY <1>10, ProductStep, SMT
<1>12. Product[12] \in Limbs /\ Val(Product[12]) = 120000000000
  BY <1>11, ProductStep, SMT
<1>13. Product[13] \in Limbs /\ Val(Product[13]) = 240000000000
  BY <1>12, ProductStep, SMT
<1>14. Product[14] \in Limbs /\ Val(Product[14]) = 480000000000
  BY <1>13, ProductStep, SMT
<1>15. Product[15] \in Limbs /\ Val(Product[15]) = 960000000000
  BY <1>14, ProductStep, SMT
<1>16. Product[16] \in Limbs /\ Val(Product[16]) = 1920000000000
  BY <1>15, ProductStep, SMT
<1>17. Product[17] \in Limbs /\ Val(Product[17]) = 3840000000000
  BY <1>16, ProductStep, SMT
<1>18. Product[18] \in Limbs /\ Val(Product[18]) = 7680000000000
  BY <1>17, ProductStep, SMT
<1>19. Product[19] \in Limbs /\ Val(Product[19]) = 15360000000000
  BY <1>18, ProductStep, SMT
<1>20. Product[20] \in Limbs /\ Val(Product[20]) = 30720000000000
  BY <1>19, ProductStep, SMT
<1>21. Product[21] \in Limbs /\ Val(Product[21]) = 61440000000000
  BY <1>20, ProductStep, SMT
<1>22. Product[22] \in Limbs /\ Val(Product[22]) = 122880000000000
  BY <1>21, ProductStep, SMT
<1>23. Product[23] \in Limbs /\ Val(Product[23]) = 245760000000000
  BY <1>22, ProductStep, SMT
<1>24. Product[24] \in Limbs /\ Val(Product[24]) = 491520000000000
  BY <1>23, ProductStep, SMT
<1>25. Product[25] \in Limbs /\ Val(Product[25]) = 983040000000000
  BY <1>24, ProductStep, SMT
<1>26. Product[26] \in Limbs /\ Val(Product[26]) = 1966080000000000
  BY <1>25, ProductStep, SMT
<1>27. Product[27] \in Limbs /\ Val(Product[27]) = 3932160000000000
  BY <1>26, ProductStep, SMT
<1>28. Product[28] \in Limbs /\ Val(Product[28]) = 7864320000000000
  BY <1>27, ProductStep, SMT
<1> QED
  BY <1>0, <1>1, <1>2, <1>3, <1>4, <1>5, <1>6, <1>7, <1>8, <1>9, <1>10, <1>11,
     <1>12, <1>13, <1>14, <1>15, <1>16, <1>17, <1>18, <1>19, <1>20, <1>21, <1>22,
     <1>23, <1>24, <1>25, <1>26, <1>27, <1>28, SMT

\* A product that asks for no wait: zero, or with its top bit set.
Void(d) == Val(d) = 0 \/ Val(d) >= 9007199254740992

\* The products that wrap, up to the last one that is not zero.
LEMMA WrappedProducts ==
    \A n \in 29..54 :
        /\ Product[n] \in Limbs
        /\ IF n \in {29, 30, 32, 33, 34, 35, 36, 37, 42, 46, 47, 48, 50, 52, 53, 54}
             THEN Void(Product[n])
             ELSE Val(Product[n]) < 9007199254740992 /\ Val(Product[n]) >= 60000000000
        /\ n = 54 => Val(Product[n]) = 0
<1>28. Product[28] \in Limbs /\ Val(Product[28]) = 7864320000000000
  BY ProductValues, SMT
<1>29. Product[29] \in Limbs /\ Val(Product[29]) = 15728640000000000
  BY <1>28, ProductStep, SMT
<1>30. Product[30] \in Limbs /\ Val(Product[30]) = 13442881490518016
  BY <1>29, ProductStep, SMT
<1>31. Product[31] \in Limbs /\ Val(Product[31]) = 8871364471554048
  BY <1>30, ProductStep, SMT
<1>32. Product[32] \in Limbs /\ Val(Product[32]) = 17742728943108096
  BY <1>31, ProductStep, SMT
<1>33. Product[33] \in Limbs /\ Val(Product[33]) = 17471059376734208
  BY <1>32, ProductStep, SMT
<1>34. Product[34] \in Limbs /\ Val(Product[34]) = 16927720243986432
  BY <1>33, ProductStep, SMT
<1>35. Product[35] \in Limbs /\ Val(Product[35]) = 15841041978490880
  BY <1>34, ProductStep, SMT
<1>36. Product[36] \in Limbs /\ Val(Product[36]) = 13667685447499776
  BY <1>35, ProductStep, SMT
<1>37. Product[37] \in Limbs /\ Val(Product[37]) = 9320972385517568
  BY <1>36, ProductStep, SMT
<1>38. Product[38] \in Limbs /\ Val(Product[38]) = 627546261553152
  BY <1>37, ProductStep, SMT
<1>39. Product[39] \in Limbs /\ Val(Product[39]) = 1255092523106304
  BY <1>38, ProductStep, SMT
<1>40. Product[40] \in Limbs /\ Val(Product[40]) = 2510185046212608
  BY <1>39, ProductStep, SMT
<1>41. Product[41] \in Limbs /\ Val(Product[41]) = 5020370092425216
  BY <1>40, ProductStep, SMT
<1>42. Product[42] \in Limbs /\ Val(Product[42]) = 10040740184850432
  BY <1>41, ProductStep, SMT
<1>43. Product[43] \in Limbs /\ Val(Product[43]) = 2067081860218880
  BY <1>42, ProductStep, SMT
<1>44. Product[44] \in Limbs /\ Val(Product[44]) = 4134163720437760
  BY <1>43, ProductStep, SMT
<1>45. Product[45] \in Limbs /\ Val(Product[45]) = 8268327440875520
  BY <1>44, ProductStep, SMT
<1>46. Product[46] \in Limbs /\ Val(Product[46]) = 16536654881751040
  BY <1>45, ProductStep, SMT
<1>47. Product[47] \in Limbs /\ Val(Product[47]) = 15058911254020096
  BY <1>46, ProductStep, SMT
<1>48. Product[48] \in Limbs /\ Val(Product[48]) = 12103423998558208
  BY <1>47, ProductStep, SMT
<1>49. Product[49] \in Limbs /\ Val(Product[49]) = 6192449487634432
  BY <1>48, ProductStep, SMT
<1>50. Product[50] \in Limbs /\ Val(Product[50]) = 12384898975268864
  BY <1>49, ProductStep, SMT
<1>51. Product[51] \in Limbs /\ Val(Product[51]) = 6755399441055744
  BY <1>50, ProductStep, SMT
<1>52. Product[52] \in Limbs /\ Val(Product[52]) = 13510798882111488
  BY <1>51, ProductStep, SMT
<1>53. Product[53] \in Limbs /\ Val(Product[53]) = 9007199254740992
  BY <1>52, ProductStep, SMT
<1>54. Product[54] \in Limbs /\ Val(Product[54]) = 0
  BY <1>53, ProductStep, SMT
<1> QED
  BY <1>29, <1>30, <1>31, <1>32, <1>33, <1>34, <1>35, <1>36, <1>37, <1>38, <1>39,
     <1>40, <1>41, <1>42, <1>43, <1>44, <1>45, <1>46, <1>47, <1>48, <1>49, <1>50,
     <1>51, <1>52, <1>53, <1>54, SMT DEF Void

\* From then on nothing is left of the product.
LEMMA ZeroProducts == \A n \in Nat : n >= 54 => Product[n] \in Limbs /\ Val(Product[n]) = 0
<1> DEFINE T == {n \in Nat : n >= 54 /\ ~(Product[n] \in Limbs /\ Val(Product[n]) = 0)}
<1> SUFFICES ASSUME T # {} PROVE FALSE
  OBVIOUS
<1>1. PICK n \in T : \A k \in T : n <= k
  BY LeastNumber
<1>2. Product[54] \in Limbs /\ Val(Product[54]) = 0
  BY WrappedProducts, SMT
<1>3. n # 54
  BY <1>1, <1>2
<1>4. n - 1 \in Nat /\ n - 1 >= 54 /\ n - 1 \notin T
  BY <1>1, <1>3
<1>5. Product[n - 1] \in Limbs /\ Val(Product[n - 1]) = 0
  BY <1>4
<1>6. Product[(n - 1) + 1] \in Limbs /\ Val(Product[(n - 1) + 1]) = 0
  BY <1>4, <1>5, ProductStep, SMT
<1>7. (n - 1) + 1 = n
  BY <1>1, SMT
<1> QED
  BY <1>1, <1>6, <1>7

-----------------------------------------------------------------------------
(* Powers of two, as far as the cap.                                       *)

\* The first powers.
LEMMA SmallPowers ==
    \A n \in 0..MaxDoublings :
        /\ n = 0 => 2 ^ n = 1
        /\ n = 1 => 2 ^ n = 2
        /\ n = 2 => 2 ^ n = 4
        /\ n = 3 => 2 ^ n = 8
        /\ n = 4 => 2 ^ n = 16
        /\ n = 5 => 2 ^ n = 32
        /\ n = 6 => 2 ^ n = 64
        /\ n = 7 => 2 ^ n = 128
        /\ n = 8 => 2 ^ n = 256
        /\ n = 9 => 2 ^ n = 512
        /\ n = 10 => 2 ^ n = 1024
        /\ n = 11 => 2 ^ n = 2048
<1>0. \A n \in 0..MaxDoublings : n = 0 => 2 ^ n = 1
  BY PowersAssumption
<1>1. \A n \in 0..MaxDoublings : n = 1 => 2 ^ n = 2
  BY <1>0, PowersAssumption, BoundsAreNaturals
<1>2. \A n \in 0..MaxDoublings : n = 2 => 2 ^ n = 4
  BY <1>1, PowersAssumption, BoundsAreNaturals
<1>3. \A n \in 0..MaxDoublings : n = 3 => 2 ^ n = 8
  BY <1>2, PowersAssumption, BoundsAreNaturals
<1>4. \A n \in 0..MaxDoublings : n = 4 => 2 ^ n = 16
  BY <1>3, PowersAssumption, BoundsAreNaturals
<1>5. \A n \in 0..MaxDoublings : n = 5 => 2 ^ n = 32
  BY <1>4, PowersAssumption, BoundsAreNaturals
<1>6. \A n \in 0..MaxDoublings : n = 6 => 2 ^ n = 64
  BY <1>5, PowersAssumption, BoundsAreNaturals
<1>7. \A n \in 0..MaxDoublings : n = 7 => 2 ^ n = 128
  BY <1>6, PowersAssumption, BoundsAreNaturals
<1>8. \A n \in 0..MaxDoublings : n = 8 => 2 ^ n = 256
  BY <1>7, PowersAssumption, BoundsAreNaturals
<1>9. \A n \in 0..MaxDoublings : n = 9 => 2 ^ n = 512
  BY <1>8, PowersAssumption, BoundsAreNaturals
<1>10. \A n \in 0..MaxDoublings : n = 10 => 2 ^ n = 1024
  BY <1>9, PowersAssumption, BoundsAreNaturals
<1>11. \A n \in 0..MaxDoublings : n = 11 => 2 ^ n = 2048
  BY <1>10, PowersAssumption, BoundsAreNaturals
<1> QED
  BY <1>0, <1>1, <1>2, <1>3, <1>4, <1>5, <1>6, <1>7, <1>8, <1>9, <1>10, <1>11

\* The constants of the timer, and the counts without a wait among the numbers.
LEMMA TimerConstants ==
    /\ MaxAttempts = 52 /\ MaxDoublings = 11 /\ MaxBackoff = 1440
    /\ \A n \in Nat :
          NoWait(n) <=> \/ n \in {29, 30, 32, 33, 34, 35, 36, 37, 42, 46, 47, 48, 50}
                        \/ n >= 52
<1>1. /\ MaxAttempts = 52 /\ MaxDoublings = 11 /\ MaxBackoff = 1440
      /\ Wrapped = {29, 30, 32, 33, 34, 35, 36, 37, 42, 46, 47, 48, 50, 52}
  BY RetryAssumption
<1> QED
  BY <1>1, SMT DEF NoWait

\* What the policy asks for, as numbers.
LEMMA PolicyValues ==
    \A n \in Nat :
        /\ PolicyWait(n) \in Nat /\ PolicyWait(n) <= 1440
        /\ n = 0 => PolicyWait(n) = 1
        /\ n = 1 => PolicyWait(n) = 2
        /\ n = 2 => PolicyWait(n) = 4
        /\ n = 3 => PolicyWait(n) = 8
        /\ n = 4 => PolicyWait(n) = 16
        /\ n = 5 => PolicyWait(n) = 32
        /\ n = 6 => PolicyWait(n) = 64
        /\ n = 7 => PolicyWait(n) = 128
        /\ n = 8 => PolicyWait(n) = 256
        /\ n = 9 => PolicyWait(n) = 512
        /\ n = 10 => PolicyWait(n) = 1024
        /\ n > 10 => PolicyWait(n) = 1440
<1> SUFFICES ASSUME NEW n \in Nat
             PROVE  /\ n <= 10 => n \in 0..MaxDoublings /\ PolicyWait(n) = 2 ^ n
                    /\ n > 10 => PolicyWait(n) = 1440
  BY SmallPowers
<1> QED
  BY TimerConstants DEF PolicyWait

-----------------------------------------------------------------------------
(* The decision.                                                           *)

\* Every product, told apart by whether it has wrapped.
LEMMA EveryProduct ==
    ASSUME NEW n \in Nat
    PROVE  /\ Product[n] \in Limbs /\ Val(Product[n]) \in Nat
           /\ NoWait(n) => Void(Product[n])
           /\ ~NoWait(n) => Val(Product[n]) < 9007199254740992
           /\ ~NoWait(n) /\ n > 10 => Val(Product[n]) >= 60000000000
<1>1. CASE n <= 28
  <2>1. n \in 0..28 /\ ~NoWait(n)
    BY <1>1, TimerConstants, SMT
  <2> QED
    BY <2>1, ProductValues, ValType, SMT
<1>2. CASE n \in 29..54
  <2>1. NoWait(n) <=> n \in {29, 30, 32, 33, 34, 35, 36, 37, 42, 46, 47, 48, 50, 52, 53, 54}
    BY <1>2, TimerConstants, SMT
  <2> QED
    BY <1>2, <2>1, WrappedProducts, ValType, SMT
<1>3. CASE n > 54
  <2>1. NoWait(n) /\ n >= 54
    BY <1>3, TimerConstants, SMT
  <2> QED
    BY <2>1, ZeroProducts, ValType, SMT DEF Void
<1> QED
  BY <1>1, <1>2, <1>3, SMT

\* Where it has not, the capped product is the wait of the policy, in units of
\* 1024 ns.
LEMMA WaitVal ==
    ASSUME NEW n \in Nat, ~NoWait(n)
    PROVE  BackoffDuration(n) \in Limbs /\ Val(BackoffDuration(n)) = 29296875 * PolicyWait(n)
<1>1. Product[n] \in Limbs /\ Val(Product[n]) \in Nat /\ Val(Product[n]) < 9007199254740992
  BY EveryProduct, SMT
<1>2. maxBackoff \in Limbs /\ Val(maxBackoff) = 42187500000
  BY ConstantsVal, SMT
<1>3. Less(maxBackoff, Product[n]) <=> 42187500000 < Val(Product[n])
  BY <1>1, <1>2, LessVal, SMT
<1>4. CASE n > 10
  <2>1. Val(Product[n]) >= 60000000000 /\ PolicyWait(n) = 1440
    BY <1>4, EveryProduct, PolicyValues, SMT
  <2>2. BackoffDuration(n) = maxBackoff
    BY <1>1, <1>3, <2>1, SMT DEF BackoffDuration
  <2> QED
    BY <1>2, <2>1, <2>2, SMT
<1>5. CASE n <= 10
  <2>1. Val(Product[n]) = 29296875 * PolicyWait(n) /\ Val(Product[n]) <= 42187500000
    BY <1>5, ProductValues, PolicyValues, SMT
  <2>2. BackoffDuration(n) = Product[n]
    BY <1>1, <1>3, <2>1, SMT DEF BackoffDuration
  <2> QED
    BY <1>1, <2>1, <2>2, SMT
<1> QED
  BY <1>4, <1>5, SMT

\* Where it has wrapped, it passes below the cap, and nothing is too early.
LEMMA NeverTooEarly ==
    ASSUME NEW n \in Nat, NoWait(n), NEW d \in Limbs, Val(d) < 9007199254740992
    PROVE  ~Less(d, BackoffDuration(n))
<1>1. Product[n] \in Limbs /\ Val(Product[n]) \in Nat /\ Void(Product[n])
  BY EveryProduct, SMT
<1>2. ASSUME NEW e \in Limbs, Val(e) < 9007199254740992
      PROVE  ~Less(e, Product[n])
  <2>1. CASE Val(Product[n]) = 0
    <3>1. Less(e, Product[n]) <=> Val(e) < 0
      BY <1>1, <1>2, <2>1, LessVal, SMT
    <3> QED
      BY <1>2, <3>1, ValType, SMT
  <2>2. CASE Val(Product[n]) >= 9007199254740992
    BY <1>1, <1>2, <2>2, NotLessVal, SMT
  <2> QED
    BY <1>1, <2>1, <2>2, SMT DEF Void
<1>3. maxBackoff \in Limbs /\ Val(maxBackoff) < 9007199254740992
  BY ConstantsVal, SMT
<1>4. BackoffDuration(n) = Product[n]
  BY <1>2, <1>3, SMT DEF BackoffDuration
<1> QED
  BY <1>2, <1>4, SMT

\* Both clocks show the same time.
Clock == Val(elapsed) = 29296875 * age

IInv == TypeOK /\ Clock

\* No duration, and a clock that was just started.
LEMMA ZeroVal == Duration(0, 0) \in Limbs /\ Val(Duration(0, 0)) = 0
<1>1. Limb(0)
  BY SMT DEF Limb
<1> QED
  BY <1>1, DurationType, SMT

\* The types, with the set of durations named.
LEMMA TypeParts ==
    TypeOK <=> /\ attempts \in 0..AttemptBound /\ lib \in ConnectionStates
               /\ elapsed \in Limbs /\ age \in 0..1440
BY DEF TypeOK, Limbs

\* The same of the next state.
LEMMA TypePartsNext ==
    TypeOK' <=> /\ attempts' \in 0..AttemptBound /\ lib' \in ConnectionStates
                /\ elapsed' \in Limbs /\ age' \in 0..1440
BY DEF TypeOK, Limbs

\* The clocks start together.
LEMMA InitInv == Init => IInv
<1> SUFFICES ASSUME Init PROVE IInv
  OBVIOUS
<1>1. attempts \in 0..AttemptBound /\ age \in 0..1440 /\ age = 0 /\ elapsed = Duration(0, 0)
  BY RetryAssumption DEF Init
<1>2. lib \in ConnectionStates
  BY DEF Init, ConnectionStates
<1>3. TypeOK
  BY <1>1, <1>2, ZeroVal, TypeParts
<1> QED
  BY <1>1, <1>3, ZeroVal DEF IInv, Clock

\* They run together, and are started afresh together.
LEMMA StepInv == IInv /\ [Next]_vars => IInv'
<1> SUFFICES ASSUME IInv, [Next]_vars PROVE IInv'
  OBVIOUS
<1>0. /\ attempts \in 0..AttemptBound /\ lib \in ConnectionStates
      /\ elapsed \in Limbs /\ age \in 0..1440 /\ Val(elapsed) = 29296875 * age
      /\ AttemptBound \in Nat
  BY TypeParts, RetryAssumption DEF IInv, Clock
<1>1. CASE Tick
  <2>1. Val(initialBackoff) = 29296875 /\ initialBackoff \in Limbs
    BY ConstantsVal
  <2>2. Val(elapsed) + 29296875 < 18014398509481984
    BY <1>0, SMT
  <2>3. elapsed' \in Limbs /\ Val(elapsed') = Val(elapsed) + 29296875
    BY <1>0, <1>1, <2>1, <2>2, AddVal, SMT DEF Tick
  <2>4. age' \in 0..1440 /\ age' = age + 1 /\ attempts' = attempts /\ lib' = lib
    BY <1>0, <1>1 DEF Tick
  <2>5. TypeOK'
    BY <1>0, <2>3, <2>4, TypePartsNext
  <2>6. Clock'
    BY <1>0, <2>3, <2>4, SMT DEF Clock
  <2> QED
    BY <2>5, <2>6 DEF IInv
<1>2. ASSUME elapsed' = Duration(0, 0), age' = 0,
             attempts' \in 0..AttemptBound, lib' \in ConnectionStates
      PROVE  IInv'
  <2>1. TypeOK'
    BY <1>2, ZeroVal, TypePartsNext
  <2> QED
    BY <1>2, <2>1, ZeroVal DEF IInv, Clock
<1>3. CASE Resend
  BY <1>0, <1>2, <1>3 DEF Resend, SentStates, ConnectionStates
<1>4. ASSUME NEW state \in ConnectionStates, UpdateState(state)
      PROVE  IInv'
  BY <1>0, <1>2, <1>4 DEF UpdateState
<1>5. CASE UNCHANGED vars
  BY <1>5 DEF vars, IInv, TypeOK, Clock, Val
<1> QED
  BY <1>1, <1>3, <1>4, <1>5 DEF Next

\* In a state where the clocks agree the code decides as BackoffFollowsPolicy
\* says.
LEMMA Decides ==
    ASSUME IInv
    PROVE  BackoffFollowsPolicy
<1>1. /\ attempts \in Nat /\ elapsed \in Limbs
      /\ age \in Nat /\ age <= 1440 /\ Val(elapsed) = 29296875 * age
  BY TypeParts, RetryAssumption, SMT DEF IInv, Clock
<1>2. PolicyWait(attempts) \in Nat /\ PolicyWait(attempts) <= 1440
  BY <1>1, PolicyValues, SMT
<1>3. Val(elapsed) < 9007199254740992
  BY <1>1, SMT
<1>4. CASE NoWait(attempts)
  BY <1>1, <1>3, <1>4, NeverTooEarly, SMT DEF TooEarly, BackoffFollowsPolicy
<1>5. CASE ~NoWait(attempts)
  <2>1. /\ BackoffDuration(attempts) \in Limbs
        /\ Val(BackoffDuration(attempts)) = 29296875 * PolicyWait(attempts)
    BY <1>1, <1>5, WaitVal, SMT
  <2>2. Val(BackoffDuration(attempts)) < 9007199254740992
    BY <1>2, <2>1, SMT
  <2>3. TooEarly <=> Val(elapsed) < Val(BackoffDuration(attempts))
    BY <1>1, <1>3, <2>1, <2>2, LessVal, SMT DEF TooEarly
  <2>4. TooEarly <=> age < PolicyWait(attempts)
    BY <1>1, <1>2, <2>1, <2>3, SMT
  <2> QED
    BY <1>5, <2>4, SMT DEF BackoffFollowsPolicy
<1> QED
  BY <1>4, <1>5, SMT

\* The counters and both limbs of the clock stay in their ranges.
THEOREM TypeCorrect == Spec => []TypeOK
<1>1. IInv => TypeOK
  BY DEF IInv
<1> QED
  BY <1>1, InitInv, StepInv, PTL DEF Spec

\* At every number of attempts the wrapping product of IsRequestTooEarly, its
\* cap and the comparison ask for the doubling wait, capped at twelve hours,
\* or, at exactly the counts of NoWait, for none.
THEOREM ArithmeticFollowsPolicy == Spec => []BackoffFollowsPolicy
<1>1. IInv => BackoffFollowsPolicy
  BY Decides
<1> QED
  BY <1>1, InitInv, StepInv, PTL DEF Spec

-----------------------------------------------------------------------------
(* The table in place of the timer.                                        *)

\* The attempts the table counts.
Counted(n) == IF n < MaxAttempts THEN n ELSE MaxAttempts

\* An entry that shows n attempts.
Entry(n, l, t) ==
    [valid |-> TRUE, rdv |-> "SendOK", lib |-> l, attempts |-> n,
     since |-> t, msg |-> Request, addr |-> "none"]

TableEntry(n, l, t) == Entry(Counted(n), l, t)

\* The fields of an entry.
LEMMA EntryFields ==
    ASSUME NEW n, NEW l, NEW t
    PROVE  /\ DOMAIN Entry(n, l, t)
                = {"valid", "rdv", "lib", "attempts", "since", "msg", "addr"}
           /\ Entry(n, l, t).rdv = "SendOK"
           /\ Entry(n, l, t).lib = l /\ Entry(n, l, t).attempts = n
           /\ Entry(n, l, t).since = t /\ Entry(n, l, t).msg = Request
           /\ Entry(n, l, t).addr = "none"
BY DEF Entry

\* An entry that has become older.
LEMMA AgedEntry ==
    ASSUME NEW n, NEW l, NEW t, NEW u
    PROVE  [Entry(n, l, t) EXCEPT !.since = u] = Entry(n, l, u)
<1> DEFINE r == Entry(n, l, t)
           e == [r EXCEPT !.since = u]
<1>1. /\ DOMAIN r = {"valid", "rdv", "lib", "attempts", "since", "msg", "addr"}
      /\ r.rdv = "SendOK" /\ r.lib = l /\ r.attempts = n /\ r.since = t
      /\ r.msg = Request /\ r.addr = "none"
  BY EntryFields
<1>2. r.valid = TRUE
  BY DEF Entry
<1> HIDE DEF r
<1>3. /\ DOMAIN e = {"valid", "rdv", "lib", "attempts", "since", "msg", "addr"}
      /\ e.rdv = "SendOK" /\ e.lib = l /\ e.attempts = n /\ e.since = u
      /\ e.msg = Request /\ e.addr = "none"
  BY <1>1
<1>4. e.valid = TRUE
  BY <1>1, <1>2
<1>5. e = [x \in DOMAIN e |-> e[x]]
  OBVIOUS
<1> HIDE DEF e
<1>6. e = Entry(n, l, u)
  BY <1>3, <1>4, <1>5 DEF Entry
<1> QED
  BY <1>6 DEF e, r

\* The updates of IncrementReconnectAttempts and of UpdateBufferLibP2PState.
CountUp(r, m, u) == [r EXCEPT !.attempts = m, !.since = u]

\* An entry that has counted an attempt.
LEMMA CountedEntry ==
    ASSUME NEW n, NEW l, NEW t, NEW m, NEW u
    PROVE  CountUp(Entry(n, l, t), m, u) = Entry(m, l, u)
<1> DEFINE r == Entry(n, l, t)
           e == [r EXCEPT !.attempts = m, !.since = u]
<1>1. /\ DOMAIN r = {"valid", "rdv", "lib", "attempts", "since", "msg", "addr"}
      /\ r.rdv = "SendOK" /\ r.lib = l /\ r.attempts = n /\ r.since = t
      /\ r.msg = Request /\ r.addr = "none"
  BY EntryFields
<1>2. r.valid = TRUE
  BY DEF Entry
<1> HIDE DEF r
<1>3. /\ DOMAIN e = {"valid", "rdv", "lib", "attempts", "since", "msg", "addr"}
      /\ e.rdv = "SendOK" /\ e.lib = l /\ e.attempts = m /\ e.since = u
      /\ e.msg = Request /\ e.addr = "none"
  BY <1>1
<1>4. e.valid = TRUE
  BY <1>1, <1>2
<1>5. e = [x \in DOMAIN e |-> e[x]]
  OBVIOUS
<1> HIDE DEF e
<1>6. e = Entry(m, l, u)
  BY <1>3, <1>4, <1>5 DEF Entry
<1> QED
  BY <1>6 DEF e, r, CountUp

MoveTo(r, k, m, u) == [r EXCEPT !.lib = k, !.attempts = m, !.since = u]

\* An entry that has learned the state of the connection.
LEMMA MovedEntry ==
    ASSUME NEW n, NEW l, NEW t, NEW k, NEW m, NEW u
    PROVE  MoveTo(Entry(n, l, t), k, m, u) = Entry(m, k, u)
<1> DEFINE r == Entry(n, l, t)
           e == [r EXCEPT !.lib = k, !.attempts = m, !.since = u]
<1>1. /\ DOMAIN r = {"valid", "rdv", "lib", "attempts", "since", "msg", "addr"}
      /\ r.rdv = "SendOK" /\ r.lib = l /\ r.attempts = n /\ r.since = t
      /\ r.msg = Request /\ r.addr = "none"
  BY EntryFields
<1>2. r.valid = TRUE
  BY DEF Entry
<1> HIDE DEF r
<1>3. /\ DOMAIN e = {"valid", "rdv", "lib", "attempts", "since", "msg", "addr"}
      /\ e.rdv = "SendOK" /\ e.lib = k /\ e.attempts = m /\ e.since = u
      /\ e.msg = Request /\ e.addr = "none"
  BY <1>1
<1>4. e.valid = TRUE
  BY <1>1, <1>2
<1>5. e = [x \in DOMAIN e |-> e[x]]
  OBVIOUS
<1> HIDE DEF e
<1>6. e = Entry(m, k, u)
  BY <1>3, <1>4, <1>5 DEF Entry
<1> QED
  BY <1>6 DEF e, r, MoveTo

\* The wait of the table is that of the timer, at counts beyond its last too.
LEMMA TableWaits ==
    ASSUME NEW n \in Nat
    PROVE  Backoff(Counted(n)) = IF NoWait(n) THEN 0 ELSE PolicyWait(n)
<1>1. MaxAttempts = 52 /\ MaxDoublings = 11 /\ MaxBackoff = 1440 /\ 52 \in Wrapped
  BY RetryAssumption
<1>2. CASE n >= 52
  <2>1. Counted(n) = 52 /\ NoWait(n)
    BY <1>1, <1>2 DEF Counted, NoWait
  <2> QED
    BY <1>1, <2>1 DEF Backoff
<1>3. CASE n < 52
  <2>1. Counted(n) = n /\ (NoWait(n) <=> n \in Wrapped)
    BY <1>1, <1>3 DEF Counted, NoWait
  <2>2. CASE n \in Wrapped
    BY <2>1, <2>2 DEF Backoff
  <2>3. CASE n \notin Wrapped /\ n <= 10
    <3>1. n \in 0..MaxDoublings /\ Doublings(n) = n
      BY <1>1, <2>3 DEF Doublings
    <3>2. 2 ^ n \in 1..1024
      <4>1. n \in 0..10
        BY <2>3
      <4> QED
        BY <3>1, <4>1, SmallPowers, SMT
    <3>3. PolicyWait(n) = 2 ^ n /\ ~(2 ^ n > 1440)
      BY <2>3, <3>2 DEF PolicyWait
    <3> QED
      BY <1>1, <2>1, <2>3, <3>1, <3>3 DEF Backoff
  <2>4. CASE n \notin Wrapped /\ n > 10
    <3>1. Doublings(n) = 11 /\ 2 ^ 11 = 2048
      BY <1>1, <2>4, SmallPowers DEF Doublings
    <3> QED
      BY <1>1, <2>1, <2>4, <3>1 DEF Backoff, PolicyWait
  <2> QED
    BY <2>2, <2>3, <2>4
<1> QED
  BY <1>2, <1>3

\* What the table shows of the timer, now and in the next state.
LEMMA TableShape ==
    ASSUME IInv
    PROVE  /\ Peer \in Peers /\ table = [p \in Peers |-> TableEntry(attempts, lib, age)]
           /\ table' = [p \in Peers |-> TableEntry(attempts', lib', age')]
           /\ TableEntry(attempts, lib, age) \in NodeBufferInfo
           /\ table[Peer] = TableEntry(attempts, lib, age) /\ HasBuffer(table, Peer)
<1>1. Peer \in Peers
  BY RetryAssumption
<1>2. /\ table = [p \in Peers |-> TableEntry(attempts, lib, age)]
      /\ table' = [p \in Peers |-> TableEntry(attempts', lib', age')]
  BY DEF table, TableEntry, Entry, Counted
<1>3. TableEntry(attempts, lib, age) \in NodeBufferInfo
  <2>1. attempts \in Nat /\ lib \in ConnectionStates /\ age \in 0..1440
    BY TypeParts, RetryAssumption DEF IInv
  <2>2. Counted(attempts) \in 0..MaxAttempts /\ MaxBackoff = 1440
    BY <2>1, RetryAssumption DEF Counted
  <2> QED
    BY <2>1, <2>2 DEF TableEntry, Entry, NodeBufferInfo, RendezvousStates, Addresses, Request
<1>4. table[Peer] = TableEntry(attempts, lib, age)
  BY <1>1, <1>2
<1> QED
  BY <1>1, <1>2, <1>3, <1>4, NoBufferAssumption DEF HasBuffer

\* A table of the one peer is made of its entry.
LEMMA OnePeer == ASSUME NEW e, NEW f PROVE [[p \in Peers |-> e] EXCEPT ![Peer] = f] = [p \in Peers |-> f]
BY RetryAssumption

\* The entry is one of NodeBuffers'.
LEMMA EntryIsBuffer ==
    ASSUME NEW n \in 0..MaxAttempts, NEW l \in ConnectionStates, NEW t \in 0..MaxBackoff
    PROVE  Entry(n, l, t) \in NodeBufferInfo /\ Entry(n, l, t) # NoBuffer
<1>1. Entry(n, l, t) \in NodeBufferInfo
  BY DEF Entry, NodeBufferInfo, RendezvousStates, Addresses, Request
<1> QED
  BY <1>1, NoBufferAssumption

\* A table of such entries, and what the operations make of it.
TableOf(n, l, t) == [p \in Peers |-> Entry(n, l, t)]

\* IncrementReconnectAttempts counts, and restarts the clock.
LEMMA CountedTable ==
    ASSUME NEW n \in 0..MaxAttempts, NEW l \in ConnectionStates, NEW t \in 0..MaxBackoff,
           NEW m, m = CappedSucc(n, MaxAttempts)
    PROVE  IncrementReconnectAttempts(TableOf(n, l, t), Peer)
             = TableOf(m, l, 0)
<1> DEFINE e == Entry(n, l, t)
           b == [p \in Peers |-> e]
<1>1. e \in NodeBufferInfo /\ e # NoBuffer /\ e.attempts = n
  BY EntryIsBuffer, EntryFields
<1>2. CountUp(e, m, 0) = Entry(m, l, 0)
  BY CountedEntry
<1>3. Peer \in Peers /\ b[Peer] = e
  BY RetryAssumption
<1>4. [b EXCEPT ![Peer] = CountUp(e, m, 0)] = [p \in Peers |-> CountUp(e, m, 0)]
  BY OnePeer
<1> HIDE DEF e
<1>5. IncrementReconnectAttempts(b, Peer) = [b EXCEPT ![Peer] = CountUp(e, m, 0)]
  BY <1>1, <1>3 DEF IncrementReconnectAttempts, HasBuffer, CountUp, NodeBufferInfo
<1> QED
  BY <1>2, <1>4, <1>5 DEF e, TableOf

\* UpdateBufferLibP2PState: a connection forgets the attempts.
LEMMA MovedTable ==
    ASSUME NEW n \in 0..MaxAttempts, NEW l \in ConnectionStates, NEW t \in 0..MaxBackoff,
           NEW state \in ConnectionStates, NEW m, m = IF state = "Connected" THEN 0 ELSE n
    PROVE  UpdateBufferLibP2PState(TableOf(n, l, t), Peer, state)
             = TableOf(m, state, 0)
<1> DEFINE e == Entry(n, l, t)
           b == [p \in Peers |-> e]
<1>1. e \in NodeBufferInfo /\ e # NoBuffer /\ e.attempts = n
  BY EntryIsBuffer, EntryFields
<1>2. MoveTo(e, state, m, 0) = Entry(m, state, 0)
  BY MovedEntry
<1>3. Peer \in Peers /\ b[Peer] = e
  BY RetryAssumption
<1>4. [b EXCEPT ![Peer] = MoveTo(e, state, m, 0)] = [p \in Peers |-> MoveTo(e, state, m, 0)]
  BY OnePeer
<1> HIDE DEF e
<1>5. UpdateBufferLibP2PState(b, Peer, state) = [b EXCEPT ![Peer] = MoveTo(e, state, m, 0)]
  BY <1>1, <1>3 DEF UpdateBufferLibP2PState, HasBuffer, MoveTo, NodeBufferInfo
<1> QED
  BY <1>2, <1>4, <1>5 DEF e, TableOf

\* Each step of the timer is one of the table.
LEMMA StepTable ==
    ASSUME IInv, [Next]_vars
    PROVE  [TableNext]_table
<1> DEFINE e == TableEntry(attempts, lib, age)
<1>0. /\ Peer \in Peers /\ table = [p \in Peers |-> e]
      /\ table = TableOf(Counted(attempts), lib, age)
      /\ table' = TableOf(Counted(attempts'), lib', age')
      /\ table' = [p \in Peers |-> TableEntry(attempts', lib', age')]
      /\ e \in NodeBufferInfo /\ table[Peer] = e /\ HasBuffer(table, Peer)
      /\ \A p \in Peers : p = Peer
  BY TableShape, RetryAssumption DEF TableEntry, TableOf
<1>1. attempts \in Nat /\ age \in 0..1440
  BY TypeParts, RetryAssumption DEF IInv
<1>2. MaxAttempts \in Nat /\ MaxAttempts = 52 /\ MaxBackoff = 1440
  BY RetryAssumption
<1>t. /\ Counted(attempts) \in 0..MaxAttempts /\ lib \in ConnectionStates
      /\ age \in 0..MaxBackoff
  BY <1>1, <1>2, TypeParts DEF IInv, Counted
<1>3. CASE Tick
  <2>1. TableEntry(attempts', lib', age') = [e EXCEPT !.since = CappedSucc(@, MaxBackoff)]
    <3>1. age' = CappedSucc(age, MaxBackoff) /\ attempts' = attempts /\ lib' = lib
      BY <1>1, <1>2, <1>3 DEF Tick, CappedSucc
    <3>3. e.since = age /\ [e EXCEPT !.since = CappedSucc(age, MaxBackoff)]
                            = TableEntry(attempts, lib, CappedSucc(age, MaxBackoff))
      BY EntryFields, AgedEntry DEF TableEntry
    <3> QED
      BY <3>1, <3>3
  <2>2. AgeBuffers(table) = [p \in Peers |-> [e EXCEPT !.since = CappedSucc(@, MaxBackoff)]]
    <3> HIDE DEF e
    <3> QED
      BY <1>0 DEF AgeBuffers
  <2> QED
    BY <1>0, <2>1, <2>2 DEF TableNext
<1>4. CASE Resend
  <2>1. ~IsRequestTooEarly(table, Peer)
    <3>1. ~(~NoWait(attempts) /\ age < PolicyWait(attempts))
      BY <1>4, Decides DEF Resend, BackoffFollowsPolicy
    <3>2. e.since = age /\ e.attempts = Counted(attempts)
      BY EntryFields DEF TableEntry
    <3> HIDE DEF e
    <3> QED
      BY <1>0, <1>1, <3>1, <3>2, TableWaits DEF IsRequestTooEarly
  <2>2. lib' \in SentStates /\ lib' \in ConnectionStates /\ lib' # "Connected" /\ age' = 0
    BY <1>4 DEF Resend, SentStates, ConnectionStates
  <2>3. Counted(attempts') = CappedSucc(Counted(attempts), MaxAttempts)
    BY <1>1, <1>2, <1>4 DEF Resend, CappedSucc, Counted
  <2>4. CappedSucc(Counted(attempts), MaxAttempts) \in 0..MaxAttempts /\ 0 \in 0..MaxBackoff
    BY <1>2, <1>t DEF CappedSucc
  <2>5. PICK n \in 0..MaxAttempts : n = CappedSucc(Counted(attempts), MaxAttempts)
    BY <2>4
  <2>6. PICK state \in SentStates : state = lib'
    BY <2>2
  <2>7. UpdateBufferLibP2PState(IncrementReconnectAttempts(table, Peer), Peer, state)
          = TableOf(n, state, 0)
    <3>1. IncrementReconnectAttempts(table, Peer) = TableOf(n, lib, 0)
      BY <1>0, <1>t, <2>5, CountedTable DEF TableEntry
    <3>2. state \in ConnectionStates /\ state # "Connected"
      BY <2>2, <2>6
    <3>3. UpdateBufferLibP2PState(TableOf(n, lib, 0), Peer, state)
            = TableOf(n, state, 0)
      BY <1>t, <2>4, <3>2, MovedTable
    <3> QED
      BY <3>1, <3>3
  <2>8. table' = UpdateBufferLibP2PState(IncrementReconnectAttempts(table, Peer), Peer, state)
    BY <1>0, <2>2, <2>3, <2>5, <2>6, <2>7 DEF TableEntry
  <2> QED
    BY <2>1, <2>8 DEF TableNext
<1>5. ASSUME NEW state \in ConnectionStates, UpdateState(state)
      PROVE  TableNext
  <2>1. Counted(attempts') = IF state = "Connected" THEN 0 ELSE Counted(attempts)
    BY <1>1, <1>2, <1>5 DEF UpdateState, Counted
  <2>2. age' = 0 /\ lib' = state
    BY <1>5 DEF UpdateState
  <2>3. UpdateBufferLibP2PState(table, Peer, state)
          = TableOf(IF state = "Connected" THEN 0 ELSE Counted(attempts), state, 0)
    BY <1>0, <1>t, MovedTable DEF TableEntry
  <2>4. table' = UpdateBufferLibP2PState(table, Peer, state)
    BY <1>0, <2>1, <2>2, <2>3 DEF TableEntry
  <2> QED
    BY <2>4 DEF TableNext
<1>6. CASE UNCHANGED vars
  BY <1>0, <1>6 DEF vars
<1> QED
  BY <1>3, <1>4, <1>5, <1>6 DEF Next

\* The timer starts as the entry of a first request.
LEMMA InitTable == Init => table \in {FirstEntry, IncrementReconnectAttempts(FirstEntry, Peer)}
<1> SUFFICES ASSUME Init PROVE table \in {FirstEntry, IncrementReconnectAttempts(FirstEntry, Peer)}
  OBVIOUS
<1>1. table = [p \in Peers |-> TableEntry(attempts, lib, age)]
  BY InitInv, TableShape
<1>2. MaxAttempts \in Nat /\ MaxAttempts = 52 /\ MaxBackoff = 1440
  BY RetryAssumption
<1>3. CappedSucc(0, MaxAttempts) = 1 /\ CappedSucc(1, MaxAttempts) = 2
  BY <1>2 DEF CappedSucc
<1>4. FirstEntry = TableOf(1, "Connecting", 0)
  BY <1>3, OnePeer DEF FirstEntry, AddBuffer2, NewNodeBuffers, Entry, TableOf
<1>5. IncrementReconnectAttempts(FirstEntry, Peer) = TableOf(2, "Connecting", 0)
  <2>1. 1 \in 0..MaxAttempts /\ 0 \in 0..MaxBackoff /\ "Connecting" \in ConnectionStates
    BY <1>2 DEF ConnectionStates
  <2> QED
    BY <1>3, <1>4, <2>1, CountedTable
<1>6. Counted(attempts) \in {1, 2} /\ age = 0 /\ lib = "Connecting"
  BY <1>2 DEF Init, Counted
<1>7. table = TableOf(Counted(attempts), lib, age)
  BY <1>1 DEF TableEntry, TableOf
<1> QED
  BY <1>4, <1>5, <1>6, <1>7

\* At every number of attempts the timer with its 64-bit arithmetic is an
\* entry of the table that the models of buyer and seller use.
THEOREM TimerImplementsTable == Spec => ImplementsTable
<1>1. IInv /\ [Next]_vars => [TableNext]_table
  BY StepTable
<1> QED
  BY <1>1, InitInv, InitTable, StepInv, PTL DEF Spec, ImplementsTable
====
