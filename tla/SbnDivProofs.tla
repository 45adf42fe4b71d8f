---------------------------- MODULE SbnDivProofs ----------------------------
(***************************************************************************)
(* The scalar division of include/sbn_div.h is right, for words of every   *)
(* number of bits and operands of every length and content.  First the     *)
(* reciprocal of two words and the 3/2 division with it, then the kernels  *)
(* and the shifts on numbers of words, then the turns of the loop.         *)
(***************************************************************************)
EXTENDS SbnDiv, NumberProofs, FiniteSetTheorems, TLAPS

-----------------------------------------------------------------------------
(* Words *)

LEMMA WordBase ==
  /\ W \in Nat /\ W \in Nat \ {0} /\ W > 0 /\ W >= 2 /\ W = 2 * (W \div 2) /\ W \div 2 \in Nat
  /\ W \div 2 = Power(2, WordBits - 1)
<1> DEFINE k == WordBits - 1  p == Power(2, k)
<1>1. k \in Nat /\ WordBits = k + 1
  BY SbnAssumption
<1>2. p \in Nat /\ p > 0 /\ W = 2 * p
  <2> HIDE DEF k
  <2>1. Power(2, k + 1) = 2 * Power(2, k)
    BY <1>1, PowerSteps
  <2> QED BY <1>1, <2>1, PowerPositive DEF W
<1> HIDE DEF p
<1> QED BY <1>2 DEF p

(* A shift by c bits and the shift by the others make up a word. *)
LEMMA ShiftScales ==
  ASSUME NEW c \in 0 .. WordBits - 1
  PROVE  /\ Power(2, c) \in Nat \ {0} /\ Power(2, WordBits - c) \in Nat \ {0}
         /\ Power(2, c) * Power(2, WordBits - c) = W /\ Power(2, c) <= W \div 2
<1> DEFINE m == WordBits - c  d == WordBits - 1 - c  x == Power(2, c)  y == Power(2, m)  z == Power(2, d)
<1>1. c \in Nat /\ m \in Nat /\ d \in Nat /\ c + m = WordBits /\ c + d = WordBits - 1 /\ WordBits - 1 \in Nat
  BY SbnAssumption
<1>2. x \in Nat /\ x > 0 /\ y \in Nat /\ y > 0 /\ z \in Nat /\ z > 0
  <2>1. \A e \in Nat : Power(2, e) \in Nat /\ Power(2, e) > 0
    <3>1. 2 \in Nat /\ 2 > 0
      OBVIOUS
    <3> QED BY <3>1, PowerPositive, Zenon
  <2> HIDE DEF m, d
  <2> QED BY <1>1, <2>1
<1>3. x * y = W
  <2>1. Power(2, c + m) = x * y
    BY <1>1, PowerSum
  <2> QED BY <1>1, <2>1 DEF W
<1>4. x * z = W \div 2
  <2>1. Power(2, c + d) = x * z
    BY <1>1, PowerSum
  <2> QED BY <1>1, <2>1, WordBase
<1> HIDE DEF m, d, x, y, z
<1>5. x <= x * z
  <2>1. 1 * x <= z * x
    BY <1>2, MulLe
  <2> QED BY <1>2, <2>1
<1> QED BY <1>2, <1>3, <1>4, <1>5 DEF x, y, m

-----------------------------------------------------------------------------
(* Reciprocals *)

(* A remainder already is one. *)
LEMMA ModSmall == ASSUME NEW y \in Nat \ {0}, NEW x \in 0 .. y - 1 PROVE x % y = x
<1>1. x \in Int /\ 0 \in Int /\ x = 0 * y + x
  OBVIOUS
<1> QED BY <1>1, DivModUnique

(* What the reciprocal of a top word is, and its product modulo W, which is   *)
(* what the correction starts from.                                           *)
LEMMA LimbInverse ==
  ASSUME NEW d \in SbnWord, 2 * d >= W
  PROVE  /\ sbn_invert_limb(d) \in SbnWord
         /\ \E p \in W - d .. W - 1 : /\ (W + sbn_invert_limb(d)) * d = (W * W) - W + p
                                      /\ Low(d * sbn_invert_limb(d)) = p
<1> DEFINE x == ((W - 1 - d) * W) + W - 1  v == sbn_invert_limb(d)  e == x % d  p == W - 1 - e
<1>1. W \in Nat \ {0} /\ W >= 2 /\ d \in Nat \ {0} /\ d < W
  BY WordBase DEF SbnWord
<1>2. x \in Int
  BY <1>1
<1>3. v = x \div d
  BY DEF sbn_invert_limb
<1>4. v \in Int /\ e \in 0 .. d - 1 /\ x = v * d + e
  <2> HIDE DEF x
  <2>1. x \div d \in Int /\ x % d \in 0 .. d - 1 /\ x = (x \div d) * d + (x % d)
    BY <1>1, <1>2, DivMod
  <2> QED BY <1>3, <2>1
<1>5. x = W * W - W * d - 1
  BY <1>1
<1> HIDE DEF v, e, x
<1>6. v * d + e = W * W - W * d - 1
  BY <1>4, <1>5
<1>7. (W + v) * d = (W * W) - W + p
  BY <1>1, <1>4, <1>6
<1>8. v < W
  <2>1. W * W <= (2 * d) * W
    BY <1>1, MulLe
  <2>2. v * d < W * d
    BY <1>1, <1>4, <1>6, <2>1
  <2> QED BY <1>1, <1>4, <2>2, CancelLt
<1>9. v > -1
  <2>1. (-1) * d < v * d
    <3>1. v * d = W * W - W * d - 1 - e
      BY <1>1, <1>4, <1>6
    <3>2. (d + 1) * W <= W * W
      BY <1>1, MulLe
    <3> QED BY <1>1, <1>4, <3>1, <3>2
  <2> QED BY <1>1, <1>4, <2>1, CancelLt
<1>10. Low(d * v) = p
  <2>1. d * v = (W - d - 1) * W + p /\ d * v \in Int
    BY <1>1, <1>4, <1>6
  <2>2. p \in 0 .. W - 1
    BY <1>1, <1>4
  <2>3. (d * v) % W = p
    <3>1. W - d - 1 \in Int
      BY <1>1
    <3> HIDE DEF p
    <3> QED BY <1>1, <2>1, <2>2, <3>1, DivModUnique
  <2> QED BY <2>3 DEF Low
<1>11. p \in W - d .. W - 1
  BY <1>1, <1>4
<1>12. v \in SbnWord
  BY <1>1, <1>4, <1>8, <1>9 DEF SbnWord
<1> QED BY <1>7, <1>10, <1>11, <1>12 DEF v

(* A value at most a word away is brought back by adding or taking off one W. *)
LEMMA LowOnce ==
  /\ \A x \in SbnWord : Low(x) = x
  /\ \A x \in W .. 2 * W - 1 : Low(x) = x - W
  /\ \A x \in -W .. -1 : Low(x) = x + W
<1>1. W \in Nat \ {0}
  BY WordBase
<1>2. ASSUME NEW x \in SbnWord PROVE Low(x) = x
  BY <1>1, Quotient, x = W * 0 + x, x \in Int, x \in 0 .. W - 1 DEF Low, SbnWord
<1>3. ASSUME NEW x \in W .. 2 * W - 1 PROVE Low(x) = x - W
  <2>1. x = W * 1 + (x - W) /\ x \in Int /\ x - W \in 0 .. W - 1
    BY <1>1
  <2> QED BY <1>1, <2>1, Quotient DEF Low
<1>4. ASSUME NEW x \in -W .. -1 PROVE Low(x) = x + W
  <2>1. x = W * (-1) + (x + W) /\ x \in Int /\ x + W \in 0 .. W - 1
    BY <1>1
  <2> QED BY <1>1, <2>1, Quotient DEF Low
<1> QED BY <1>2, <1>3, <1>4

(* The reciprocal corrected for the lower word, before its product counts.    *)
LEMMA FirstCorrection ==
  ASSUME NEW d1 \in SbnWord, 2 * d1 >= W, NEW d0 \in SbnWord
  PROVE  LET v0 == sbn_invert_limb(d1)
             p0 == Low(Low(d1 * v0) + d0)
             over == p0 < d0
             twice == p0 >= d1
             v1 == IF ~over THEN v0 ELSE Low(v0 - 1 - (IF twice THEN 1 ELSE 0))
             p1 == IF ~over THEN p0 ELSE Low(p0 - d1 - (IF twice THEN d1 ELSE 0))
         IN  v1 \in SbnWord /\ p1 \in W - d1 .. W - 1 /\ (W + v1) * d1 + d0 = (W * W) - W + p1
<1> DEFINE v0 == sbn_invert_limb(d1)
           p0 == Low(Low(d1 * v0) + d0)
           over == p0 < d0
           twice == p0 >= d1
           less == IF twice THEN 1 ELSE 0
           v1 == IF ~over THEN v0 ELSE Low(v0 - 1 - less)
           p1 == IF ~over THEN p0 ELSE Low(p0 - d1 - (IF twice THEN d1 ELSE 0))
<1> HIDE DEF v0
<1>1. W \in Nat \ {0} /\ W >= 2 /\ d1 \in Nat \ {0} /\ d1 < W /\ d0 \in Nat /\ d0 < W
  BY WordBase DEF SbnWord
<1>2. v0 \in SbnWord /\ v0 \in Nat
  BY LimbInverse DEF v0, SbnWord
<1>3. PICK p \in W - d1 .. W - 1 : (W + v0) * d1 = (W * W) - W + p /\ Low(d1 * v0) = p
  BY LimbInverse DEF v0
<1>4. CASE p + d0 < W
  <2>1. p0 = p + d0
    <3>1. p + d0 \in SbnWord
      BY <1>1, <1>4 DEF SbnWord
    <3> QED BY <1>3, <3>1, LowOnce
  <2>2. ~over /\ v1 = v0 /\ p1 = p0
    BY <1>1, <2>1
  <2> QED BY <1>1, <1>2, <1>3, <1>4, <2>1, <2>2 DEF v0
<1>5. CASE p + d0 >= W
  <2>1. p0 = p + d0 - W /\ p0 \in 0 .. W - 1
    <3>1. p + d0 \in W .. 2 * W - 1
      BY <1>1, <1>5
    <3> QED BY <1>1, <1>3, <3>1, LowOnce
  <2>2. over
    BY <1>1, <2>1
  <2>3. (W + v0) * d1 + d0 = (W * W) + p0
    BY <1>1, <1>2, <1>3, <2>1
  <2>4. /\ twice => less = 1 /\ p1 = Low(p0 - d1 - d1)
        /\ ~twice => less = 0 /\ p1 = Low(p0 - d1 - 0)
        /\ v1 = Low(v0 - 1 - less)
    BY <2>2
  <2> HIDE DEF p0, p1, v1, less
  <2>5. less \in {0, 1} /\ p1 \in W - d1 .. W - 1 /\ (W + v0 - 1 - less) * d1 + d0 = (W * W) - W + p1
    <3>1. CASE twice
      <4>1. p0 - d1 - d1 \in -W .. -1
        BY <1>1, <2>1, <3>1
      <4>2. p1 = p0 - d1 - d1 + W /\ less = 1
        BY <2>4, <3>1, <4>1, LowOnce
      <4>3. (W + v0 - 1 - 1) * d1 = (W + v0) * d1 - 2 * d1
        BY <1>1, <1>2
      <4> QED BY <1>1, <1>2, <2>1, <2>3, <3>1, <4>2, <4>3
    <3>2. CASE ~twice
      <4>1. p0 - d1 - 0 \in -W .. -1
        BY <1>1, <2>1, <3>2
      <4>2. p1 = p0 - d1 - 0 + W /\ less = 0
        BY <2>4, <3>2, <4>1, LowOnce
      <4>3. (W + v0 - 1) * d1 = (W + v0) * d1 - d1
        BY <1>1, <1>2
      <4> QED BY <1>1, <1>2, <2>1, <2>3, <3>2, <4>2, <4>3
    <3> QED BY <3>1, <3>2
  <2>6. v0 - 1 - less >= 0
    <3>1. (W - 1) * d1 + d0 < (W * W) - d1
      <4>1. (W - 1) * d1 = W * d1 - d1 /\ W * d1 \in Int
        BY <1>1
      <4>2. (d1 + 1) * W <= W * W
        BY <1>1, MulLe
      <4> QED BY <1>1, <4>1, <4>2
    <3>2. (W - 1) * d1 < (W + v0 - 1 - less) * d1
      BY <1>1, <1>2, <2>5, <3>1
    <3>3. W - 1 < W + v0 - 1 - less
      BY <1>1, <1>2, <2>5, <3>2, CancelLt
    <3> QED BY <1>1, <1>2, <2>5, <3>3
  <2>7. v0 - 1 - less \in SbnWord
    BY <1>1, <1>2, <2>5, <2>6 DEF SbnWord
  <2>8. v1 = v0 - 1 - less
    BY <2>4, <2>7, LowOnce
  <2>9. W + v1 = W + v0 - 1 - less
    BY <2>8, <1>1, <1>2, <2>5
  <2> QED BY <2>5, <2>7, <2>8, <2>9 DEF v0, v1, p0, p1, less
<1> QED BY <1>1, <1>4, <1>5, <1>3

(* An integer quotient lies between two products. *)
LEMMA NotNegative ==
  ASSUME NEW v \in Int, NEW x \in Nat \ {0}, (W - 1) * x < (W + v) * x
  PROVE  v >= 0
<1>1. W \in Nat
  BY WordBase
<1>2. W - 1 < W + v
  BY <1>1, CancelLt
<1> QED BY <1>1, <1>2

(* sbn_invert_pi1 is exact: v is the largest for which W + v times the two    *)
(* words is below W^3.                                                        *)
THEOREM PairInverse ==
  ASSUME NEW d1 \in SbnWord, 2 * d1 >= W, NEW d0 \in SbnWord
  PROVE  LET v == sbn_invert_pi1(d1, d0)
             T == (d1 * W) + d0
         IN  v \in SbnWord /\ \E k \in 1 .. T : W * W * W = (W + v) * T + k
<1> DEFINE v0 == sbn_invert_limb(d1)
           p0 == Low(Low(d1 * v0) + d0)
           over == p0 < d0
           twice == p0 >= d1
           v1 == IF ~over THEN v0 ELSE Low(v0 - 1 - (IF twice THEN 1 ELSE 0))
           p1 == IF ~over THEN p0 ELSE Low(p0 - d1 - (IF twice THEN d1 ELSE 0))
           t1 == (d0 * v1) \div W
           t0 == Low(d0 * v1)
           p2 == Low(p1 + t1)
           beyond == p2 > d1 \/ (p2 = d1 /\ t0 >= d0)
           less == IF beyond THEN 1 ELSE 0
           v == sbn_invert_pi1(d1, d0)
           T == (d1 * W) + d0
<1>1. W \in Nat \ {0} /\ W >= 2 /\ d1 \in Nat \ {0} /\ d1 < W /\ d0 \in Nat /\ d0 < W
  BY WordBase DEF SbnWord
<1>2. v1 \in SbnWord /\ p1 \in W - d1 .. W - 1 /\ (W + v1) * d1 + d0 = (W * W) - W + p1
  BY FirstCorrection
<1>3. v = IF p2 >= t1 THEN v1 ELSE Low(v1 - 1 - less)
  BY DEF sbn_invert_pi1
<1> HIDE DEF v, v1, p1
<1>4. v1 \in Nat /\ v1 < W /\ p1 \in Nat
  BY <1>1, <1>2 DEF SbnWord
<1>5. t1 \in Int /\ t0 \in 0 .. W - 1 /\ d0 * v1 = t1 * W + t0
  <2>1. d0 * v1 \in Int
    BY <1>1, <1>4
  <2> QED BY <1>1, <2>1, DivMod DEF Low
<1> HIDE DEF t0, t1
<1>6. t1 \in 0 .. W - 2
  <2>1. 0 <= d0 * v1
    BY <1>1, <1>4
  <2>2. d0 * v1 <= W * v1 - v1
    <3>1. d0 * v1 <= (W - 1) * v1
      BY <1>1, <1>4, MulLe
    <3> QED BY <1>1, <1>4, <3>1
  <2>3. v1 * W <= (W - 1) * W
    BY <1>1, <1>4, MulLe
  <2>4. (-1) * W < t1 * W
    BY <1>1, <1>5, <2>1
  <2>5. -1 < t1
    BY <1>1, <1>5, <2>4, CancelLt
  <2>6. t1 * W < (W - 1) * W
    <3>1. CASE v1 = 0
      BY <1>1, <1>5, <2>2, <3>1, (W - 1) * W > 0
    <3>2. CASE v1 # 0
      BY <1>1, <1>4, <1>5, <2>2, <2>3, <3>2
    <3> QED BY <3>1, <3>2
  <2>7. t1 < W - 1
    BY <1>1, <1>5, <2>6, CancelLt
  <2> QED BY <1>1, <1>5, <2>5, <2>7
<1>7. T \in Nat /\ T > 0 /\ T >= W /\ T < W * W /\ 2 * T >= W * W
  <2>1. 1 * W <= d1 * W /\ d1 * W <= (W - 1) * W /\ W * W <= (2 * d1) * W
    BY <1>1, MulLe
  <2> QED BY <1>1, <2>1
<1>8. (W + v1) * T = W * (W * W) - W * W + W * (p1 + t1) + t0
  <2>1. (W + v1) * T = W * ((W + v1) * d1 + d0) + d0 * v1
    BY <1>1, <1>4
  <2>2. W * ((W * W) - W + p1) = W * (W * W) - W * W + W * p1
    BY <1>1, <1>4
  <2>3. W * (p1 + t1) = W * p1 + t1 * W
    BY <1>1, <1>4, <1>5
  <2> QED BY <1>1, <1>2, <1>4, <1>5, <2>1, <2>2, <2>3
<1>9. CASE p1 + t1 < W
  <2>1. p2 = p1 + t1
    <3>1. p1 + t1 \in SbnWord
      BY <1>1, <1>4, <1>6, <1>9 DEF SbnWord
    <3> QED BY <3>1, LowOnce
  <2>2. v = v1
    BY <1>3, <1>4, <1>6, <2>1
  <2> DEFINE k == W * (W - (p1 + t1)) - t0
  <2>3. W * (W - (p1 + t1)) = W * W - W * (p1 + t1)
    BY <1>1, <1>4, <1>6
  <2>4. W * W * W = (W + v1) * T + k
    BY <1>1, <1>4, <1>5, <1>6, <1>7, <1>8, <2>3
  <2>5. 1 * W <= (W - (p1 + t1)) * W
    BY <1>1, <1>4, <1>6, <1>9, MulLe
  <2>6. (W - (p1 + t1)) * W <= d1 * W
    BY <1>1, <1>2, <1>4, <1>6, MulLe
  <2>7. k \in 1 .. T
    <3>1. k = (W - (p1 + t1)) * W - t0 /\ (W - (p1 + t1)) * W \in Int /\ d1 * W \in Int
      BY <1>1, <1>4, <1>5, <1>6
    <3> HIDE DEF k
    <3> QED BY <1>1, <1>5, <2>5, <2>6, <3>1
  <2> HIDE DEF k, T
  <2> QED BY <1>2, <2>2, <2>4, <2>7 DEF v, T
<1>10. CASE p1 + t1 >= W
  <2>1. p2 = p1 + t1 - W
    <3>1. p1 + t1 \in W .. 2 * W - 1
      BY <1>1, <1>2, <1>4, <1>6, <1>10
    <3> DEFINE s == p1 + t1
    <3>2. s \in W .. 2 * W - 1
      BY <3>1
    <3> HIDE DEF s
    <3>3. Low(s) = s - W
      BY <3>2, LowOnce
    <3> QED BY <1>1, <1>4, <1>6, <3>3 DEF s
  <2>2. p2 \in 0 .. W - 3 /\ p2 < t1
    BY <1>1, <1>2, <1>4, <1>6, <1>10, <2>1
  <2>3. v = Low(v1 - 1 - less)
    BY <1>3, <1>4, <1>6, <2>2
  <2> DEFINE E == W * p2 + t0
  <2>4. (W + v1) * T = W * (W * W) + E
    <3>1. W * (p1 + t1) = W * W + W * (p1 + t1 - W)
      BY <1>1, <1>4, <1>6
    <3> QED BY <1>1, <1>4, <1>5, <1>6, <1>7, <1>8, <2>1, <3>1
  <2>5. beyond <=> E >= T
    <3>1. ASSUME p2 > d1 PROVE E >= T
      <4>1. (d1 + 1) * W <= p2 * W
        BY <1>1, <2>2, <3>1, MulLe
      <4> QED BY <1>1, <1>5, <2>2, <4>1
    <3>2. ASSUME p2 < d1 PROVE E < T
      <4>1. (p2 + 1) * W <= d1 * W
        BY <1>1, <2>2, <3>2, MulLe
      <4> QED BY <1>1, <1>5, <2>2, <4>1
    <3>3. ASSUME p2 = d1 PROVE E >= T <=> t0 >= d0
      <4>1. E = d1 * W + t0 /\ d1 * W \in Int
        BY <1>1, <1>5, <3>3
      <4> HIDE DEF E
      <4> QED BY <1>1, <1>5, <4>1
    <3>4. E \in Int /\ T \in Int
      BY <1>1, <1>5, <1>7, <2>2
    <3> HIDE DEF E, T, p2
    <3> QED BY <1>1, <1>5, <2>2, <3>1, <3>2, <3>3, <3>4
  <2>6. E \in Nat /\ E < 2 * T
    <3>1. p2 * W <= (W - 3) * W
      BY <1>1, <2>2, MulLe
    <3>2. E \in Nat
      BY <1>1, <1>5, <2>2
    <3> QED BY <1>1, <1>5, <1>7, <2>2, <3>1, <3>2
  <2>7. less \in {0, 1} /\ (less = 1 <=> E >= T)
    BY <2>5
  <2> HIDE DEF less, E, T
  <2> DEFINE k == (1 + less) * T - E
  <2>8. k \in 1 .. T
    <3>1. CASE less = 0
      BY <1>7, <2>6, <2>7, <3>1
    <3>2. CASE less = 1
      BY <1>7, <2>6, <2>7, <3>2
    <3> QED BY <2>7, <3>1, <3>2
  <2>9. W * W * W = (W + (v1 - 1 - less)) * T + k
    <3>1. (W + (v1 - 1 - less)) * T = (W + v1) * T - (1 + less) * T
      BY <1>1, <1>4, <1>7, <2>7
    <3>2. (1 + less) * T \in Int /\ W * (W * W) \in Int /\ W * W * W = W * (W * W)
      BY <1>1, <1>7, <2>7
    <3> QED BY <2>4, <2>6, <3>1, <3>2
  <2>10. v1 - 1 - less >= 0
    <3>1. (W - 1) * T < (W + (v1 - 1 - less)) * T
      <4>1. T * W < W * W * W
        <5>1. T * W < (W * W) * W
          BY <1>1, <1>7, MulLt
        <5> QED BY <1>1, <5>1
      <4>2. (W - 1) * T = T * W - T /\ T * W \in Int
        BY <1>1, <1>7
      <4> DEFINE Z == (W + (v1 - 1 - less)) * T  C == W * W * W
      <4>3. Z \in Int /\ C \in Int
        BY <1>1, <1>4, <1>7, <2>7
      <4> HIDE DEF Z, C, k
      <4>4. C = Z + k
        BY <2>9 DEF Z, C
      <4>5. T * W < C
        BY <4>1 DEF C
      <4>6. (W - 1) * T < Z
        BY <1>7, <2>8, <4>2, <4>3, <4>4, <4>5
      <4> QED BY <4>6 DEF Z
    <3>2. T \in Nat \ {0} /\ v1 - 1 - less \in Int
      BY <1>4, <1>7, <2>7
    <3> QED BY <3>1, <3>2, NotNegative
  <2>11. v1 - 1 - less \in SbnWord
    BY <1>1, <1>4, <2>7, <2>10 DEF SbnWord
  <2>12. v = v1 - 1 - less
    BY <2>3, <2>11, LowOnce
  <2> QED BY <2>8, <2>9, <2>11, <2>12 DEF v, T
<1> QED BY <1>4, <1>6, <1>9, <1>10, <1>1

-----------------------------------------------------------------------------
(* Three words over two *)

(* Modulo W^2, what the code keeps of the remainder is the remainder. *)
LEMMA RemainderKept ==
  ASSUME NEW T \in Nat, NEW d1 \in Nat, NEW d0 \in Nat, T = (d1 * W) + d0,
         NEW u2 \in Nat, NEW u1 \in Nat, NEW u0 \in Nat, NEW Q \in Nat
  PROVE  (((Low(u1 - (d1 * Q)) * W) + u0) - T - (d0 * Q)) % (W * W)
           = (u2 * W * W + u1 * W + u0 - (Q + 1) * T) % (W * W)
<1> DEFINE x == u1 - (d1 * Q)  a == x \div W  y == ((Low(x) * W) + u0) - T - (d0 * Q)
           z == u2 * W * W + u1 * W + u0 - (Q + 1) * T  b == z \div (W * W)  r == z % (W * W)
<1>1. W \in Nat \ {0} /\ W * W \in Nat \ {0}
  <2>1. W \in Nat \ {0}
    BY WordBase
  <2> QED BY <2>1
<1>2. x \in Int /\ z \in Int
  BY <1>1
<1>3. a \in Int /\ Low(x) \in Int /\ x = a * W + Low(x)
  <2> HIDE DEF x
  <2> QED BY <1>1, <1>2, DivMod DEF Low
<1>4. b \in Int /\ r \in 0 .. (W * W) - 1 /\ z = b * (W * W) + r
  <2> HIDE DEF z
  <2> QED BY <1>1, <1>2, DivMod
<1> HIDE DEF a, r, b
<1>5. y \in Int /\ z = y + (a + u2) * (W * W)
  <2>1. x * W = a * (W * W) + Low(x) * W
    <3> HIDE DEF x
    <3> QED BY <1>1, <1>2, <1>3
  <2>2. z = u2 * (W * W) + x * W + u0 - T - d0 * Q
    BY <1>1
  <2>3. Low(x) * W \in Int /\ d0 * Q \in Int /\ a * (W * W) \in Int /\ u2 * (W * W) \in Int
    BY <1>1, <1>3
  <2>4. y = Low(x) * W + u0 - T - d0 * Q
    BY <2>3
  <2>5. (a + u2) * (W * W) = a * (W * W) + u2 * (W * W)
    BY <1>1, <1>3
  <2> HIDE DEF x, y, z
  <2> QED BY <2>1, <2>2, <2>3, <2>4, <2>5
<1>6. y = (b - a - u2) * (W * W) + r /\ b - a - u2 \in Int
  <2>1. (b - a - u2) * (W * W) = b * (W * W) - (a + u2) * (W * W)
    BY <1>1, <1>3, <1>4
  <2>2. (a + u2) * (W * W) \in Int /\ b * (W * W) \in Int
    BY <1>1, <1>3, <1>4
  <2> HIDE DEF y, z
  <2> QED BY <1>1, <1>3, <1>4, <1>5, <2>1, <2>2
<1>7. y % (W * W) = r
  <2> HIDE DEF y
  <2> QED BY <1>1, <1>4, <1>5, <1>6, DivModUnique
<1> QED BY <1>7 DEF r

(* sbn_udiv_qr_3by2 with the exact reciprocal of two words divides any three  *)
(* by them: the estimate, one more or one less is right, and it is chosen.    *)
THEOREM ThreeByTwo ==
  ASSUME NEW d1 \in SbnWord, 2 * d1 >= W, NEW d0 \in SbnWord, NEW T, T = (d1 * W) + d0,
         NEW v \in SbnWord, NEW k \in 1 .. T, W * W * W = (W + v) * T + k,
         NEW u2 \in SbnWord, NEW u1 \in SbnWord, NEW u0 \in SbnWord, (u2 * W) + u1 < T
  PROVE  LET e == sbn_udiv_qr_3by2(u2, u1, u0, d1, d0, v)
         IN  e.q \in SbnWord /\ e.r \in 0 .. T - 1 /\ u2 * W * W + u1 * W + u0 = e.q * T + e.r
<1> DEFINE two(h, l) == (h * W) + l
           mod2(x) == x % (W * W)
           est == mod2((u2 * v) + two(u2, u1))
           Q == est \div W
           rem == mod2(two(Low(u1 - (d1 * Q)), u0) - two(d1, d0) - (d0 * Q))
           back == rem \div W >= Low(est)
           q1 == Low(Q + 1 - (IF back THEN 1 ELSE 0))
           rem1 == IF back THEN mod2(rem + two(d1, d0)) ELSE rem
           e == sbn_udiv_qr_3by2(u2, u1, u0, d1, d0, v)
           q0 == Low(est)
           U == u2 * W * W + u1 * W + u0
           r == U - (Q + 1) * T
<1>1. W \in Nat \ {0} /\ W >= 2 /\ W * W \in Nat \ {0}
  <2>1. W \in Nat \ {0} /\ W >= 2
    BY WordBase
  <2> QED BY <2>1
<1>2. /\ d1 \in Nat /\ d0 \in Nat /\ v \in Nat /\ u2 \in Nat /\ u1 \in Nat /\ u0 \in Nat /\ k \in Nat
      /\ d1 < W /\ d0 < W /\ v < W /\ u2 < W /\ u1 < W /\ u0 < W
  BY <1>1 DEF SbnWord
<1>3. T \in Nat \ {0} /\ T < W * W /\ W * W <= 2 * T
  <2>1. d1 * W <= (W - 1) * W /\ W * W <= (2 * d1) * W
    BY <1>1, <1>2, MulLe
  <2> QED BY <1>1, <1>2, <2>1
<1>4. e = IF rem1 >= T THEN [q |-> Low(q1 + 1), r |-> rem1 - T] ELSE [q |-> q1, r |-> rem1]
  BY DEF sbn_udiv_qr_3by2
<1>5. est = (W + v) * u2 + u1 /\ est \in 0 .. (W * W) - 1
  <2> DEFINE s == (W + v) * u2 + u1
  <2>1. (u2 * v) + two(u2, u1) = s /\ s \in Nat
    BY <1>1, <1>2
  <2>2. s * T < (W * W) * T
    <3>1. s * T = ((W + v) * T) * u2 + u1 * T
      BY <1>1, <1>2, <1>3
    <3>2. ((W + v) * T) * u2 <= (W * W * W) * u2
      <4>1. (W + v) * T <= W * W * W /\ (W + v) * T \in Int /\ W * W * W \in Int
        BY <1>1, <1>2, <1>3
      <4> QED BY <1>2, <4>1, MulLe
    <3>3. T * u1 <= (W * W) * u1
      BY <1>1, <1>2, <1>3, MulLe
    <3>4. ((u2 * W) + u1) * (W * W) < T * (W * W)
      BY <1>1, <1>2, <1>3, MulLt
    <3>5. ((u2 * W) + u1) * (W * W) = (W * W * W) * u2 + (W * W) * u1
      BY <1>1, <1>2
    <3>6. ((W + v) * T) * u2 \in Int /\ (W * W * W) * u2 \in Int /\ (W * W) * u1 \in Int /\ T * (W * W) \in Int
          /\ u1 * T \in Int
      BY <1>1, <1>2, <1>3
    <3>7. u1 * T = T * u1 /\ T * (W * W) = (W * W) * T
      BY <1>1, <1>2, <1>3
    <3> HIDE DEF s
    <3> QED BY <3>1, <3>2, <3>3, <3>4, <3>5, <3>6, <3>7
  <2>3. s < W * W
    <3> HIDE DEF s
    <3> QED BY <1>1, <1>3, <2>1, <2>2, CancelLt
  <2>4. s % (W * W) = s
    <3>1. s = 0 * (W * W) + s /\ s \in Int /\ s \in 0 .. (W * W) - 1
      BY <1>1, <2>1, <2>3
    <3> HIDE DEF s
    <3> QED BY <1>1, <3>1, DivModUnique
  <2> QED BY <2>1, <2>3, <2>4, <1>1
<1> HIDE DEF est
<1>6. Q \in Nat /\ Q < W /\ q0 \in Nat /\ q0 < W /\ est = Q * W + q0
  <2>1. Q \in Int /\ q0 \in 0 .. W - 1 /\ est = Q * W + q0
    <3>1. est \in Int /\ W \in Nat \ {0}
      BY <1>1, <1>5
    <3> QED BY <3>1, DivMod DEF Low
  <2> HIDE DEF Q, q0
  <2>2. Q * W < W * W
    BY <1>1, <1>5, <2>1
  <2>3. (-1) * W < Q * W
    BY <1>1, <1>5, <2>1
  <2>4. Q < W /\ -1 < Q
    BY <1>1, <2>1, <2>2, <2>3, CancelLt
  <2> QED BY <1>1, <2>1, <2>4
<1> HIDE DEF Q, q0
<1> DEFINE rt == u2 * W * W + u1 * W + u0 - (Q + 1) * T
<1>19. r = rt
  <2>1. u2 * W * W \in Int /\ u1 * W \in Int /\ (Q + 1) * T \in Int
    BY <1>1, <1>2, <1>3, <1>6
  <2> QED BY <1>2, <2>1
<1>7. /\ r >= - T /\ r >= q0 * W - W * W
      /\ r < W * W - T \/ r < q0 * W
  <2>1. W + v \in Nat /\ k <= W * (W * W - T)
    <3>1. W * T <= (W + v) * T
      BY <1>1, <1>2, <1>3, MulLe
    <3>2. W * (W * W - T) = W * W * W - W * T /\ W * T \in Int /\ W * W * W \in Int /\ (W + v) * T \in Int
      BY <1>1, <1>2, <1>3
    <3> QED BY <1>1, <1>2, <3>1, <3>2
  <2>2. W > 1 /\ 1 <= k /\ k <= T /\ (W + v) * u2 + u1 = Q * W + q0
    BY <1>1, <1>5, <1>6
  <2>3. W \in Nat /\ T \in Nat /\ T < W * W /\ W * W <= 2 * T
    BY <1>1, <1>3
  <2>4. rt >= - T /\ rt >= q0 * W - W * W /\ (rt < W * W - T \/ rt < q0 * W)
    <3>1. u1 < W /\ u0 < W /\ u2 \in Nat /\ u1 \in Nat /\ u0 \in Nat /\ k \in Nat
      BY <1>2
    <3>2. Q \in Int /\ q0 \in Nat /\ q0 < W
      BY <1>6
    <3>3. W * W * W = (W + v) * T + k /\ u2 * W + u1 < T
      OBVIOUS
    <3> QED BY <2>1, <2>2, <2>3, <3>1, <3>2, <3>3, Estimated, Zenon
  <2> HIDE DEF r, rt
  <2> QED BY <1>19, <2>4
<1>8. U \in Nat /\ U < T * W
  <2>1. ((u2 * W) + u1 + 1) * W <= T * W
    BY <1>1, <1>2, <1>3, MulLe
  <2>2. ((u2 * W) + u1 + 1) * W = u2 * W * W + u1 * W + W
    BY <1>1, <1>2
  <2> QED BY <1>1, <1>2, <1>3, <2>1, <2>2
<1>9. r \in Int
  BY <1>1, <1>3, <1>6, <1>8
<1>10. rem = r % (W * W)
  <2>1. (((Low(u1 - (d1 * Q)) * W) + u0) - T - (d0 * Q)) % (W * W) = rt % (W * W)
    <3>1. T \in Nat
      BY <1>3
    <3> QED BY <1>2, <1>6, <3>1, RemainderKept
  <2>2. rt % (W * W) = r % (W * W)
    <3> HIDE DEF r, rt
    <3> QED BY <1>19
  <2> QED BY <2>1, <2>2
<1> HIDE DEF rem
<1>11. r < W * W /\ r > - (W * W)
  <2>1. (q0 + 1) * W <= W * W
    BY <1>1, <1>6, MulLe
  <2>2. q0 * W < W * W
    BY <1>1, <1>6, <2>1
  <2> HIDE DEF r
  <2> QED BY <1>1, <1>3, <1>6, <1>7, <1>9, <2>2
<1>12. rem = IF r < 0 THEN r + W * W ELSE r
  <2> HIDE DEF r
  <2> DEFINE C == W * W
  <2>1. C \in Nat \ {0} /\ r \in Int /\ r < C /\ r > -C
    BY <1>1, <1>9, <1>11
  <2> HIDE DEF C
  <2>2. CASE r < 0
    <3>1. r = (-1) * C + (r + C) /\ r + C \in 0 .. C - 1
      BY <2>1, <2>2
    <3> QED BY <1>10, <2>1, <2>2, <3>1, DivModUnique DEF C
  <2>3. CASE r >= 0
    <3>1. r = 0 * C + r /\ r \in 0 .. C - 1
      BY <2>1, <2>3
    <3> QED BY <1>10, <2>1, <2>3, <3>1, DivModUnique DEF C
  <2> QED BY <2>1, <2>2, <2>3
<1>13. rem \in Nat /\ (back <=> rem >= q0 * W)
  <2>1. rem \in Nat
    BY <1>1, <1>9, <1>11, <1>12
  <2> QED BY <1>1, <1>6, <2>1, DivGe DEF q0
<1>14. two(d1, d0) = T
  OBVIOUS
<1> HIDE DEF r, U, back
<1> DEFINE C == W * W  z == q0 * W
<1>15. /\ C \in Nat \ {0} /\ r \in Int /\ T \in Nat \ {0} /\ z \in Nat /\ T < C /\ C <= 2 * T /\ r < C /\ r >= -T /\ r >= z - C
       /\ r < C - T \/ r < z
       /\ rem \in Nat /\ (back <=> rem >= z) /\ rem = (IF r < 0 THEN r + C ELSE r)
       /\ U = (Q + 1) * T + r /\ Q \in Nat /\ U \in Nat
  <2>1. U = (Q + 1) * T + r
    <3>1. (Q + 1) * T \in Int
      BY <1>3, <1>6
    <3> QED BY <1>8, <3>1 DEF r
  <2> QED BY <1>1, <1>3, <1>6, <1>7, <1>8, <1>9, <1>11, <1>12, <1>13, <2>1
<1>16. ASSUME NEW j \in Nat, NEW s \in Nat, U = j * T + s PROVE j \in SbnWord
  <2> DEFINE a == j * T  b == W * T
  <2>1. a \in Int /\ b \in Int /\ T * W = b /\ U = a + s
    BY <1>1, <1>3, <1>16
  <2> HIDE DEF a, b
  <2>2. a < b
    BY <1>8, <2>1
  <2>3. j < W
    BY <1>1, <1>3, <2>2, CancelLt DEF a, b
  <2> QED BY <1>1, <2>3 DEF SbnWord
<1>17. CASE back
  <2>1. q1 = Low(Q) /\ rem1 = (rem + T) % C
    BY <1>6, <1>14, <1>17
  <2>2. q1 = Q
    <3>1. Q \in SbnWord
      BY <1>1, <1>6 DEF SbnWord
    <3> QED BY <2>1, <3>1, LowOnce
  <2>3. rem1 = r + T
    <3>0. C \in Nat \ {0} /\ rem1 = (rem + T) % C
      BY <1>1, <2>1
    <3> HIDE DEF C, z, rem1
    <3>1. CASE r < 0
      <4>1. rem + T = C + (r + T) /\ r + T \in 0 .. C - 1 /\ rem + T \in Int
        BY <1>15, <3>1
      <4> QED BY <3>0, <4>1, ModOnce
    <3>2. CASE r >= 0
      <4>1. rem + T = r + T /\ r + T \in 0 .. C - 1
        BY <1>15, <1>17, <3>2
      <4> QED BY <3>0, <4>1, ModSmall
    <3> QED BY <1>15, <3>1, <3>2
  <2>4. U = Q * T + (r + T)
    <3>1. (Q + 1) * T = Q * T + T /\ Q * T \in Int
      BY <1>3, <1>6
    <3> HIDE DEF C, z
    <3> QED BY <1>15, <3>1
  <2>5. CASE r < 0
    <3>1. e.q = Q /\ e.r = r + T
      BY <1>4, <1>15, <2>2, <2>3, <2>5
    <3>2. r + T \in 0 .. T - 1
      BY <1>15, <2>5
    <3>3. Q \in SbnWord
      BY <1>1, <1>6 DEF SbnWord
    <3> HIDE DEF e
    <3> QED BY <2>4, <3>1, <3>2, <3>3 DEF U, e
  <2>6. CASE r >= 0
    <3>1. e.q = Low(Q + 1) /\ e.r = rem1 - T
      BY <1>4, <1>15, <2>2, <2>3, <2>6
    <3>2. r \in 0 .. T - 1
      <4> HIDE DEF C, z
      <4> QED BY <1>15, <1>17, <2>6
    <3>3. Q + 1 \in SbnWord
      BY <1>6, <1>15, <1>16, <2>6
    <3>4. Low(Q + 1) = Q + 1
      BY <3>3, LowOnce
    <3>5. e.r = r
      BY <1>15, <2>3, <3>1
    <3> HIDE DEF e
    <3> QED BY <1>15, <3>1, <3>2, <3>3, <3>4, <3>5 DEF U, e
  <2> QED BY <1>15, <2>5, <2>6
<1>18. CASE ~back
  <2>1. q1 = Low(Q + 1) /\ rem1 = rem
    BY <1>6, <1>18
  <2>2. r >= 0 /\ rem = r /\ r < z
    BY <1>15, <1>18
  <2>3. Q + 1 \in SbnWord
    BY <1>6, <1>15, <1>16, <2>2
  <2>4. q1 = Q + 1
    BY <2>1, <2>3, LowOnce
  <2>5. CASE r < T
    <3>1. e.q = Q + 1 /\ e.r = r
      BY <1>4, <1>15, <2>1, <2>2, <2>4, <2>5
    <3>2. r \in 0 .. T - 1
      BY <1>15, <2>2, <2>5
    <3> HIDE DEF e
    <3> QED BY <1>15, <2>3, <3>1, <3>2 DEF U, e
  <2>6. CASE r >= T
    <3>1. e.q = Low(Q + 1 + 1) /\ e.r = r - T
      BY <1>4, <1>15, <2>1, <2>2, <2>4, <2>6
    <3>2. r - T \in 0 .. T - 1
      <4> HIDE DEF C, z
      <4> QED BY <1>15, <2>6
    <3>3. U = (Q + 2) * T + (r - T)
      <4>1. (Q + 2) * T = (Q + 1) * T + T /\ (Q + 1) * T \in Int
        BY <1>3, <1>6
      <4> HIDE DEF C, z
      <4> QED BY <1>15, <4>1
    <3>4. Q + 2 \in SbnWord
      BY <1>6, <1>15, <1>16, <2>6, <3>2, <3>3
    <3>5. e.q = Q + 2
      BY <1>6, <3>1, <3>4, LowOnce, Q + 1 + 1 = Q + 2
    <3> HIDE DEF e
    <3> QED BY <3>1, <3>2, <3>3, <3>4, <3>5 DEF U, e
  <2> QED BY <1>15, <2>5, <2>6
<1> QED BY <1>17, <1>18

-----------------------------------------------------------------------------
(* The kernels *)

Window(f, at, k) == [l \in 0 .. k - 1 |-> f[at + l]]

IsCarryOf(c, column, k) == c = [l \in 0 .. k |-> IF l = 0 THEN 0 ELSE (column[l - 1] + c[l - 1]) \div W]

LEMMA CarriesDefined ==
  ASSUME NEW column, NEW k \in Nat
  PROVE  IsCarryOf(Carries(column, k), column, k)
<1> DEFINE T == {n \in Nat : \E c : IsCarryOf(c, column, n)}
<1>1. 0 \in T
  <2> DEFINE c == [l \in 0 .. 0 |-> 0]
  <2>1. IsCarryOf(c, column, 0)
    BY DEF IsCarryOf
  <2> QED BY <2>1
<1>2. ASSUME NEW n \in Nat, n \in T PROVE n + 1 \in T
  <2>1. PICK c : IsCarryOf(c, column, n)
    BY <1>2
  <2> DEFINE d == [l \in 0 .. n + 1 |-> IF l = 0 THEN 0 ELSE (column[l - 1] + c[l - 1]) \div W]
  <2>2. \A l \in 0 .. n : d[l] = c[l]
    BY <2>1 DEF IsCarryOf
  <2>3. d = [l \in 0 .. n + 1 |-> IF l = 0 THEN 0 ELSE (column[l - 1] + d[l - 1]) \div W]
    <3>1. d = [l \in 0 .. n + 1 |-> IF l = 0 THEN 0 ELSE (column[l - 1] + c[l - 1]) \div W]
      OBVIOUS
    <3> HIDE DEF d
    <3>2. ASSUME NEW l \in 0 .. n + 1
          PROVE  (IF l = 0 THEN 0 ELSE (column[l - 1] + c[l - 1]) \div W)
                   = (IF l = 0 THEN 0 ELSE (column[l - 1] + d[l - 1]) \div W)
      <4>1. l = 0 \/ l - 1 \in 0 .. n
        OBVIOUS
      <4> QED BY <2>2, <4>1
    <3> QED BY <3>1, <3>2
  <2> HIDE DEF d
  <2>4. IsCarryOf(d, column, n + 1)
    BY <2>3 DEF IsCarryOf
  <2> QED BY <2>4
<1>3. k \in T
  BY <1>1, <1>2, ByInduction
<1> DEFINE e == CHOOSE c : IsCarryOf(c, column, k)
<1>4. IsCarryOf(e, column, k)
  BY <1>3
<1>5. Carries(column, k) = e
  BY DEF Carries, IsCarryOf
<1> QED BY <1>4, <1>5

LEMMA CarriesMove ==
  ASSUME NEW column, NEW k \in Nat, \A l \in 0 .. k - 1 : column[l] \in Int
  PROVE  LET c == Carries(column, k)
         IN  /\ c[0] = 0 /\ \A l \in 0 .. k : c[l] \in Int
             /\ \A l \in 0 .. k - 1 : /\ Low(column[l] + c[l]) \in SbnWord
                                     /\ Low(column[l] + c[l]) + W * c[l + 1] = column[l] + c[l]
<1> DEFINE c == Carries(column, k)
<1>1. IsCarryOf(c, column, k)
  BY CarriesDefined
<1> HIDE DEF c
<1>2. c[0] = 0 /\ \A l \in 0 .. k - 1 : c[l + 1] = (column[l] + c[l]) \div W
  BY <1>1 DEF IsCarryOf
<1>3. W \in Nat \ {0}
  BY WordBase
<1>4. ASSUME NEW l \in 0 .. k - 1, c[l] \in Int
      PROVE  c[l + 1] \in Int /\ Low(column[l] + c[l]) \in SbnWord
             /\ Low(column[l] + c[l]) + W * c[l + 1] = column[l] + c[l]
  <2> DEFINE x == column[l] + c[l]  a == x \div W
  <2>1. x \in Int
    BY <1>4
  <2>2. c[l + 1] = a
    BY <1>2
  <2> HIDE DEF x
  <2>3. a \in Int /\ x % W \in 0 .. W - 1 /\ x = a * W + (x % W)
    BY <1>3, <2>1, DivMod
  <2> HIDE DEF a
  <2>4. Low(x) \in SbnWord /\ Low(x) + W * a = x
    BY <1>3, <2>3 DEF Low, SbnWord
  <2> QED BY <2>2, <2>3, <2>4 DEF x
<1> DEFINE T == {l \in Nat : l <= k => c[l] \in Int}
<1>5. 0 \in T
  BY <1>2
<1>6. ASSUME NEW l \in Nat, l \in T PROVE l + 1 \in T
  BY <1>4, <1>6
<1>7. T \subseteq Nat
  OBVIOUS
<1> HIDE DEF T
<1>8. \A l \in Nat : l \in T
  BY <1>5, <1>6, <1>7, ByInduction
<1>9. \A l \in 0 .. k : c[l] \in Int
  BY <1>8 DEF T
<1>10. \A l \in 0 .. k - 1 : /\ Low(column[l] + c[l]) \in SbnWord
                            /\ Low(column[l] + c[l]) + W * c[l + 1] = column[l] + c[l]
  BY <1>4, <1>9
<1> QED BY <1>2, <1>9, <1>10 DEF c

(* Resolving columns changes the digits and not the number. *)
LEMMA ResolvedKeeps ==
  ASSUME NEW n \in Nat, NEW f \in [0 .. n - 1 -> SbnWord], NEW at \in Nat, NEW k \in Nat, at + k <= n,
         NEW column, \A l \in 0 .. k - 1 : column[l] \in Int
  PROVE  LET s == Resolved(f, at, column, k)
         IN  /\ s.words \in [0 .. n - 1 -> SbnWord] /\ s.carry \in Int
             /\ \A x \in 0 .. n - 1 : (x < at \/ x >= at + k) => s.words[x] = f[x]
             /\ Number(Window(s.words, at, k), k, W) + Power(W, k) * s.carry = Number(column, k, W)
<1> DEFINE c == Carries(column, k)
           g == [x \in DOMAIN f |-> IF x - at \in 0 .. k - 1 THEN Low(column[x - at] + c[x - at]) ELSE f[x]]
           h == Window(g, at, k)
<1>1. Resolved(f, at, column, k) = [words |-> g, carry |-> c[k]]
  BY DEF Resolved
<1>2. /\ c[0] = 0 /\ \A l \in 0 .. k : c[l] \in Int
      /\ \A l \in 0 .. k - 1 : /\ Low(column[l] + c[l]) \in SbnWord
                              /\ Low(column[l] + c[l]) + W * c[l + 1] = column[l] + c[l]
  BY CarriesMove
<1> HIDE DEF c
<1>3. DOMAIN f = 0 .. n - 1 /\ \A x \in 0 .. n - 1 : f[x] \in SbnWord
  OBVIOUS
<1>4. g \in [0 .. n - 1 -> SbnWord]
  BY <1>2, <1>3
<1>5. \A x \in 0 .. n - 1 : (x < at \/ x >= at + k) => g[x] = f[x]
  BY <1>3
<1>6. \A l \in 0 .. k - 1 : h[l] = Low(column[l] + c[l])
  <2> SUFFICES ASSUME NEW l \in 0 .. k - 1 PROVE h[l] = Low(column[l] + c[l])
    OBVIOUS
  <2>1. at + l \in 0 .. n - 1 /\ (at + l) - at = l
    OBVIOUS
  <2>2. g[at + l] = Low(column[l] + c[l])
    BY <1>3, <2>1
  <2> QED BY <2>2 DEF Window
<1> HIDE DEF g, h
<1>7. W \in Nat /\ W > 0
  BY WordBase
<1>8. Exchanges(h, column, c, W, k)
  <2>1. \A l \in 0 .. k - 1 : h[l] \in Int
    BY <1>2, <1>6, <1>7 DEF SbnWord
  <2>2. \A l \in 0 .. k - 1 : h[l] + W * c[l + 1] = column[l] + c[l]
    BY <1>2, <1>6
  <2> QED BY <1>2, <2>1, <2>2 DEF Exchanges
<1>9. Number(h, k, W) + Power(W, k) * c[k] = Number(column, k, W) + c[0]
  BY <1>7, <1>8, Telescope
<1>10. Number(column, k, W) \in Int
  <2>1. \A j \in 0 .. k : Number(column, j, W) \in Int
    BY <1>7, NumberSteps
  <2> QED BY <2>1
<1>11. Number(h, k, W) + Power(W, k) * c[k] = Number(column, k, W)
  BY <1>2, <1>9, <1>10
<1> QED BY <1>1, <1>2, <1>4, <1>5, <1>11 DEF h

(* What the kernels do to the words they work on, as a number. *)
LEMMA WindowWords ==
  ASSUME NEW n \in Nat, NEW f \in [0 .. n - 1 -> SbnWord], NEW at \in Nat, NEW k \in Nat, at + k <= n
  PROVE  /\ \A l \in 0 .. k - 1 : Window(f, at, k)[l] = f[at + l] /\ f[at + l] \in SbnWord /\ f[at + l] \in Int
         /\ Number(Window(f, at, k), k, W) \in 0 .. Power(W, k) - 1
<1>1. W \in Nat /\ W > 0
  BY WordBase
<1>2. \A l \in 0 .. k - 1 : Window(f, at, k)[l] = f[at + l] /\ f[at + l] \in SbnWord /\ f[at + l] \in Int
  <2> SUFFICES ASSUME NEW l \in 0 .. k - 1
               PROVE  Window(f, at, k)[l] = f[at + l] /\ f[at + l] \in SbnWord /\ f[at + l] \in Int
    OBVIOUS
  <2>1. at + l \in 0 .. n - 1
    OBVIOUS
  <2>2. Window(f, at, k)[l] = f[at + l]
    BY DEF Window
  <2>3. f[at + l] \in SbnWord
    BY <2>1
  <2> QED BY <1>1, <2>2, <2>3 DEF SbnWord
<1> DEFINE w == Window(f, at, k)
<1>3. \A l \in 0 .. k - 1 : w[l] \in 0 .. W - 1
  BY <1>2 DEF SbnWord
<1> HIDE DEF w
<1>4. Number(w, k, W) \in 0 .. Power(W, k) - 1
  BY <1>1, <1>3, NumberBounds
<1> QED BY <1>2, <1>4 DEF w

(* k words at `at` of f, and digits to take from or add to them. *)
Places(f, n, at, g, k) ==
  /\ n \in Nat /\ f \in [0 .. n - 1 -> SbnWord] /\ at \in Nat /\ k \in Nat /\ at + k <= n
  /\ \A l \in 0 .. k - 1 : g[l] \in Int

(* Only they change, by `by` and what leaves at the top. *)
Changes(s, f, n, at, k, by) ==
  /\ s.words \in [0 .. n - 1 -> SbnWord] /\ s.carry \in Int
  /\ \A x \in 0 .. n - 1 : (x < at \/ x >= at + k) => s.words[x] = f[x]
  /\ Number(Window(s.words, at, k), k, W) = Number(Window(f, at, k), k, W) + by

LEMMA Submuls ==
  ASSUME NEW n, NEW f, NEW at, NEW k, NEW g, Places(f, n, at, g, k), NEW q \in Int
  PROVE  LET s == sbn_submul_1(f, at, g, k, q)
         IN  Changes(s, f, n, at, k, (Power(W, k) * s.carry) - (q * Number(g, k, W)))
<1> DEFINE column == [l \in 0 .. k - 1 |-> f[at + l] - (q * g[l])]
           r == Resolved(f, at, column, k)
           s == sbn_submul_1(f, at, g, k, q)
           w == Window(f, at, k)
           A == Number(Window(r.words, at, k), k, W)
           B == Number(w, k, W)
           G == Number(g, k, W)
           P == Power(W, k)
<1>0. /\ n \in Nat /\ f \in [0 .. n - 1 -> SbnWord] /\ at \in Nat /\ k \in Nat /\ at + k <= n
      /\ \A l \in 0 .. k - 1 : g[l] \in Int
  BY DEF Places
<1>1. W \in Nat /\ W > 0
  BY WordBase
<1>2. s = [words |-> r.words, carry |-> -r.carry]
  BY DEF sbn_submul_1
<1>3. /\ \A l \in 0 .. k - 1 : w[l] = f[at + l] /\ f[at + l] \in SbnWord /\ f[at + l] \in Int
      /\ B \in 0 .. P - 1
  BY <1>0, WindowWords
<1>4. P \in Nat
  BY <1>0, <1>1, PowerPositive
<1>5. \A l \in 0 .. k - 1 : w[l] \in Int /\ g[l] \in Int /\ column[l] = w[l] + (-q) * g[l] /\ column[l] \in Int
  <2> SUFFICES ASSUME NEW l \in 0 .. k - 1
               PROVE  w[l] \in Int /\ g[l] \in Int /\ column[l] = w[l] + (-q) * g[l] /\ column[l] \in Int
    OBVIOUS
  <2>1. column[l] = f[at + l] - (q * g[l])
    OBVIOUS
  <2> HIDE DEF column, w
  <2>2. w[l] = f[at + l] /\ f[at + l] \in Int /\ g[l] \in Int
    BY <1>0, <1>3
  <2> QED BY <2>1, <2>2
<1> HIDE DEF column, w
<1>6. /\ r.words \in [0 .. n - 1 -> SbnWord] /\ r.carry \in Int
      /\ \A x \in 0 .. n - 1 : (x < at \/ x >= at + k) => r.words[x] = f[x]
      /\ A + P * r.carry = Number(column, k, W)
  <2>1. \A l \in 0 .. k - 1 : column[l] \in Int
    BY <1>5
  <2> QED BY <1>0, <2>1, ResolvedKeeps
<1>7. Number(column, k, W) = B + (-q) * G
  <2> DEFINE p == -q
  <2>1. \A l \in 0 .. k - 1 : w[l] \in Int /\ g[l] \in Int /\ column[l] = w[l] + p * g[l]
    BY <1>5
  <2>2. p \in Int
    OBVIOUS
  <2> HIDE DEF p
  <2>3. Number(column, k, W) = Number(w, k, W) + p * Number(g, k, W)
    BY SMTT(40), <1>0, <1>1, <2>1, <2>2, NumberLinear
  <2> QED BY <2>3 DEF p
<1>8. A \in Int /\ G \in Int
  <2>1. A \in 0 .. P - 1
    BY <1>0, <1>6, WindowWords
  <2>2. \A j \in 0 .. k : Number(g, j, W) \in Int
    BY <1>0, <1>1, NumberSteps
  <2> QED BY <1>0, <1>4, <2>1, <2>2
<1> HIDE DEF r, A, B, G, P
<1>9. A = B + ((P * (-r.carry)) - (q * G))
  <2>1. P * (-r.carry) = -(P * r.carry) /\ P * r.carry \in Int /\ (-q) * G = -(q * G) /\ q * G \in Int
    BY <1>4, <1>6, <1>8
  <2>2. B \in Int
    BY <1>3, <1>4
  <2>3. A + P * r.carry = B + (-q) * G
    BY <1>6, <1>7
  <2> DEFINE x == P * r.carry  y == q * G
  <2>4. P * (-r.carry) = -x /\ (-q) * G = -y /\ x \in Int /\ y \in Int
    BY <2>1
  <2>5. A + x = B + -y /\ A \in Int
    BY <1>8, <2>3, <2>4
  <2> HIDE DEF x, y
  <2>6. A = B + ((-x) - y)
    BY <2>2, <2>4, <2>5
  <2> QED BY <2>4, <2>6 DEF y
<1> HIDE DEF s
<1>10. s.words = r.words /\ s.carry = -r.carry
  BY <1>2
<1> QED BY <1>6, <1>9, <1>10 DEF s, A, B, G, P, w, Changes

LEMMA Adds ==
  ASSUME NEW n, NEW f, NEW at, NEW k, NEW g, Places(f, n, at, g, k)
  PROVE  LET s == sbn_add_n(f, at, g, k)
         IN  Changes(s, f, n, at, k, Number(g, k, W) - (Power(W, k) * s.carry))
<1> DEFINE column == [l \in 0 .. k - 1 |-> f[at + l] + g[l]]
           s == sbn_add_n(f, at, g, k)
           w == Window(f, at, k)
<1>0. /\ n \in Nat /\ f \in [0 .. n - 1 -> SbnWord] /\ at \in Nat /\ k \in Nat /\ at + k <= n
      /\ \A l \in 0 .. k - 1 : g[l] \in Int
  BY DEF Places
<1>1. W \in Nat /\ W > 0
  BY WordBase
<1>2. s = Resolved(f, at, column, k)
  BY DEF sbn_add_n
<1>3. \A l \in 0 .. k - 1 : w[l] = f[at + l] /\ f[at + l] \in SbnWord /\ f[at + l] \in Int
  BY <1>0, WindowWords
<1>4. \A l \in 0 .. k - 1 : w[l] \in Int /\ g[l] \in Int /\ column[l] = w[l] + 1 * g[l] /\ column[l] \in Int
  <2> SUFFICES ASSUME NEW l \in 0 .. k - 1
               PROVE  w[l] \in Int /\ g[l] \in Int /\ column[l] = w[l] + 1 * g[l] /\ column[l] \in Int
    OBVIOUS
  <2>1. column[l] = f[at + l] + g[l]
    OBVIOUS
  <2> HIDE DEF column, w
  <2>2. w[l] = f[at + l] /\ f[at + l] \in Int /\ g[l] \in Int
    BY <1>0, <1>3
  <2> QED BY <2>1, <2>2
<1> HIDE DEF column, s
<1>5. /\ s.words \in [0 .. n - 1 -> SbnWord] /\ s.carry \in Int
      /\ \A x \in 0 .. n - 1 : (x < at \/ x >= at + k) => s.words[x] = f[x]
      /\ Number(Window(s.words, at, k), k, W) + Power(W, k) * s.carry = Number(column, k, W)
  <2>1. \A l \in 0 .. k - 1 : column[l] \in Int
    BY <1>4
  <2> QED BY <1>0, <1>2, <2>1, ResolvedKeeps
<1> HIDE DEF w
<1>6. Number(column, k, W) = Number(w, k, W) + 1 * Number(g, k, W)
  <2>1. \A l \in 0 .. k - 1 : w[l] \in Int /\ g[l] \in Int /\ column[l] = w[l] + 1 * g[l]
    BY <1>4
  <2>2. 1 \in Int /\ k \in Nat
    BY <1>0
  <2> QED BY SMTT(40), <1>1, <2>1, <2>2, NumberLinear
<1>7. Number(g, k, W) \in Int
  <2>1. \A j \in 0 .. k : Number(g, j, W) \in Int
    BY <1>0, <1>1, NumberSteps
  <2> QED BY <1>0, <2>1
<1>8. Number(column, k, W) = Number(w, k, W) + Number(g, k, W)
  BY <1>6, <1>7
<1> DEFINE A == Number(Window(s.words, at, k), k, W)  B == Number(w, k, W)  G == Number(g, k, W)
           p == Power(W, k) * s.carry
<1>9. A \in Int /\ B \in Int /\ p \in Int
  <2>1. Power(W, k) \in Nat
    BY <1>0, <1>1, PowerPositive
  <2>2. A \in 0 .. Power(W, k) - 1 /\ B \in 0 .. Power(W, k) - 1
    BY <1>0, <1>5, WindowWords DEF w
  <2> HIDE DEF A, B
  <2> QED BY <1>5, <2>1, <2>2
<1> HIDE DEF A, B, G, p
<1>10. A = B + (G - p)
  <2>1. A + p = B + G
    BY <1>5, <1>8 DEF A, B, G, p
  <2> QED BY <1>7, <1>9, <2>1 DEF G
<1> QED BY <1>5, <1>10 DEF s, w, A, B, G, p, Changes

-----------------------------------------------------------------------------
(* Shifts *)

Multiples(h, f, k, S) == \A l \in 0 .. k - 1 : f[l] \in Int /\ h[l] = S * f[l]

LEMMA NumberScaled ==
  ASSUME NEW k \in Nat, NEW f, NEW h, NEW S \in Int, Multiples(h, f, k, S)
  PROVE  Number(h, k, W) = S * Number(f, k, W) /\ Number(f, k, W) \in Int
<1> DEFINE q == S - 1
<1>1. W \in Nat /\ W > 0 /\ q \in Int
  BY WordBase
<1>2. \A l \in 0 .. k - 1 : f[l] \in Int /\ h[l] = f[l] + q * f[l]
  <2> SUFFICES ASSUME NEW l \in 0 .. k - 1 PROVE f[l] \in Int /\ h[l] = f[l] + q * f[l]
    OBVIOUS
  <2>1. f[l] \in Int /\ h[l] = S * f[l]
    BY DEF Multiples
  <2> QED BY <2>1
<1> HIDE DEF q
<1>3. Number(h, k, W) = Number(f, k, W) + q * Number(f, k, W)
  BY SMTT(40), <1>1, <1>2, NumberLinear
<1>4. Number(f, k, W) \in Int
  <2>1. \A j \in 0 .. k : Number(f, j, W) \in Int
    BY <1>1, <1>2, NumberSteps
  <2> QED BY <2>1
<1> DEFINE F == Number(f, k, W)
<1> HIDE DEF F
<1>5. F + q * F = S * F
  BY <1>4 DEF q, F
<1> QED BY <1>3, <1>4, <1>5 DEF F

(* The bits of a word a shift moves out and those it keeps. *)
Shifted(S, T, x) ==
  /\ x \div T \in 0 .. S - 1 /\ x % T \in 0 .. T - 1 /\ x = (x \div T) * T + (x % T)
  /\ Low(x * S) = (x % T) * S /\ Low(x * S) \in 0 .. W - S
  /\ S * x = Low(x * S) + W * (x \div T)

LEMMA ShiftedWord ==
  ASSUME NEW S \in Nat \ {0}, NEW T \in Nat \ {0}, S * T = W, NEW x \in SbnWord
  PROVE  Shifted(S, T, x)
<1> DEFINE a == x \div T  r == x % T
<1>1. W \in Nat \ {0} /\ x \in Nat /\ x < W
  BY WordBase DEF SbnWord
<1>2. a \in Int /\ r \in 0 .. T - 1 /\ x = a * T + r
  BY <1>1, DivMod
<1> HIDE DEF a, r
<1>3. a \in 0 .. S - 1
  <2>1. a * T < S * T /\ (-1) * T < a * T
    <3>1. (-1) * T = -T /\ a * T \in Int
      BY <1>2
    <3> QED BY <1>1, <1>2, <3>1
  <2>2. a < S /\ -1 < a
    BY <1>2, <2>1, CancelLt
  <2> QED BY <1>2, <2>2
<1>4. r * S \in 0 .. W - S
  <2>1. r * S <= (T - 1) * S
    BY <1>2, MulLe
  <2>2. (T - 1) * S = W - S /\ r * S \in Nat
    BY <1>1, <1>2
  <2> QED BY <1>1, <2>1, <2>2
<1>5. x * S = a * W + r * S
  BY <1>1, <1>2, <1>3
<1>6. Low(x * S) = r * S
  <2>1. x * S \in Int /\ r * S \in 0 .. W - 1
    BY <1>1, <1>4
  <2> DEFINE y == x * S  z == r * S
  <2>2. y = a * W + z
    BY <1>5
  <2> HIDE DEF y, z
  <2>3. y % W = z
    BY <1>1, <1>2, <2>1, <2>2, DivModUnique DEF y, z
  <2> QED BY <2>3 DEF Low, y, z
<1>7. S * x = Low(x * S) + W * a
  <2>1. S * x = x * S /\ W * a = a * W /\ a * W \in Int /\ r * S \in Int
    BY <1>1, <1>2
  <2> QED BY <1>5, <1>6, <2>1
<1> QED BY <1>2, <1>3, <1>4, <1>6, <1>7 DEF a, r, Shifted

LEMMA LeftShift ==
  ASSUME NEW c \in 0 .. WordBits - 1, NEW k \in Nat \ {0}, NEW f \in [0 .. k - 1 -> SbnWord],
         f[k - 1] * Power(2, c) < W
  PROVE  LET s == sbn_lshift(f, c)
             S == Power(2, c)
         IN  /\ s \in [0 .. k - 1 -> SbnWord]
             /\ Number(s, k, W) = S * Number(f, k, W)
             /\ f[k - 1] * S <= s[k - 1] /\ s[k - 1] < f[k - 1] * S + S
<1> DEFINE s == sbn_lshift(f, c)
           S == Power(2, c)
           T == Power(2, WordBits - c)
           carry == [l \in 0 .. k |-> IF l = 0 THEN 0 ELSE f[l - 1] \div T]
           h == [l \in 0 .. k - 1 |-> S * f[l]]
<1>1. W \in Nat /\ W > 0 /\ W \in Nat \ {0}
  BY WordBase
<1>2. S \in Nat \ {0} /\ T \in Nat \ {0} /\ S * T = W
  BY ShiftScales
<1>3. s = [x \in 0 .. k - 1 |-> Low(f[x] * S) + (IF x = 0 THEN 0 ELSE f[x - 1] \div T)]
  <2>1. DOMAIN f = 0 .. k - 1
    OBVIOUS
  <2> QED BY <2>1 DEF sbn_lshift
<1> HIDE DEF s, S, T
<1>4. \A l \in 0 .. k - 1 :
        /\ f[l] \in SbnWord /\ f[l] \in Int
        /\ f[l] \div T \in 0 .. S - 1 /\ Low(f[l] * S) \in 0 .. W - S
        /\ S * f[l] = Low(f[l] * S) + W * (f[l] \div T)
  <2> SUFFICES ASSUME NEW l \in 0 .. k - 1
               PROVE  /\ f[l] \in SbnWord /\ f[l] \in Int
                      /\ f[l] \div T \in 0 .. S - 1 /\ Low(f[l] * S) \in 0 .. W - S
                      /\ S * f[l] = Low(f[l] * S) + W * (f[l] \div T)
    OBVIOUS
  <2>1. f[l] \in SbnWord
    OBVIOUS
  <2>2. f[l] \in Int
    BY <1>1, <2>1 DEF SbnWord
  <2> DEFINE x == f[l]
  <2>3. x \in SbnWord
    BY <2>1
  <2> HIDE DEF x
  <2>4. Shifted(S, T, x)
    BY <1>2, <2>3, ShiftedWord
  <2> QED BY <2>1, <2>2, <2>4 DEF x, Shifted
<1>5. \A l \in 0 .. k : carry[l] \in 0 .. S - 1
  <2> SUFFICES ASSUME NEW l \in 0 .. k PROVE carry[l] \in 0 .. S - 1
    OBVIOUS
  <2>1. CASE l = 0
    BY <1>2, <2>1
  <2>2. CASE l # 0
    <3>1. l - 1 \in 0 .. k - 1
      BY <2>2
    <3> QED BY <1>4, <2>2, <3>1
  <2> QED BY <2>1, <2>2
<1>6. \A l \in 0 .. k - 1 : s[l] = Low(f[l] * S) + carry[l] /\ carry[l + 1] = f[l] \div T
  BY <1>3
<1>7. carry[0] = 0
  OBVIOUS
<1>8. carry[k] = 0
  <2>1. carry[k] = f[k - 1] \div T /\ k - 1 \in 0 .. k - 1
    OBVIOUS
  <2> DEFINE x == f[k - 1]  a == x \div T
  <2>2. /\ x \in Int /\ a \in 0 .. S - 1 /\ Low(x * S) \in 0 .. W - S
        /\ S * x = Low(x * S) + W * a
    BY <1>4, <2>1
  <2>3. x * S < W
    BY DEF S
  <2> HIDE DEF x, a
  <2>4. a * W < 1 * W
    <3>1. S * x = x * S /\ W * a = a * W /\ a * W \in Int /\ x * S \in Int
      BY <1>1, <1>2, <2>2
    <3> HIDE DEF carry, h
    <3> QED BY <1>1, <1>2, <2>2, <2>3, <3>1
  <2>5. a < 1
    BY <1>1, <2>2, <2>4, CancelLt
  <2> QED BY <2>1, <2>2, <2>5 DEF a, x
<1> HIDE DEF carry
<1>9. \A l \in 0 .. k - 1 : s[l] \in SbnWord /\ s[l] \in Int
  <2> SUFFICES ASSUME NEW l \in 0 .. k - 1 PROVE s[l] \in SbnWord /\ s[l] \in Int
    OBVIOUS
  <2>1. s[l] = Low(f[l] * S) + carry[l] /\ Low(f[l] * S) \in 0 .. W - S /\ carry[l] \in 0 .. S - 1
    BY <1>4, <1>5, <1>6
  <2> QED BY <1>1, <1>2, <2>1 DEF SbnWord
<1>10. s \in [0 .. k - 1 -> SbnWord]
  BY <1>3, <1>9
<1>11. Exchanges(s, h, carry, W, k)
  <2>1. \A l \in 0 .. k - 1 : s[l] \in Int /\ h[l] \in Int /\ s[l] + W * carry[l + 1] = h[l] + carry[l]
    <3> SUFFICES ASSUME NEW l \in 0 .. k - 1
                 PROVE  s[l] \in Int /\ h[l] \in Int /\ s[l] + W * carry[l + 1] = h[l] + carry[l]
      OBVIOUS
    <3> DEFINE x == f[l]  a == x \div T  e == carry[l]
    <3>1. /\ x \in Int /\ a \in 0 .. S - 1 /\ Low(x * S) \in 0 .. W - S
          /\ S * x = Low(x * S) + W * a
      BY <1>4
    <3>2. s[l] = Low(x * S) + e /\ carry[l + 1] = a /\ s[l] \in Int
      BY <1>6, <1>9
    <3>3. h[l] = S * x
      OBVIOUS
    <3>4. e \in Int
      BY <1>5
    <3> HIDE DEF x, a, e, h
    <3>5. Low(x * S) \in Int /\ W * a \in Int
      BY <1>1, <1>2, <3>1
    <3>6. S * x + e = (Low(x * S) + e) + W * a
      BY <3>1, <3>4, <3>5
    <3>7. S * x \in Int
      BY <1>2, <3>1
    <3> QED BY <3>2, <3>3, <3>6, <3>7 DEF e
  <2>2. \A l \in 0 .. k : carry[l] \in Int
    BY <1>5
  <2> HIDE DEF h
  <2> QED BY <2>1, <2>2 DEF Exchanges
<1>12. Number(s, k, W) + Power(W, k) * carry[k] = Number(h, k, W) + carry[0]
  <2> HIDE DEF h
  <2> QED BY <1>1, <1>11, Telescope
<1>13. Number(h, k, W) = S * Number(f, k, W) /\ Number(f, k, W) \in Int
  <2>1. Multiples(h, f, k, S)
    BY <1>4 DEF Multiples
  <2>2. S \in Int /\ k \in Nat
    BY <1>2
  <2> HIDE DEF h
  <2> QED BY <2>1, <2>2, NumberScaled
<1> HIDE DEF h
<1>14. Number(s, k, W) = S * Number(f, k, W)
  <2>1. Power(W, k) * 0 = 0
    BY <1>1, PowerPositive
  <2>2. \A j \in 0 .. k : Number(s, j, W) \in Int
    BY <1>1, <1>9, NumberSteps
  <2>3. Number(s, k, W) \in Int /\ S * Number(f, k, W) \in Int
    BY <1>2, <1>13, <2>2
  <2> QED BY <1>7, <1>8, <1>12, <1>13, <2>1, <2>3
<1>15. f[k - 1] * S <= s[k - 1] /\ s[k - 1] < f[k - 1] * S + S
  <2> DEFINE x == f[k - 1]  a == x \div T  e == carry[k - 1]
  <2>1. k - 1 \in 0 .. k - 1 /\ (k - 1) + 1 = k
    OBVIOUS
  <2>2. /\ x \in Int /\ S * x = Low(x * S) + W * a /\ Low(x * S) \in 0 .. W - S
        /\ s[k - 1] = Low(x * S) + e /\ e \in 0 .. S - 1
    BY <1>4, <1>5, <1>6, <2>1
  <2>3. a = 0
    BY <1>6, <1>8, <2>1
  <2> HIDE DEF x, a, e
  <2>4. S * x = x * S /\ W * 0 = 0
    BY <1>1, <1>2, <2>2
  <2> QED BY <1>2, <2>2, <2>3, <2>4 DEF x
<1> QED BY <1>10, <1>14, <1>15 DEF s, S

LEMMA RightShift ==
  ASSUME NEW c \in 0 .. WordBits - 1, NEW k \in Nat \ {0}, NEW f \in [0 .. k - 1 -> SbnWord],
         NEW y \in Int, Number(f, k, W) = Power(2, c) * y
  PROVE  LET s == sbn_rshift(f, k, c)
         IN  s \in [0 .. k - 1 -> SbnWord] /\ Number(s, k, W) = y
<1> DEFINE s == sbn_rshift(f, k, c)
           S == Power(2, c)
           T == Power(2, WordBits - c)
           carry == [l \in 0 .. k |-> IF l = k THEN 0 ELSE -(f[l] % S)]
           h == [l \in 0 .. k - 1 |-> S * s[l]]
<1>1. W \in Nat /\ W > 0 /\ W \in Nat \ {0}
  BY WordBase
<1>2. S \in Nat \ {0} /\ T \in Nat \ {0} /\ S * T = W
  BY ShiftScales
<1>3. s = [x \in 0 .. k - 1 |-> (f[x] \div S) + (IF x = k - 1 THEN 0 ELSE Low(f[x + 1] * T))]
  BY DEF sbn_rshift
<1>4. Number(f, k, W) = S * y
  OBVIOUS
<1> HIDE DEF s, S, T
<1>5. \A l \in 0 .. k - 1 :
        /\ f[l] \in SbnWord /\ f[l] \in Int /\ f[l] \div S \in 0 .. T - 1 /\ f[l] % S \in 0 .. S - 1
        /\ f[l] = (f[l] \div S) * S + (f[l] % S)
        /\ Low(f[l] * T) = (f[l] % S) * T /\ Low(f[l] * T) \in 0 .. W - T
  <2> SUFFICES ASSUME NEW l \in 0 .. k - 1
               PROVE  /\ f[l] \in SbnWord /\ f[l] \in Int /\ f[l] \div S \in 0 .. T - 1 /\ f[l] % S \in 0 .. S - 1
                      /\ f[l] = (f[l] \div S) * S + (f[l] % S)
                      /\ Low(f[l] * T) = (f[l] % S) * T /\ Low(f[l] * T) \in 0 .. W - T
    OBVIOUS
  <2>1. f[l] \in SbnWord
    OBVIOUS
  <2>2. f[l] \in Int
    BY <1>1, <2>1 DEF SbnWord
  <2>3. T * S = W
    BY <1>2
  <2> DEFINE x == f[l]
  <2>4. x \in SbnWord
    BY <2>1
  <2> HIDE DEF x
  <2>5. Shifted(T, S, x)
    BY <1>2, <2>3, <2>4, ShiftedWord
  <2> QED BY <2>1, <2>2, <2>5 DEF x, Shifted
<1>6. \A l \in 0 .. k - 1 :
        /\ s[l] \in SbnWord /\ s[l] \in Int /\ h[l] = S * s[l]
        /\ S * s[l] + W * carry[l + 1] = f[l] + carry[l]
  <2> SUFFICES ASSUME NEW l \in 0 .. k - 1
               PROVE  /\ s[l] \in SbnWord /\ s[l] \in Int /\ h[l] = S * s[l]
                      /\ S * s[l] + W * carry[l + 1] = f[l] + carry[l]
    OBVIOUS
  <2> DEFINE x == f[l]  a == x \div S  r == x % S  e == carry[l + 1]
  <2>1. x \in Int /\ a \in 0 .. T - 1 /\ r \in 0 .. S - 1 /\ x = a * S + r /\ carry[l] = -r
    BY <1>5
  <2>2. h[l] = S * s[l]
    OBVIOUS
  <2>3. CASE l = k - 1
    <3>1. s[l] = a /\ e = 0
      BY <1>3, <1>2, <2>1, <2>3
    <3>2. T <= W
      <4>1. 1 * T <= S * T
        BY <1>2, MulLe
      <4> QED BY <1>2, <4>1
    <3> HIDE DEF x, a, r, e, carry, h
    <3>3. a \in SbnWord
      BY <1>1, <1>2, <2>1, <3>2 DEF SbnWord
    <3>4. S * a + W * 0 = x + (-r)
      <4>1. S * a = a * S /\ a * S \in Int /\ W * 0 = 0
        BY <1>1, <1>2, <2>1
      <4> QED BY <2>1, <4>1
    <3> QED BY <2>1, <2>2, <3>1, <3>3, <3>4 DEF x, e
  <2>4. CASE l # k - 1
    <3> DEFINE z == f[l + 1]  t == z % S
    <3>1. l + 1 \in 0 .. k - 1
      BY <2>4
    <3>2. t \in 0 .. S - 1 /\ Low(z * T) = t * T /\ Low(z * T) \in 0 .. W - T
      BY <1>5, <3>1
    <3>3. s[l] = a + Low(z * T) /\ e = -t
      BY <1>3, <2>4, <3>1
    <3> HIDE DEF x, a, r, e, carry, h, z, t
    <3>4. s[l] \in SbnWord /\ s[l] \in Int
      BY SMTT(60), <1>1, <1>2, <2>1, <3>2, <3>3 DEF SbnWord
    <3>5. S * (a + t * T) + W * (-t) = x + (-r)
      <4>1. S * (a + t * T) = a * S + t * (S * T)
        BY <1>1, <1>2, <2>1, <3>2
      <4>2. t * W + W * (-t) = 0 /\ a * S \in Int /\ t * W \in Int /\ W * (-t) \in Int
        BY <1>1, <1>2, <2>1, <3>2
      <4>3. S * (a + t * T) = a * S + t * W
        BY <1>2, <4>1
      <4> DEFINE m == a * S  u == t * W  v == W * (-t)  z1 == S * (a + t * T)
      <4>4. m \in Int /\ u \in Int /\ v \in Int /\ u + v = 0 /\ z1 = m + u /\ x = m + r /\ r \in Int
        BY <1>2, <2>1, <4>2, <4>3
      <4> HIDE DEF m, u, v, z1
      <4>5. z1 + v = x + (-r)
        BY <4>4
      <4> QED BY <4>5 DEF z1, v
    <3> QED BY <2>1, <2>2, <3>2, <3>3, <3>4, <3>5 DEF x, e
  <2> QED BY <2>3, <2>4
<1>7. \A l \in 0 .. k : carry[l] \in Int
  <2> SUFFICES ASSUME NEW l \in 0 .. k PROVE carry[l] \in Int
    OBVIOUS
  <2>1. l = k \/ l \in 0 .. k - 1
    OBVIOUS
  <2>2. l # k => f[l] % S \in Int
    BY <1>2, <1>5, <2>1
  <2> QED BY <2>2
<1>8. carry[k] = 0 /\ carry[0] = -(f[0] % S)
  OBVIOUS
<1>9. s \in [0 .. k - 1 -> SbnWord]
  BY <1>3, <1>6
<1> HIDE DEF h, carry
<1>10. Exchanges(h, f, carry, W, k)
  <2>1. \A l \in 0 .. k - 1 : h[l] \in Int /\ f[l] \in Int
    <3> SUFFICES ASSUME NEW l \in 0 .. k - 1 PROVE h[l] \in Int /\ f[l] \in Int
      OBVIOUS
    <3>1. s[l] \in Int /\ h[l] = S * s[l] /\ f[l] \in Int
      BY <1>5, <1>6
    <3> QED BY <1>2, <3>1
  <2>2. \A l \in 0 .. k - 1 : h[l] + W * carry[l + 1] = f[l] + carry[l]
    BY <1>6
  <2> QED BY <1>7, <2>1, <2>2 DEF Exchanges
<1>11. Number(h, k, W) + Power(W, k) * carry[k] = Number(f, k, W) + carry[0]
  BY <1>1, <1>10, Telescope
<1>12. Number(h, k, W) = S * Number(s, k, W) /\ Number(s, k, W) \in Int
  <2>1. Multiples(h, s, k, S)
    BY <1>6 DEF Multiples
  <2>2. S \in Int /\ k \in Nat
    BY <1>2
  <2> QED BY <2>1, <2>2, NumberScaled
<1> DEFINE m == Number(s, k, W)  r == f[0] % S
<1>13. S * m = S * y - r /\ r \in 0 .. S - 1 /\ m \in Int
  <2>1. Power(W, k) * 0 = 0
    BY <1>1, PowerPositive
  <2>2. 0 \in 0 .. k - 1
    OBVIOUS
  <2>3. f[0] % S \in 0 .. S - 1
    BY <1>5, <2>2
  <2>4. S * y \in Int /\ S * m \in Int
    BY <1>2, <1>12
  <2>5. S * m + 0 = S * y + (-r)
    BY <1>4, <1>8, <1>11, <1>12, <2>1
  <2> HIDE DEF m, r
  <2> QED BY <1>2, <1>12, <2>3, <2>4, <2>5 DEF m, r
<1> HIDE DEF m, r
<1>14. m = y
  <2>1. m * S <= y * S /\ (y - 1) * S < m * S
    <3>1. m * S = S * m /\ y * S = S * y /\ (y - 1) * S = S * y - S /\ S * y \in Int /\ S * m \in Int
      BY <1>2, <1>13
    <3> QED BY <1>2, <1>13, <3>1
  <2>2. m <= y /\ y - 1 < m
    BY <1>2, <1>13, <2>1, CancelLe, CancelLt
  <2> QED BY <1>13, <2>2
<1> QED BY <1>9, <1>14 DEF s, m

-----------------------------------------------------------------------------
(* Counting and comparing words *)

LEMMA ClzDefined ==
  ASSUME NEW x \in SbnWord, x # 0
  PROVE  /\ clz(x) \in 0 .. WordBits - 1
         /\ x * Power(2, clz(x)) < W /\ x * Power(2, clz(x)) >= W \div 2
<1> DEFINE H == W \div 2
           T == {c \in Nat : x * Power(2, c) >= H}
           Serves(c) == x * Power(2, c) < W /\ x * Power(2, c) >= W \div 2
<1>1. /\ W \in Nat \ {0} /\ H \in Nat /\ W = 2 * H /\ H = Power(2, WordBits - 1)
      /\ WordBits - 1 \in Nat /\ x \in Nat \ {0} /\ x < W
  BY WordBase, SbnAssumption DEF SbnWord
<1>2. WordBits - 1 \in T
  <2>1. 1 * H <= x * H
    <3> HIDE DEF H
    <3> QED BY <1>1, MulLe
  <2> HIDE DEF H
  <2> QED BY <1>1, <2>1
<1>3. T \subseteq Nat /\ T # {}
  BY <1>2
<1>4. PICK m \in T : \A k \in T : m <= k
  <2> HIDE DEF T
  <2> QED BY <1>3, SmallestMember
<1>5. m \in Nat /\ m <= WordBits - 1 /\ x * Power(2, m) >= H
  BY <1>2, <1>4
<1>6. x * Power(2, m) < W
  <2>1. CASE m = 0
    <3>1. Power(2, 0) = 1
      BY PowerSteps
    <3> QED BY <1>1, <2>1, <3>1
  <2>2. CASE m # 0
    <3> DEFINE d == m - 1  p == Power(2, d)
    <3>1. d \in Nat /\ m = d + 1
      BY <1>5, <2>2
    <3>2. d \notin T
      BY <1>4, <1>5, <3>1
    <3>3. p \in Nat
      <4>1. 2 \in Nat /\ 2 > 0
        OBVIOUS
      <4> HIDE DEF d
      <4> QED BY <3>1, <4>1, PowerPositive
    <3>4. Power(2, m) = 2 * p
      <4> HIDE DEF d
      <4> QED BY <3>1, PowerSteps
    <3>5. ~(x * p >= H)
      BY <3>1, <3>2
    <3> HIDE DEF p, d
    <3>6. x * (2 * p) = 2 * (x * p) /\ x * p \in Nat
      BY <1>1, <3>3
    <3> HIDE DEF H
    <3> QED BY <1>1, <3>4, <3>5, <3>6
  <2> QED BY <2>1, <2>2
<1>7. m \in 0 .. WordBits - 1 /\ Serves(m)
  BY <1>1, <1>5, <1>6
<1> DEFINE c == CHOOSE c \in 0 .. WordBits - 1 : Serves(c)
<1>8. clz(x) = c
  BY DEF clz
<1>9. c \in 0 .. WordBits - 1 /\ Serves(c)
  <2> HIDE DEF Serves
  <2> QED BY <1>7
<1> QED BY <1>8, <1>9

LEMMA TrimmedRight ==
  ASSUME NEW k \in Nat \ {0}, NEW f
  PROVE  LET m == Trimmed(f, k)
         IN  m \in 1 .. k /\ (\A x \in 0 .. k - 1 : x >= m => f[x] = 0) /\ (m = 1 \/ f[m - 1] # 0)
<1> DEFINE keep == {x \in 1 .. k : x = 1 \/ f[x - 1] # 0}
           T == {d \in Nat : k - d \in keep}
           m == Trimmed(f, k)
<1>1. 1 \in keep /\ k - 1 \in T
  OBVIOUS
<1>2. T \subseteq Nat /\ T # {}
  BY <1>1
<1>3. PICK d \in T : \A e \in T : d <= e
  <2> HIDE DEF T
  <2> QED BY <1>2, SmallestMember
<1>4. k - d \in keep /\ \A y \in keep : y <= k - d
  <2>1. k - d \in keep /\ d \in Nat
    BY <1>3
  <2>2. ASSUME NEW y \in keep PROVE y <= k - d
    <3>1. y \in 1 .. k /\ k - y \in Nat /\ k - (k - y) = y
      OBVIOUS
    <3>2. k - y \in T
      BY <3>1
    <3>3. d <= k - y
      BY <1>3, <3>2
    <3> QED BY <2>1, <3>1, <3>3
  <2> QED BY <2>1, <2>2
<1>5. m = CHOOSE x \in keep : \A y \in keep : y <= x
  BY DEF Trimmed
<1>6. m \in keep /\ \A y \in keep : y <= m
  <2> HIDE DEF keep, m
  <2> QED BY <1>4, <1>5
<1> HIDE DEF m
<1>7. m \in 1 .. k /\ (m = 1 \/ f[m - 1] # 0)
  BY <1>6
<1>8. ASSUME NEW x \in 0 .. k - 1, x >= m PROVE f[x] = 0
  <2>1. SUFFICES ASSUME f[x] # 0 PROVE FALSE
    OBVIOUS
  <2>2. x + 1 \in 1 .. k /\ (x + 1) - 1 = x
    OBVIOUS
  <2>3. x + 1 \in keep
    BY <2>1, <2>2
  <2>4. x + 1 <= m
    BY <1>6, <2>3
  <2> QED BY <1>7, <1>8, <2>4
<1> QED BY <1>7, <1>8 DEF m

LEMMA BelowOnTop ==
  ASSUME NEW k \in Nat \ {0}, NEW g, DOMAIN g = 0 .. k - 1, NEW f, NEW at,
         f[at + (k - 1)] \in Int, g[k - 1] \in Int, f[at + (k - 1)] < g[k - 1]
  PROVE  ~sbn_cmp(f, at, g)
<1> DEFINE differ == {x \in DOMAIN g : f[at + x] # g[x]}
<1>1. k - 1 \in differ /\ \A x \in differ : x \in Int /\ x <= k - 1
  OBVIOUS
<1>2. ASSUME NEW x \in differ, \A y \in differ : y <= x, f[at + x] > g[x] PROVE FALSE
  <2>1. k - 1 <= x /\ x <= k - 1 /\ x \in Int
    BY <1>1, <1>2
  <2>2. x = k - 1
    BY <2>1
  <2> QED BY <1>2, <2>2
<1> HIDE DEF differ
<1>3. differ # {}
  BY <1>1
<1> QED BY <1>2, <1>3 DEF sbn_cmp, differ

(* The domain of k words. *)
LEMMA WordsCounted ==
  ASSUME NEW k \in Nat, NEW f, DOMAIN f = 0 .. k - 1
  PROVE  Cardinality(DOMAIN f) = k
<1>1. Cardinality(0 .. k - 1) = (IF 0 > k - 1 THEN 0 ELSE (k - 1) - 0 + 1)
  BY FS_Interval
<1> QED BY <1>1

-----------------------------------------------------------------------------
(* The words a turn looks at *)

(* The running remainder: k - 1 words and the register above them. *)
Rest(f, at, top, k) == Number(Window(f, at, k - 1), k - 1, W) + Power(W, k - 1) * top

LEMMA WordPowers ==
  /\ Power(W, 0) = 1
  /\ \A k \in Nat : Power(W, k) \in Nat \ {0} /\ Power(W, k + 1) = W * Power(W, k)
<1>1. W \in Nat /\ W > 0
  BY WordBase
<1>2. \A k \in Nat : Power(W, k) \in Nat /\ Power(W, k) > 0
  BY <1>1, PowerPositive
<1>3. Power(W, 0) = 1 /\ \A k \in Nat : Power(W, k + 1) = W * Power(W, k)
  BY PowerSteps
<1> QED BY <1>2, <1>3

LEMMA TopWord ==
  ASSUME NEW k \in Nat \ {0}, NEW f, \A j \in 0 .. k - 1 : f[j] \in SbnWord
  PROVE  /\ Number(f, k - 1, W) \in 0 .. Power(W, k - 1) - 1
         /\ Number(f, k, W) \in 0 .. Power(W, k) - 1
         /\ Number(f, k, W) = Number(f, k - 1, W) + Power(W, k - 1) * f[k - 1]
<1> DEFINE m == k - 1
<1>1. W \in Nat /\ W > 0 /\ m \in Nat /\ k = m + 1
  BY WordBase
<1>2. \A j \in 0 .. k - 1 : f[j] \in 0 .. W - 1 /\ f[j] \in Int
  BY <1>1 DEF SbnWord
<1> HIDE DEF m
<1>3. Number(f, m, W) \in 0 .. Power(W, m) - 1
  <2>1. \A j \in 0 .. m - 1 : f[j] \in 0 .. W - 1
    BY <1>1, <1>2
  <2> QED BY <1>1, <2>1, NumberBounds
<1>4. Number(f, k, W) \in 0 .. Power(W, k) - 1
  BY <1>1, <1>2, NumberBounds
<1>5. Number(f, m + 1, W) = Number(f, m, W) + Power(W, m) * f[m]
  <2>1. \A j \in 0 .. m : f[j] \in Int
    BY <1>1, <1>2
  <2> QED BY <1>1, <2>1, NumberGrows
<1> QED BY <1>1, <1>3, <1>4, <1>5 DEF m

LEMMA WindowTop ==
  ASSUME NEW n \in Nat, NEW f \in [0 .. n - 1 -> SbnWord], NEW at \in Nat, NEW k \in Nat \ {0}, at + k <= n
  PROVE  /\ Number(Window(f, at, k), k, W)
              = Number(Window(f, at, k - 1), k - 1, W) + Power(W, k - 1) * f[at + k - 1]
         /\ Number(Window(f, at, k), k, W) = Rest(f, at, f[at + k - 1], k)
<1> DEFINE w == Window(f, at, k)  u == Window(f, at, k - 1)
<1>1. \A j \in 0 .. k - 1 : w[j] = f[at + j] /\ w[j] \in SbnWord /\ w[j] \in Int
  <2>1. k \in Nat
    OBVIOUS
  <2>2. \A l \in 0 .. k - 1 : w[l] = f[at + l] /\ f[at + l] \in SbnWord /\ f[at + l] \in Int
    BY <2>1, WindowWords
  <2> HIDE DEF w
  <2> QED BY <2>2
<1>2. \A j \in 0 .. (k - 1) - 1 : w[j] \in Int /\ w[j] = u[j]
  <2>1. \A j \in 0 .. (k - 1) - 1 : u[j] = f[at + j]
    BY DEF Window
  <2> HIDE DEF w, u
  <2> QED BY <1>1, <2>1
<1> HIDE DEF w, u
<1>3. Number(w, k, W) = Number(w, k - 1, W) + Power(W, k - 1) * w[k - 1]
  BY <1>1, TopWord
<1>4. Number(w, k - 1, W) = Number(u, k - 1, W)
  <2>1. W \in Nat /\ W > 0 /\ k - 1 \in Nat
    BY WordBase
  <2> QED BY <1>2, <2>1, NumberOfSame
<1>5. w[k - 1] = f[at + k - 1]
  <2>1. at + (k - 1) = at + k - 1 /\ k - 1 \in 0 .. k - 1
    OBVIOUS
  <2> QED BY <1>1, <2>1
<1> QED BY <1>3, <1>4, <1>5 DEF w, u, Rest

LEMMA WindowBottom ==
  ASSUME NEW n \in Nat, NEW f \in [0 .. n - 1 -> SbnWord], NEW at \in Nat, NEW k \in Nat \ {0}, at + k <= n
  PROVE  Number(Window(f, at, k), k, W) = f[at] + W * Number(Window(f, at + 1, k - 1), k - 1, W)
<1> DEFINE w == Window(f, at, k)  u == Window(f, at + 1, k - 1)  m == k - 1
<1>1. W \in Nat /\ W > 0 /\ m \in Nat /\ k = 1 + m
  BY WordBase
<1>2. \A j \in 0 .. k - 1 : w[j] = f[at + j] /\ w[j] \in SbnWord /\ w[j] \in Int
  <2>1. k \in Nat
    OBVIOUS
  <2>2. \A l \in 0 .. k - 1 : w[l] = f[at + l] /\ f[at + l] \in SbnWord /\ f[at + l] \in Int
    BY <2>1, WindowWords
  <2> HIDE DEF w
  <2> QED BY <2>2
<1>3. \A j \in 0 .. m - 1 : u[j] = w[1 + j]
  <2> SUFFICES ASSUME NEW j \in 0 .. m - 1 PROVE u[j] = w[1 + j]
    OBVIOUS
  <2>1. u[j] = f[(at + 1) + j]
    BY DEF Window
  <2>2. 1 + j \in 0 .. k - 1 /\ (at + 1) + j = at + (1 + j)
    OBVIOUS
  <2> HIDE DEF u, w
  <2> QED BY <1>2, <2>1, <2>2
<1> HIDE DEF w, m
<1>4. Number(w, 1 + m, W) = Number(w, 1, W) + Power(W, 1) * Number(u, m, W)
  <2>1. IntLimbs(w, 1 + m)
    BY <1>1, <1>2 DEF IntLimbs
  <2>2. Piece(u, w, 1, m)
    BY <1>3 DEF Piece
  <2> HIDE DEF u
  <2> QED BY <1>1, <2>1, <2>2, NumberSplit
<1>5. Power(W, 1) = W /\ Number(w, 1, W) = w[0]
  <2>1. Power(W, 0) = 1 /\ Power(W, 0 + 1) = W * Power(W, 0)
    BY PowerSteps
  <2>2. \A j \in 0 .. 0 : w[j] \in Int
    BY <1>1, <1>2
  <2>3. Number(w, 0 + 1, W) = Number(w, 0, W) + Power(W, 0) * w[0]
    <3>1. W \in Nat /\ W > 0 /\ 0 \in Nat
      BY <1>1
    <3> QED BY SMTT(30), <2>2, <3>1, NumberGrows
  <2>4. Number(w, 0, W) = 0
    <3>1. W \in Nat /\ W > 0 /\ 0 \in Nat /\ \A j \in 0 .. 0 - 1 : w[j] \in Int
      BY <1>1
    <3> QED BY SMTT(60), <3>1, NumberSteps
  <2>5. w[0] \in Int /\ 0 + 1 = 1
    BY <2>2
  <2> QED BY <1>1, <2>1, <2>3, <2>4, <2>5
<1>6. w[0] = f[at]
  <2>1. 0 \in 0 .. k - 1 /\ at + 0 = at
    BY <1>1
  <2> QED BY <1>2, <2>1
<1> QED BY <1>1, <1>4, <1>5, <1>6 DEF w, m

(* What a turn divides: the word below and the running remainder. *)
LEMMA TurnDividend ==
  ASSUME NEW n \in Nat, NEW f \in [0 .. n - 1 -> SbnWord], NEW at \in Nat, NEW k \in Nat \ {0}, at + k <= n,
         NEW top \in Int
  PROVE  /\ Rest(f, at + 1, top, k) \in Int
         /\ f[at] + W * Rest(f, at + 1, top, k) = Number(Window(f, at, k), k, W) + Power(W, k) * top
<1> DEFINE m == k - 1  u == Number(Window(f, at + 1, m), m, W)  p == Power(W, m)
<1>1. Number(Window(f, at, k), k, W) = f[at] + W * u
  BY WindowBottom
<1>2. m \in Nat /\ k = m + 1
  OBVIOUS
<1>3. W \in Nat /\ p \in Nat /\ Power(W, k) = W * p
  <2> HIDE DEF m
  <2> QED BY <1>2, WordBase, WordPowers
<1>4. u \in Int
  <2>1. u \in 0 .. p - 1
    <3>1. at + 1 \in Nat /\ (at + 1) + m <= n
      OBVIOUS
    <3> HIDE DEF m
    <3> QED BY <1>2, <3>1, WindowWords
  <2> HIDE DEF u, p
  <2> QED BY <1>3, <2>1
<1>5. f[at] \in Int
  <2>1. at \in 0 .. n - 1
    OBVIOUS
  <2>2. f[at] \in SbnWord
    BY <2>1
  <2> QED BY <1>3, <2>2 DEF SbnWord
<1>6. Rest(f, at + 1, top, k) = u + p * top
  BY DEF Rest
<1> HIDE DEF m, u, p
<1>7. W * (u + p * top) = W * u + (W * p) * top /\ W * u \in Int /\ (W * p) * top \in Int /\ u + p * top \in Int
  BY <1>3, <1>4
<1> QED BY <1>1, <1>3, <1>5, <1>6, <1>7

(* Both, with their premises as one. *)
WindowIn(n, f, at, k) ==
  n \in Nat /\ f \in [0 .. n - 1 -> SbnWord] /\ at \in Nat /\ k \in Nat \ {0} /\ at + k <= n

LEMMA WindowAndTop ==
  ASSUME NEW n, NEW f, NEW at, NEW k, WindowIn(n, f, at, k)
  PROVE  /\ Number(Window(f, at, k), k, W)
              = Number(Window(f, at, k - 1), k - 1, W) + Power(W, k - 1) * f[at + k - 1]
         /\ Number(Window(f, at, k), k, W) = Rest(f, at, f[at + k - 1], k)
         /\ \A top \in Int :
              f[at] + W * Rest(f, at + 1, top, k) = Number(Window(f, at, k), k, W) + Power(W, k) * top
<1>1. n \in Nat /\ f \in [0 .. n - 1 -> SbnWord] /\ at \in Nat /\ k \in Nat \ {0} /\ at + k <= n
  BY DEF WindowIn
<1>2. /\ Number(Window(f, at, k), k, W)
           = Number(Window(f, at, k - 1), k - 1, W) + Power(W, k - 1) * f[at + k - 1]
      /\ Number(Window(f, at, k), k, W) = Rest(f, at, f[at + k - 1], k)
  BY <1>1, WindowTop
<1>3. ASSUME NEW top \in Int
      PROVE  f[at] + W * Rest(f, at + 1, top, k) = Number(Window(f, at, k), k, W) + Power(W, k) * top
  BY <1>1, TurnDividend
<1> QED BY <1>2, <1>3

-----------------------------------------------------------------------------
(* A turn of the loop *)

(* Before a turn the running remainder is below the divisor d; .. *)
Dividing(f, n, at, k, d, top) ==
  /\ n \in Nat /\ f \in [0 .. n - 1 -> SbnWord] /\ at \in Nat /\ k \in Nat /\ k >= 3 /\ at + k <= n
  /\ d \in [0 .. k - 1 -> SbnWord] /\ 2 * d[k - 1] >= W /\ top \in SbnWord
  /\ Rest(f, at + 1, top, k) \in 0 .. Number(d, k, W) - 1

(* .. after it q times the divisor is gone and the same holds a word lower. *)
Divided(f, n, at, k, d, top, g, newtop, q) ==
  /\ g \in [0 .. n - 1 -> SbnWord] /\ newtop \in SbnWord /\ q \in SbnWord
  /\ \A x \in 0 .. n - 1 : x < at => g[x] = f[x]
  /\ f[at] + W * Rest(f, at + 1, top, k) = q * Number(d, k, W) + Rest(g, at, newtop, k)
  /\ Rest(g, at, newtop, k) \in 0 .. Number(d, k, W) - 1

(* Divisor and dividend by their top words. *)
LEMMA TurnNumbers ==
  ASSUME NEW f, NEW n, NEW at, NEW k, NEW d, NEW top, Dividing(f, n, at, k, d, top)
  PROVE  LET P == Power(W, k - 2)
             T == (d[k - 1] * W) + d[k - 2]
             V == Number(d, k - 2, W)
             L == Number(Window(f, at, k - 2), k - 2, W)
             u1 == f[at + k - 1]
             u0 == f[at + k - 2]
             D == Number(d, k, W)
             U == f[at] + W * Rest(f, at + 1, top, k)
         IN  /\ P \in Nat \ {0} /\ Power(W, k - 1) = W * P /\ Power(W, k) = W * W * P
             /\ d[k - 1] \in SbnWord /\ d[k - 2] \in SbnWord /\ u1 \in SbnWord /\ u0 \in SbnWord
             /\ V \in 0 .. P - 1 /\ L \in 0 .. P - 1 /\ T \in Nat
             /\ D = V + P * T /\ D \in Nat /\ D < Power(W, k)
             /\ Number(d, k - 1, W) = V + P * d[k - 2]
             /\ U \in Nat /\ U < W * D
             /\ U = L + P * (top * W * W + u1 * W + u0)
             /\ (top * W) + u1 <= T
<1> DEFINE m == k - 2
           P == Power(W, m)
           d1 == d[k - 1]
           d0 == d[k - 2]
           T == (d1 * W) + d0
           V == Number(d, m, W)
           L == Number(Window(f, at, m), m, W)
           u1 == f[at + k - 1]
           u0 == f[at + k - 2]
           D == Number(d, k, W)
           R == Rest(f, at + 1, top, k)
           U == f[at] + W * R
<1>1. /\ n \in Nat /\ f \in [0 .. n - 1 -> SbnWord] /\ at \in Nat /\ k \in Nat /\ k >= 3 /\ at + k <= n
      /\ d \in [0 .. k - 1 -> SbnWord] /\ 2 * d1 >= W /\ top \in SbnWord /\ R \in 0 .. D - 1
  BY DEF Dividing
<1>2. /\ m \in Nat \ {0} /\ m + 1 = k - 1 /\ (m + 1) + 1 = k /\ k - 1 \in Nat \ {0} /\ k \in Nat \ {0} /\ (k - 1) - 1 = m
      /\ at + k - 1 = at + (k - 1) /\ at + k - 2 = at + m
  BY <1>1
<1>3. W \in Nat \ {0} /\ W \in Nat /\ \A x \in SbnWord : x \in Nat /\ x < W
  BY WordBase DEF SbnWord
<1>4. P \in Nat \ {0} /\ Power(W, k - 1) = W * P /\ Power(W, k) = W * W * P
  <2> HIDE DEF m
  <2>1. \A j \in Nat : Power(W, j) \in Nat \ {0} /\ Power(W, j + 1) = W * Power(W, j)
    BY WordPowers
  <2>2. P \in Nat \ {0} /\ Power(W, k - 1) = W * P
    BY <1>2, <2>1
  <2>3. Power(W, k) = W * Power(W, k - 1)
    BY <1>2, <2>1
  <2>4. W * (W * P) = W * W * P
    BY <1>3, <2>2
  <2> QED BY <2>2, <2>3, <2>4
<1>5. d1 \in SbnWord /\ d0 \in SbnWord /\ u1 \in SbnWord /\ u0 \in SbnWord
  <2>1. k - 1 \in 0 .. k - 1 /\ k - 2 \in 0 .. k - 1 /\ at + k - 1 \in 0 .. n - 1 /\ at + k - 2 \in 0 .. n - 1
    BY <1>1
  <2> QED BY <1>1, <2>1
<1>6. \A j \in 0 .. k - 1 : d[j] \in SbnWord
  BY <1>1
<1>7. D = Number(d, k - 1, W) + (W * P) * d1 /\ D \in 0 .. (W * W * P) - 1
  <2>1. /\ D \in 0 .. Power(W, k) - 1
        /\ D = Number(d, k - 1, W) + Power(W, k - 1) * d1
    BY <1>2, <1>6, TopWord
  <2> QED BY <1>4, <2>1
<1>8. Number(d, k - 1, W) = V + P * d0 /\ V \in 0 .. P - 1
  <2> DEFINE h == k - 1
  <2>1. h \in Nat \ {0} /\ h - 1 = m /\ d[h - 1] = d0
    BY <1>2
  <2>2. \A j \in 0 .. h - 1 : d[j] \in SbnWord
    BY <1>6, <1>2
  <2> HIDE DEF h, m, d0
  <2>3. /\ Number(d, h - 1, W) \in 0 .. Power(W, h - 1) - 1
        /\ Number(d, h, W) = Number(d, h - 1, W) + Power(W, h - 1) * d[h - 1]
    BY <2>1, <2>2, TopWord
  <2> QED BY <2>1, <2>3 DEF h
<1> HIDE DEF P, V
<1>9. D = V + P * T /\ T \in Nat
  <2>1. d1 \in Nat /\ d0 \in Nat /\ W \in Nat /\ P \in Nat /\ V \in Int
    BY <1>3, <1>4, <1>5, <1>8
  <2> HIDE DEF d1, d0, D
  <2>2. (V + P * d0) + (W * P) * d1 = V + P * ((d1 * W) + d0)
    BY <2>1
  <2> QED BY <1>7, <1>8, <2>1, <2>2
<1>10. U = Number(Window(f, at, k), k, W) + (W * W * P) * top /\ R \in Int
  <2>1. top \in Int
    BY <1>1, <1>3
  <2>2. R \in Int /\ U = Number(Window(f, at, k), k, W) + Power(W, k) * top
    <3>1. n \in Nat /\ f \in [0 .. n - 1 -> SbnWord] /\ at \in Nat /\ k \in Nat \ {0} /\ at + k <= n
      BY <1>1, <1>2
    <3> HIDE DEF m, T, L, D, d1, d0, u1, u0
    <3> QED BY <2>1, <3>1, TurnDividend
  <2> HIDE DEF R, U
  <2> QED BY <1>4, <2>2
<1>11. Number(Window(f, at, k), k, W) = Number(Window(f, at, k - 1), k - 1, W) + (W * P) * u1
  <2>1. Number(Window(f, at, k), k, W) = Number(Window(f, at, k - 1), k - 1, W) + Power(W, k - 1) * f[at + k - 1]
    <3>1. WindowIn(n, f, at, k)
      BY <1>1, <1>2 DEF WindowIn
    <3> QED BY <3>1, WindowAndTop
  <2> QED BY <1>4, <2>1
<1>12. Number(Window(f, at, k - 1), k - 1, W) = L + P * u0
  <2> DEFINE h == k - 1
  <2>1. h \in Nat \ {0} /\ h - 1 = m /\ at + h <= n /\ f[at + h - 1] = u0
    <3>1. at + h - 1 = at + k - 2
      BY <1>1
    <3> QED BY <1>1, <1>2, <3>1
  <2> HIDE DEF h, m, u0
  <2>2. Number(Window(f, at, h), h, W)
              = Number(Window(f, at, h - 1), h - 1, W) + Power(W, h - 1) * f[at + h - 1]
    BY <1>1, <2>1, WindowTop
  <2> QED BY <2>1, <2>2 DEF h, P
<1>13. L \in 0 .. P - 1
  <2>1. m \in Nat /\ at + m <= n
    BY <1>1, <1>2
  <2> HIDE DEF m
  <2> QED BY <1>1, <2>1, WindowWords DEF P
<1> HIDE DEF L
<1>14. U = L + P * (top * W * W + u1 * W + u0)
  <2>1. top \in Nat /\ u1 \in Nat /\ u0 \in Nat /\ L \in Int /\ P \in Nat /\ W \in Nat
    BY <1>1, <1>3, <1>4, <1>5, <1>13
  <2> HIDE DEF u1, u0, U
  <2>2. ((L + P * u0) + (W * P) * u1) + (W * W * P) * top = L + P * (top * W * W + u1 * W + u0)
    BY <2>1
  <2> QED BY <1>10, <1>11, <1>12, <2>2
<1>15. U \in Nat /\ U < W * D
  <2>1. at \in 0 .. n - 1
    BY <1>1
  <2>2. f[at] \in Nat /\ f[at] < W
    BY <1>1, <1>3, <2>1
  <2>3. D \in Nat /\ R \in Nat /\ R + 1 <= D
    BY <1>1, <1>4, <1>7, <1>10
  <2> DEFINE a == f[at]
  <2> HIDE DEF R, D, a
  <2>4. (R + 1) * W <= D * W
    BY <1>3, <2>3, MulLe
  <2>5. (R + 1) * W = W * R + W /\ W * R \in Nat /\ D * W = W * D /\ W * D \in Int
    BY <1>3, <2>3
  <2>6. a + W * R \in Nat /\ a + W * R < W * D
    BY <1>3, <2>2, <2>4, <2>5 DEF a
  <2> QED BY <2>6 DEF a
<1>16. (top * W) + u1 <= T
  <2> DEFINE h == k - 1  low == Number(Window(f, at + 1, m), m, W)  t == (top * W) + u1
  <2>1. h \in Nat \ {0} /\ h - 1 = m /\ at + 1 \in Nat /\ (at + 1) + h <= n /\ f[(at + 1) + h - 1] = u1
    <3>1. (at + 1) + h - 1 = at + k - 1
      BY <1>1
    <3> QED BY <1>1, <1>2, <3>1
  <2>2. R = Number(Window(f, at + 1, h), h, W) + (W * P) * top
    BY <1>4 DEF Rest
  <2> HIDE DEF h, m, u1, R
  <2>3. Number(Window(f, at + 1, h), h, W) = low + P * u1
    <3>1. Number(Window(f, at + 1, h), h, W)
              = Number(Window(f, at + 1, h - 1), h - 1, W) + Power(W, h - 1) * f[(at + 1) + h - 1]
      BY <1>1, <2>1, WindowTop
    <3> QED BY <2>1, <3>1 DEF P
  <2>4. low \in 0 .. P - 1
    <3>1. m \in Nat /\ (at + 1) + m <= n /\ at + 1 \in Nat
      BY <2>1, <1>1
    <3> QED BY <1>1, <3>1, WindowWords DEF P
  <2> HIDE DEF low, D, T
  <2>5. top \in Nat /\ u1 \in Nat
    BY <1>1, <1>3, <1>5
  <2>6. t \in Nat /\ R = low + P * t
    <3>1. (low + P * u1) + (W * P) * top = low + P * ((top * W) + u1)
      BY <1>3, <1>4, <2>4, <2>5
    <3> QED BY <1>3, <2>2, <2>3, <2>5, <3>1
  <2> HIDE DEF t
  <2>7. t * P < (T + 1) * P
    <3>1. P * t = t * P /\ P * T = T * P /\ (T + 1) * P = T * P + P /\ T * P \in Int /\ t * P \in Int
      BY <1>4, <1>9, <2>6
    <3> DEFINE a == t * P  b == T * P
    <3>2. R = low + a /\ D = V + b /\ a \in Int /\ b \in Int /\ R < D /\ P \in Nat
      BY <1>1, <1>4, <1>9, <2>6, <3>1, <1>7
    <3> HIDE DEF a, b
    <3>3. a < b + P
      BY <1>8, <2>4, <3>2
    <3> QED BY <3>1, <3>3 DEF a, b
  <2>8. t < T + 1
    BY <1>4, <1>9, <2>6, <2>7, CancelLt
  <2>9. t <= T
    BY <1>9, <2>6, <2>8
  <2> QED BY <2>9 DEF t, T, u1
<1>17. D \in Nat /\ D < Power(W, k)
  <2> DEFINE B == W * W * P
  <2>1. B \in Int /\ D \in 0 .. B - 1 /\ Power(W, k) = B
    BY <1>3, <1>4, <1>7
  <2> HIDE DEF B, D
  <2> QED BY <2>1
<1> QED BY <1>4, <1>5, <1>8, <1>9, <1>13, <1>14, <1>15, <1>16, <1>17 DEF P, V, L

(* The largest digit, when the top words are the divisor's. *)
LEMMA LargestTurn ==
  ASSUME NEW f, NEW n, NEW at, NEW k, NEW d, NEW top, Dividing(f, n, at, k, d, top),
         top = d[k - 1], f[at + k - 1] = d[k - 2]
  PROVE  LET s == sbn_submul_1(f, at, d, k, W - 1)
         IN  Divided(f, n, at, k, d, top, s.words, s.words[at + k - 1], W - 1)
<1> DEFINE P == Power(W, k - 2)
           T == (d[k - 1] * W) + d[k - 2]
           V == Number(d, k - 2, W)
           L == Number(Window(f, at, k - 2), k - 2, W)
           u1 == f[at + k - 1]
           u0 == f[at + k - 2]
           D == Number(d, k, W)
           U == f[at] + W * Rest(f, at + 1, top, k)
           B == Power(W, k)
           s == sbn_submul_1(f, at, d, k, W - 1)
           g == s.words
           c == s.carry
           A == Number(Window(g, at, k), k, W)
           F == Number(Window(f, at, k), k, W)
<1>1. /\ n \in Nat /\ f \in [0 .. n - 1 -> SbnWord] /\ at \in Nat /\ k \in Nat /\ k >= 3 /\ at + k <= n
      /\ d \in [0 .. k - 1 -> SbnWord] /\ 2 * d[k - 1] >= W /\ top \in SbnWord
  BY DEF Dividing
<1>2. /\ P \in Nat \ {0} /\ B = W * W * P
      /\ d[k - 1] \in SbnWord /\ d[k - 2] \in SbnWord /\ u1 \in SbnWord /\ u0 \in SbnWord
      /\ V \in 0 .. P - 1 /\ L \in 0 .. P - 1 /\ T \in Nat
      /\ D = V + P * T /\ D \in Nat /\ D < B
      /\ U \in Nat /\ U < W * D
      /\ U = L + P * (top * W * W + u1 * W + u0)
  BY TurnNumbers
<1>3. W \in Nat \ {0} /\ W >= 2 /\ \A x \in SbnWord : x \in Nat /\ x < W
  BY WordBase DEF SbnWord
<1>4. /\ g \in [0 .. n - 1 -> SbnWord] /\ c \in Int
      /\ \A x \in 0 .. n - 1 : (x < at \/ x >= at + k) => g[x] = f[x]
      /\ A = F + ((B * c) - ((W - 1) * D))
  <2> DEFINE q == W - 1  r == sbn_submul_1(f, at, d, k, q)
  <2>1. (\A l \in 0 .. k - 1 : d[l] \in Int) /\ q \in Int
    BY <1>1, <1>3
  <2>2. Places(f, n, at, d, k)
    BY <1>1, <2>1 DEF Places
  <2> HIDE DEF q
  <2>3. Changes(r, f, n, at, k, (B * r.carry) - (q * D))
    BY <2>1, <2>2, Submuls
  <2> QED BY <2>3 DEF q, Changes
<1>5. U = F + B * top /\ F \in Int
  <2>1. top \in Int /\ k \in Nat \ {0}
    BY <1>1, <1>3
  <2>2. U = F + B * top
    <3>1. WindowIn(n, f, at, k)
      BY <1>1, <2>1 DEF WindowIn
    <3> QED BY <2>1, <3>1, WindowAndTop
  <2>3. F \in 0 .. B - 1
    BY <1>1, WindowWords
  <2>4. B \in Int
    BY <2>1, WordPowers
  <2> HIDE DEF F, B
  <2> QED BY <2>2, <2>3, <2>4
<1>6. A \in 0 .. B - 1 /\ B \in Nat \ {0}
  <2> HIDE DEF g
  <2> QED BY <1>1, <1>4, WindowWords, WordPowers
<1>7. k \in Nat \ {0} /\ A = Rest(g, at, g[at + k - 1], k)
  <2> HIDE DEF g
  <2>1. k \in Nat \ {0}
    BY <1>1
  <2>2. WindowIn(n, g, at, k)
    BY <1>1, <1>4, <2>1 DEF WindowIn
  <2>3. A = Rest(g, at, g[at + k - 1], k)
    BY <2>2, WindowAndTop
  <2> QED BY <2>1, <2>3
<1>8. g[at + k - 1] \in SbnWord
  <2>1. at + k - 1 \in 0 .. n - 1
    BY <1>1
  <2> HIDE DEF g
  <2> QED BY <1>4, <2>1
<1> HIDE DEF s, g, c, A, F, B, P, V, L, D, U, T
<1>9. (W - 1) * D <= U
  <2> DEFINE t == top * W * W + u1 * W + u0
  <2>1. top \in Nat /\ u1 \in Nat /\ u0 \in Nat
    BY <1>1, <1>2, <1>3
  <2>2. t = T * W + u0 /\ T * W \in Nat
    <3>1. top * W * W + u1 * W = ((top * W) + u1) * W
      BY <1>3, <2>1
    <3> QED BY <1>2, <1>3, <2>1, <3>1 DEF T
  <2>3. T >= W
    <3>1. top >= 1
      BY <1>1, <1>3, <2>1
    <3>2. 1 * W <= top * W
      BY <1>3, <2>1, <3>1, MulLe
    <3> QED BY <1>2, <1>3, <2>1, <3>2 DEF T
  <2>4. (W - 1) * (T + 1) <= t
    <3>1. (W - 1) * (T + 1) = T * W - T + W - 1
      BY <1>2, <1>3
    <3> HIDE DEF t
    <3> QED BY <1>2, <1>3, <2>1, <2>2, <2>3, <3>1
  <2>5. t \in Nat
    <3> HIDE DEF t
    <3> QED BY <2>1, <2>2
  <2> DEFINE e == (W - 1) * (T + 1)
  <2>6. D <= (T + 1) * P
    <3>1. (T + 1) * P = P * T + P
      BY <1>2
    <3> QED BY <1>2, <3>1
  <2>7. D * (W - 1) <= ((T + 1) * P) * (W - 1)
    <3>1. (T + 1) * P \in Int /\ W - 1 \in Nat
      BY <1>2, <1>3
    <3> QED BY <1>2, <2>6, <3>1, MulLe
  <2>8. e * P <= t * P
    <3>1. e \in Int
      BY <1>2, <1>3
    <3> HIDE DEF e, t
    <3> QED BY <1>2, <2>4, <2>5, <3>1, MulLe DEF e
  <2>9. ((T + 1) * P) * (W - 1) = e * P /\ D * (W - 1) = (W - 1) * D /\ e * P \in Int /\ (W - 1) * D \in Int
    BY <1>2, <1>3
  <2>10. U = L + t * P /\ t * P \in Int
    <3> HIDE DEF t
    <3>1. P * t = t * P /\ t * P \in Int
      BY <1>2, <2>5
    <3> QED BY <1>2, <3>1 DEF t
  <2> HIDE DEF t, e
  <2> QED BY <1>2, <2>7, <2>8, <2>9, <2>10
<1> DEFINE r == U - (W - 1) * D
<1>10. r \in 0 .. D - 1
  <2>1. W * D = (W - 1) * D + D /\ (W - 1) * D \in Int
    BY <1>2, <1>3
  <2> QED BY <1>2, <1>9, <2>1
<1>11. r = A + B * (top - c)
  <2>1. top \in Int /\ c \in Int /\ B \in Int /\ D \in Int /\ W - 1 \in Int
    BY SMTT(60), <1>1, <1>2, <1>3, <1>4, <1>6
  <2>2. B * (top - c) = B * top - B * c /\ B * top \in Int /\ B * c \in Int
    BY <2>1
  <2>3. (W - 1) * D \in Int
    BY <2>1
  <2> QED BY <1>4, <1>5, <1>6, <2>2, <2>3
<1> HIDE DEF r
<1>12. top - c = 0
  <2>1. top - c \in Int
    <3>1. top \in Nat
      BY <1>1, <1>3
    <3>2. c \in Int
      BY <1>4
    <3> QED BY <3>1, <3>2
  <2> DEFINE j == top - c
  <2>2. j \in Int /\ r = A + B * j
    BY <1>11, <2>1
  <2> HIDE DEF j
  <2>3. B * j = j * B /\ j * B \in Int /\ 1 * B = B /\ (-1) * B = -B
    BY <1>6, <2>2
  <2>4. j * B < 1 * B /\ (-1) * B < j * B
    BY <1>2, <1>6, <1>10, <2>2, <2>3
  <2>5. j < 1 /\ -1 < j
    BY <1>6, <2>2, <2>4, CancelLt
  <2> QED BY <2>2, <2>5 DEF j
<1>13. r = A
  <2>1. B * 0 = 0
    BY <1>6
  <2> QED BY <1>6, <1>11, <1>12, <2>1
<1>14. U = (W - 1) * D + A
  <2>1. (W - 1) * D \in Int
    BY <1>2, <1>3
  <2> QED BY <1>2, <1>6, <1>13, <2>1 DEF r
<1>15. W - 1 \in SbnWord
  BY <1>3 DEF SbnWord
<1>16. A \in 0 .. D - 1
  BY <1>10, <1>13
<1>17. \A x \in 0 .. n - 1 : x < at => g[x] = f[x]
  BY <1>4
<1>18. Divided(f, n, at, k, d, top, g, g[at + k - 1], W - 1)
  BY <1>4, <1>7, <1>8, <1>14, <1>15, <1>16, <1>17 DEF Divided, U, D
<1> QED BY <1>18 DEF g, s

(* The estimated digit: the carry out of the lower words against the two top  *)
(* words of the remainder tells whether it is one too large.                  *)
LEMMA EstimatedTurn ==
  ASSUME NEW f, NEW n, NEW at, NEW k, NEW d, NEW top, Dividing(f, n, at, k, d, top),
         ~(top = d[k - 1] /\ f[at + k - 1] = d[k - 2]),
         NEW v \in SbnWord, NEW short \in 1 .. (d[k - 1] * W) + d[k - 2],
         W * W * W = (W + v) * ((d[k - 1] * W) + d[k - 2]) + short
  PROVE  LET e == sbn_udiv_qr_3by2(top, f[at + k - 1], f[at + k - 2], d[k - 1], d[k - 2], v)
             s == sbn_submul_1(f, at, d, k - 2, e.q)
             m == [s.words EXCEPT ![at + k - 2] = Low(e.r - s.carry)]
             t == ((e.r - s.carry) % (W * W)) \div W
             a == sbn_add_n(m, at, d, k - 1)
         IN  IF Borrows(e.r, s.carry)
             THEN Divided(f, n, at, k, d, top, a.words, Low(t + d[k - 1] + a.carry), Low(e.q - 1))
             ELSE Divided(f, n, at, k, d, top, m, t, e.q)
<1> DEFINE P == Power(W, k - 2)
           d1 == d[k - 1]
           d0 == d[k - 2]
           T == (d1 * W) + d0
           V == Number(d, k - 2, W)
           L == Number(Window(f, at, k - 2), k - 2, W)
           u1 == f[at + k - 1]
           u0 == f[at + k - 2]
           D == Number(d, k, W)
           U == f[at] + W * Rest(f, at + 1, top, k)
           e == sbn_udiv_qr_3by2(top, u1, u0, d1, d0, v)
           q == e.q
           r == e.r
           s == sbn_submul_1(f, at, d, k - 2, q)
           g == s.words
           c == s.carry
           j == r - c
           m == [g EXCEPT ![at + k - 2] = Low(j)]
           t == (j % (W * W)) \div W
           a == sbn_add_n(m, at, d, k - 1)
           K == Number(Window(g, at, k - 2), k - 2, W)
<1>1. /\ n \in Nat /\ f \in [0 .. n - 1 -> SbnWord] /\ at \in Nat /\ k \in Nat /\ k >= 3 /\ at + k <= n
      /\ d \in [0 .. k - 1 -> SbnWord] /\ 2 * d1 >= W /\ top \in SbnWord
  BY DEF Dividing
<1>2. /\ P \in Nat \ {0} /\ Power(W, k - 1) = W * P /\ Power(W, k) = W * W * P
      /\ d1 \in SbnWord /\ d0 \in SbnWord /\ u1 \in SbnWord /\ u0 \in SbnWord
      /\ V \in 0 .. P - 1 /\ L \in 0 .. P - 1 /\ T \in Nat
      /\ D = V + P * T /\ D \in Nat /\ D < Power(W, k)
      /\ Number(d, k - 1, W) = V + P * d0
      /\ U \in Nat /\ U < W * D
      /\ U = L + P * (top * W * W + u1 * W + u0)
      /\ (top * W) + u1 <= T
  BY TurnNumbers
<1>3. W \in Nat \ {0} /\ W >= 2 /\ \A x \in SbnWord : x \in Nat /\ x < W
  BY WordBase DEF SbnWord
<1>4. (top * W) + u1 < T
  <2>1. top \in Nat /\ u1 \in Nat /\ u1 < W /\ d1 \in Nat /\ d0 \in Nat /\ d0 < W /\ T = d1 * W + d0
    BY <1>1, <1>2, <1>3
  <2>2. ~(top = d1 /\ u1 = d0)
    OBVIOUS
  <2>3. ASSUME (top * W) + u1 = T PROVE FALSE
    <3> DEFINE x == top * W + u1
    <3>1. x \in Int /\ x = d1 * W + d0 /\ x = top * W + u1
      BY <1>3, <2>1, <2>3
    <3>2. d0 \in 0 .. W - 1 /\ u1 \in 0 .. W - 1 /\ d1 \in Int /\ top \in Int
      BY <1>3, <2>1
    <3> HIDE DEF x, d1, d0, u1
    <3>3. x \div W = d1 /\ x % W = d0
      BY <1>3, <3>1, <3>2, DivModUnique
    <3>4. x \div W = top /\ x % W = u1
      <4>1. W \in Nat \ {0} /\ top \in Int /\ u1 \in 0 .. W - 1 /\ x \in Int /\ x = top * W + u1
        BY <1>3, <3>1, <3>2
      <4> QED BY <4>1, DivModUnique
    <3> QED BY <2>2, <3>3, <3>4
  <2>4. (top * W) + u1 \in Int
    BY <1>3, <2>1
  <2> QED BY <1>2, <2>3, <2>4
<1>5. q \in SbnWord /\ r \in 0 .. T - 1 /\ top * W * W + u1 * W + u0 = q * T + r
  <2>1. short \in 1 .. T /\ W * W * W = (W + v) * T + short /\ T = (d1 * W) + d0
    OBVIOUS
  <2>2. /\ d1 \in SbnWord /\ 2 * d1 >= W /\ d0 \in SbnWord
        /\ top \in SbnWord /\ u1 \in SbnWord /\ u0 \in SbnWord /\ (top * W) + u1 < T
    BY <1>1, <1>2, <1>4
  <2> HIDE DEF d1, d0, u1, u0, T
  <2> QED BY <2>1, <2>2, ThreeByTwo
<1> HIDE DEF e, q, r
<1>6. \A l \in 0 .. k - 1 : d[l] \in Int
  BY <1>1, <1>3
<1>7. q \in Int /\ r \in Int /\ q \in Nat /\ q < W
  BY <1>2, <1>3, <1>5
<1>8. /\ g \in [0 .. n - 1 -> SbnWord] /\ c \in Int
      /\ \A x \in 0 .. n - 1 : (x < at \/ x >= at + (k - 2)) => g[x] = f[x]
      /\ K = L + ((P * c) - (q * V))
  <2>1. Places(f, n, at, d, k - 2)
    BY <1>1, <1>6 DEF Places
  <2>2. Changes(s, f, n, at, k - 2, (P * c) - (q * V))
    BY <1>7, <2>1, Submuls
  <2> QED BY <2>2 DEF Changes
<1> HIDE DEF s, g, c
<1>9. K \in 0 .. P - 1
  <2>1. k - 2 \in Nat /\ at + (k - 2) <= n
    BY <1>1
  <2> QED BY <1>1, <1>8, <2>1, WindowWords
<1> HIDE DEF K, L, V, P, D, U
<1>10. q * V \in Nat /\ q * V <= (W - 1) * (P - 1)
  <2>1. q * V <= (W - 1) * V /\ V * (W - 1) <= (P - 1) * (W - 1)
    BY <1>2, <1>3, <1>7, MulLe
  <2>2. (W - 1) * V = V * (W - 1) /\ (P - 1) * (W - 1) = (W - 1) * (P - 1) /\ (W - 1) * V \in Int /\ q * V \in Nat
        /\ (W - 1) * (P - 1) \in Int
    BY <1>2, <1>3, <1>7
  <2> QED BY <2>1, <2>2
<1>11. c \in 0 .. W - 1
  <2>1. P * c = c * P /\ c * P \in Int /\ (W - 1) * (P - 1) = W * P - W - P + 1 /\ W * P \in Int /\ (-1) * P = -P
    BY <1>2, <1>3, <1>8
  <2>2. c * P < W * P /\ (-1) * P < c * P
    <3> DEFINE x == c * P  y == q * V  z == W * P
    <3>1. /\ x \in Int /\ y \in Nat /\ z \in Int /\ y <= (z - W - P) + 1 /\ K = L + (x - y) /\ (-1) * P = -P
          /\ P \in Nat \ {0} /\ K \in 0 .. P - 1 /\ L \in 0 .. P - 1
      BY <1>2, <1>3, <1>8, <1>9, <1>10, <2>1
    <3> HIDE DEF x, y, z
    <3>2. x < z /\ -P < x
      BY <1>3, <3>1
    <3> QED BY <3>1, <3>2 DEF x, z
  <2>3. c < W /\ -1 < c
    BY <1>2, <1>3, <1>8, <2>2, CancelLt
  <2> QED BY <1>3, <1>8, <2>3
<1>12. j \in Int /\ U = q * D + (K + P * j)
  <2>1. T \in Int /\ c \in Int
    BY <1>2, <1>8
  <2> HIDE DEF T
  <2>2. q * (V + P * T) + (K + P * (r - c)) = (q * V + K - P * c) + P * (q * T + r)
    BY <1>2, <1>7, <1>9, <2>1
  <2>3. q * V + K - P * c = L
    <3> DEFINE x == P * c  y == q * V
    <3>1. x \in Int /\ y \in Int /\ L \in Int /\ K = L + (x - y)
      BY <1>2, <1>7, <1>8, <2>1
    <3> HIDE DEF x, y
    <3>2. y + K - x = L
      BY <3>1
    <3> QED BY <3>2 DEF x, y
  <2> QED BY <1>2, <1>5, <1>7, <2>1, <2>2, <2>3
<1>13. /\ m \in [0 .. n - 1 -> SbnWord] /\ \A x \in 0 .. n - 1 : x < at => m[x] = f[x]
       /\ Number(Window(m, at, k - 1), k - 1, W) = K + P * Low(j)
  <2>1. Low(j) \in SbnWord
    <3> HIDE DEF j
    <3> QED BY <1>3, <1>12, DivMod DEF Low, SbnWord
  <2>2. at + k - 2 \in 0 .. n - 1 /\ at + k - 2 = at + (k - 2) /\ DOMAIN g = 0 .. n - 1
    BY <1>1, <1>8
  <2>3. m \in [0 .. n - 1 -> SbnWord] /\ m[at + k - 2] = Low(j)
    <3> HIDE DEF j
    <3> QED BY <1>8, <2>1, <2>2
  <2>4. \A x \in 0 .. n - 1 : x # at + k - 2 => m[x] = g[x]
    <3> HIDE DEF j
    <3> QED BY <1>8, <2>2
  <2> HIDE DEF m
  <2>5. \A x \in 0 .. n - 1 : x < at => m[x] = f[x]
    BY <1>1, <1>8, <2>4
  <2>6. Window(m, at, k - 2) = Window(g, at, k - 2)
    <3>1. \A l \in 0 .. (k - 2) - 1 : at + l \in 0 .. n - 1 /\ at + l # at + k - 2
      BY <1>1
    <3> QED BY <2>4, <3>1 DEF Window
  <2> DEFINE h == k - 1
  <2>7. h \in Nat \ {0} /\ h - 1 = k - 2 /\ at + h <= n /\ at + h - 1 = at + k - 2
    BY <1>1
  <2> HIDE DEF h
  <2>8. Number(Window(m, at, h), h, W) = Number(Window(m, at, h - 1), h - 1, W) + Power(W, h - 1) * m[at + h - 1]
    BY <1>1, <2>3, <2>7, WindowTop
  <2>9. Number(Window(m, at, h), h, W) = K + P * Low(j)
    BY <2>3, <2>6, <2>7, <2>8 DEF K, P
  <2> QED BY <2>3, <2>5, <2>9 DEF h
<1>14. T >= W /\ T < W * W /\ d1 >= 1 /\ d1 \in Nat /\ d0 \in Nat
  <2>1. d1 \in Nat /\ d0 \in Nat /\ d1 >= 1 /\ d1 + 1 <= W /\ d0 < W
    <3>1. d1 \in SbnWord /\ d0 \in SbnWord /\ 2 * d1 >= W
      BY <1>1, <1>2
    <3> HIDE DEF d1, d0
    <3> QED BY <1>3, <3>1
  <2> HIDE DEF d1, d0
  <2>2. 1 * W <= d1 * W /\ (d1 + 1) * W <= W * W
    BY <1>3, <2>1, MulLe
  <2> QED BY <1>3, <2>1, <2>2
<1>15. CASE ~Borrows(r, c)
  <2>1. j \in 0 .. T - 1
    <3>1. j >= 0
      BY <1>7, <1>11, <1>15 DEF Borrows
    <3> QED BY <1>2, <1>5, <1>11, <1>12, <3>1
  <2> HIDE DEF m, T
  <2>2. j % (W * W) = j
    <3>1. W * W \in Nat \ {0} /\ j \in 0 .. (W * W) - 1
      BY <1>2, <1>3, <1>14, <2>1
    <3> HIDE DEF j
    <3> QED BY <3>1, ModSmall
  <2>3. t \in SbnWord /\ Low(j) \in Int /\ j = t * W + Low(j)
    <3>1. t = j \div W
      BY <2>2
    <3> HIDE DEF j, t
    <3>2. t \in Int /\ Low(j) \in 0 .. W - 1 /\ j = t * W + Low(j)
      BY <1>3, <1>12, <3>1, DivMod DEF Low
    <3>3. (-1) * W < t * W /\ t * W < W * W
      <4>1. (-1) * W = -W /\ t * W \in Int /\ W * W \in Int
        BY <1>3, <3>2
      <4> QED BY <1>2, <1>3, <1>14, <2>1, <3>2, <4>1
    <3>4. -1 < t /\ t < W
      BY <1>3, <3>2, <3>3, CancelLt
    <3> QED BY <1>3, <3>2, <3>4 DEF SbnWord
  <2> HIDE DEF j, t
  <2>4. Rest(m, at, t, k) = K + P * j
    <3>1. Rest(m, at, t, k) = (K + P * Low(j)) + (W * P) * t
      BY <1>2, <1>13 DEF Rest
    <3>2. t \in Int
      BY <1>3, <2>3
    <3>3. (K + P * Low(j)) + (W * P) * t = K + P * (t * W + Low(j))
      BY <1>2, <1>3, <1>9, <2>3, <3>2
    <3> QED BY <2>3, <3>1, <3>3
  <2>5. K + P * j \in 0 .. D - 1
    <3>1. j * P <= (T - 1) * P
      BY <1>2, <2>1, MulLe
    <3>2. P * j = j * P /\ j * P \in Nat /\ (T - 1) * P = P * T - P /\ P * T \in Int
      BY <1>2, <2>1
    <3> QED BY <1>2, <1>9, <3>1, <3>2
  <2>6. Divided(f, n, at, k, d, top, m, t, q)
    BY <1>5, <1>12, <1>13, <2>3, <2>4, <2>5 DEF Divided, U, D
  <2> QED BY <1>15, <2>6 DEF t, m, j, g, c, s, q, r, e
<1>16. CASE Borrows(r, c)
  <2>1. j \in -W .. -1 /\ j > -W
    <3>1. j < 0
      BY <1>7, <1>11, <1>16 DEF Borrows
    <3> QED BY <1>3, <1>5, <1>11, <1>12, <3>1
  <2>2. Low(j) = j + W
    <3> HIDE DEF j
    <3> QED BY <2>1, LowOnce
  <2>3. t = W - 1
    <3> DEFINE C == W * W
    <3> DEFINE one == -1
    <3>1. C \in Nat \ {0} /\ C >= W /\ j \in Int /\ j = one * C + (j + C) /\ j + C \in 0 .. C - 1 /\ one \in Int
      <4>1. 1 * W <= W * W
        BY <1>3, MulLe
      <4> HIDE DEF j
      <4> QED BY <1>3, <2>1, <4>1
    <3> HIDE DEF C, j, one
    <3>2. j % C = j + C
      BY <3>1, DivModUnique
    <3>3. j + C = (W - 1) * W + (j + W) /\ j + W \in 0 .. W - 1 /\ W - 1 \in Int /\ j + C \in Int
      BY <1>3, <2>1, <3>1 DEF C
    <3>4. (j + C) \div W = W - 1
      BY <1>3, <3>3, DivModUnique
    <3> QED BY <3>2, <3>4 DEF C
  <2> HIDE DEF m, t, j, T
  <2> DEFINE b == a.words  c2 == a.carry  A == Number(Window(b, at, k - 1), k - 1, W)  X == d1 + c2 - 1
  <2>4. /\ b \in [0 .. n - 1 -> SbnWord] /\ c2 \in Int
        /\ \A x \in 0 .. n - 1 : x < at => b[x] = m[x]
        /\ A = (K + P * (j + W)) + ((V + P * d0) - ((W * P) * c2))
    <3>1. Places(m, n, at, d, k - 1)
      BY <1>1, <1>6, <1>13 DEF Places
    <3>2. Changes(a, m, n, at, k - 1, Number(d, k - 1, W) - (Power(W, k - 1) * c2))
      BY <3>1, Adds
    <3> HIDE DEF a
    <3> QED BY <1>2, <1>13, <2>2, <3>2 DEF Changes
  <2> HIDE DEF a, b, c2
  <2>5. A \in 0 .. (W * P) - 1
    <3>1. k - 1 \in Nat /\ at + (k - 1) <= n
      BY <1>1
    <3>2. A \in 0 .. Power(W, k - 1) - 1
      BY <1>1, <2>4, <3>1, WindowWords
    <3> QED BY <1>2, <3>2
  <2> HIDE DEF A
  <2>6. X \in Int /\ K + P * j + D = A + (W * P) * X
    <3>1. d1 \in Int /\ d0 \in Int /\ T = d1 * W + d0
      BY <1>14 DEF T
    <3> HIDE DEF d1, d0
    <3>2. ((K + P * (j + W)) + ((V + P * d0) - ((W * P) * c2))) + (W * P) * (d1 + c2 - 1)
            = K + P * j + (V + P * (d1 * W + d0))
      BY <1>2, <1>3, <1>9, <1>12, <2>4, <3>1
    <3> QED BY <1>2, <2>4, <3>1, <3>2
  <2> HIDE DEF X
  <2> DEFINE R == K + P * j + D
  <2>7. R \in 0 .. D - 1
    <3>1. j * P <= (-1) * P /\ (-W) * P <= j * P /\ (W + 1) * P <= (T + 1) * P
      BY <1>2, <1>3, <1>12, <1>14, <2>1, MulLe
    <3>2. P * j = j * P /\ j * P \in Int /\ (-1) * P = -P /\ (-W) * P = -(W * P) /\ W * P \in Int
          /\ (W + 1) * P = W * P + P /\ (T + 1) * P = P * T + P /\ P * T \in Int
      BY <1>2, <1>3, <1>12
    <3> QED BY <1>2, <1>9, <3>1, <3>2
  <2>8. X \in 0 .. W - 1
    <3> DEFINE B == W * P
    <3>1. B \in Nat \ {0} /\ W * W * P = W * B
      BY <1>2, <1>3
    <3>2. R = A + B * X
      BY <2>6
    <3>3. A \in 0 .. B - 1 /\ D < W * B
      BY <1>2, <2>5, <3>1
    <3> HIDE DEF B, R
    <3>4. B * X = X * B /\ X * B \in Int /\ (-1) * B = -B /\ W * B \in Int
      BY <1>3, <2>6, <3>1
    <3>5. (-1) * B < X * B /\ X * B < W * B
      BY <1>2, <2>7, <3>1, <3>2, <3>3, <3>4
    <3>6. -1 < X /\ X < W
      BY <1>3, <2>6, <3>1, <3>5, CancelLt
    <3> QED BY <1>3, <2>6, <3>6
  <2>9. Low(t + d1 + c2) = X
    <3>1. t + d1 + c2 = W + X
      <4>1. d1 \in Int /\ c2 \in Int /\ t = W - 1 /\ W \in Int
        BY <1>3, <1>14, <2>3, <2>4
      <4> HIDE DEF d1
      <4> QED BY <4>1 DEF X
    <3> DEFINE y == t + d1 + c2
    <3>2. y = W + X /\ y \in W .. 2 * W - 1
      BY <1>3, <2>8, <3>1
    <3> HIDE DEF y
    <3>3. Low(y) = y - W
      BY <3>2, LowOnce
    <3> QED BY <1>3, <2>8, <3>2, <3>3 DEF y
  <2>10. Rest(b, at, X, k) = R
    <3>1. Rest(b, at, X, k) = A + (W * P) * X
      BY <1>2 DEF Rest, A
    <3> QED BY <2>6, <3>1
  <2>11. q >= 1 /\ U = (q - 1) * D + R
    <3>1. U = q * D + (K + P * j) /\ q * D \in Int /\ P * j \in Int
      BY <1>2, <1>7, <1>12
    <3>2. K + P * j < 0
      BY <1>2, <1>9, <2>7, <3>1
    <3>3. q # 0
      <4>1. 0 * D = 0
        BY <1>2
      <4> QED BY <1>2, <1>9, <3>1, <3>2, <4>1
    <3>4. (q - 1) * D = q * D - D
      BY <1>2, <1>7
    <3> QED BY <1>2, <1>7, <1>9, <3>1, <3>3, <3>4
  <2>12. q - 1 \in SbnWord
    BY <1>3, <1>7, <2>11 DEF SbnWord
  <2>13. Low(q - 1) = q - 1
    BY <2>12, LowOnce
  <2>14. X \in SbnWord /\ \A x \in 0 .. n - 1 : x < at => b[x] = f[x]
    BY <1>13, <2>4, <2>8 DEF SbnWord
  <2> HIDE DEF R
  <2>15. Divided(f, n, at, k, d, top, b, X, q - 1)
    BY <2>4, <2>7, <2>10, <2>11, <2>12, <2>14 DEF Divided, U, D
  <2>16. Divided(f, n, at, k, d, top, b, Low(t + d1 + c2), Low(q - 1))
    BY <2>9, <2>13, <2>15
  <2> QED BY <1>16, <2>16 DEF t, m, j, g, c, s, q, r, e, a, b, c2
<1> QED BY <1>15, <1>16

-----------------------------------------------------------------------------
(* The invariant *)

SbnShape ==
  /\ nn \in Nat /\ dn \in Nat /\ dn >= 3 /\ nn >= dn
  /\ np \in [0 .. nn - 1 -> SbnWord] /\ dp \in [0 .. dn - 1 -> SbnWord] /\ dp[dn - 1] # 0
  /\ qp \in [0 .. nn - dn -> SbnWord]
  /\ sbn \in {"call", "top", "loop", "done"}

(* After the shift: the divisor's top bit is set and its reciprocal exact. *)
Scaled ==
  /\ cnt \in 0 .. WordBits - 1
  /\ n2 \in [0 .. nn -> SbnWord] /\ d2 \in [0 .. dn - 1 -> SbnWord] /\ 2 * d2[dn - 1] >= W
  /\ Number(d2, dn, W) = Power(2, cnt) * Number(dp, dn, W)
  /\ dinv \in SbnWord
  /\ \E short \in 1 .. (d2[dn - 1] * W) + d2[dn - 2] :
       W * W * W = (W + dinv) * ((d2[dn - 1] * W) + d2[dn - 2]) + short

(* Between turns: what is left and what was found make up the dividend. *)
Accounted ==
  /\ i \in 0 .. nn - dn + 1 /\ n1 \in SbnWord /\ qh = 0
  /\ \A x \in 0 .. nn - dn : x < i => qp[x] = 0
  /\ Rest(n2, i, n1, dn) \in 0 .. Number(d2, dn, W) - 1
  /\ (Number(n2, i, W) + Power(W, i) * Rest(n2, i, n1, dn)) + Number(d2, dn, W) * Number(qp, nn - dn + 1, W)
       = Power(2, cnt) * Number(np, nn, W)

SbnInv ==
  /\ SbnShape
  /\ sbn \in {"call", "top"} => \A x \in 0 .. nn - dn : qp[x] = 0
  /\ sbn \in {"top", "loop"} => Scaled
  /\ sbn = "top" => Number(n2, nn + 1, W) = Power(2, cnt) * Number(np, nn, W) /\ n2[nn] < d2[dn - 1]
  /\ sbn = "loop" => Accounted
  /\ SbnRight

LEMMA InitialInv == SbnInit => SbnInv
<1> SUFFICES ASSUME SbnInit PROVE SbnInv
  OBVIOUS
<1>1. PICK c \in Divisions :
        np = [x \in 0 .. Len(c[1]) - 1 |-> c[1][x + 1]] /\ dp = [x \in 0 .. Len(c[2]) - 1 |-> c[2][x + 1]]
  BY DEF SbnInit
<1>2. /\ c[1] \in Seq(SbnWord) /\ c[2] \in Seq(SbnWord)
      /\ Len(c[2]) >= 3 /\ Len(c[1]) >= Len(c[2]) /\ c[2][Len(c[2])] # 0
  BY SbnAssumption
<1> DEFINE u == c[1]  v == c[2]  k == Len(u)  m == Len(v)
<1>3. k \in Nat /\ m \in Nat /\ m >= 3 /\ k >= m
  BY <1>2
<1>4. (\A x \in 1 .. k : u[x] \in SbnWord) /\ (\A x \in 1 .. m : v[x] \in SbnWord) /\ v[m] # 0
  BY <1>2
<1>5. np = [x \in 0 .. k - 1 |-> u[x + 1]] /\ dp = [x \in 0 .. m - 1 |-> v[x + 1]]
  BY <1>1
<1> HIDE DEF k, m, u, v
<1>6. nn = k /\ dn = m
  <2>1. DOMAIN np = 0 .. k - 1 /\ DOMAIN dp = 0 .. m - 1
    BY <1>5
  <2> QED BY <1>3, <2>1, WordsCounted DEF nn, dn
<1>7. np \in [0 .. k - 1 -> SbnWord] /\ dp \in [0 .. m - 1 -> SbnWord] /\ dp[m - 1] # 0
  <2>1. \A x \in 0 .. k - 1 : u[x + 1] \in SbnWord
    BY <1>3, <1>4
  <2>2. \A x \in 0 .. m - 1 : v[x + 1] \in SbnWord
    BY <1>3, <1>4
  <2>3. dp[m - 1] = v[m]
    BY <1>3, <1>5
  <2> QED BY <1>4, <1>5, <2>1, <2>2, <2>3
<1>8. sbn = "call" /\ qp = [x \in 0 .. nn - dn |-> 0]
  BY DEF SbnInit
<1>9. 0 \in SbnWord
  BY WordBase DEF SbnWord
<1>10. SbnShape
  BY <1>3, <1>6, <1>7, <1>8, <1>9 DEF SbnShape
<1>11. SbnRight
  BY <1>8 DEF SbnRight
<1> QED BY <1>8, <1>10, <1>11 DEF SbnInv

(* The call's words never change, and with them their numbers. *)
LEMMA CallKept ==
  ASSUME np' = np, dp' = dp
  PROVE  nn' = nn /\ dn' = dn
BY DEF nn, dn

LEMMA NormaliseInv ==
  ASSUME SbnInv, Normalise
  PROVE  SbnInv'
<1> DEFINE top == dp[dn - 1]
           c == clz(top)
           S == Power(2, c)
           d == sbn_lshift(dp, c)
           f == [x \in 0 .. nn |-> IF x < nn THEN np[x] ELSE 0]
           u == sbn_lshift(f, c)
           T == (d[dn - 1] * W) + d[dn - 2]
<1>1. /\ nn \in Nat /\ dn \in Nat /\ dn >= 3 /\ nn >= dn
      /\ np \in [0 .. nn - 1 -> SbnWord] /\ dp \in [0 .. dn - 1 -> SbnWord] /\ top # 0
      /\ qp \in [0 .. nn - dn -> SbnWord] /\ sbn = "call"
      /\ \A x \in 0 .. nn - dn : qp[x] = 0
  BY DEF SbnInv, SbnShape, Normalise
<1>2. /\ cnt' = c /\ d2' = d /\ n2' = u /\ dinv' = sbn_invert_pi1(d[dn - 1], d[dn - 2]) /\ sbn' = "top"
      /\ np' = np /\ dp' = dp /\ qp' = qp /\ qh' = qh /\ rs' = rs /\ lengths' = lengths
  BY DEF Normalise
<1>3. nn' = nn /\ dn' = dn
  BY <1>2, CallKept
<1>4. W \in Nat \ {0} /\ W >= 2 /\ W = 2 * (W \div 2) /\ W \div 2 \in Nat /\ 0 \in SbnWord
      /\ \A x \in SbnWord : x \in Nat /\ x < W
  BY WordBase DEF SbnWord
<1>5. dn - 1 \in 0 .. dn - 1 /\ dn - 2 \in 0 .. dn - 1 /\ nn - 1 \in 0 .. nn - 1
      /\ dn \in Nat \ {0} /\ nn + 1 \in Nat \ {0} /\ (nn + 1) - 1 = nn
  BY <1>1
<1>6. top \in SbnWord
  BY <1>1, <1>5
<1>7. c \in 0 .. WordBits - 1 /\ top * S < W /\ top * S >= W \div 2
  <2> HIDE DEF top
  <2> QED BY <1>1, <1>6, ClzDefined
<1>8. S \in Nat \ {0} /\ S <= W \div 2
  BY <1>7, ShiftScales
<1> HIDE DEF c
<1>9. /\ d \in [0 .. dn - 1 -> SbnWord] /\ Number(d, dn, W) = S * Number(dp, dn, W)
      /\ top * S <= d[dn - 1]
  BY <1>1, <1>5, <1>7, LeftShift
<1>10. f \in [0 .. nn -> SbnWord] /\ f[nn] = 0
  BY <1>1, <1>4
<1>11. /\ u \in [0 .. nn -> SbnWord] /\ Number(u, nn + 1, W) = S * Number(f, nn + 1, W) /\ u[nn] < S
  <2> DEFINE k == nn + 1
  <2>1. k \in Nat \ {0} /\ k - 1 = nn
    BY <1>5
  <2> HIDE DEF k, f
  <2>2. f \in [0 .. k - 1 -> SbnWord] /\ f[k - 1] * Power(2, c) < W
    <3>1. 0 * S < W
      BY <1>4, <1>8
    <3> QED BY <1>10, <2>1, <3>1
  <2>3. /\ u \in [0 .. k - 1 -> SbnWord] /\ Number(u, k, W) = S * Number(f, k, W)
        /\ u[k - 1] < f[k - 1] * S + S
    BY <1>7, <2>1, <2>2, LeftShift
  <2>4. f[k - 1] * S + S = S
    BY <1>8, <1>10, <2>1
  <2> QED BY <2>1, <2>3, <2>4 DEF k
<1>12. Number(f, nn + 1, W) = Number(np, nn, W)
  <2>1. Number(f, nn + 1, W) = Number(f, nn, W)
    <3> DEFINE k == nn + 1
    <3>1. k \in Nat /\ nn \in 0 .. k
      BY <1>1
    <3>2. (\A j \in 0 .. k - 1 : f[j] \in Int) /\ (\A j \in nn .. k - 1 : f[j] = 0)
      BY <1>1, <1>4, <1>10
    <3> HIDE DEF k, f
    <3> QED BY <1>4, <3>1, <3>2, NumberPadded DEF k
  <2>2. Number(f, nn, W) = Number(np, nn, W)
    <3>1. \A j \in 0 .. nn - 1 : f[j] \in Int /\ f[j] = np[j]
      BY <1>1, <1>4
    <3>2. W \in Nat /\ W > 0 /\ nn \in Nat
      BY <1>1, <1>4
    <3> HIDE DEF f
    <3> QED BY <3>1, <3>2, NumberOfSame
  <2> QED BY <2>1, <2>2
<1>13. 2 * d[dn - 1] >= W /\ d[dn - 1] \in SbnWord /\ d[dn - 2] \in SbnWord
  <2>1. d[dn - 1] \in SbnWord /\ d[dn - 2] \in SbnWord
    BY <1>5, <1>9
  <2> DEFINE x == top * S  h == W \div 2  z == d[dn - 1]
  <2>2. x \in Int /\ x >= h /\ x <= z /\ z \in Nat /\ W = 2 * h /\ h \in Nat
    BY <1>4, <1>6, <1>7, <1>8, <1>9, <2>1
  <2> HIDE DEF x, h, z
  <2>3. 2 * z >= W
    BY <2>2
  <2> QED BY <2>1, <2>3 DEF z
<1> HIDE DEF d, u, f
<1>14. /\ sbn_invert_pi1(d[dn - 1], d[dn - 2]) \in SbnWord
       /\ \E short \in 1 .. T : W * W * W = (W + sbn_invert_pi1(d[dn - 1], d[dn - 2])) * T + short
  BY <1>13, PairInverse
<1>15. Scaled'
  BY <1>2, <1>3, <1>7, <1>9, <1>11, <1>13, <1>14 DEF Scaled
<1>16. (sbn = "top" => Number(n2, nn + 1, W) = Power(2, cnt) * Number(np, nn, W) /\ n2[nn] < d2[dn - 1])'
  <2>1. u[nn] < d[dn - 1]
    <3> DEFINE x == u[nn]  z == d[dn - 1]  h == W \div 2
    <3>1. x \in Nat /\ z \in Nat /\ x < S /\ S <= h /\ 2 * z >= W /\ W = 2 * h /\ h \in Nat /\ S \in Nat
      <4>1. u[nn] \in SbnWord
        <5>1. nn \in 0 .. nn
          BY <1>1
        <5> QED BY <1>11, <5>1
      <4> QED BY <1>4, <1>8, <1>11, <1>13, <4>1
    <3> HIDE DEF x, z, h
    <3>2. x < z
      BY <3>1
    <3> QED BY <3>2 DEF x, z
  <2> QED BY <1>2, <1>3, <1>11, <1>12, <2>1
<1>17. SbnShape'
  BY <1>1, <1>2, <1>3 DEF SbnShape
<1>18. SbnRight'
  BY <1>2 DEF SbnRight
<1> QED BY <1>1, <1>2, <1>3, <1>15, <1>16, <1>17, <1>18 DEF SbnInv

(* No digit found yet. *)
LEMMA NoDigits ==
  ASSUME NEW m \in Nat, NEW f, \A x \in 0 .. m - 1 : f[x] = 0
  PROVE  Number(f, m, W) = 0
<1>1. W \in Nat /\ W > 0 /\ 0 \in 0 .. m
  BY WordBase
<1>2. (\A x \in 0 .. m - 1 : f[x] \in Int) /\ \A x \in 0 .. m - 1 : f[x] = 0
  OBVIOUS
<1>3. Number(f, m, W) = Number(f, 0, W)
  BY <1>1, <1>2, NumberPadded
<1>4. Number(f, 0, W) = 0
  BY <1>1, <1>2, NumberSteps
<1> QED BY <1>3, <1>4

(* A number by its words below `at` and those in a window from there. *)
LEMMA WindowSplit ==
  ASSUME NEW n \in Nat, NEW f \in [0 .. n - 1 -> SbnWord], NEW at \in Nat, NEW k \in Nat, at + k = n
  PROVE  /\ Number(f, at, W) \in Int
         /\ Number(f, n, W) = Number(f, at, W) + Power(W, at) * Number(Window(f, at, k), k, W)
<1> DEFINE w == Window(f, at, k)
<1>1. W \in Nat /\ W > 0 /\ \A x \in SbnWord : x \in Int
  BY WordBase DEF SbnWord
<1>2. IntLimbs(f, at + k)
  BY <1>1 DEF IntLimbs
<1>3. Piece(w, f, at, k)
  BY DEF Piece, Window
<1> HIDE DEF w
<1>4. /\ Number(f, at, W) \in Int
      /\ Number(f, at + k, W) = Number(f, at, W) + Power(W, at) * Number(w, k, W)
  BY <1>1, <1>2, <1>3, NumberSplit
<1> QED BY <1>4 DEF w

(* The same with its premises as one. *)
WindowAbove(n, f, at, k) ==
  n \in Nat /\ f \in [0 .. n - 1 -> SbnWord] /\ at \in Nat /\ k \in Nat /\ at + k = n

LEMMA SplitAbove ==
  ASSUME NEW n, NEW f, NEW at, NEW k, WindowAbove(n, f, at, k)
  PROVE  /\ Number(f, at, W) \in Int
         /\ Number(f, n, W) = Number(f, at, W) + Power(W, at) * Number(Window(f, at, k), k, W)
<1>1. n \in Nat /\ f \in [0 .. n - 1 -> SbnWord] /\ at \in Nat /\ k \in Nat /\ at + k = n
  BY DEF WindowAbove
<1> QED BY <1>1, WindowSplit

LEMMA TopInv ==
  ASSUME SbnInv, Top
  PROVE  SbnInv'
<1> DEFINE at == nn + 1 - dn  d1 == d2[dn - 1]  t == n2[nn]
           P == Power(W, dn - 1)
           D == Number(d2, dn, W)
           F == Number(Window(n2, at, dn), dn, W)
<1>1. /\ nn \in Nat /\ dn \in Nat /\ dn >= 3 /\ nn >= dn
      /\ np \in [0 .. nn - 1 -> SbnWord] /\ dp \in [0 .. dn - 1 -> SbnWord] /\ dp[dn - 1] # 0
      /\ qp \in [0 .. nn - dn -> SbnWord] /\ sbn = "top"
      /\ \A x \in 0 .. nn - dn : qp[x] = 0
      /\ Number(n2, nn + 1, W) = Power(2, cnt) * Number(np, nn, W) /\ t < d1
  BY DEF SbnInv, SbnShape, Top
<1>2. Scaled
  BY <1>1 DEF SbnInv
<1>3. n2 \in [0 .. nn -> SbnWord] /\ d2 \in [0 .. dn - 1 -> SbnWord] /\ 2 * d1 >= W
  BY <1>2 DEF Scaled
<1>4. W \in Nat \ {0} /\ \A x \in SbnWord : x \in Nat /\ x \in Int
  BY WordBase DEF SbnWord
<1>5. /\ at \in Nat /\ at + dn = nn + 1 /\ at + (dn - 1) = nn /\ at + dn - 1 = nn /\ dn \in Nat \ {0} /\ nn + 1 \in Nat
      /\ at = nn - dn + 1 /\ nn \in 0 .. nn /\ dn - 1 \in 0 .. dn - 1
  BY <1>1
<1>6. t \in SbnWord /\ d1 \in SbnWord /\ t \in Nat /\ d1 \in Nat
  BY <1>3, <1>4, <1>5
<1>7. ~sbn_cmp(n2, at, d2)
  <2>1. DOMAIN d2 = 0 .. dn - 1
    BY <1>3
  <2>2. n2[at + (dn - 1)] = t
    BY <1>5
  <2> HIDE DEF at
  <2>3. n2[at + (dn - 1)] \in Int /\ d2[dn - 1] \in Int /\ n2[at + (dn - 1)] < d2[dn - 1]
    BY <1>1, <1>6, <2>2
  <2> QED BY <1>5, <2>1, <2>3, BelowOnTop
<1>8. /\ qh' = 0 /\ n2' = n2 /\ n1' = t /\ i' = at /\ sbn' = "loop"
      /\ np' = np /\ dp' = dp /\ d2' = d2 /\ cnt' = cnt /\ dinv' = dinv /\ qp' = qp
  <2> HIDE DEF at
  <2> QED BY <1>7 DEF Top, at
<1>9. nn' = nn /\ dn' = dn
  BY <1>8, CallKept
<1>10. Number(n2, nn + 1, W) = Number(n2, at, W) + Power(W, at) * F /\ Number(n2, at, W) \in Int
  <2> DEFINE n == nn + 1
  <2>1. n \in Nat /\ at + dn = n /\ n2 \in [0 .. n - 1 -> SbnWord] /\ at \in Nat /\ dn \in Nat
    BY <1>1, <1>3, <1>5
  <2> HIDE DEF n, at
  <2>2. /\ Number(n2, at, W) \in Int
        /\ Number(n2, n, W) = Number(n2, at, W) + Power(W, at) * F
    <3>1. WindowAbove(n, n2, at, dn)
      BY <2>1 DEF WindowAbove
    <3> QED BY <3>1, SplitAbove
  <2> QED BY <2>2 DEF n
<1>11. F = Rest(n2, at, t, dn) /\ F = Number(Window(n2, at, dn - 1), dn - 1, W) + P * t
  <2> DEFINE n == nn + 1
  <2>1. n \in Nat /\ at + dn <= n /\ n2 \in [0 .. n - 1 -> SbnWord] /\ at \in Nat /\ dn \in Nat \ {0}
        /\ n2[at + dn - 1] = t
    BY <1>1, <1>3, <1>5
  <2> HIDE DEF n, at, t
  <2>2. F = Rest(n2, at, n2[at + dn - 1], dn)
    BY <2>1, WindowTop
  <2> QED BY <2>1, <2>2 DEF Rest
<1>12. Number(Window(n2, at, dn - 1), dn - 1, W) \in 0 .. P - 1 /\ P \in Nat \ {0}
  <2> DEFINE n == nn + 1  k == dn - 1
  <2>1. n \in Nat /\ at + k <= n /\ n2 \in [0 .. n - 1 -> SbnWord] /\ at \in Nat /\ k \in Nat
    BY <1>1, <1>3, <1>5
  <2> HIDE DEF n, at, k
  <2>2. Number(Window(n2, at, k), k, W) \in 0 .. Power(W, k) - 1 /\ Power(W, k) \in Nat \ {0}
    BY <2>1, WindowWords, WordPowers
  <2> QED BY <2>2 DEF k
<1>13. Number(d2, dn - 1, W) \in 0 .. P - 1 /\ D = Number(d2, dn - 1, W) + P * d1
  <2>1. \A j \in 0 .. dn - 1 : d2[j] \in SbnWord
    BY <1>3
  <2> QED BY <1>5, <2>1, TopWord
<1>14. F \in 0 .. D - 1
  <2> DEFINE x == Number(Window(n2, at, dn - 1), dn - 1, W)  y == Number(d2, dn - 1, W)
  <2>1. x \in 0 .. P - 1 /\ y \in 0 .. P - 1 /\ F = x + P * t /\ D = y + P * d1 /\ P \in Nat \ {0}
    BY <1>11, <1>12, <1>13
  <2>2. t \in Nat /\ d1 \in Nat /\ t + 1 <= d1
    BY <1>1, <1>6
  <2> HIDE DEF x, y, P, D, F, t, d1
  <2>3. (t + 1) * P <= d1 * P
    BY <2>1, <2>2, MulLe
  <2>4. (t + 1) * P = P * t + P /\ P * t \in Nat /\ d1 * P = P * d1 /\ P * d1 \in Nat
    BY <2>1, <2>2
  <2> QED BY <2>1, <2>2, <2>3, <2>4
<1>15. Number(qp, nn - dn + 1, W) = 0
  <2> DEFINE m == nn - dn + 1
  <2>1. m \in Nat /\ \A x \in 0 .. m - 1 : qp[x] = 0
    BY <1>1
  <2> HIDE DEF m
  <2>2. Number(qp, m, W) = 0
    BY <2>1, NoDigits
  <2> QED BY <2>2 DEF m
<1> HIDE DEF at
<1>16. Accounted'
  <2>1. (Number(n2, at, W) + Power(W, at) * Rest(n2, at, t, dn)) + D * Number(qp, nn - dn + 1, W)
          = Power(2, cnt) * Number(np, nn, W)
    <3>1. D * 0 = 0
      <4>1. D \in 0 .. Power(W, dn) - 1
        <5>1. \A j \in 0 .. dn - 1 : d2[j] \in SbnWord
          BY <1>3
        <5> QED BY <1>5, <5>1, TopWord
      <4>2. Power(W, dn) \in Int
        BY <1>1, WordPowers
      <4> HIDE DEF D
      <4> QED BY <4>1, <4>2
    <3>2. Power(W, at) * F \in Int
      <4>1. F \in Int
        <5> HIDE DEF F
        <5> QED BY <1>14
      <4>2. Power(W, at) \in Int
        BY <1>5, WordPowers
      <4> QED BY <4>1, <4>2
    <3> DEFINE x == Number(n2, at, W)  y == Power(W, at) * F
    <3>3. x \in Int /\ y \in Int /\ x + y = Power(2, cnt) * Number(np, nn, W)
      BY <1>1, <1>10, <3>2
    <3> HIDE DEF x, y, F, D
    <3>4. (x + y) + 0 = x + y
      BY <3>3
    <3>5. (x + y) + D * Number(qp, nn - dn + 1, W) = Power(2, cnt) * Number(np, nn, W)
      BY <1>15, <3>1, <3>3, <3>4
    <3> QED BY <1>11, <3>5 DEF x, y
  <2>2. at \in 0 .. nn - dn + 1
    BY <1>1, <1>5
  <2>3. Rest(n2, at, t, dn) \in 0 .. D - 1
    BY <1>11, <1>14
  <2> HIDE DEF D, t
  <2>4. n1' \in SbnWord /\ qh' = 0
    BY <1>6, <1>8
  <2> QED BY <1>1, <1>8, <1>9, <2>1, <2>2, <2>3, <2>4 DEF Accounted, D
<1>17. SbnShape' /\ Scaled' /\ SbnRight'
  BY <1>1, <1>2, <1>8, <1>9 DEF SbnShape, Scaled, SbnRight
<1> QED BY <1>8, <1>16, <1>17 DEF SbnInv

(* One digit more where there was none. *)
OneMore(p, g, at, m) ==
  /\ \A j \in 0 .. m - 1 : p[j] \in Int /\ g[j] \in Int
  /\ \A j \in 0 .. m - 1 : j # at => p[j] = g[j]
  /\ p[at] = 0

LEMMA DigitMore ==
  ASSUME NEW m \in Nat, NEW p, NEW g, NEW at \in 0 .. m - 1, OneMore(p, g, at, m)
  PROVE  Number(g, m, W) = Number(p, m, W) + Power(W, at) * g[at] /\ Number(p, m, W) \in Int
<1> DEFINE k == at + 1
<1> USE DEF OneMore
<1>1. W \in Nat /\ W > 0 /\ at \in Nat /\ k \in 0 .. m
  BY WordBase
<1>2. /\ Number(p, m, W) \in Int /\ Number(g, m, W) \in Int
      /\ Number(p, m, W) - Number(g, m, W) = Number(p, k, W) - Number(g, k, W)
  <2>1. \A j \in k .. m - 1 : p[j] = g[j]
    BY <1>1
  <2> HIDE DEF k
  <2> QED BY <1>1, <2>1, NumberAgree
<1>3. /\ Number(p, at, W) \in Int /\ Number(p, k, W) = Number(p, at, W) + Power(W, at) * p[at]
      /\ Number(g, at, W) \in Int /\ Number(g, k, W) = Number(g, at, W) + Power(W, at) * g[at]
  <2>1. (\A j \in 0 .. at : p[j] \in Int) /\ \A j \in 0 .. at : g[j] \in Int
    BY <1>1
  <2>2. /\ Number(p, at, W) \in Int /\ Number(p, at + 1, W) = Number(p, at, W) + Power(W, at) * p[at]
    BY <1>1, <2>1, NumberGrows
  <2>3. /\ Number(g, at, W) \in Int /\ Number(g, at + 1, W) = Number(g, at, W) + Power(W, at) * g[at]
    BY <1>1, <2>1, NumberGrows
  <2> QED BY <2>2, <2>3
<1>4. Number(p, at, W) = Number(g, at, W)
  <2>1. \A j \in 0 .. at - 1 : p[j] \in Int /\ p[j] = g[j]
    BY <1>1
  <2> QED BY <1>1, <2>1, NumberOfSame
<1>5. Power(W, at) \in Nat /\ p[at] = 0 /\ g[at] \in Int
  BY <1>1, WordPowers
<1> DEFINE x == Number(p, at, W)  y == Power(W, at) * g[at]
<1>6. y \in Int /\ Power(W, at) * p[at] = 0
  BY <1>5
<1> HIDE DEF x, y, k
<1>7. Number(p, k, W) = x + 0 /\ Number(g, k, W) = x + y /\ x \in Int
  BY <1>3, <1>4, <1>6 DEF x, y
<1>8. Number(g, m, W) = Number(p, m, W) + y
  BY <1>2, <1>6, <1>7
<1> QED BY <1>2, <1>8 DEF y

LEMMA DigitPut ==
  ASSUME NEW m \in Nat, NEW p \in [0 .. m - 1 -> SbnWord], NEW at \in 0 .. m - 1, p[at] = 0, NEW q \in SbnWord
  PROVE  /\ Number([p EXCEPT ![at] = q], m, W) = Number(p, m, W) + Power(W, at) * q
         /\ Number(p, m, W) \in Int
<1> DEFINE g == [p EXCEPT ![at] = q]
<1>1. q \in Int /\ \A x \in SbnWord : x \in Int
  BY WordBase DEF SbnWord
<1>2. /\ \A j \in 0 .. m - 1 : p[j] \in Int /\ g[j] \in Int
      /\ \A j \in 0 .. m - 1 : j # at => p[j] = g[j]
      /\ g[at] = q
  BY <1>1
<1> HIDE DEF g
<1>3. Number(g, m, W) = Number(p, m, W) + Power(W, at) * g[at] /\ Number(p, m, W) \in Int
  <2>1. OneMore(p, g, at, m)
    BY <1>2 DEF OneMore
  <2> QED BY <2>1, DigitMore
<1> QED BY <1>2, <1>3 DEF g

(* What the words, the remainder and the digits found so far amount to. *)
Account(f, at, top, k, d, p, m) ==
  (Number(f, at, W) + Power(W, at) * Rest(f, at, top, k)) + Number(d, k, W) * Number(p, m, W)

(* Digits with none yet at `at`. *)
Blank(p, at, m) == m \in Nat /\ at \in 0 .. m - 1 /\ p \in [0 .. m - 1 -> SbnWord] /\ p[at] = 0

(* One turn, on constants: the account stays balanced. *)
LEMMA TurnKeeps ==
  ASSUME NEW f, NEW n, NEW at, NEW k, NEW d, NEW top, Dividing(f, n, at, k, d, top),
         NEW g, NEW newtop, NEW q, Divided(f, n, at, k, d, top, g, newtop, q),
         NEW m, NEW p, Blank(p, at, m)
  PROVE  Account(g, at, newtop, k, d, [p EXCEPT ![at] = q], m) = Account(f, at + 1, top, k, d, p, m)
<1> DEFINE D == Number(d, k, W)  R == Rest(f, at + 1, top, k)  S == Rest(g, at, newtop, k)  P == Power(W, at)
           Q == Number(p, m, W)  F == Number(f, at, W)  N == Account(f, at + 1, top, k, d, p, m)
<1> USE DEF Blank
<1>1. /\ n \in Nat /\ f \in [0 .. n - 1 -> SbnWord] /\ at \in Nat /\ k \in Nat /\ k >= 3 /\ at + k <= n
      /\ d \in [0 .. k - 1 -> SbnWord] /\ R \in 0 .. D - 1
  BY DEF Dividing
<1>2. /\ g \in [0 .. n - 1 -> SbnWord] /\ q \in SbnWord
      /\ \A x \in 0 .. n - 1 : x < at => g[x] = f[x]
      /\ f[at] + W * R = q * D + S
      /\ S \in 0 .. D - 1
  BY DEF Divided
<1>3. W \in Nat /\ W > 0 /\ q \in Int /\ \A x \in SbnWord : x \in Int
  BY <1>2, WordBase DEF SbnWord
<1>4. P \in Nat /\ Power(W, at + 1) = W * P
  BY <1>1, WordPowers
<1>5. D \in Int
  <2>1. \A j \in 0 .. k : Number(d, j, W) \in Int
    <3>1. \A j \in 0 .. k - 1 : d[j] \in Int
      BY <1>1, <1>3
    <3> QED BY <1>1, <1>3, <3>1, NumberSteps
  <2> QED BY <1>1, <2>1
<1>6. F \in Int /\ Number(f, at + 1, W) = F + P * f[at] /\ f[at] \in Int
  <2>1. \A j \in 0 .. at : f[j] \in Int
    <3>1. \A j \in 0 .. at : j \in 0 .. n - 1
      BY <1>1
    <3>2. \A j \in 0 .. n - 1 : f[j] \in SbnWord
      BY <1>1
    <3> QED BY <1>3, <3>1, <3>2
  <2>2. W \in Nat /\ W > 0 /\ at \in Nat
    BY <1>1, <1>3
  <2>3. f[at] \in Int
    BY <2>1, <2>2
  <2> QED BY <2>1, <2>2, <2>3, NumberGrows
<1>7. Number(g, at, W) = F
  <2>1. \A j \in 0 .. at - 1 : f[j] \in Int /\ f[j] = g[j]
    <3> SUFFICES ASSUME NEW j \in 0 .. at - 1 PROVE f[j] \in Int /\ f[j] = g[j]
      OBVIOUS
    <3>1. j \in 0 .. n - 1 /\ j < at
      BY <1>1
    <3>2. f[j] \in SbnWord
      BY <1>1, <3>1
    <3> QED BY <1>2, <1>3, <3>1, <3>2
  <2>2. W \in Nat /\ W > 0 /\ at \in Nat
    BY <1>1, <1>3
  <2> QED BY <2>1, <2>2, NumberOfSame
<1>8. Number([p EXCEPT ![at] = q], m, W) = Q + P * q /\ Q \in Int
  BY <1>2, DigitPut
<1> HIDE DEF D, R, S, P, Q, F, N
<1>9. R \in Int /\ S \in Int
  BY <1>1, <1>2, <1>5
<1>10. (F + P * S) + D * (Q + P * q) = F + P * (q * D + S) + D * Q
  BY <1>3, <1>4, <1>5, <1>6, <1>8, <1>9
<1>11. F + P * (f[at] + W * R) + D * Q = (F + P * f[at] + (W * P) * R) + D * Q
  BY SMTT(60), <1>3, <1>4, <1>5, <1>6, <1>8, <1>9
<1>12. (F + P * f[at] + (W * P) * R) + D * Q = N
  <2>1. ((F + P * f[at]) + (W * P) * R) + D * Q = N
    BY <1>4, <1>6 DEF D, R, Q, N, Account
  <2>2. F \in Int /\ P * f[at] \in Int /\ (W * P) * R \in Int
    BY <1>3, <1>4, <1>6, <1>9
  <2> QED BY <2>1, <2>2
<1>13. (F + P * S) + D * (Q + P * q) = N
  BY <1>2, <1>10, <1>11, <1>12
<1> QED BY <1>7, <1>8, <1>13 DEF D, S, P, Q, N, Account

LEMMA TurnInv ==
  ASSUME SbnInv, Turn
  PROVE  SbnInv'
<1> DEFINE at == i - 1  n == nn + 1  m == nn - dn + 1  D == Number(d2, dn, W)
<1>1. /\ nn \in Nat /\ dn \in Nat /\ dn >= 3 /\ nn >= dn
      /\ np \in [0 .. nn - 1 -> SbnWord] /\ dp \in [0 .. dn - 1 -> SbnWord] /\ dp[dn - 1] # 0
      /\ qp \in [0 .. nn - dn -> SbnWord] /\ sbn = "loop" /\ i > 0
  BY DEF SbnInv, SbnShape, Turn
<1>2. Scaled /\ Accounted
  BY <1>1 DEF SbnInv
<1>3. /\ n2 \in [0 .. nn -> SbnWord] /\ d2 \in [0 .. dn - 1 -> SbnWord] /\ 2 * d2[dn - 1] >= W /\ dinv \in SbnWord
      /\ \E short \in 1 .. (d2[dn - 1] * W) + d2[dn - 2] :
           W * W * W = (W + dinv) * ((d2[dn - 1] * W) + d2[dn - 2]) + short
  BY <1>2 DEF Scaled
<1>4. /\ i \in 0 .. nn - dn + 1 /\ n1 \in SbnWord /\ qh = 0
      /\ \A x \in 0 .. nn - dn : x < i => qp[x] = 0
      /\ Rest(n2, i, n1, dn) \in 0 .. D - 1
      /\ (Number(n2, i, W) + Power(W, i) * Rest(n2, i, n1, dn)) + D * Number(qp, nn - dn + 1, W)
           = Power(2, cnt) * Number(np, nn, W)
  BY <1>2 DEF Accounted
<1>5. /\ sbn' = sbn /\ np' = np /\ dp' = dp /\ d2' = d2 /\ cnt' = cnt /\ dinv' = dinv /\ qh' = qh /\ rs' = rs
      /\ i' = at /\ (LargestDigit(at) \/ EstimatedDigit(at))
  BY DEF Turn
<1>6. nn' = nn /\ dn' = dn
  BY <1>5, CallKept
<1>7. /\ at \in Nat /\ at + 1 = i /\ at + dn <= n /\ n \in Nat /\ m \in Nat /\ at \in 0 .. m - 1 /\ m - 1 = nn - dn
      /\ n - 1 = nn
  BY <1>1, <1>4
<1>8. Dividing(n2, n, at, dn, d2, n1)
  <2>1. Rest(n2, at + 1, n1, dn) \in 0 .. Number(d2, dn, W) - 1
    BY <1>4, <1>7
  <2> HIDE DEF n, at
  <2> QED BY <1>1, <1>3, <1>4, <1>7, <2>1 DEF Dividing
<1>9. qp[at] = 0 /\ qp \in [0 .. m - 1 -> SbnWord]
  <2>1. at \in 0 .. nn - dn /\ at < i
    BY <1>1, <1>4, <1>7
  <2> QED BY <1>1, <1>4, <1>7, <2>1
(* What either kind of digit comes to. *)
<1>10. \E q : Divided(n2, n, at, dn, d2, n1, n2', n1', q) /\ qp' = [qp EXCEPT ![at] = q]
  <2>1. CASE LargestDigit(at)
    <3> DEFINE s == sbn_submul_1(n2, at, d2, dn, W - 1)
    <3>1. /\ n1 = d2[dn - 1] /\ n2[at + dn - 1] = d2[dn - 2]
          /\ n2' = s.words /\ n1' = s.words[at + dn - 1] /\ qp' = [qp EXCEPT ![at] = W - 1]
      <4> HIDE DEF at
      <4> QED BY <2>1 DEF LargestDigit
    <3> HIDE DEF at, n
    <3>2. Divided(n2, n, at, dn, d2, n1, s.words, s.words[at + dn - 1], W - 1)
      BY <1>8, <3>1, LargestTurn
    <3> QED BY <3>1, <3>2
  <2>2. CASE EstimatedDigit(at)
    <3> DEFINE e == sbn_udiv_qr_3by2(n1, n2[at + dn - 1], n2[at + dn - 2], d2[dn - 1], d2[dn - 2], dinv)
               s == sbn_submul_1(n2, at, d2, dn - 2, e.q)
               w == [s.words EXCEPT ![at + dn - 2] = Low(e.r - s.carry)]
               t == ((e.r - s.carry) % (W * W)) \div W
               a == sbn_add_n(w, at, d2, dn - 1)
    <3> HIDE DEF at, n
    <3>1. /\ ~ (n1 = d2[dn - 1] /\ n2[at + dn - 1] = d2[dn - 2])
          /\ IF Borrows(e.r, s.carry)
             THEN n2' = a.words /\ n1' = Low(t + d2[dn - 1] + a.carry) /\ qp' = [qp EXCEPT ![at] = Low(e.q - 1)]
             ELSE n2' = w /\ n1' = t /\ qp' = [qp EXCEPT ![at] = e.q]
      BY <2>2 DEF EstimatedDigit
    <3>2. PICK short \in 1 .. (d2[dn - 1] * W) + d2[dn - 2] :
           W * W * W = (W + dinv) * ((d2[dn - 1] * W) + d2[dn - 2]) + short
      BY <1>3
    <3>3. IF Borrows(e.r, s.carry)
          THEN Divided(n2, n, at, dn, d2, n1, a.words, Low(t + d2[dn - 1] + a.carry), Low(e.q - 1))
          ELSE Divided(n2, n, at, dn, d2, n1, w, t, e.q)
      BY <1>3, <1>8, <3>1, <3>2, EstimatedTurn
    <3> HIDE DEF e, s, w, t, a
    <3>4. CASE Borrows(e.r, s.carry)
      BY <3>1, <3>3, <3>4
    <3>5. CASE ~Borrows(e.r, s.carry)
      BY <3>1, <3>3, <3>5
    <3> QED BY <3>4, <3>5
  <2> QED BY <1>5, <2>1, <2>2
<1>11. PICK q : Divided(n2, n, at, dn, d2, n1, n2', n1', q) /\ qp' = [qp EXCEPT ![at] = q]
  BY <1>10
<1> DEFINE g == n2'  top == n1'
<1> HIDE DEF at, n, m
<1>12. /\ g \in [0 .. n - 1 -> SbnWord] /\ top \in SbnWord /\ q \in SbnWord
       /\ Rest(g, at, top, dn) \in 0 .. D - 1
  BY <1>11 DEF Divided
<1>13. (Number(g, at, W) + Power(W, at) * Rest(g, at, top, dn)) + D * Number(qp', m, W)
         = Power(2, cnt) * Number(np, nn, W)
  <2> DEFINE N == Power(2, cnt) * Number(np, nn, W)
  <2>1. (Number(n2, at + 1, W) + Power(W, at + 1) * Rest(n2, at + 1, n1, dn)) + Number(d2, dn, W) * Number(qp, m, W) = N
    BY <1>4, <1>7 DEF m
  <2> HIDE DEF N, g, top
  <2>2. Divided(n2, n, at, dn, d2, n1, g, top, q)
    BY <1>11 DEF g, top
  <2>3. Blank(qp, at, m)
    BY <1>7, <1>9 DEF Blank
  <2>4. Account(g, at, top, dn, d2, [qp EXCEPT ![at] = q], m) = Account(n2, at + 1, n1, dn, d2, qp, m)
    BY <1>8, <2>2, <2>3, TurnKeeps
  <2> QED BY <1>11, <2>1, <2>4 DEF N, Account
<1>14. qp' \in [0 .. nn - dn -> SbnWord] /\ \A x \in 0 .. nn - dn : x < at => qp'[x] = 0
  <2>1. qp' \in [0 .. nn - dn -> SbnWord]
    BY <1>1, <1>11, <1>12
  <2>2. \A x \in 0 .. nn - dn : x < at => x < i /\ x # at
    BY <1>1, <1>4, <1>7
  <2> QED BY <1>1, <1>4, <1>11, <2>1, <2>2
<1>15. Accounted'
  <2>1. at \in 0 .. nn - dn + 1
    BY <1>7
  <2> HIDE DEF D
  <2> QED BY <1>4, <1>5, <1>6, <1>12, <1>13, <1>14, <2>1 DEF Accounted, D, m
<1>16. Scaled'
  <2>1. n2' \in [0 .. nn -> SbnWord]
    BY <1>7, <1>12
  <2> QED BY <1>2, <1>5, <1>6, <2>1 DEF Scaled
<1>17. SbnShape' /\ SbnRight'
  BY <1>1, <1>5, <1>6, <1>14 DEF SbnShape, SbnRight
<1> QED BY <1>1, <1>5, <1>15, <1>16, <1>17 DEF SbnInv

LEMMA FinishInv ==
  ASSUME SbnInv, Finish
  PROVE  SbnInv'
<1> DEFINE S == Power(2, cnt)  D == Number(d2, dn, W)  V == Number(dp, dn, W)  N == Number(np, nn, W)
           Q == Number(qp, nn - dn + 1, W)  f == [x \in 0 .. dn - 1 |-> IF x = dn - 1 THEN n1 ELSE n2[x]]
           r == sbn_rshift(n2', dn, cnt)  R == Rest(n2, 0, n1, dn)  y == N - V * Q
<1>1. /\ nn \in Nat /\ dn \in Nat /\ dn >= 3 /\ nn >= dn
      /\ np \in [0 .. nn - 1 -> SbnWord] /\ dp \in [0 .. dn - 1 -> SbnWord] /\ dp[dn - 1] # 0
      /\ qp \in [0 .. nn - dn -> SbnWord] /\ sbn = "loop" /\ i = 0
  BY DEF SbnInv, SbnShape, Finish
<1>2. Scaled /\ Accounted
  BY <1>1 DEF SbnInv
<1>3. /\ cnt \in 0 .. WordBits - 1
      /\ n2 \in [0 .. nn -> SbnWord] /\ d2 \in [0 .. dn - 1 -> SbnWord] /\ D = S * V
  BY <1>2 DEF Scaled
<1>4. /\ n1 \in SbnWord /\ qh = 0 /\ R \in 0 .. D - 1
      /\ (Number(n2, 0, W) + Power(W, 0) * R) + D * Q = S * N
  BY <1>1, <1>2 DEF Accounted
<1>5. /\ n2' = [n2 EXCEPT ![dn - 1] = n1] /\ rs' = r /\ lengths' = <<Trimmed(qp, nn - dn + 1), Trimmed(r, dn)>>
      /\ sbn' = "done" /\ np' = np /\ dp' = dp /\ qh' = qh /\ qp' = qp
  BY DEF Finish
<1>6. nn' = nn /\ dn' = dn
  BY <1>5, CallKept
<1>7. W \in Nat /\ W > 0 /\ \A x \in SbnWord : x \in Int
  BY WordBase DEF SbnWord
<1>8. S \in Nat \ {0}
  BY <1>3, ShiftScales
<1>9. V \in Int /\ N \in Int /\ Q \in Int
  <2>1. \A j \in 0 .. dn : Number(dp, j, W) \in Int
    <3>1. \A j \in 0 .. dn - 1 : dp[j] \in Int
      BY <1>1, <1>7
    <3> QED BY <1>1, <1>7, <3>1, NumberSteps
  <2>2. \A j \in 0 .. nn : Number(np, j, W) \in Int
    <3>1. \A j \in 0 .. nn - 1 : np[j] \in Int
      BY <1>1, <1>7
    <3> QED BY <1>1, <1>7, <3>1, NumberSteps
  <2>3. Q \in Int
    <3> DEFINE m == nn - dn + 1
    <3>1. m \in Nat /\ \A j \in 0 .. m - 1 : qp[j] \in Int
      BY <1>1, <1>7
    <3> HIDE DEF m
    <3>2. \A j \in 0 .. m : Number(qp, j, W) \in Int
      BY <1>7, <3>1, NumberSteps
    <3>3. Number(qp, m, W) \in Int
      BY <3>1, <3>2
    <3> QED BY <3>3 DEF m
  <2> QED BY <1>1, <2>1, <2>2, <2>3
<1>10. f \in [0 .. dn - 1 -> SbnWord] /\ f[dn - 1] = n1 /\ \A x \in 0 .. (dn - 1) - 1 : f[x] = n2[x]
  <2>1. \A x \in 0 .. dn - 1 : n2[x] \in SbnWord
    BY <1>1, <1>3
  <2> QED BY <1>1, <1>4, <2>1
<1>11. r = sbn_rshift(f, dn, cnt)
  <2>1. \A x \in 0 .. dn - 1 : n2'[x] = f[x]
    <3>1. dn - 1 \in 0 .. nn /\ \A x \in 0 .. dn - 1 : x \in 0 .. nn
      BY <1>1
    <3> QED BY <1>1, <1>3, <1>5, <3>1
  <2>2. \A x \in 0 .. dn - 1 : x # dn - 1 => x + 1 \in 0 .. dn - 1
    BY <1>1
  <2> HIDE DEF f
  <2> DEFINE g == n2'
  <2>3. \A x \in 0 .. dn - 1 : g[x] = f[x]
    BY <2>1
  <2> HIDE DEF g
  <2>4. sbn_rshift(g, dn, cnt) = sbn_rshift(f, dn, cnt)
    BY <2>2, <2>3 DEF sbn_rshift
  <2> QED BY <2>4 DEF g
<1>12. Number(f, dn, W) = R
  <2>1. Number(f, dn, W) = Number(f, dn - 1, W) + Power(W, dn - 1) * f[dn - 1]
    <3>1. dn \in Nat \ {0} /\ \A j \in 0 .. dn - 1 : f[j] \in SbnWord
      BY <1>1, <1>10
    <3> HIDE DEF f
    <3> QED BY <3>1, TopWord
  <2>2. Number(f, dn - 1, W) = Number(Window(n2, 0, dn - 1), dn - 1, W)
    <3> DEFINE k == dn - 1  w == Window(n2, 0, dn - 1)
    <3>1. k \in Nat /\ \A l \in 0 .. k - 1 : f[l] \in Int /\ f[l] = w[l]
      <4>1. k \in Nat /\ \A l \in 0 .. k - 1 : l \in 0 .. dn - 1 /\ 0 + l = l
        BY <1>1
      <4>2. \A l \in 0 .. k - 1 : w[l] = n2[0 + l]
        BY DEF Window
      <4> HIDE DEF w, f
      <4> QED BY <1>7, <1>10, <4>1, <4>2
    <3> HIDE DEF k, w, f
    <3>2. Number(f, k, W) = Number(w, k, W)
      BY <1>7, <3>1, NumberOfSame
    <3> QED BY <3>2 DEF k, w
  <2> HIDE DEF f
  <2> QED BY <1>10, <2>1, <2>2 DEF Rest
<1> HIDE DEF f, r
<1>13. R = S * y /\ y \in Int
  <2>1. Number(n2, 0, W) = 0 /\ Power(W, 0) = 1
    <3>1. \A j \in 0 .. 0 - 1 : n2[j] \in Int
      OBVIOUS
    <3> QED BY <1>7, <3>1, NumberSteps, PowerSteps
  <2>2. R \in Int /\ D \in Int
    BY <1>3, <1>4, <1>8, <1>9
  <2> HIDE DEF R, D, V, N, Q, S
  <2>3. R + D * Q = S * N
    BY <1>4, <2>1, <2>2
  <2>4. S * (N - V * Q) = S * N - (S * V) * Q /\ S * N \in Int /\ (S * V) * Q \in Int /\ N - V * Q \in Int
    BY <1>8, <1>9
  <2> QED BY <1>3, <2>2, <2>3, <2>4
<1> HIDE DEF y
<1>14. r \in [0 .. dn - 1 -> SbnWord] /\ Number(r, dn, W) = y
  <2>1. dn \in Nat \ {0}
    BY <1>1
  <2>2. Number(f, dn, W) = Power(2, cnt) * y
    BY <1>12, <1>13
  <2> QED BY <1>3, <1>10, <1>11, <1>13, <2>1, <2>2, RightShift
<1>15. N = Q * V + y /\ y < V
  <2>1. N = Q * V + y
    <3> HIDE DEF N, V, Q
    <3> QED BY <1>9 DEF y
  <2>2. y * S < V * S
    <3> HIDE DEF N, V, Q, S, R, D
    <3>1. y * S = S * y /\ V * S = S * V /\ S * y \in Int /\ S * V \in Int
      BY <1>8, <1>9, <1>13
    <3> QED BY <1>3, <1>4, <1>13, <3>1
  <2>3. y < V
    <3> HIDE DEF V, S
    <3> QED BY <1>8, <1>9, <1>13, <2>2, CancelLt
  <2> QED BY <2>1, <2>3
<1>16. LET a == Trimmed(qp, nn - dn + 1)
       IN  /\ \A x \in 0 .. nn - dn : x >= a => qp[x] = 0
           /\ a = 1 \/ qp[a - 1] # 0
  <2> DEFINE m == nn - dn + 1
  <2>1. m \in Nat \ {0} /\ m - 1 = nn - dn
    BY <1>1
  <2> HIDE DEF m
  <2>2. LET a == Trimmed(qp, m) IN (\A x \in 0 .. m - 1 : x >= a => qp[x] = 0) /\ (a = 1 \/ qp[a - 1] # 0)
    BY <2>1, TrimmedRight
  <2> QED BY <2>1, <2>2 DEF m
<1>17. LET a == Trimmed(r, dn)
       IN  (\A x \in 0 .. dn - 1 : x >= a => r[x] = 0) /\ (a = 1 \/ r[a - 1] # 0)
  <2>1. dn \in Nat \ {0}
    BY <1>1
  <2> QED BY <2>1, TrimmedRight
<1>18. SbnRight'
  <2>1. DOMAIN qp = 0 .. nn - dn /\ DOMAIN r = 0 .. dn - 1
    BY <1>1, <1>14
  <2>2. lengths'[1] = Trimmed(qp, nn - dn + 1) /\ lengths'[2] = Trimmed(r, dn)
    BY <1>5
  <2>3. /\ qh' = 0
        /\ Number(np', nn', W) = Number(qp', nn' - dn' + 1, W) * Number(dp', dn', W) + Number(rs', dn', W)
        /\ Number(rs', dn', W) < Number(dp', dn', W)
    BY <1>4, <1>5, <1>6, <1>14, <1>15
  <2>4. /\ \A x \in DOMAIN qp' : x >= lengths'[1] => qp'[x] = 0
        /\ \A x \in DOMAIN rs' : x >= lengths'[2] => rs'[x] = 0
        /\ lengths'[1] = 1 \/ qp'[lengths'[1] - 1] # 0
        /\ lengths'[2] = 1 \/ rs'[lengths'[2] - 1] # 0
    BY <1>5, <1>16, <1>17, <2>1, <2>2
  <2> QED BY <2>3, <2>4 DEF SbnRight
<1>19. SbnShape'
  BY <1>1, <1>5, <1>6 DEF SbnShape
<1> QED BY <1>5, <1>18, <1>19 DEF SbnInv

-----------------------------------------------------------------------------
(* Every division of sbn_div.h leaves the dividend as the quotient times the *)
(* divisor plus a smaller remainder, with exact lengths, whatever the size   *)
(* of a word and however long its operands.                                  *)
(* sbn_divrem is right: when it is done, quotient times divisor plus a smaller *)
(* remainder is the dividend, without a carry above the quotient, and both     *)
(* lengths are trimmed.                                                        *)
THEOREM SbnDivisionRight == SbnSpec => []SbnRight
<1>1. SbnInit => SbnInv
  BY InitialInv
<1>2. SbnInv /\ [SbnNext]_sbnVars => SbnInv'
  <2> SUFFICES ASSUME SbnInv, [SbnNext]_sbnVars PROVE SbnInv'
    OBVIOUS
  <2>1. CASE Normalise
    BY <2>1, NormaliseInv
  <2>2. CASE Top
    BY <2>2, TopInv
  <2>3. CASE Turn
    BY <2>3, TurnInv
  <2>4. CASE Finish
    BY <2>4, FinishInv
  <2>5. CASE UNCHANGED sbnVars
    BY <2>5 DEF SbnInv, SbnShape, Scaled, Accounted, SbnRight, sbnVars, nn, dn
  <2> QED BY <2>1, <2>2, <2>3, <2>4, <2>5 DEF SbnNext
<1>3. SbnInv => SbnRight
  BY DEF SbnInv
<1> QED BY <1>1, <1>2, <1>3, PTL DEF SbnSpec

=============================================================================
