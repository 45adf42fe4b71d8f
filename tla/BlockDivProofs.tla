--------------------------- MODULE BlockDivProofs ---------------------------
(***************************************************************************)
(* The block division of include/div.h, divrem.h and dc_div.h is right,    *)
(* for blocks of every base and numbers of every length, as long as the    *)
(* reciprocal seed it starts from is the exact one: what run block_div     *)
(* checks for base 4, and what run block_div_seed shows to fail one unit   *)
(* off.  First div3by2, then arrays of blocks, then the steps of the       *)
(* recursion, and what holds between a call and its caller; and last how   *)
(* far the seed the program computes can be from the exact one.            *)
(***************************************************************************)
EXTENDS BlockDiv, NumberProofs, SequenceTheorems, TLAPS

-----------------------------------------------------------------------------
(* For a normalized divisor <d1, d0>, <u2, u1> below it and any u0, div3by2  *)
(* with the exact reciprocal returns the quotient block and the remainder of *)
(* <u2, u1, u0>: the two corrections of div.h:169-178 are complete.          *)
THEOREM Div3by2Exact ==
  ASSUME NEW u2 \in 0 .. Beta - 1, NEW u1 \in 0 .. Beta - 1, NEW u0 \in 0 .. Beta - 1,
         NEW d1 \in 0 .. Beta - 1, NEW d0 \in 0 .. Beta - 1,
         2 * d1 >= Beta, u2 * Beta + u1 < d1 * Beta + d0
  PROVE  LET D == d1 * Beta + d0
             e == Div3by2(u2, u1, u0, d1, d0, Exact(d1, d0))
         IN  /\ e.q \in 0 .. Beta - 1 /\ e.r \in 0 .. D - 1
             /\ (u2 * Beta + u1) * Beta + u0 = e.q * D + e.r
<1> DEFINE D == d1 * Beta + d0
           W == (Beta * Beta * Beta - 1) \div D
           q == Exact(d1, d0) * u2 + u2 * Beta + u1
           q0 == q % Beta
           up == ((q \div Beta) % Beta) + 1
           over == q >= Beta * Beta \/ up = Beta
           q1 == up % Beta
           r == IF over THEN (((u1 - d0) % Beta) * Beta) + u0
                ELSE (u1 * Beta + u0 - D * q1) % (Beta * Beta)
           down == r \div Beta >= q0
           ra == IF down THEN (r + D) % (Beta * Beta) ELSE r
           qa == IF down THEN (q1 - 1) % Beta ELSE q1
           e == Div3by2(u2, u1, u0, d1, d0, Exact(d1, d0))
           Q == q \div Beta
           rt == u2 * Beta * Beta + u1 * Beta + u0 - (Q + 1) * D
           k == Beta * Beta * Beta - W * D
<1>1. Beta \in Nat /\ Beta > 2 /\ Beta \in Nat \ {0} /\ Beta * Beta \in Nat \ {0}
  BY BlockDivAssumption
<1>2. e = IF ra >= D THEN [q |-> (qa + 1) % Beta, r |-> ra - D] ELSE [q |-> qa, r |-> ra]
  BY DEF Div3by2
<1>3. D \in Nat \ {0} /\ D < Beta * Beta /\ Beta * Beta <= 2 * D
  <2>1. d1 * Beta <= (Beta - 1) * Beta
    BY <1>1, MulLe
  <2>2. Beta * Beta <= (2 * d1) * Beta
    BY <1>1, MulLe
  <2> QED
    BY <1>1, <2>1, <2>2
<1>4. q = W * u2 + u1
  <2>1. W \in Int
    BY <1>1, <1>3, DivMod
  <2> HIDE DEF D, W
  <2>2. Exact(d1, d0) = W - Beta
    BY DEF Exact, D, W
  <2> QED
    BY <1>1, <2>1, <2>2
<1> HIDE DEF e, D
<1>5. /\ W \in Nat /\ k \in Nat /\ 1 <= k /\ k <= D
      /\ k <= Beta * (Beta * Beta - D) /\ Beta * Beta * Beta = W * D + k
  <2> DEFINE X == Beta * Beta * Beta - 1
  <2>1. X \in Int /\ Beta * D <= X
    <3>1. (D + 1) * Beta <= (Beta * Beta) * Beta
      BY <1>1, <1>3, MulLe
    <3> QED
      BY <1>1, <1>3, <3>1
  <2>2. W \in Int /\ X % D \in 0 .. D - 1 /\ X = W * D + (X % D)
    <3> HIDE DEF X
    <3>1. X \div D \in Int /\ X % D \in 0 .. D - 1 /\ X = (X \div D) * D + (X % D)
      BY <1>3, <2>1, DivMod
    <3> QED
      BY <3>1 DEF X
  <2> HIDE DEF W
  <2>3. Beta <= W
    <3>1. CASE W + 1 <= Beta
      <4>1. (W + 1) * D <= Beta * D
        BY <1>1, <1>3, <2>2, <3>1, MulLe
      <4> QED
        BY <1>1, <1>3, <2>1, <2>2, <4>1
    <3> QED
      BY <1>1, <2>2, <3>1
  <2>4. Beta * D <= W * D
    BY <1>1, <1>3, <2>2, <2>3, MulLe
  <2> QED
    BY <1>1, <1>3, <2>2, <2>3, <2>4
<1> HIDE DEF W
<1>6. q \in Nat /\ Q \in Int /\ q0 \in 0 .. Beta - 1 /\ q = Q * Beta + q0
  <2>1. W * u2 \in Nat
    BY <1>1, <1>5
  <2>2. q \in Nat
    BY <1>1, <1>4, <2>1
  <2> HIDE DEF q
  <2> QED
    BY <1>1, <2>2, DivMod
<1>7. q < Beta * Beta
  <2>1. (W * D) * u2 <= (Beta * Beta * Beta) * u2
    BY <1>1, <1>3, <1>5, MulLe
  <2>2. D * u1 <= (Beta * Beta) * u1
    BY <1>1, <1>3, MulLe
  <2>3. (u2 * Beta + u1) * (Beta * Beta) <= (D - 1) * (Beta * Beta)
    BY <1>1, <1>3, MulLe DEF D
  <2>4. q * D = (W * D) * u2 + D * u1
    BY <1>1, <1>3, <1>4, <1>5
  <2> HIDE DEF q, k
  <2>5. (Beta * Beta * Beta) * u2 + (Beta * Beta) * u1 = (u2 * Beta + u1) * (Beta * Beta)
    BY <1>1
  <2>6. (D - 1) * (Beta * Beta) < (Beta * Beta) * D
    BY <1>1, <1>3
  <2>7. q * D < (Beta * Beta) * D
    BY <1>1, <1>3, <1>5, <1>6, <2>1, <2>2, <2>3, <2>4, <2>5, <2>6
  <2> QED
    BY <1>1, <1>3, <1>6, <2>7, CancelLt
<1> HIDE DEF q, Q, q0
<1>8. Q \in 0 .. Beta - 1
  <2>1. Q * Beta < Beta * Beta
    BY <1>1, <1>6, <1>7
  <2>2. (- 1) * Beta < Q * Beta
    BY <1>1, <1>6
  <2>3. Q < Beta /\ - 1 < Q
    BY <1>1, <1>6, <2>1, <2>2, CancelLt
  <2> QED
    BY <1>1, <1>6, <2>3
<1>9. up = Q + 1 /\ (over <=> Q + 1 = Beta)
  <2>1. Q % Beta = Q
    BY <1>1, <1>8, DivModUnique
  <2> QED
    BY <1>1, <1>6, <1>7, <1>8, <2>1 DEF Q
<1>10. /\ rt >= - D /\ rt >= q0 * Beta - Beta * Beta
       /\ rt < Beta * Beta - D \/ rt < q0 * Beta
  <2> HIDE DEF k
  <2>1. Beta \in Nat /\ Beta > 1 /\ u1 < Beta /\ u0 < Beta /\ u2 \in Nat /\ u1 \in Nat /\ u0 \in Nat
    BY <1>1
  <2>2. D \in Nat /\ u2 * Beta + u1 < D
    BY <1>3 DEF D
  <2>3. W * u2 + u1 = Q * Beta + q0 /\ q0 \in Nat /\ q0 < Beta
    BY <1>1, <1>4, <1>6
  <2> QED
    BY <1>3, <1>5, <1>6, <2>1, <2>2, <2>3, Estimated
<1>11. r \in 0 .. Beta * Beta - 1 /\ \E a \in Int : rt = a * (Beta * Beta) + r
  <2>1. CASE over
    <3> DEFINE x == u1 - d0
               m == x % Beta
               g == x \div Beta
               c == u2 - d1 + g
    <3>1. x \in Int /\ m \in 0 .. Beta - 1 /\ g \in Int /\ x = g * Beta + m
      <4>1. x \in Int
        BY <1>1
      <4> HIDE DEF x
      <4> QED
        BY <1>1, <4>1, DivMod
    <3>2. r = m * Beta + u0
      BY <2>1
    <3> HIDE DEF m, g, r
    <3>3. c \in Int /\ rt = c * (Beta * Beta) + r
      <4>1. Beta * (u1 - d0) = Beta * (g * Beta + m)
        BY <3>1
      <4>2. rt = u2 * Beta * Beta + u1 * Beta + u0 - Beta * (d1 * Beta + d0)
        BY <1>8, <1>9, <2>1 DEF D
      <4> HIDE DEF rt
      <4> QED
        BY <1>1, <3>1, <3>2, <4>1, <4>2
    <3>4. m * Beta <= (Beta - 1) * Beta /\ 0 <= m * Beta
      BY <1>1, <3>1, MulLe
    <3>5. r \in 0 .. Beta * Beta - 1
      BY <1>1, <3>1, <3>2, <3>4
    <3> HIDE DEF c, rt
    <3> QED
      BY <3>3, <3>5
  <2>2. CASE ~over
    <3> DEFINE t == u1 * Beta + u0 - D * (Q + 1)
               g == t \div (Beta * Beta)
               c == u2 + g
    <3>1. q1 = Q + 1
      BY <1>1, <1>8, <1>9, <2>2, DivModUnique
    <3>2. r = t % (Beta * Beta)
      <4> HIDE DEF q1
      <4> QED
        BY <2>2, <3>1
    <3>3. t \in Int
      BY <1>1, <1>3, <1>8
    <3> HIDE DEF t
    <3>4. g \in Int /\ t % (Beta * Beta) \in 0 .. Beta * Beta - 1 /\ t = g * (Beta * Beta) + (t % (Beta * Beta))
      BY <1>1, <3>3, DivMod
    <3> HIDE DEF g, r
    <3>5. rt = u2 * Beta * Beta + t
      BY <1>1, <1>3, <1>8 DEF t
    <3> HIDE DEF rt
    <3>6. c \in Int /\ rt = c * (Beta * Beta) + r
      BY <1>1, <3>2, <3>3, <3>4, <3>5
    <3>7. r \in 0 .. Beta * Beta - 1
      BY <3>2, <3>4
    <3> HIDE DEF c
    <3> QED
      BY <3>6, <3>7
  <2> QED
    BY <2>1, <2>2
<1>12. q1 = (Q + 1) % Beta
  BY <1>9
<1>13. rt \in Int /\ (u2 * Beta + u1) * Beta + u0 = (Q + 1) * D + rt
  BY <1>1, <1>3, <1>8
<1> HIDE DEF r, rt, up, over, q1
<1>14. r = IF rt < 0 THEN rt + Beta * Beta ELSE rt
  <2>1. PICK a \in Int : rt = a * (Beta * Beta) + r
    BY <1>11
  <2>2. rt % (Beta * Beta) = r
    BY <1>1, <1>11, <1>13, <2>1, DivModUnique
  <2>3. CASE rt < 0
    <3>1. rt + Beta * Beta \in 0 .. Beta * Beta - 1
      BY <1>1, <1>3, <1>10, <1>13, <2>3
    <3>2. rt = (- 1) * (Beta * Beta) + (rt + Beta * Beta)
      BY <1>1, <1>13
    <3>3. rt % (Beta * Beta) = rt + Beta * Beta
      BY <1>1, <1>13, <3>1, <3>2, DivModUnique
    <3> QED
      BY <2>2, <2>3, <3>3
  <2>4. CASE rt >= 0
    <3>1. q0 * Beta <= Beta * Beta
      BY <1>1, <1>6, MulLe
    <3>2. rt \in 0 .. Beta * Beta - 1
      BY <1>1, <1>3, <1>6, <1>10, <1>13, <2>4, <3>1
    <3>3. rt = 0 * (Beta * Beta) + rt
      BY <1>1, <1>13
    <3>4. rt % (Beta * Beta) = rt
      BY <1>1, <1>13, <3>2, <3>3, DivModUnique
    <3> QED
      BY <1>13, <2>2, <2>4, <3>4
  <2> QED
    BY <1>13, <2>3, <2>4
<1>15. down <=> r >= q0 * Beta
  BY <1>1, <1>6, <1>11, DivGe
<1> HIDE DEF down
<1>16. (u2 * Beta + u1) * Beta + u0 < Beta * D
  <2>1. (u2 * Beta + u1) * Beta <= (D - 1) * Beta
    BY <1>1, <1>3, MulLe DEF D
  <2> QED
    BY <1>1, <1>3, <2>1
<1>17. ASSUME NEW n \in Nat, NEW rest \in 0 .. D - 1, e = [q |-> n, r |-> rest],
              (u2 * Beta + u1) * Beta + u0 = n * D + rest
       PROVE  e.q \in 0 .. Beta - 1 /\ e.r \in 0 .. D - 1
                /\ (u2 * Beta + u1) * Beta + u0 = e.q * D + e.r
  <2>1. n * D < Beta * D
    BY <1>1, <1>3, <1>16, <1>17
  <2>2. n < Beta
    BY <1>1, <1>3, <1>17, <2>1, CancelLt
  <2> QED
    BY <1>1, <1>17, <2>2
<1>18. rt >= 0 => Q + 1 < Beta
  <2> SUFFICES ASSUME rt >= 0 PROVE Q + 1 < Beta
    OBVIOUS
  <2>1. (Q + 1) * D < Beta * D
    BY <1>1, <1>3, <1>8, <1>13, <1>16
  <2> QED
    BY <1>1, <1>3, <1>8, <2>1, CancelLt
<1>19. (q1 - 1) % Beta = Q
  <2>1. CASE Q + 1 = Beta
    <3>1. q1 = 0
      BY <1>1, <1>8, <1>12, <2>1, DivModUnique
    <3>2. q1 - 1 = (- 1) * Beta + Q
      BY <1>1, <1>8, <2>1, <3>1
    <3> QED
      BY <1>1, <1>8, <3>1, <3>2, DivModUnique
  <2>2. CASE Q + 1 < Beta
    <3>1. q1 = Q + 1
      BY <1>1, <1>8, <1>12, <2>2, DivModUnique
    <3> QED
      BY <1>1, <1>8, <3>1, DivModUnique
  <2> QED
    BY <1>1, <1>8, <2>1, <2>2
<1>20. Q + 1 < Beta => (Q + 1) % Beta = Q + 1
  BY <1>1, <1>8, DivModUnique
<1>21. SUFFICES /\ e.q \in 0 .. Beta - 1 /\ e.r \in 0 .. D - 1
                /\ (u2 * Beta + u1) * Beta + u0 = e.q * D + e.r
  BY DEF D, e
<1>22. CASE rt < 0                       \* one too large: step 10 repairs it
  <2>1. r = rt + Beta * Beta /\ down
    BY <1>1, <1>6, <1>10, <1>13, <1>14, <1>15, <1>22
  <2>2. rt + D \in 0 .. D - 1
    BY <1>3, <1>10, <1>13, <1>22
  <2>3. ra = rt + D
    <3>1. r + D = Beta * Beta + (rt + D)
      BY <1>1, <1>3, <1>13, <2>1
    <3>2. rt + D \in 0 .. Beta * Beta - 1 /\ r + D \in Int
      BY <1>1, <1>3, <1>13, <2>1, <2>2
    <3>3. (r + D) % (Beta * Beta) = rt + D
      BY <1>1, <3>1, <3>2, ModOnce
    <3> QED
      BY <2>1, <3>3
  <2>4. e = [q |-> Q, r |-> rt + D]
    BY <1>2, <1>3, <1>13, <1>19, <2>1, <2>2, <2>3
  <2>5. (u2 * Beta + u1) * Beta + u0 = Q * D + (rt + D)
    BY <1>3, <1>8, <1>13
  <2> QED
    BY <1>8, <1>17, <2>2, <2>4, <2>5
<1>23. CASE rt >= 0 /\ down              \* right already: step 10 spoils it, step 14 makes it good
  <2> USE <1>23
  <2>1. r = rt /\ rt < Beta * Beta - D /\ rt < D
    BY <1>1, <1>3, <1>6, <1>10, <1>13, <1>14, <1>15
  <2>2. ra = rt + D
    <3>1. r + D = 0 * (Beta * Beta) + (rt + D)
      BY <1>1, <1>3, <1>13, <2>1
    <3>2. rt + D \in 0 .. Beta * Beta - 1 /\ r + D \in Int
      BY <1>1, <1>3, <1>13, <2>1
    <3>3. (r + D) % (Beta * Beta) = rt + D
      BY <1>1, <3>1, <3>2, DivModUnique
    <3> QED
      BY <3>3
  <2>3. e = [q |-> Q + 1, r |-> rt]
    BY <1>2, <1>3, <1>8, <1>13, <1>18, <1>19, <1>20, <2>1, <2>2
  <2> QED
    BY <1>3, <1>8, <1>13, <1>17, <2>1, <2>3
<1>24. CASE rt >= 0 /\ ~down             \* right, or one too small: step 14
  <2> USE <1>24
  <2>1. r = rt /\ ra = rt /\ qa = Q + 1 /\ rt < 2 * D
    <3>1. q0 * Beta <= Beta * Beta
      BY <1>1, <1>6, MulLe
    <3> QED
      BY <1>1, <1>3, <1>6, <1>11, <1>12, <1>13, <1>14, <1>18, <1>20
  <2>2. CASE rt < D
    <3>1. e = [q |-> Q + 1, r |-> rt]
      BY <1>2, <1>3, <1>13, <2>1, <2>2
    <3> QED
      BY <1>3, <1>8, <1>13, <1>17, <2>2, <3>1
  <2>3. CASE rt >= D
    <3>1. (u2 * Beta + u1) * Beta + u0 = (Q + 2) * D + (rt - D)
      BY <1>3, <1>8, <1>13
    <3>2. (Q + 2) * D < Beta * D
      BY <1>1, <1>3, <1>8, <1>13, <1>16, <2>3, <3>1
    <3>3. Q + 2 < Beta
      BY <1>1, <1>3, <1>8, <3>2, CancelLt
    <3>4. (Q + 2) % Beta = Q + 2
      BY <1>1, <1>8, <3>3, DivModUnique
    <3>5. e = [q |-> Q + 2, r |-> rt - D]
      BY <1>2, <1>3, <1>8, <1>13, <2>1, <2>3, <3>4
    <3>6. rt - D \in 0 .. D - 1
      BY <1>3, <1>13, <2>1, <2>3
    <3> QED
      BY <1>8, <1>17, <3>1, <3>5, <3>6
  <2> QED
    BY <1>3, <1>13, <2>2, <2>3
<1> QED
  BY <1>13, <1>22, <1>23, <1>24

-----------------------------------------------------------------------------
(* Arrays of blocks *)

LEMMA Base == Beta \in Nat /\ Beta > 2 /\ Beta \in Nat \ {0} /\ Beta % 2 = 0
BY BlockDivAssumption

LEMMA Scales ==
  /\ P(0) = 1 /\ P(1) = Beta /\ P(2) = Beta * Beta
  /\ \A n \in Nat : P(n) \in Nat /\ P(n) > 0 /\ P(n + 1) = Beta * P(n)
  /\ \A m \in Nat, n \in Nat : P(m + n) = P(m) * P(n)
<1>1. P(0) = 1 /\ \A n \in Nat : P(n + 1) = Beta * P(n)
  BY PowerSteps DEF P
<1>2. \A n \in Nat : P(n) \in Nat /\ P(n) > 0
  BY Base, PowerPositive DEF P
<1>3. \A m \in Nat, n \in Nat : P(m + n) = P(m) * P(n)
  BY Base, PowerSum DEF P
<1>4. P(1) = Beta
  <2>1. P(0 + 1) = Beta * P(0)
    BY <1>1
  <2> QED BY <1>1, <2>1, Base
<1>5. P(2) = Beta * Beta
  <2>1. P(1 + 1) = Beta * P(1)
    BY <1>1
  <2> QED BY <1>4, <2>1
<1> QED BY <1>1, <1>2, <1>3, <1>4, <1>5

(* .. of which mostly this is needed. *)
LEMMA Scale == \A n \in Nat : P(n) \in Nat /\ P(n) \in Int /\ P(n) > 0 /\ P(n) \in Nat \ {0}
<1>1. \A n \in Nat : P(n) \in Nat /\ P(n) > 0
  BY Scales
<1> QED BY <1>1

Digits(x) == \A i \in DOMAIN x : x[i] \in Blocks(Beta)
Fits(x, at, len) == at \in Nat /\ len \in Nat /\ \A i \in Blocks(len) : at + i \in DOMAIN x
Same(x, y, at, len) == \A i \in Blocks(len) : x[at + i] = y[at + i]

LEMMA DigitsAreInts ==
  ASSUME NEW x, Digits(x), NEW at, NEW len, Fits(x, at, len)
  PROVE  \A i \in 0 .. len - 1 : x[at + i] \in 0 .. Beta - 1 /\ x[at + i] \in Int
BY Base DEF Digits, Fits, Blocks

(* A window's value, by any array that holds the same blocks. *)
LEMMA ValueIs ==
  ASSUME NEW x, Digits(x), NEW at, NEW len, Fits(x, at, len),
         NEW f, \A i \in 0 .. len - 1 : f[i] = x[at + i]
  PROVE  Value(x, at, len) = Number(f, len, Beta)
<1> DEFINE g == [i \in Blocks(len) |-> x[at + i]]
<1>1. \A i \in 0 .. len - 1 : g[i] \in Int /\ g[i] = f[i]
  BY DigitsAreInts DEF Blocks
<1>2. len \in Nat /\ Beta \in Nat /\ Beta > 0
  BY Base DEF Fits
<1> HIDE DEF g
<1>3. Number(g, len, Beta) = Number(f, len, Beta)
  BY <1>1, <1>2, NumberOfSame
<1> QED BY <1>3 DEF Value, g

LEMMA ValueBounds ==
  ASSUME NEW x, Digits(x), NEW at, NEW len, Fits(x, at, len)
  PROVE  Value(x, at, len) \in 0 .. P(len) - 1 /\ Value(x, at, len) \in Nat
<1> DEFINE g == [i \in Blocks(len) |-> x[at + i]]
<1>1. \A i \in 0 .. len - 1 : g[i] \in 0 .. Beta - 1
  BY DigitsAreInts DEF Blocks
<1>2. len \in Nat /\ Beta \in Nat /\ Beta > 0
  BY Base DEF Fits
<1> HIDE DEF g
<1>3. Number(g, len, Beta) \in 0 .. Power(Beta, len) - 1
  BY <1>1, <1>2, NumberBounds
<1>4. P(len) \in Nat
  BY <1>2, Scales
<1> QED BY <1>3, <1>4 DEF Value, g, P

LEMMA FitsSplit ==
  ASSUME NEW x, NEW at \in Nat, NEW m \in Nat, NEW n \in Nat, Fits(x, at, m + n)
  PROVE  Fits(x, at, m) /\ Fits(x, at + m, n)
<1>1. \A i \in Blocks(m) : i \in Blocks(m + n)
  BY DEF Blocks
<1>2. \A i \in Blocks(n) : m + i \in Blocks(m + n) /\ at + (m + i) = (at + m) + i
  BY DEF Blocks
<1> QED BY <1>1, <1>2 DEF Fits

LEMMA ValueSplit ==
  ASSUME NEW x, Digits(x), NEW at \in Nat, NEW m \in Nat, NEW n \in Nat, Fits(x, at, m + n)
  PROVE  Value(x, at, m + n) = Value(x, at, m) + P(m) * Value(x, at + m, n)
<1> DEFINE f == [i \in Blocks(m + n) |-> x[at + i]]
           g == [i \in Blocks(n) |-> x[(at + m) + i]]
<1>1. Fits(x, at, m) /\ Fits(x, at + m, n)
  BY FitsSplit
<1>2. \A i \in 0 .. m + n - 1 : f[i] = x[at + i] /\ f[i] \in Int
  <2>1. \A i \in 0 .. (m + n) - 1 : x[at + i] \in Int
    BY DigitsAreInts
  <2>2. \A i \in 0 .. (m + n) - 1 : f[i] = x[at + i]
    BY DEF Blocks
  <2> HIDE DEF f
  <2> QED BY <2>1, <2>2
<1>3. \A i \in 0 .. n - 1 : g[i] = f[m + i] /\ g[i] = x[(at + m) + i]
  <2>1. \A i \in 0 .. n - 1 : m + i \in Blocks(m + n) /\ at + (m + i) = (at + m) + i
    BY DEF Blocks
  <2> QED BY <2>1 DEF Blocks
<1> HIDE DEF f, g
<1>4. Number(f, m + n, Beta) = Number(f, m, Beta) + Power(Beta, m) * Number(g, n, Beta)
  <2>1. IntLimbs(f, m + n) /\ Piece(g, f, m, n)
    BY <1>2, <1>3 DEF IntLimbs, Piece
  <2> QED BY <2>1, Base, NumberSplit
<1>5. Value(x, at, m + n) = Number(f, m + n, Beta)
  BY <1>2, ValueIs
<1>6. Value(x, at, m) = Number(f, m, Beta)
  BY <1>1, <1>2, ValueIs
<1>7. Value(x, at + m, n) = Number(g, n, Beta)
  BY <1>1, <1>3, ValueIs
<1> QED BY <1>4, <1>5, <1>6, <1>7 DEF P

LEMMA ValueSame ==
  ASSUME NEW x, NEW y, Digits(x), Digits(y), NEW at, NEW len, Fits(x, at, len), Same(x, y, at, len)
  PROVE  Value(x, at, len) = Value(y, at, len)
<1> DEFINE g == [i \in Blocks(len) |-> y[at + i]]
<1>1. \A i \in 0 .. len - 1 : g[i] = x[at + i]
  BY DEF Same, Blocks
<1> HIDE DEF g
<1>2. Value(x, at, len) = Number(g, len, Beta)
  BY <1>1, ValueIs
<1> QED BY <1>2 DEF Value, g

LEMMA ValueShort ==
  ASSUME NEW x, Digits(x), NEW at \in Nat
  PROVE  /\ Value(x, at, 0) = 0
         /\ at \in DOMAIN x => Value(x, at, 1) = x[at]
<1>1. \A f : Number(f, 0, Beta) = 0
  <2>1. \A f : \A j \in 0 .. 0 - 1 : f[j] \in Int
    OBVIOUS
  <2> QED BY <2>1, Base, NumberSteps
<1>2. Value(x, at, 0) = 0
  BY <1>1 DEF Value
<1>3. ASSUME at \in DOMAIN x PROVE Value(x, at, 1) = x[at]
  <2> DEFINE f == [i \in Blocks(1) |-> x[at + i]]
  <2>1. f[0] = x[at] /\ x[at] \in Int
    BY <1>3, Base DEF Blocks, Digits
  <2> HIDE DEF f
  <2>2. \A j \in 0 .. 1 - 1 : f[j] \in Int
    BY <2>1
  <2>3. Number(f, 0 + 1, Beta) = Number(f, 0, Beta) + Power(Beta, 0) * f[0]
    <3>1. \A k \in 0 .. 1 - 1 : Number(f, k + 1, Beta) = Number(f, k, Beta) + Power(Beta, k) * f[k]
      <4>1. 1 \in Nat /\ Beta \in Nat /\ Beta > 0
        BY Base
      <4> QED BY <2>2, <4>1, NumberSteps
    <3>2. 0 \in 0 .. 1 - 1
      OBVIOUS
    <3> QED BY <3>1, <3>2
  <2>4. Power(Beta, 0) = 1
    BY PowerSteps
  <2> QED BY <1>1, <2>1, <2>3, <2>4 DEF Value, f
<1> QED BY <1>2, <1>3

(* The blocks of a number are its value modulo their scale. *)
LEMMA BlocksOf ==
  ASSUME NEW val \in Int, NEW n \in Nat, NEW f, \A i \in 0 .. n - 1 : f[i] = (val \div P(i)) % Beta
  PROVE  Number(f, n, Beta) = val % P(n)
BY Base, DigitsOfNumber DEF P

Outside(x, y, at, len) ==
  /\ DOMAIN y = DOMAIN x
  /\ \A i \in DOMAIN x : (i < at \/ at + len <= i) => y[i] = x[i]

LEMMA PutRight ==
  ASSUME NEW x, Digits(x), DOMAIN x \subseteq Int, NEW at, NEW len, Fits(x, at, len), NEW val \in Int
  PROVE  LET y == Put(x, at, len, val)
         IN  /\ Digits(y) /\ Outside(x, y, at, len)
             /\ Value(y, at, len) = val % P(len)
<1> DEFINE y == Put(x, at, len, val)
<1>1. at \in Nat /\ len \in Nat
  BY DEF Fits
<1>2. Digits(y)
  <2> SUFFICES ASSUME NEW i \in DOMAIN x, at <= i, i < at + len
               PROVE (val \div P(i - at)) % Beta \in 0 .. Beta - 1
    BY DEF Digits, Blocks, Put
  <2>1. i - at \in Nat
    BY <1>1
  <2>2. P(i - at) \in Nat \ {0}
    BY <2>1, Scales
  <2>3. val \div P(i - at) \in Int
    BY <2>2, DivMod
  <2> QED BY <2>3, Base, DivMod
<1>3. Outside(x, y, at, len)
  BY <1>1 DEF Outside, Put
<1>4. DOMAIN y = DOMAIN x
  BY DEF Put
<1>5. Fits(y, at, len)
  BY <1>4 DEF Fits
<1>6. ASSUME NEW i \in 0 .. len - 1 PROVE y[at + i] = (val \div P(i)) % Beta
  <2>1. at + i \in DOMAIN x /\ at <= at + i /\ at + i < at + len /\ (at + i) - at = i
    BY <1>1 DEF Fits, Blocks
  <2> QED BY <2>1 DEF Put
<1> DEFINE f == [i \in 0 .. len - 1 |-> y[at + i]]
<1> HIDE DEF y
<1>7. Value(y, at, len) = Number(f, len, Beta)
  <2>1. \A i \in 0 .. len - 1 : f[i] = y[at + i]
    OBVIOUS
  <2> HIDE DEF f
  <2> QED BY <1>2, <1>5, <2>1, ValueIs
<1>8. Number(f, len, Beta) = val % P(len)
  BY <1>1, <1>6, BlocksOf
<1> QED BY <1>2, <1>3, <1>7, <1>8 DEF y

IsArray(x) == Digits(x) /\ DOMAIN x \subseteq Int

(* A change to a window, and what it leaves alone. *)
LEMMA SubNRight ==
  ASSUME NEW x, IsArray(x), NEW at, NEW len, Fits(x, at, len), NEW val \in Int
  PROVE  LET s == SubN(x, at, len, val)
         IN  /\ IsArray(s.to) /\ Outside(x, s.to, at, len) /\ s.out \in Int
             /\ Value(x, at, len) - val = Value(s.to, at, len) - s.out * P(len)
<1> DEFINE left == Value(x, at, len) - val  y == Put(x, at, len, left)  c == left \div P(len)
           s == SubN(x, at, len, val)
<1>1. left \in Int /\ P(len) \in Nat \ {0}
  <2>1. Value(x, at, len) \in Nat /\ len \in Nat
    BY ValueBounds DEF Fits, IsArray
  <2> QED BY <2>1, Scale
<1>2. s.to = y /\ s.out = -c
  BY DEF SubN
<1> HIDE DEF left, s
<1>3. Digits(y) /\ Outside(x, y, at, len) /\ Value(y, at, len) = left % P(len)
  BY <1>1, PutRight DEF IsArray
<1>4. c \in Int /\ left = c * P(len) + (left % P(len)) /\ left % P(len) \in 0 .. P(len) - 1
  BY <1>1, DivMod
<1> HIDE DEF y, c
<1>5. s.out * P(len) = -(c * P(len)) /\ c * P(len) \in Int /\ s.out \in Int
  BY <1>1, <1>2, <1>4
<1>6. IsArray(y)
  BY <1>3 DEF IsArray, Outside
<1>7. left = Value(y, at, len) - s.out * P(len)
  BY <1>1, <1>3, <1>4, <1>5
<1> QED BY <1>2, <1>3, <1>5, <1>6, <1>7 DEF left, s

LEMMA AddNRight ==
  ASSUME NEW x, IsArray(x), NEW at, NEW len, Fits(x, at, len), NEW val \in Int
  PROVE  LET s == AddN(x, at, len, val)
         IN  /\ IsArray(s.to) /\ Outside(x, s.to, at, len) /\ s.out \in Int
             /\ Value(x, at, len) + val = Value(s.to, at, len) + s.out * P(len)
<1> DEFINE sum == Value(x, at, len) + val  y == Put(x, at, len, sum)  c == sum \div P(len)
           s == AddN(x, at, len, val)
<1>1. sum \in Int /\ P(len) \in Nat \ {0}
  <2>1. Value(x, at, len) \in Nat /\ len \in Nat
    BY ValueBounds DEF Fits, IsArray
  <2> QED BY <2>1, Scale
<1>2. s.to = y /\ s.out = c
  BY DEF AddN
<1> HIDE DEF sum, s
<1>3. Digits(y) /\ Outside(x, y, at, len) /\ Value(y, at, len) = sum % P(len)
  BY <1>1, PutRight DEF IsArray
<1>4. c \in Int /\ sum = c * P(len) + (sum % P(len)) /\ sum % P(len) \in 0 .. P(len) - 1
  BY <1>1, DivMod
<1> HIDE DEF y, c
<1>6. IsArray(y)
  BY <1>3 DEF IsArray, Outside
<1>7. sum = Value(y, at, len) + s.out * P(len)
  BY <1>1, <1>2, <1>3, <1>4
<1> QED BY <1>2, <1>3, <1>4, <1>6, <1>7 DEF sum, s

LEMMA ValueKept ==
  ASSUME NEW x, NEW y, IsArray(x), IsArray(y), NEW at, NEW len, Fits(x, at, len),
         NEW a \in Int, NEW n \in Int, Outside(x, y, a, n), at + len <= a \/ a + n <= at
  PROVE  Value(y, at, len) = Value(x, at, len)
<1>1. at \in Nat /\ len \in Nat
  BY DEF Fits
<1>2. Same(x, y, at, len)
  <2> SUFFICES ASSUME NEW i \in Blocks(len) PROVE x[at + i] = y[at + i]
    BY DEF Same
  <2>1. at + i \in DOMAIN x /\ i \in 0 .. len - 1
    BY DEF Fits, Blocks
  <2>2. at + i < a \/ a + n <= at + i
    BY <1>1, <2>1
  <2> QED BY <2>1, <2>2 DEF Outside
<1> QED BY <1>2, ValueSame DEF IsArray

LEMMA OutsideWider ==
  ASSUME NEW x, NEW y, IsArray(x), NEW a \in Int, NEW n \in Int, Outside(x, y, a, n),
         NEW b \in Int, NEW m \in Int, b <= a, a + n <= b + m
  PROVE  Outside(x, y, b, m)
BY DEF Outside, IsArray

LEMMA OutsideTwice ==
  ASSUME NEW x, NEW y, NEW z, NEW a, NEW n, Outside(x, y, a, n), Outside(y, z, a, n)
  PROVE  Outside(x, z, a, n)
BY DEF Outside

LEMMA NothingOutside ==
  ASSUME NEW x, NEW a, NEW n
  PROVE  Outside(x, x, a, n)
BY DEF Outside

LEMMA FitsKept ==
  ASSUME NEW x, NEW y, NEW a, NEW n, Outside(x, y, a, n), NEW at, NEW len, Fits(x, at, len)
  PROVE  Fits(y, at, len)
BY DEF Outside, Fits

LEMMA FitsWithin ==
  ASSUME NEW x, NEW at, NEW len, Fits(x, at, len), NEW b \in Nat, NEW m \in Nat, at <= b, b + m <= at + len
  PROVE  Fits(x, b, m)
<1>1. at \in Nat /\ len \in Nat
  BY DEF Fits
<1> SUFFICES ASSUME NEW i \in Blocks(m) PROVE b + i \in DOMAIN x
  BY DEF Fits
<1>2. (b - at) + i \in Blocks(len) /\ at + ((b - at) + i) = b + i
  BY <1>1 DEF Blocks
<1> QED BY <1>2 DEF Fits

-----------------------------------------------------------------------------
(* The invariant.  Its parts speak of a dividend x, a quotient y, a divisor  *)
(* z, a seed s and a returned qh r, to compare two states.                   *)

Labels == {"start", "turn", "rare", "usual", "done", "cross high", "fix high", "cross low",
           "fix low", "pass", "cross", "fix", "first", "next"}
Frames == [fn : {"core", "sb", "dcn", "chunk", "chunks"}, pc : Labels, q : Nat, n : Nat, d : Nat,
           qn : Nat, dn : Nat, qh : Int, j : Int, qhat : Int, top : Int, cy : Int, adds : Nat,
           was : Nat]

(* What never changes of a call: its sizes, its windows, the divisor's top    *)
(* blocks, and a dividend that is at most barely beyond the quotient's range. *)
Shape(f) ==
  /\ f.dn >= 2 /\ f.qn >= 1
  /\ f.fn = "dcn" => f.qn = f.dn /\ f.dn >= 4
  /\ f.fn = "chunk" => f.qn <= f.dn /\ f.dn >= 4
  /\ f.fn = "chunks" => f.dn >= 4
Bounded(f) == f.adds <= IF f.fn \in {"sb", "core"} THEN 1 ELSE 2
Divisor(f, z) == Value(z, f.d, f.dn)
Placed(f, x, y, z, s) ==
  /\ Fits(x, f.n, f.qn + f.dn) /\ Fits(y, f.q, f.qn) /\ Fits(z, f.d, f.dn)
  /\ 2 * z[f.d + f.dn - 1] >= Beta
  /\ s = Exact(z[f.d + f.dn - 1], z[f.d + f.dn - 2])
Fair(f, z) ==
  /\ f.was < (Divisor(f, z) + 1) * P(f.qn)
  /\ f.fn \in {"core", "chunks"} => f.was < Divisor(f, z) * P(f.qn)
Good(f, x, y, z, s) == f \in Frames /\ Shape(f) /\ Bounded(f) /\ Placed(f, x, y, z, s) /\ Fair(f, z)

(* Quotient blocks from j on are found, and the rest is below the divisor. *)
Found(f, j, qh, y) == qh * P(f.qn) + P(j) * Value(y, f.q + j, f.qn - j)
Turned(f, j, qh, x, y, z) ==
  /\ j \in 0 .. f.qn /\ qh \in {0, 1}
  /\ f.was = Found(f, j, qh, y) * Divisor(f, z) + Value(x, f.n, j + f.dn)
  /\ Value(x, f.n + j, f.dn) < Divisor(f, z)
Multiple(j, n) == \E m \in Nat : j = m * n

(* Quotient block j is qhat, to be corrected while there is a borrow. *)
Corrected(f, x, y, z) ==
  LET rest == Value(x, f.n + f.j, f.dn) - f.cy * P(f.dn)
  IN  /\ f.j \in 0 .. f.qn - 1 /\ f.qh \in {0, 1} /\ f.qhat \in Blocks(Beta) /\ f.cy \in {0, 1}
      /\ f.was = (Found(f, f.j + 1, f.qh, y) + P(f.j) * f.qhat) * Divisor(f, z)
                   + Value(x, f.n, f.j + f.dn) - f.cy * P(f.j + f.dn)
      /\ -Divisor(f, z) <= rest /\ rest < Divisor(f, z)
      /\ f.cy = 1 => f.adds = 0 /\ f.qhat >= 1
      /\ f.pc = "rare" => f.top = IF f.cy = 1 THEN Beta - 1 ELSE 0

(* A division of X by f's divisor from the qlen top blocks of it: called, .. *)
Part(f, X, qlen, z) == X \in Nat /\ qlen \in 1 .. f.dn /\ X < (Divisor(f, z) + 1) * P(qlen)
Asked(f, g, X, at, q, qlen, x, z) ==
  LET k == f.dn - qlen
  IN  /\ Part(f, X, qlen, z)
      /\ g.q = q /\ g.n = at + k /\ g.d = f.d + k /\ g.qn = qlen /\ g.dn = qlen
      /\ X = g.was * P(k) + Value(x, at, k)
(* .. returned, .. *)
Crossing(f, X, at, q, qlen, e, x, y, z) ==
  LET k == f.dn - qlen
      top == Value(z, f.d + k, qlen)
  IN  /\ Part(f, X, qlen, z) /\ e \in {0, 1}
      /\ X = ((e * P(qlen) + Value(y, q, qlen)) * top) * P(k) + Value(x, at, f.dn)
      /\ Value(x, at + k, qlen) < top
(* .. and corrected for the rest of the divisor. *)
Fixing(f, X, at, q, qlen, e, x, y, z) ==
  LET rest == Value(x, at, f.dn) - f.cy * P(f.dn)
  IN  /\ Part(f, X, qlen, z) /\ e \in Int
      /\ X = (e * P(qlen) + Value(y, q, qlen)) * Divisor(f, z) + rest
      /\ rest < Divisor(f, z) /\ rest >= -((2 - f.adds) * Divisor(f, z))

(* The two halves of a division of 2 dn by dn blocks. *)
HighPart(f, X, x) == f.was = X * P(Low(f)) + Value(x, f.n, Low(f))
LowPart(f, X, y, z) ==
  /\ f.qh \in {0, 1}
  /\ f.was = (f.qh * P(High(f)) + Value(y, f.q + Low(f), High(f))) * P(Low(f)) * Divisor(f, z) + X
  /\ X < Divisor(f, z) * P(Low(f))

(* A chunk of the quotient. *)
Chunked(f, g) ==
  /\ f.j \in Nat /\ Multiple(f.j, f.dn)
  /\ g.q = f.q + f.j /\ g.n = f.n + f.j /\ g.d = f.d /\ g.dn = f.dn

(* f has called g. *)
Waits(f, g, x, y, z) ==
  \/ /\ f.fn = "dcn" /\ f.pc = "cross high"
     /\ \E X \in Nat : /\ HighPart(f, X, x)
                       /\ Asked(f, g, X, f.n + Low(f), f.q + Low(f), High(f), x, z)
  \/ /\ f.fn = "dcn" /\ f.pc = "cross low"
     /\ \E X \in Nat : LowPart(f, X, y, z) /\ Asked(f, g, X, f.n, f.q, Low(f), x, z)
  \/ /\ f.fn = "chunk" /\ f.pc = "cross"
     /\ Asked(f, g, f.was, f.n, f.q, f.qn, x, z)
  \/ /\ f.fn = "chunk" /\ f.pc = "pass"
     /\ g.q = f.q /\ g.n = f.n /\ g.d = f.d /\ g.qn = f.qn /\ g.dn = f.dn /\ g.was = f.was
  \/ /\ f.fn = "chunks" /\ f.pc = "first"
     /\ Chunked(f, g) /\ g.qn = f.qn - f.j
     /\ f.was = g.was * P(f.j) + Value(x, f.n, f.j)
  \/ /\ f.fn = "chunks" /\ f.pc = "next"
     /\ Chunked(f, g) /\ g.qn = f.dn /\ f.j + f.dn <= f.qn /\ f.qh \in {0, 1}
     /\ f.was = Found(f, f.j + f.dn, f.qh, y) * Divisor(f, z) + g.was * P(f.j) + Value(x, f.n, f.j)
     /\ g.was < Divisor(f, z) * P(f.dn)

(* The innermost call. *)
Running(f, x, y, z, r) ==
  \/ /\ f.pc = "start" /\ f.qh = 0 /\ f.j = f.qn
     /\ f.was = Value(x, f.n, f.qn + f.dn)
  \/ /\ f.fn \in {"sb", "core"} /\ f.pc = "turn"
     /\ Turned(f, f.j, f.qh, x, y, z)
  \/ /\ f.fn \in {"sb", "core"} /\ f.pc \in {"rare", "usual"}
     /\ Corrected(f, x, y, z)
  \/ /\ f.fn = "dcn" /\ f.pc = "cross high"
     /\ \E X \in Nat : /\ HighPart(f, X, x)
                       /\ Crossing(f, X, f.n + Low(f), f.q + Low(f), High(f), r, x, y, z)
  \/ /\ f.fn = "dcn" /\ f.pc = "fix high"
     /\ \E X \in Nat : /\ HighPart(f, X, x)
                       /\ Fixing(f, X, f.n + Low(f), f.q + Low(f), High(f), f.qh, x, y, z)
  \/ /\ f.fn = "dcn" /\ f.pc = "cross low"
     /\ \E X \in Nat : LowPart(f, X, y, z) /\ Crossing(f, X, f.n, f.q, Low(f), r, x, y, z)
  \/ /\ f.fn = "dcn" /\ f.pc = "fix low"
     /\ \E X \in Nat, e \in Int : LowPart(f, X, y, z) /\ Fixing(f, X, f.n, f.q, Low(f), e, x, y, z)
  \/ /\ f.fn = "chunk" /\ f.pc = "cross"
     /\ Crossing(f, f.was, f.n, f.q, f.qn, r, x, y, z)
  \/ /\ f.fn = "chunk" /\ f.pc = "fix"
     /\ Fixing(f, f.was, f.n, f.q, f.qn, f.qh, x, y, z)
  \/ /\ f.fn = "chunk" /\ f.pc = "pass"
     /\ Turned(f, 0, r, x, y, z)
  \/ /\ f.fn = "chunks" /\ f.pc = "first"
     /\ Multiple(f.j, f.dn) /\ Turned(f, f.j, r, x, y, z)
  \/ /\ f.fn = "chunks" /\ f.pc = "next"
     /\ Multiple(f.j, f.dn) /\ Turned(f, f.j, f.qh, x, y, z)
  \/ /\ f.pc = "done" /\ r = f.qh
     /\ Turned(f, 0, f.qh, x, y, z)

Inside(g, f) ==
  /\ f.n <= g.n /\ g.n + g.qn + g.dn <= f.n + f.qn + f.dn
  /\ f.q <= g.q /\ g.q + g.qn <= f.q + f.qn

GoodStack(st, x, y, z, s) ==
  /\ \A k \in 1 .. Len(st) : Good(st[k], x, y, z, s)
  /\ \A k \in 1 .. Len(st) : \A m \in 1 .. Len(st) : k < m => Inside(st[m], st[k])
  /\ \A k \in 1 .. Len(st) - 1 : Waits(st[k], st[k + 1], x, y, z)
IInv ==
  /\ IsArray(np) /\ IsArray(qp) /\ IsArray(dp) /\ ret \in Int
  /\ stack \in Seq(Frames)
  /\ GoodStack(stack, np, qp, dp, v)
  /\ stack # << >> => Running(Top, np, qp, dp, ret)

-----------------------------------------------------------------------------
(* The stack *)

LEMMA StackFacts ==
  ASSUME NEW st, st \in Seq(Frames), st # << >>
  PROVE  LET b == SubSeq(st, 1, Len(st) - 1)
         IN  /\ Len(st) \in Nat \ {0} /\ \A k \in 1 .. Len(st) : st[k] \in Frames
             /\ b \in Seq(Frames) /\ Len(b) = Len(st) - 1
             /\ \A k \in 1 .. Len(st) - 1 : b[k] = st[k]
<1> DEFINE n == Len(st) - 1  b == SubSeq(st, 1, n)
<1>1. Len(st) \in Nat \ {0} /\ n \in Nat /\ \A k \in 1 .. Len(st) : st[k] \in Frames
  BY EmptySeq, LenProperties
<1>2. \A k \in 1 .. n : st[k] \in Frames
  BY <1>1
<1>3. n + 1 = Len(st)
  BY <1>1
<1> HIDE DEF n
<1>4. /\ b \in Seq(Frames)
      /\ Len(b) = IF 1 <= n THEN n - 1 + 1 ELSE 0
      /\ \A k \in 1 .. n - 1 + 1 : b[k] = st[1 + k - 1]
  BY <1>1, <1>2, SubSeqProperties
<1> HIDE DEF b
<1>5. Len(b) = n /\ \A k \in 1 .. n : b[k] = st[k]
  BY <1>1, <1>4
<1> QED BY <1>1, <1>4, <1>5 DEF b, n

LEMMA AppendFrame ==
  ASSUME NEW st, st \in Seq(Frames), NEW f, f \in Frames
  PROVE  /\ Append(st, f) \in Seq(Frames) /\ Append(st, f) # << >>
         /\ Len(st) \in Nat /\ Len(Append(st, f)) = Len(st) + 1
         /\ \A k \in 1 .. Len(st) : Append(st, f)[k] = st[k]
         /\ Append(st, f)[Len(st) + 1] = f
<1>1. /\ Append(st, f) \in Seq(Frames)
      /\ Len(Append(st, f)) = Len(st) + 1
      /\ \A k \in 1 .. Len(st) : Append(st, f)[k] = st[k]
      /\ Append(st, f)[Len(st) + 1] = f
  BY AppendProperties
<1>2. Len(st) \in Nat
  BY LenProperties
<1>3. Append(st, f) # << >>
  BY <1>1, <1>2, EmptySeq
<1> QED BY <1>1, <1>2, <1>3

(* Types, and updates, of frames. *)
LEMMA FrameTypes ==
  ASSUME NEW f \in Frames
  PROVE  /\ f.fn \in {"core", "sb", "dcn", "chunk", "chunks"} /\ f.pc \in Labels
         /\ f.q \in Nat /\ f.n \in Nat /\ f.d \in Nat /\ f.qn \in Nat /\ f.dn \in Nat /\ f.was \in Nat
         /\ f.qh \in Int /\ f.j \in Int /\ f.qhat \in Int /\ f.top \in Int /\ f.cy \in Int
         /\ f.adds \in Nat
BY DEF Frames

LEMMA Halves ==
  ASSUME NEW f \in Frames
  PROVE  /\ Low(f) \in Nat /\ High(f) \in Nat /\ Low(f) + High(f) = f.dn /\ f.dn - High(f) = Low(f)
         /\ f.dn - Low(f) = High(f) /\ Low(f) <= High(f) /\ High(f) <= Low(f) + 1
         /\ (f.dn >= 2 => Low(f) >= 1) /\ (f.dn >= 4 => Low(f) >= 2)
<1>1. f.dn \in Nat
  BY FrameTypes
<1> DEFINE n == f.dn
<1>2. Low(f) = n \div 2 /\ High(f) = n - n \div 2
  BY DEF Low, High
<1>3. n \in Nat
  BY <1>1
<1> HIDE DEF n
<1> QED BY <1>2, <1>3 DEF n

(* The same call, whatever it has come to. *)
Alike(f, g) ==
  /\ f.fn = g.fn /\ f.q = g.q /\ f.n = g.n /\ f.d = g.d
  /\ f.qn = g.qn /\ f.dn = g.dn /\ f.was = g.was

Moved(f, a) == [f EXCEPT !.j = a]
MovedTo(f, pc, a) == [f EXCEPT !.pc = pc, !.j = a]
Crossed(f, pc, a, b) == [f EXCEPT !.pc = pc, !.qh = a, !.cy = b, !.adds = 0]
CrossedLow(f, pc, b) == [f EXCEPT !.pc = pc, !.cy = b, !.adds = 0]
Fixed(f, a, b, c) == [f EXCEPT !.cy = b, !.adds = c, !.qh = a]

LEMMA FrameMoved ==
  ASSUME NEW f \in Frames, NEW a \in Int
  PROVE  LET h == Moved(f, a)
         IN  h \in Frames /\ Alike(h, f) /\ h.pc = f.pc /\ h.j = a /\ h.adds = f.adds /\ h.qh = f.qh
BY DEF Frames, Alike, Moved

LEMMA FrameMovedTo ==
  ASSUME NEW f \in Frames, NEW pc \in Labels, NEW a \in Int
  PROVE  LET h == MovedTo(f, pc, a)
         IN  h \in Frames /\ Alike(h, f) /\ h.pc = pc /\ h.j = a /\ h.adds = f.adds /\ h.qh = f.qh
BY DEF Frames, Alike, MovedTo

LEMMA FrameCrossed ==
  ASSUME NEW f \in Frames, NEW pc \in Labels, NEW a \in Int, NEW b \in Int
  PROVE  LET h == Crossed(f, pc, a, b)
         IN  h \in Frames /\ Alike(h, f) /\ h.pc = pc /\ h.qh = a /\ h.cy = b /\ h.adds = 0
BY DEF Frames, Alike, Crossed

LEMMA FrameCrossedLow ==
  ASSUME NEW f \in Frames, NEW pc \in Labels, NEW b \in Int
  PROVE  LET h == CrossedLow(f, pc, b)
         IN  h \in Frames /\ Alike(h, f) /\ h.pc = pc /\ h.qh = f.qh /\ h.cy = b /\ h.adds = 0
BY DEF Frames, Alike, CrossedLow

LEMMA FrameFixed ==
  ASSUME NEW f \in Frames, NEW a \in Int, NEW b \in Int, NEW c \in Nat
  PROVE  LET h == Fixed(f, a, b, c)
         IN  h \in Frames /\ Alike(h, f) /\ h.pc = f.pc /\ h.qh = a /\ h.cy = b /\ h.adds = c
BY DEF Frames, Alike, Fixed

LEMMA InsideTwice ==
  ASSUME NEW a \in Frames, NEW f \in Frames, NEW g \in Frames, Inside(g, f), Inside(f, a)
  PROVE  Inside(g, a)
<1>1. /\ a.n \in Nat /\ a.qn \in Nat /\ a.dn \in Nat /\ a.q \in Nat
      /\ f.n \in Nat /\ f.qn \in Nat /\ f.dn \in Nat /\ f.q \in Nat
      /\ g.n \in Nat /\ g.qn \in Nat /\ g.dn \in Nat /\ g.q \in Nat
  BY FrameTypes
<1> DEFINE ae == a.n + a.qn + a.dn  fe == f.n + f.qn + f.dn  ge == g.n + g.qn + g.dn
           aq == a.q + a.qn  fq == f.q + f.qn  gq == g.q + g.qn
<1>2. ae \in Nat /\ fe \in Nat /\ ge \in Nat /\ aq \in Nat /\ fq \in Nat /\ gq \in Nat
  BY <1>1
<1>3. /\ f.n <= g.n /\ ge <= fe /\ f.q <= g.q /\ gq <= fq
      /\ a.n <= f.n /\ fe <= ae /\ a.q <= f.q /\ fq <= aq
  BY DEF Inside
<1> HIDE DEF ae, fe, ge, aq, fq, gq
<1>4. a.n <= g.n /\ ge <= ae /\ a.q <= g.q /\ gq <= aq
  BY <1>1, <1>2, <1>3
<1> QED BY <1>4 DEF Inside, ae, fe, ge, aq, fq, gq

LEMMA NoReturnInt == NoReturn \in Int
BY DEF NoReturn

LEMMA GoodKept ==
  ASSUME NEW x, NEW y, NEW z, NEW s, NEW g, Good(g, x, y, z, s),
         NEW f, f \in Frames, Alike(f, g), Bounded(f),
         NEW x2, NEW y2, NEW a, NEW m, NEW b, NEW n, Outside(x, x2, a, m), Outside(y, y2, b, n)
  PROVE  Good(f, x2, y2, z, s)
<1>1. Fits(x, f.n, f.qn + f.dn) /\ Fits(y, f.q, f.qn)
  BY DEF Good, Placed, Alike
<1>2. Fits(x2, f.n, f.qn + f.dn) /\ Fits(y2, f.q, f.qn)
  BY <1>1, FitsKept
<1>3. Shape(f) /\ Fair(f, z)
  BY DEF Good, Alike, Shape, Fair, Divisor
<1>4. Placed(f, x2, y2, z, s)
  BY <1>2 DEF Good, Alike, Placed
<1> QED BY <1>3, <1>4 DEF Good

(* What a caller relies on is outside of the windows of the call. *)
LEMMA WaitsKept ==
  ASSUME NEW x, NEW y, NEW z, NEW x2, NEW y2, IsArray(x), IsArray(x2), IsArray(y), IsArray(y2),
         NEW f, NEW s, Good(f, x, y, z, s),
         NEW g, NEW g2, g \in Frames, Alike(g2, g), Inside(g, f),
         Outside(x, x2, g.n, g.qn + g.dn), Outside(y, y2, g.q, g.qn),
         Waits(f, g, x, y, z)
  PROVE  Waits(f, g2, x2, y2, z)
<1>1. /\ f.n \in Nat /\ f.q \in Nat /\ f.d \in Nat /\ f.qn \in Nat /\ f.dn \in Nat
      /\ Low(f) \in Nat /\ High(f) \in Nat /\ Low(f) + High(f) = f.dn /\ Low(f) <= High(f)
  BY FrameTypes, Halves DEF Good
<1>2. g.n \in Int /\ g.qn + g.dn \in Int /\ g.q \in Int /\ g.qn \in Nat
  BY DEF Frames
<1>3. Fits(x, f.n, f.qn + f.dn) /\ Fits(y, f.q, f.qn)
  BY DEF Good, Placed
<1>4. ASSUME NEW at \in Nat, NEW k \in Nat, f.n <= at, at + k <= f.n + f.qn + f.dn, at + k <= g.n
      PROVE  Value(x2, at, k) = Value(x, at, k)
  <2>1. Fits(x, at, k)
    BY <1>1, <1>3, <1>4, FitsWithin
  <2> QED BY <1>2, <1>4, <2>1, ValueKept
<1>5. ASSUME NEW at \in Nat, NEW k \in Nat, f.q <= at, at + k <= f.q + f.qn, g.q + g.qn <= at
      PROVE  Value(y2, at, k) = Value(y, at, k)
  <2>1. Fits(y, at, k)
    BY <1>1, <1>3, <1>5, FitsWithin
  <2> QED BY <1>2, <1>5, <2>1, ValueKept
<1>6. CASE f.fn = "dcn" /\ f.pc = "cross high" /\ \E X \in Nat : /\ HighPart(f, X, x)
                       /\ Asked(f, g, X, f.n + Low(f), f.q + Low(f), High(f), x, z)
  <2>1. PICK X \in Nat : /\ HighPart(f, X, x)
                         /\ Asked(f, g, X, f.n + Low(f), f.q + Low(f), High(f), x, z)
    BY <1>6
  <2>2. f.qn = f.dn
    BY <1>6 DEF Good, Shape
  <2>3. g.n = f.n + Low(f) + (f.dn - High(f)) /\ f.dn - High(f) = Low(f)
    BY <1>1, <2>1 DEF Asked
  <2>4. Value(x2, f.n, Low(f)) = Value(x, f.n, Low(f))
    BY <1>1, <1>4, <2>2, <2>3
  <2>5. Value(x2, f.n + Low(f), f.dn - High(f)) = Value(x, f.n + Low(f), f.dn - High(f))
    BY <1>1, <1>4, <2>2, <2>3
  <2>6. HighPart(f, X, x2)
    BY <2>1, <2>4 DEF HighPart
  <2>7. Asked(f, g2, X, f.n + Low(f), f.q + Low(f), High(f), x2, z)
    BY <2>1, <2>5 DEF Asked, Alike
  <2> QED BY <1>6, <2>6, <2>7 DEF Waits
<1>7. CASE f.fn = "dcn" /\ f.pc = "cross low"
           /\ \E X \in Nat : LowPart(f, X, y, z) /\ Asked(f, g, X, f.n, f.q, Low(f), x, z)
  <2>1. PICK X \in Nat : LowPart(f, X, y, z) /\ Asked(f, g, X, f.n, f.q, Low(f), x, z)
    BY <1>7
  <2>2. f.qn = f.dn
    BY <1>7 DEF Good, Shape
  <2>3. g.n = f.n + (f.dn - Low(f)) /\ f.dn - Low(f) = High(f) /\ g.q = f.q /\ g.qn = Low(f)
    BY <1>1, <2>1 DEF Asked
  <2>4. Value(x2, f.n, f.dn - Low(f)) = Value(x, f.n, f.dn - Low(f))
    BY <1>1, <1>4, <2>2, <2>3
  <2>5. Value(y2, f.q + Low(f), High(f)) = Value(y, f.q + Low(f), High(f))
    BY <1>1, <1>5, <2>2, <2>3
  <2>6. LowPart(f, X, y2, z)
    BY <2>1, <2>5 DEF LowPart
  <2>7. Asked(f, g2, X, f.n, f.q, Low(f), x2, z)
    BY <2>1, <2>4 DEF Asked, Alike
  <2> QED BY <1>7, <2>6, <2>7 DEF Waits
<1>8. CASE f.fn = "chunk" /\ f.pc = "cross" /\ Asked(f, g, f.was, f.n, f.q, f.qn, x, z)
  <2>1. f.qn <= f.dn
    BY <1>8 DEF Good, Shape
  <2>2. g.n = f.n + (f.dn - f.qn) /\ f.dn - f.qn \in Nat
    BY <1>1, <1>8, <2>1 DEF Asked
  <2>3. Value(x2, f.n, f.dn - f.qn) = Value(x, f.n, f.dn - f.qn)
    BY <1>1, <1>4, <2>2
  <2>4. Asked(f, g2, f.was, f.n, f.q, f.qn, x2, z)
    BY <1>8, <2>3 DEF Asked, Alike
  <2> QED BY <1>8, <2>4 DEF Waits
<1>9. CASE /\ f.fn = "chunk" /\ f.pc = "pass"
           /\ g.q = f.q /\ g.n = f.n /\ g.d = f.d /\ g.qn = f.qn /\ g.dn = f.dn /\ g.was = f.was
  BY <1>9 DEF Waits, Alike
<1>10. CASE /\ f.fn = "chunks" /\ f.pc = "first"
            /\ Chunked(f, g) /\ g.qn = f.qn - f.j
            /\ f.was = g.was * P(f.j) + Value(x, f.n, f.j)
  <2>1. f.j \in Nat /\ g.n = f.n + f.j /\ g.q = f.q + f.j /\ f.j <= f.qn
    BY <1>1, <1>2, <1>10 DEF Chunked
  <2>2. Value(x2, f.n, f.j) = Value(x, f.n, f.j)
    BY <1>1, <1>4, <2>1
  <2>3. Chunked(f, g2) /\ g2.qn = g.qn /\ g2.was = g.was
    BY <1>10 DEF Chunked, Alike
  <2> QED BY <1>10, <2>2, <2>3 DEF Waits
<1>11. CASE /\ f.fn = "chunks" /\ f.pc = "next"
            /\ Chunked(f, g) /\ g.qn = f.dn /\ f.j + f.dn <= f.qn /\ f.qh \in {0, 1}
            /\ f.was = Found(f, f.j + f.dn, f.qh, y) * Divisor(f, z) + g.was * P(f.j) + Value(x, f.n, f.j)
            /\ g.was < Divisor(f, z) * P(f.dn)
  <2>1. f.j \in Nat /\ g.n = f.n + f.j /\ g.q = f.q + f.j /\ f.j + f.dn <= f.qn
    BY <1>11 DEF Chunked
  <2>2. Value(x2, f.n, f.j) = Value(x, f.n, f.j)
    BY <1>1, <1>4, <2>1
  <2>3. Value(y2, f.q + (f.j + f.dn), f.qn - (f.j + f.dn)) = Value(y, f.q + (f.j + f.dn), f.qn - (f.j + f.dn))
    BY <1>1, <1>5, <1>11, <2>1
  <2>4. Found(f, f.j + f.dn, f.qh, y2) = Found(f, f.j + f.dn, f.qh, y)
    BY <2>3 DEF Found
  <2>5. Chunked(f, g2) /\ g2.qn = g.qn /\ g2.was = g.was
    BY <1>11 DEF Chunked, Alike
  <2> QED BY <1>11, <2>2, <2>4, <2>5 DEF Waits
<1> QED BY <1>6, <1>7, <1>8, <1>9, <1>10, <1>11 DEF Waits

(* The calls in progress, apart from the innermost, are undisturbed by what  *)
(* it does in its windows: it goes on, ..                                    *)
LEMMA UpdateGood ==
  ASSUME stack \in Seq(Frames), stack # << >>, GoodStack(stack, np, qp, dp, v),
         IsArray(np), IsArray(qp),
         NEW f, f \in Frames, Alike(f, Top), Bounded(f), NEW x, NEW y, IsArray(x), IsArray(y),
         Outside(np, x, Top.n, Top.qn + Top.dn), Outside(qp, y, Top.q, Top.qn)
  PROVE  LET st == Append(Below, f)
         IN  /\ GoodStack(st, x, y, dp, v) /\ st \in Seq(Frames) /\ st # << >>
             /\ st[Len(st)] = f
<1> DEFINE n == Len(stack)  st == Append(Below, f)
<1>1. /\ n \in Nat \ {0} /\ \A k \in 1 .. n : stack[k] \in Frames
      /\ Below \in Seq(Frames) /\ Len(Below) = n - 1
      /\ \A k \in 1 .. n - 1 : Below[k] = stack[k]
  BY StackFacts DEF Below
<1>2. Top = stack[n] /\ Top \in Frames
  BY <1>1 DEF Top
<1> HIDE DEF n
<1>3. /\ st \in Seq(Frames) /\ st # << >> /\ Len(st) = n /\ st[n] = f
      /\ \A k \in 1 .. n - 1 : st[k] = stack[k]
  <2>1. /\ st \in Seq(Frames) /\ st # << >> /\ Len(st) = n - 1 + 1
        /\ \A k \in 1 .. n - 1 : st[k] = Below[k]
        /\ st[n - 1 + 1] = f
    BY <1>1, AppendFrame
  <2> HIDE DEF st
  <2> QED BY <1>1, <2>1
<1> HIDE DEF st
<1>4. ASSUME NEW k \in 1 .. n PROVE Alike(st[k], stack[k]) /\ Bounded(st[k]) /\ st[k] \in Frames
  <2>1. CASE k = n
    BY <1>2, <1>3, <2>1
  <2>2. CASE k \in 1 .. n - 1
    BY <1>1, <1>3, <2>2 DEF Alike, GoodStack, Good, n
  <2> QED BY <1>1, <2>1, <2>2
<1>5. \A k \in 1 .. n : Good(stack[k], np, qp, dp, v)
  BY DEF GoodStack, n
<1>6. \A k \in 1 .. n : Good(st[k], x, y, dp, v)
  BY <1>4, <1>5, GoodKept
<1>7. \A k \in 1 .. n : \A m \in 1 .. n : k < m => Inside(stack[m], stack[k])
  BY DEF GoodStack, n
<1>8. \A k \in 1 .. n : \A m \in 1 .. n : k < m => Inside(st[m], st[k])
  BY <1>4, <1>7 DEF Inside, Alike
<1>9. ASSUME NEW k \in 1 .. n - 1 PROVE Waits(st[k], st[k + 1], x, y, dp)
  <2>1. k \in 1 .. n /\ k + 1 \in 1 .. n /\ n \in 1 .. n /\ k < k + 1
    BY <1>1, <1>9
  <2>2. Waits(stack[k], stack[k + 1], np, qp, dp)
    BY DEF GoodStack, n
  <2>3. Alike(st[k + 1], stack[k + 1]) /\ Inside(stack[k + 1], stack[k]) /\ stack[k + 1] \in Frames
    BY <1>1, <1>4, <1>7, <2>1
  <2> DEFINE g == stack[k + 1]
  <2>4. /\ Top.n \in Int /\ Top.qn + Top.dn \in Int /\ Top.q \in Int /\ Top.qn \in Int
        /\ g.n \in Int /\ g.qn + g.dn \in Int /\ g.q \in Int /\ g.qn \in Int
    <3>1. \A a \in Frames : a.n \in Int /\ a.qn + a.dn \in Int /\ a.q \in Int /\ a.qn \in Int
      <4> TAKE a \in Frames
      <4> QED BY FrameTypes
    <3> QED BY <1>2, <2>3, <3>1
  <2>5. g = Top \/ Inside(Top, g)
    <3>1. k + 1 = n \/ k + 1 < n
      BY <1>1
    <3> QED BY <1>2, <1>7, <2>1, <3>1
  <2>6. /\ g.n <= Top.n /\ Top.n + (Top.qn + Top.dn) <= g.n + (g.qn + g.dn)
        /\ g.q <= Top.q /\ Top.q + Top.qn <= g.q + g.qn
    <3>1. CASE g = Top
      BY <2>4, <3>1
    <3>2. CASE Inside(Top, g)
      <4> HIDE DEF g
      <4>1. \A a \in Frames : a.n + (a.qn + a.dn) = a.n + a.qn + a.dn
        <5> TAKE a \in Frames
        <5>1. a.n \in Nat /\ a.qn \in Nat /\ a.dn \in Nat
          BY FrameTypes
        <5> QED BY <5>1
      <4> QED BY <1>2, <2>3, <3>2, <4>1 DEF Inside, g
    <3> QED BY <2>5, <3>1, <3>2
  <2>7. Outside(np, x, g.n, g.qn + g.dn) /\ Outside(qp, y, g.q, g.qn)
    <3> HIDE DEF g
    <3> QED BY <2>4, <2>6, OutsideWider
  <2>8. stack[k] = st[k]
    BY <1>3
  <2>9. Waits(stack[k], st[k + 1], x, y, dp)
    BY <1>5, <2>1, <2>2, <2>3, <2>7, WaitsKept
  <2> QED BY <2>8, <2>9
<1> QED BY <1>3, <1>6, <1>8, <1>9 DEF GoodStack, st

LEMMA UpdateStep ==
  ASSUME IInv, stack # << >>, NEW f, f \in Frames, Alike(f, Top), Bounded(f), Becomes(f),
         IsArray(np'), IsArray(qp'), dp' = dp, v' = v, ret' \in Int,
         Outside(np, np', Top.n, Top.qn + Top.dn), Outside(qp, qp', Top.q, Top.qn),
         Running(f, np', qp', dp, ret')
  PROVE  IInv'
<1>1. stack' = Append(Below, f)
  BY DEF Becomes
<1>2. /\ GoodStack(stack', np', qp', dp, v) /\ stack' \in Seq(Frames) /\ stack' # << >>
      /\ stack'[Len(stack')] = f
  BY <1>1, UpdateGood DEF IInv
<1>3. IsArray(dp') /\ IsArray(dp)
  BY DEF IInv
<1> QED BY <1>2, <1>3 DEF IInv, Top

(* .. it calls, ..                                                           *)
LEMMA CallStep ==
  ASSUME IInv, stack # << >>, NEW f, f \in Frames, Alike(f, Top), Bounded(f),
         NEW g, Good(g, np, qp, dp, v), Inside(g, f), Waits(f, g, np, qp, dp),
         Running(g, np, qp, dp, ret), Calls(f, g), UNCHANGED <<np, qp, dp, v, ret>>
  PROVE  IInv'
<1> DEFINE st == Append(Below, f)  n == Len(stack)
<1>1. stack' = Append(st, g) /\ g \in Frames
  BY DEF Calls, Good
<1>2. /\ IsArray(np) /\ IsArray(qp) /\ IsArray(dp) /\ ret \in Int
      /\ stack \in Seq(Frames) /\ GoodStack(stack, np, qp, dp, v)
  BY DEF IInv
<1>3. GoodStack(st, np, qp, dp, v) /\ st \in Seq(Frames) /\ st # << >> /\ st[Len(st)] = f
  <2>1. \A x, a, m : Outside(x, x, a, m)
    BY NothingOutside
  <2> QED BY <1>2, <2>1, UpdateGood
<1>4. Len(st) = n /\ n \in Nat \ {0} /\ \A k \in 1 .. n : Alike(st[k], stack[k])
  <2>1. /\ n \in Nat \ {0} /\ \A k \in 1 .. n : stack[k] \in Frames
        /\ Below \in Seq(Frames) /\ Len(Below) = n - 1
        /\ \A k \in 1 .. n - 1 : Below[k] = stack[k]
    BY <1>2, StackFacts DEF Below
  <2> HIDE DEF n
  <2>2. Len(st) = (n - 1) + 1 /\ \A k \in 1 .. n - 1 : st[k] = Below[k]
    BY <2>1, AppendFrame
  <2>3. Len(st) = n
    BY <2>1, <2>2
  <2> HIDE DEF st
  <2>4. ASSUME NEW k \in 1 .. n PROVE Alike(st[k], stack[k])
    <3>1. CASE k = n
      BY <1>3, <2>3, <3>1 DEF Top, n
    <3>2. CASE k \in 1 .. n - 1
      BY <2>1, <2>2, <3>2 DEF Alike
    <3> QED BY <2>1, <3>1, <3>2
  <2> QED BY <2>1, <2>3, <2>4
<1> HIDE DEF st
<1>5. /\ stack' \in Seq(Frames) /\ stack' # << >> /\ Len(stack') = n + 1 /\ stack'[n + 1] = g
      /\ \A k \in 1 .. n : stack'[k] = st[k]
  BY <1>1, <1>3, <1>4, AppendFrame
<1> DEFINE t == stack'
<1> HIDE DEF n, t
<1>6. ASSUME NEW k \in 1 .. n + 1 PROVE Good(t[k], np, qp, dp, v)
  <2>1. CASE k = n + 1
    BY <1>5, <2>1 DEF t
  <2>2. CASE k \in 1 .. n
    BY <1>3, <1>4, <1>5, <2>2 DEF GoodStack, t
  <2> QED BY <1>4, <2>1, <2>2
<1>7. ASSUME NEW k \in 1 .. n + 1, NEW m \in 1 .. n + 1, k < m PROVE Inside(t[m], t[k])
  <2>1. k \in 1 .. n /\ t[k] = st[k]
    BY <1>4, <1>5, <1>7 DEF t
  <2>2. CASE m \in 1 .. n
    BY <1>3, <1>4, <1>5, <1>7, <2>1, <2>2 DEF GoodStack, t
  <2>3. CASE m = n + 1
    <3>1. Inside(g, f) /\ t[m] = g /\ g \in Frames /\ f \in Frames /\ st[k] \in Frames
      BY <1>1, <1>3, <1>4, <1>5, <2>1, <2>3 DEF t, GoodStack, Good
    <3>2. k = n \/ k < n
      BY <1>4, <2>1
    <3>3. st[k] = f \/ Inside(f, st[k])
      BY <1>3, <1>4, <2>1, <3>2 DEF GoodStack
    <3>4. ASSUME Inside(f, st[k]) PROVE Inside(g, st[k])
      BY <3>1, <3>4, InsideTwice
    <3> QED BY <2>1, <3>1, <3>3, <3>4
  <2> QED BY <1>4, <2>2, <2>3
<1>8. ASSUME NEW k \in 1 .. n PROVE Waits(t[k], t[k + 1], np, qp, dp)
  <2>1. CASE k = n
    BY <1>3, <1>4, <1>5, <2>1 DEF t
  <2>2. CASE k \in 1 .. n - 1
    <3>1. k + 1 \in 1 .. n /\ k \in 1 .. Len(st) - 1
      BY <1>4, <2>2
    <3> QED BY <1>3, <1>5, <3>1 DEF GoodStack, t
  <2> QED BY <1>4, <2>1, <2>2
<1>9. GoodStack(t, np, qp, dp, v)
  <2>1. Len(t) = n + 1 /\ (n + 1) - 1 = n
    BY <1>4, <1>5 DEF t
  <2> QED BY <1>6, <1>7, <1>8, <2>1 DEF GoodStack
<1>10. stack'[Len(stack')] = g
  BY <1>5
<1> QED BY <1>2, <1>5, <1>9, <1>10 DEF IInv, Top, t

(* .. and when it returns, the caller goes on with what was promised it.      *)
LEMMA PartReturned ==
  ASSUME NEW x, NEW y, NEW z, NEW s, IsArray(x), IsArray(y), IsArray(z),
         NEW f, NEW g, Good(f, x, y, z, s), Good(g, x, y, z, s), Inside(g, f),
         NEW X, NEW at \in Nat, NEW q, NEW qlen, f.n <= at, at + f.dn <= f.n + f.qn + f.dn,
         Asked(f, g, X, at, q, qlen, x, z),
         NEW r, Turned(g, 0, r, x, y, z)
  PROVE  Crossing(f, X, at, q, qlen, r, x, y, z)
<1> DEFINE k == f.dn - qlen  top == Value(z, f.d + k, qlen)  Q == Value(y, q, qlen)
           low == Value(x, at, k)  high == Value(x, at + k, qlen)
<1>1. /\ X \in Nat /\ qlen \in 1 .. f.dn /\ k \in Nat /\ k + qlen = f.dn
      /\ f.n \in Nat /\ f.q \in Nat /\ f.d \in Nat /\ f.qn \in Nat /\ f.dn \in Nat
      /\ g.was \in Nat /\ g.q \in Nat /\ g.n \in Nat /\ g.d \in Nat
      /\ g.q = q /\ g.n = at + k /\ g.d = f.d + k /\ g.qn = qlen /\ g.dn = qlen
  BY DEF Asked, Part, Good, Frames
<1>2. Part(f, X, qlen, z) /\ X = g.was * P(k) + low /\ r \in {0, 1} /\ r \in Int
  BY DEF Asked, Turned
<1>3. Fits(z, g.d, qlen) /\ Fits(y, q, qlen) /\ Fits(x, at, f.dn)
  <2>1. Fits(z, g.d, g.dn) /\ Fits(y, g.q, g.qn) /\ Fits(x, f.n, f.qn + f.dn)
    BY DEF Good, Placed
  <2> QED BY <1>1, <2>1, FitsWithin
<1>4. Fits(x, at, k) /\ Fits(x, at + k, qlen)
  BY <1>1, <1>3, FitsSplit
<1>5. top \in Nat /\ Q \in Nat /\ low \in Nat /\ high \in Nat /\ P(k) \in Nat /\ P(qlen) \in Nat /\ P(0) = 1
  <2>1. Fits(z, f.d + k, qlen)
    BY <1>1, <1>3
  <2>2. top \in Nat /\ Q \in Nat
    BY <1>3, <2>1, ValueBounds DEF IsArray
  <2>3. low \in Nat /\ high \in Nat
    BY <1>4, ValueBounds DEF IsArray
  <2>4. P(k) \in Nat /\ P(qlen) \in Nat
    <3>1. k \in Nat /\ qlen \in Nat
      BY <1>1
    <3> HIDE DEF k
    <3> QED BY <3>1, Scale
  <2>5. P(0) = 1
    BY Scales
  <2> QED BY <2>2, <2>3, <2>4, <2>5
<1>6. Value(x, at, f.dn) = low + P(k) * high
  BY <1>1, <1>3, ValueSplit DEF IsArray
<1>7. g.was = (r * P(qlen) + P(0) * Q) * top + high /\ high < top
  <2>1. g.q + 0 = q /\ g.qn - 0 = qlen /\ 0 + g.dn = qlen /\ g.n + 0 = at + k
    BY <1>1
  <2> QED BY <1>1, <2>1 DEF Turned, Found, Divisor
<1> HIDE DEF top, Q, low, high
<1>8. X = ((r * P(qlen) + Q) * top) * P(k) + Value(x, at, f.dn)
  <2> DEFINE K == r * P(qlen) + Q
  <2>1. K \in Int /\ g.was = K * top + high
    BY <1>2, <1>5, <1>7
  <2> HIDE DEF K
  <2>2. K * top \in Int
    BY <1>5, <2>1
  <2>3. (K * top + high) * P(k) = (K * top) * P(k) + P(k) * high
    BY <1>5, <2>2
  <2>4. X = (K * top) * P(k) + (low + P(k) * high)
    BY <1>2, <1>5, <2>1, <2>2, <2>3
  <2> QED BY <1>6, <2>4 DEF K
<1> QED BY <1>2, <1>7, <1>8 DEF Crossing, k, top, Q, high

(* Of a chunk: its quotient goes below those of the chunks before it.  *)
LEMMA ChunkReturned ==
  ASSUME NEW x, NEW y, NEW z, NEW s, IsArray(x), IsArray(y), IsArray(z),
         NEW f, NEW g, Good(f, x, y, z, s), Good(g, x, y, z, s), Inside(g, f),
         Chunked(f, g), NEW r, Turned(g, 0, r, x, y, z)
  PROVE  /\ f.j + g.qn <= f.qn
         /\ r \in {0, 1}
         /\ g.was = (r * P(g.qn) + Value(y, f.q + f.j, g.qn)) * Divisor(f, z) + Value(x, f.n + f.j, f.dn)
         /\ Value(x, f.n + f.j, f.dn) < Divisor(f, z)
         /\ Value(x, f.n, f.j + f.dn) = Value(x, f.n, f.j) + P(f.j) * Value(x, f.n + f.j, f.dn)
         /\ P(f.j) \in Nat /\ P(g.qn) \in Nat /\ Divisor(f, z) \in Nat
         /\ Value(x, f.n, f.j) \in Nat /\ Value(x, f.n + f.j, f.dn) \in Nat
         /\ Value(y, f.q + f.j, g.qn) \in Nat
<1>1. /\ f.n \in Nat /\ f.q \in Nat /\ f.d \in Nat /\ f.qn \in Nat /\ f.dn \in Nat /\ f.j \in Nat
      /\ g.was \in Nat /\ g.q \in Nat /\ g.n \in Nat /\ g.d \in Nat /\ g.qn \in Nat
      /\ g.q = f.q + f.j /\ g.n = f.n + f.j /\ g.d = f.d /\ g.dn = f.dn
  BY DEF Chunked, Good, Frames
<1>2. f.j + g.qn <= f.qn
  BY <1>1 DEF Inside
<1>3. Fits(z, f.d, f.dn) /\ Fits(y, g.q, g.qn) /\ Fits(x, f.n, f.j + f.dn)
  <2>1. Fits(z, f.d, f.dn) /\ Fits(y, g.q, g.qn) /\ Fits(x, f.n, f.qn + f.dn)
    BY DEF Good, Placed
  <2> QED BY <1>1, <1>2, <2>1, FitsWithin
<1>4. Fits(x, f.n, f.j) /\ Fits(x, f.n + f.j, f.dn)
  BY <1>1, <1>3, FitsSplit
<1>5. /\ Divisor(f, z) \in Nat /\ Value(y, g.q, g.qn) \in Nat /\ Value(x, f.n, f.j) \in Nat
      /\ Value(x, f.n + f.j, f.dn) \in Nat /\ P(f.j) \in Nat /\ P(g.qn) \in Nat /\ P(0) = 1
  BY <1>1, <1>3, <1>4, ValueBounds, Scales DEF IsArray, Divisor
<1>6. Value(x, f.n, f.j + f.dn) = Value(x, f.n, f.j) + P(f.j) * Value(x, f.n + f.j, f.dn)
  BY <1>1, <1>3, ValueSplit DEF IsArray
<1>7. /\ r \in {0, 1} /\ Value(x, f.n + f.j, f.dn) < Divisor(f, z)
      /\ g.was = (r * P(g.qn) + P(0) * Value(y, f.q + f.j, g.qn)) * Divisor(f, z) + Value(x, f.n + f.j, f.dn)
  <2>1. g.q + 0 = g.q /\ g.qn - 0 = g.qn /\ 0 + g.dn = f.dn /\ g.n + 0 = g.n
    BY <1>1
  <2> QED BY <1>1, <2>1 DEF Turned, Found, Divisor
<1>8. P(0) * Value(y, f.q + f.j, g.qn) = Value(y, f.q + f.j, g.qn)
  BY <1>1, <1>5
<1> QED BY <1>1, <1>2, <1>5, <1>6, <1>7, <1>8

LEMMA FirstReturned ==
  ASSUME NEW x, NEW y, NEW z, NEW s, IsArray(x), IsArray(y), IsArray(z),
         NEW f, NEW g, Good(f, x, y, z, s), Good(g, x, y, z, s), Inside(g, f),
         Chunked(f, g), g.qn = f.qn - f.j, f.was = g.was * P(f.j) + Value(x, f.n, f.j),
         NEW r, Turned(g, 0, r, x, y, z)
  PROVE  Multiple(f.j, f.dn) /\ Turned(f, f.j, r, x, y, z)
<1> DEFINE D == Divisor(f, z)  Q == Value(y, f.q + f.j, g.qn)  low == Value(x, f.n, f.j)
           rest == Value(x, f.n + f.j, f.dn)  p == P(f.j)  c == P(g.qn)
<1>1. f.qn \in Nat /\ f.j \in Nat /\ g.qn \in Nat /\ f.j + g.qn = f.qn
  BY DEF Chunked, Good, Frames
<1>2. /\ r \in {0, 1} /\ g.was = (r * c + Q) * D + rest /\ rest < D
      /\ Value(x, f.n, f.j + f.dn) = low + p * rest
      /\ p \in Nat /\ c \in Nat /\ D \in Nat /\ low \in Nat /\ rest \in Nat /\ Q \in Nat
  BY ChunkReturned
<1>3. P(f.qn) = p * c
  <2>1. P(f.j + g.qn) = P(f.j) * P(g.qn)
    BY <1>1, Scales
  <2> QED BY <1>1, <2>1
<1>4. Found(f, f.j, r, y) = r * (p * c) + p * Q
  BY <1>3 DEF Found
<1> HIDE DEF D, Q, low, rest, p, c
<1>5. ((r * c + Q) * D + rest) * p + low = (r * (p * c) + p * Q) * D + (low + p * rest)
  <2>1. CASE r = 0
    <3>1. (Q * D + rest) * p = (p * Q) * D + p * rest
      BY <1>2
    <3>2. r * c = 0 /\ r * (p * c) = 0 /\ (p * Q) * D \in Nat /\ p * rest \in Nat
      BY <1>2, <2>1
    <3> QED BY <1>2, <3>1, <3>2
  <2>2. CASE r = 1
    <3>1. ((c + Q) * D + rest) * p = (p * c + p * Q) * D + p * rest
      BY <1>2
    <3>2. r * c = c /\ r * (p * c) = p * c /\ (p * c + p * Q) * D \in Nat /\ p * rest \in Nat
      BY <1>2, <2>2
    <3> QED BY <1>2, <3>1, <3>2
  <2> QED BY <1>2, <2>1, <2>2
<1>6. f.was = Found(f, f.j, r, y) * D + Value(x, f.n, f.j + f.dn)
  BY <1>2, <1>4, <1>5 DEF p, low
<1>7. Multiple(f.j, f.dn)
  BY DEF Chunked
<1> QED BY <1>1, <1>2, <1>6, <1>7 DEF Turned, D, rest

LEMMA NextReturned ==
  ASSUME NEW x, NEW y, NEW z, NEW s, IsArray(x), IsArray(y), IsArray(z),
         NEW f, NEW g, Good(f, x, y, z, s), Good(g, x, y, z, s), Inside(g, f),
         Chunked(f, g), g.qn = f.dn, f.j + f.dn <= f.qn, f.qh \in {0, 1},
         f.was = Found(f, f.j + f.dn, f.qh, y) * Divisor(f, z) + g.was * P(f.j) + Value(x, f.n, f.j),
         g.was < Divisor(f, z) * P(f.dn),
         NEW r, Turned(g, 0, r, x, y, z)
  PROVE  Multiple(f.j, f.dn) /\ Turned(f, f.j, f.qh, x, y, z)
<1> DEFINE D == Divisor(f, z)  Q == Value(y, f.q + f.j, g.qn)  low == Value(x, f.n, f.j)
           rest == Value(x, f.n + f.j, f.dn)  p == P(f.j)  c == P(g.qn)
           H == Value(y, f.q + (f.j + f.dn), f.qn - (f.j + f.dn))  top == f.qh * P(f.qn)
<1>1. /\ f.q \in Nat /\ f.qn \in Nat /\ f.j \in Nat /\ f.dn \in Nat /\ g.qn = f.dn
      /\ (f.q + f.j) + f.dn = f.q + (f.j + f.dn) /\ g.was \in Nat
  BY DEF Chunked, Good, Frames
<1>2. /\ r \in {0, 1} /\ g.was = (r * c + Q) * D + rest /\ rest < D
      /\ Value(x, f.n, f.j + f.dn) = low + p * rest
      /\ p \in Nat /\ c \in Nat /\ D \in Nat /\ low \in Nat /\ rest \in Nat /\ Q \in Nat
  BY ChunkReturned
<1>3. P(f.j + f.dn) = p * c /\ P(f.qn) \in Nat
  <2>1. P(f.j + f.dn) = P(f.j) * P(f.dn)
    BY <1>1, Scales
  <2> QED BY <1>1, <2>1, Scale
<1>4. Fits(y, f.q + f.j, f.qn - f.j) /\ Fits(y, f.q + (f.j + f.dn), f.qn - (f.j + f.dn))
  <2>1. Fits(y, f.q, f.qn)
    BY DEF Good, Placed
  <2> QED BY <1>1, <2>1, FitsWithin
<1>5. Value(y, f.q + f.j, f.qn - f.j) = Q + c * H
  <2>1. f.qn - f.j = f.dn + (f.qn - (f.j + f.dn)) /\ f.qn - (f.j + f.dn) \in Nat /\ f.q + f.j \in Nat
    BY <1>1
  <2> QED BY <1>1, <1>4, <2>1, ValueSplit DEF IsArray
<1>6. H \in Nat /\ top \in Nat
  BY <1>3, <1>4, ValueBounds DEF IsArray
<1>7. /\ Found(f, f.j, f.qh, y) = top + p * (Q + c * H)
      /\ Found(f, f.j + f.dn, f.qh, y) = top + (p * c) * H
  BY <1>3, <1>5 DEF Found
<1>8. f.was = (top + (p * c) * H) * D + g.was * p + low /\ g.was < D * c
  BY <1>1, <1>7
<1> HIDE DEF D, Q, low, rest, p, c, H, top
<1>9. r = 0
  <2> SUFFICES ASSUME r = 1 PROVE FALSE
    BY <1>2
  <2>1. r * c = c
    BY <1>2
  <2>2. g.was = (c + Q) * D + rest
    BY <1>2, <2>1
  <2>3. (c + Q) * D = D * c + Q * D /\ Q * D \in Nat /\ D * c \in Nat
    BY <1>2
  <2> QED BY <1>2, <1>8, <2>2, <2>3
<1>10. g.was = Q * D + rest
  <2>1. r * c = 0
    BY <1>2, <1>9
  <2> QED BY <1>2, <2>1
<1>11. f.was = (top + p * (Q + c * H)) * D + (low + p * rest)
  <2> DEFINE a == Q * D  b == H * D
  <2>1. a \in Nat /\ b \in Nat
    BY <1>2, <1>6
  <2>2. (top + (p * c) * H) * D = top * D + (p * c) * b
    BY <1>2, <1>6
  <2>3. (top + p * (Q + c * H)) * D = top * D + p * (Q * D) + (p * c) * (H * D)
    BY <1>2, <1>6
  <2> HIDE DEF a, b
  <2>4. (a + rest) * p = p * a + p * rest
    BY <1>2, <2>1
  <2>5. p * a \in Nat /\ p * rest \in Nat /\ top * D \in Nat /\ (p * c) * b \in Nat
    BY <1>2, <1>6, <2>1
  <2>6. f.was = top * D + (p * c) * b + (p * a + p * rest) + low
    BY <1>8, <1>10, <2>2, <2>4 DEF a
  <2>7. (top + p * (Q + c * H)) * D = top * D + p * a + (p * c) * b
    BY <2>3 DEF a, b
  <2> QED BY <1>2, <2>5, <2>6, <2>7
<1>12. f.was = Found(f, f.j, f.qh, y) * D + Value(x, f.n, f.j + f.dn)
  BY <1>2, <1>7, <1>11
<1>13. Multiple(f.j, f.dn) /\ f.j \in 0 .. f.qn
  BY <1>1 DEF Chunked
<1> QED BY <1>2, <1>12, <1>13 DEF Turned, D, rest

LEMMA Returned ==
  ASSUME NEW x, NEW y, NEW z, NEW s, IsArray(x), IsArray(y), IsArray(z),
         NEW f, NEW g, Good(f, x, y, z, s), Good(g, x, y, z, s), Inside(g, f),
         Waits(f, g, x, y, z), NEW r, Turned(g, 0, r, x, y, z)
  PROVE  Running(f, x, y, z, r)
<1>1. /\ f.n \in Nat /\ f.q \in Nat /\ f.d \in Nat /\ f.qn \in Nat /\ f.dn \in Nat
      /\ Low(f) \in Nat /\ High(f) \in Nat /\ Low(f) + High(f) = f.dn
      /\ f.dn >= 2 /\ (f.fn = "dcn" => f.qn = f.dn)
  BY FrameTypes, Halves DEF Good, Shape
<1>2. CASE f.fn = "dcn" /\ f.pc = "cross high" /\ \E X \in Nat : /\ HighPart(f, X, x)
                       /\ Asked(f, g, X, f.n + Low(f), f.q + Low(f), High(f), x, z)
  <2>1. PICK X \in Nat : /\ HighPart(f, X, x)
                         /\ Asked(f, g, X, f.n + Low(f), f.q + Low(f), High(f), x, z)
    BY <1>2
  <2>2. f.n + Low(f) \in Nat /\ f.n <= f.n + Low(f) /\ f.n + Low(f) + f.dn <= f.n + f.qn + f.dn
    <3>1. f.fn = "dcn"
      BY <1>2
    <3>2. Low(f) <= f.dn /\ f.qn = f.dn
      BY <1>1, <3>1
    <3> QED BY <1>1, <3>2
  <2>3. Crossing(f, X, f.n + Low(f), f.q + Low(f), High(f), r, x, y, z)
    BY <2>1, <2>2, PartReturned
  <2> QED BY <1>2, <2>1, <2>3 DEF Running
<1>3. CASE f.fn = "dcn" /\ f.pc = "cross low"
           /\ \E X \in Nat : LowPart(f, X, y, z) /\ Asked(f, g, X, f.n, f.q, Low(f), x, z)
  <2>1. PICK X \in Nat : LowPart(f, X, y, z) /\ Asked(f, g, X, f.n, f.q, Low(f), x, z)
    BY <1>3
  <2>2. f.n <= f.n /\ f.n + f.dn <= f.n + f.qn + f.dn
    BY <1>1
  <2>3. Crossing(f, X, f.n, f.q, Low(f), r, x, y, z)
    BY <1>1, <2>1, <2>2, PartReturned
  <2> QED BY <1>3, <2>1, <2>3 DEF Running
<1>4. CASE f.fn = "chunk" /\ f.pc = "cross" /\ Asked(f, g, f.was, f.n, f.q, f.qn, x, z)
  <2>1. f.n <= f.n /\ f.n + f.dn <= f.n + f.qn + f.dn
    BY <1>1
  <2>2. Crossing(f, f.was, f.n, f.q, f.qn, r, x, y, z)
    BY <1>1, <1>4, <2>1, PartReturned
  <2> QED BY <1>4, <2>2 DEF Running
<1>5. CASE /\ f.fn = "chunk" /\ f.pc = "pass"
           /\ g.q = f.q /\ g.n = f.n /\ g.d = f.d /\ g.qn = f.qn /\ g.dn = f.dn /\ g.was = f.was
  <2>1. Turned(f, 0, r, x, y, z)
    BY <1>5 DEF Turned, Found, Divisor
  <2> QED BY <1>5, <2>1 DEF Running
<1>6. CASE /\ f.fn = "chunks" /\ f.pc = "first"
           /\ Chunked(f, g) /\ g.qn = f.qn - f.j
           /\ f.was = g.was * P(f.j) + Value(x, f.n, f.j)
  <2>1. Multiple(f.j, f.dn) /\ Turned(f, f.j, r, x, y, z)
    BY <1>6, FirstReturned
  <2> QED BY <1>6, <2>1 DEF Running
<1>7. CASE /\ f.fn = "chunks" /\ f.pc = "next"
           /\ Chunked(f, g) /\ g.qn = f.dn /\ f.j + f.dn <= f.qn /\ f.qh \in {0, 1}
           /\ f.was = Found(f, f.j + f.dn, f.qh, y) * Divisor(f, z) + g.was * P(f.j) + Value(x, f.n, f.j)
           /\ g.was < Divisor(f, z) * P(f.dn)
  <2>1. Multiple(f.j, f.dn) /\ Turned(f, f.j, f.qh, x, y, z)
    BY <1>7, NextReturned
  <2> QED BY <1>7, <2>1 DEF Running
<1> QED BY <1>2, <1>3, <1>4, <1>5, <1>6, <1>7 DEF Waits

(* What the innermost call has promised, at the end. *)
LEMMA RunningDone ==
  ASSUME NEW f, NEW x, NEW y, NEW z, NEW r, Running(f, x, y, z, r), f.pc = "done"
  PROVE  r = f.qh /\ Turned(f, 0, f.qh, x, y, z)
BY DEF Running

LEMMA LeaveStep ==
  ASSUME IInv, Leave
  PROVE  IInv'
<1> DEFINE n == Len(stack)  t == stack'
<1>1. /\ IsArray(np) /\ IsArray(qp) /\ IsArray(dp) /\ ret \in Int /\ stack # << >>
      /\ stack \in Seq(Frames) /\ GoodStack(stack, np, qp, dp, v)
      /\ Running(Top, np, qp, dp, ret) /\ Top.pc = "done"
      /\ np' = np /\ qp' = qp /\ dp' = dp /\ v' = v /\ ret' = ret /\ t = Below
  BY DEF IInv, Leave
<1>2. /\ n \in Nat \ {0} /\ t \in Seq(Frames) /\ Len(t) = n - 1
      /\ \A k \in 1 .. n - 1 : t[k] = stack[k]
  BY <1>1, StackFacts DEF Below
<1>3. Top = stack[n]
  BY DEF Top
<1> HIDE DEF n, t
<1>4. GoodStack(t, np, qp, dp, v)
  <2>1. ASSUME NEW k \in 1 .. n - 1 PROVE Good(t[k], np, qp, dp, v)
    BY <1>1, <1>2 DEF GoodStack, n
  <2>2. ASSUME NEW k \in 1 .. n - 1, NEW m \in 1 .. n - 1, k < m PROVE Inside(t[m], t[k])
    BY <1>1, <1>2, <2>2 DEF GoodStack, n
  <2>3. ASSUME NEW k \in 1 .. (n - 1) - 1 PROVE Waits(t[k], t[k + 1], np, qp, dp)
    <3>1. k \in 1 .. n - 1 /\ k + 1 \in 1 .. n - 1
      BY <1>2
    <3>2. Waits(stack[k], stack[k + 1], np, qp, dp)
      BY <1>1, <3>1 DEF GoodStack, n
    <3> QED BY <1>2, <3>1, <3>2
  <2> QED BY <1>2, <2>1, <2>2, <2>3 DEF GoodStack
<1>5. ASSUME t # << >> PROVE Running(t[Len(t)], np, qp, dp, ret)
  <2> DEFINE m == n - 1
  <2>1. m \in 1 .. n - 1 /\ m \in 1 .. n /\ n \in 1 .. n /\ m < n /\ m + 1 = n
    <3>1. Len(t) > 0
      BY <1>2, <1>5, EmptySeq
    <3> QED BY <1>2, <3>1
  <2> HIDE DEF m
  <2>2. /\ Good(stack[m], np, qp, dp, v) /\ Good(stack[n], np, qp, dp, v)
        /\ Inside(stack[n], stack[m])
    BY <1>1, <2>1 DEF GoodStack, n
  <2>3. Waits(stack[m], stack[n], np, qp, dp)
    <3>1. Waits(stack[m], stack[m + 1], np, qp, dp)
      BY <1>1, <2>1 DEF GoodStack, n
    <3> QED BY <2>1, <3>1
  <2>4. ret = stack[n].qh /\ Turned(stack[n], 0, ret, np, qp, dp)
    BY <1>1, <1>3, RunningDone
  <2>5. Running(stack[m], np, qp, dp, ret)
    BY <1>1, <2>2, <2>3, <2>4, Returned
  <2> QED BY <1>2, <2>1, <2>5 DEF m
<1> QED BY <1>1, <1>2, <1>4, <1>5 DEF IInv, Top, t

LEMMA TopFacts ==
  ASSUME IInv, stack # << >>
  PROVE  /\ IsArray(np) /\ IsArray(qp) /\ IsArray(dp) /\ ret \in Int
         /\ Top \in Frames /\ Good(Top, np, qp, dp, v) /\ Running(Top, np, qp, dp, ret)
<1>1. Len(stack) \in Nat \ {0} /\ stack[Len(stack)] \in Frames
  BY StackFacts DEF IInv
<1>2. Good(stack[Len(stack)], np, qp, dp, v)
  BY <1>1 DEF IInv, GoodStack
<1> QED BY <1>1, <1>2 DEF IInv, Top

(* Sizes, offsets and windows of a call. *)
LEMMA CallFacts ==
  ASSUME NEW x, NEW y, NEW z, NEW s, NEW f, Good(f, x, y, z, s), IsArray(z)
  PROVE  /\ f.n \in Nat /\ f.q \in Nat /\ f.d \in Nat /\ f.qn \in Nat /\ f.dn \in Nat
         /\ f.was \in Nat /\ f.j \in Int /\ f.cy \in Int /\ f.qh \in Int /\ f.adds \in Nat
         /\ f.qn >= 1 /\ f.dn >= 2
         /\ (f.fn = "dcn" => f.qn = f.dn /\ f.dn >= 4)
         /\ (f.fn = "chunk" => f.qn <= f.dn /\ f.dn >= 4) /\ (f.fn = "chunks" => f.dn >= 4)
         /\ Low(f) \in Nat /\ High(f) \in Nat /\ Low(f) + High(f) = f.dn /\ Low(f) <= High(f)
         /\ High(f) <= Low(f) + 1 /\ Low(f) >= 1
         /\ Fits(x, f.n, f.qn + f.dn) /\ Fits(y, f.q, f.qn) /\ Fits(z, f.d, f.dn)
         /\ Divisor(f, z) \in Nat /\ Divisor(f, z) < P(f.dn)
<1>1. f \in Frames /\ Shape(f) /\ Fits(x, f.n, f.qn + f.dn) /\ Fits(y, f.q, f.qn) /\ Fits(z, f.d, f.dn)
  BY DEF Good, Placed
<1>2. Divisor(f, z) \in 0 .. P(f.dn) - 1 /\ f.dn \in Nat
  BY <1>1, ValueBounds DEF IsArray, Divisor, Frames
<1>3. P(f.dn) \in Nat
  BY <1>2, Scales
<1>4. /\ f.n \in Nat /\ f.q \in Nat /\ f.d \in Nat /\ f.qn \in Nat /\ f.dn \in Nat
      /\ f.was \in Nat /\ f.j \in Int /\ f.cy \in Int /\ f.qh \in Int /\ f.adds \in Nat
  BY <1>1 DEF Frames
<1>5. /\ f.qn >= 1 /\ f.dn >= 2
      /\ (f.fn = "dcn" => f.qn = f.dn /\ f.dn >= 4)
      /\ (f.fn = "chunk" => f.qn <= f.dn /\ f.dn >= 4) /\ (f.fn = "chunks" => f.dn >= 4)
  BY <1>1 DEF Shape
<1>6. /\ Low(f) \in Nat /\ High(f) \in Nat /\ Low(f) + High(f) = f.dn /\ Low(f) <= High(f)
      /\ High(f) <= Low(f) + 1 /\ Low(f) >= 1
  BY <1>1, <1>5, Halves
<1> QED BY <1>1, <1>2, <1>3, <1>4, <1>5, <1>6

LEMMA ReturnStep ==
  ASSUME IInv, stack # << >>, NEW qh \in Int, Turned(Top, 0, qh, np, qp, dp), Return(qh),
         UNCHANGED <<np, qp, dp, v>>
  PROVE  IInv'
<1> DEFINE f == [Top EXCEPT !.pc = "done", !.qh = qh]
<1>1. Top \in Frames /\ Good(Top, np, qp, dp, v)
  BY TopFacts
<1>2. f \in Frames /\ Alike(f, Top) /\ f.pc = "done" /\ f.qh = qh /\ f.adds = Top.adds
  BY <1>1 DEF Frames, Labels, Alike
<1>3. stack' = Append(Below, f) /\ ret' = qh
  BY DEF Return
<1> HIDE DEF f
<1>4. Turned(f, 0, qh, np, qp, dp)
  BY <1>2 DEF Turned, Found, Divisor, Alike
<1>5. Running(f, np, qp, dp, ret')
  BY <1>2, <1>3, <1>4 DEF Running
<1>6. Bounded(f)
  BY <1>1, <1>2 DEF Good, Bounded, Alike
<1>7. Outside(np, np, Top.n, Top.qn + Top.dn) /\ Outside(qp, qp, Top.q, Top.qn)
  BY NothingOutside
<1>8. IsArray(np) /\ IsArray(qp)
  BY DEF IInv
<1> QED BY <1>2, <1>3, <1>5, <1>6, <1>7, <1>8, UpdateStep DEF Becomes

(* A quotient part that needs no correction any more. *)
LEMMA FixedUp ==
  ASSUME NEW x, NEW y, NEW z, NEW s, NEW f, Good(f, x, y, z, s), IsArray(x), IsArray(y), IsArray(z),
         NEW X, NEW at, NEW q, NEW qlen, NEW e, Fixing(f, X, at, q, qlen, e, x, y, z), f.cy = 0,
         Fits(x, at, f.dn), Fits(y, q, qlen)
  PROVE  /\ e \in {0, 1} /\ X = (e * P(qlen) + Value(y, q, qlen)) * Divisor(f, z) + Value(x, at, f.dn)
         /\ Value(x, at, f.dn) < Divisor(f, z)
         /\ X < Divisor(f, z) * P(qlen) => e = 0
<1> DEFINE D == Divisor(f, z)  p == P(qlen)  Q == Value(y, q, qlen)  rest == Value(x, at, f.dn)
           K == e * p + Q
<1>1. /\ D \in Nat /\ f.dn \in Nat /\ rest \in Nat /\ Q \in 0 .. p - 1 /\ qlen \in Nat
  BY CallFacts, ValueBounds DEF IsArray, Fits
<1>2. p \in Nat \ {0} /\ P(f.dn) \in Nat
  BY <1>1, Scale
<1>3. /\ X \in Nat /\ X < (D + 1) * p /\ e \in Int
      /\ X = K * D + (rest - f.cy * P(f.dn))
      /\ rest - f.cy * P(f.dn) < D
  BY DEF Fixing, Part
<1>4. f.cy * P(f.dn) = 0
  BY <1>2
<1> HIDE DEF D, p, Q, rest
<1>5. K \in Int /\ K * D \in Int
  BY <1>1, <1>2, <1>3
<1> HIDE DEF K
<1>6. X = K * D + rest /\ rest < D /\ D \in Nat \ {0}
  BY <1>1, <1>2, <1>3, <1>4, <1>5
<1>7. K >= 0
  <2> SUFFICES ASSUME K <= -1 PROVE FALSE
    BY <1>5
  <2>1. K * D <= (-1) * D
    BY <1>5, <1>6, MulLe
  <2> QED BY <1>1, <1>3, <1>5, <1>6, <2>1
<1>8. e >= 0
  <2> SUFFICES ASSUME e <= -1 PROVE FALSE
    BY <1>3
  <2>1. e * p <= (-1) * p
    BY <1>2, <1>3, MulLe
  <2>2. e * p \in Int
    BY <1>2, <1>3
  <2> QED BY <1>1, <1>2, <1>7, <2>1, <2>2 DEF K
<1>9. e <= 1
  <2> SUFFICES ASSUME 2 <= e PROVE FALSE
    BY <1>3
  <2>1. 2 * p <= e * p /\ e * p \in Int
    BY <1>2, <1>3, MulLe
  <2>2. 2 * p <= K
    BY <1>1, <1>2, <2>1 DEF K
  <2>3. (2 * p) * D <= K * D
    BY <1>2, <1>5, <1>6, <2>2, MulLe
  <2>4. (D + 1) * p <= (2 * D) * p /\ (2 * D) * p = (2 * p) * D /\ (D + 1) * p \in Int
    <3>1. D + 1 <= 2 * D
      BY <1>6
    <3>2. (D + 1) * p <= (2 * D) * p
      BY <1>2, <1>6, <3>1, MulLe
    <3> QED BY <1>2, <1>6, <3>2
  <2> QED BY <1>1, <1>2, <1>3, <1>5, <1>6, <2>3, <2>4
<1>10. ASSUME X < D * p PROVE e = 0
  <2> SUFFICES ASSUME e = 1 PROVE FALSE
    BY <1>3, <1>8, <1>9
  <2>1. p <= K
    BY <1>1, <1>2 DEF K
  <2>2. p * D <= K * D
    BY <1>2, <1>5, <1>6, <2>1, MulLe
  <2> QED BY <1>1, <1>2, <1>3, <1>5, <1>6, <1>10, <2>2
<1>11. e \in {0, 1}
  BY <1>3, <1>8, <1>9
<1> QED BY <1>6, <1>10, <1>11 DEF D, p, Q, rest, K

-----------------------------------------------------------------------------
(* The steps.  First: what holds of the innermost call where it stands.       *)
LEMMA RunningAt ==
  ASSUME NEW f, NEW x, NEW y, NEW z, NEW r, Running(f, x, y, z, r)
  PROVE  /\ f.pc = "start" => f.qh = 0 /\ f.j = f.qn /\ f.was = Value(x, f.n, f.qn + f.dn)
         /\ f.pc = "turn" => Turned(f, f.j, f.qh, x, y, z)
         /\ f.pc \in {"rare", "usual"} => Corrected(f, x, y, z)
         /\ f.pc = "cross high" =>
              \E X \in Nat : /\ HighPart(f, X, x)
                             /\ Crossing(f, X, f.n + Low(f), f.q + Low(f), High(f), r, x, y, z)
         /\ f.pc = "fix high" =>
              \E X \in Nat : /\ HighPart(f, X, x)
                             /\ Fixing(f, X, f.n + Low(f), f.q + Low(f), High(f), f.qh, x, y, z)
         /\ f.pc = "cross low" =>
              \E X \in Nat : LowPart(f, X, y, z) /\ Crossing(f, X, f.n, f.q, Low(f), r, x, y, z)
         /\ f.pc = "fix low" =>
              \E X \in Nat, e \in Int : LowPart(f, X, y, z) /\ Fixing(f, X, f.n, f.q, Low(f), e, x, y, z)
         /\ f.pc = "cross" => Crossing(f, f.was, f.n, f.q, f.qn, r, x, y, z)
         /\ f.pc = "fix" => Fixing(f, f.was, f.n, f.q, f.qn, f.qh, x, y, z)
         /\ f.pc = "pass" => Turned(f, 0, r, x, y, z)
         /\ f.pc = "first" => Multiple(f.j, f.dn) /\ Turned(f, f.j, r, x, y, z)
         /\ (f.pc = "next") => Multiple(f.j, f.dn) /\ Turned(f, f.j, f.qh, x, y, z)
BY DEF Running

LEMMA SbReturnStep == ASSUME IInv, SbReturn PROVE IInv'
<1>1. /\ stack # << >> /\ Top.pc = "turn" /\ Top.j = 0 /\ Return(Top.qh)
      /\ UNCHANGED <<np, qp, dp, v>>
  BY DEF SbReturn, At
<1>2. Running(Top, np, qp, dp, ret)
  BY <1>1, TopFacts
<1>3. Turned(Top, 0, Top.qh, np, qp, dp)
  <2>1. Turned(Top, Top.j, Top.qh, np, qp, dp)
    BY <1>1, <1>2, RunningAt
  <2> QED BY <1>1, <2>1
<1>4. Top.qh \in Int
  BY <1>1, TopFacts, FrameTypes
<1> QED BY <1>1, <1>3, <1>4, ReturnStep

LEMMA ChunkPassStep == ASSUME IInv, ChunkPass PROVE IInv'
<1>1. /\ stack # << >> /\ Top.pc = "pass" /\ Return(ret)
      /\ UNCHANGED <<np, qp, dp, v>>
  BY DEF ChunkPass, At
<1>2. Running(Top, np, qp, dp, ret) /\ ret \in Int
  BY <1>1, TopFacts
<1>3. Turned(Top, 0, ret, np, qp, dp)
  BY <1>1, <1>2, RunningAt
<1> QED BY <1>1, <1>2, <1>3, ReturnStep

LEMMA ChunksReturnStep == ASSUME IInv, ChunksReturn PROVE IInv'
<1>1. /\ stack # << >> /\ Top.pc = "next" /\ Top.j = 0 /\ Return(Top.qh)
      /\ UNCHANGED <<np, qp, dp, v>>
  BY DEF ChunksReturn, At
<1>2. Running(Top, np, qp, dp, ret)
  BY <1>1, TopFacts
<1>3. Turned(Top, 0, Top.qh, np, qp, dp)
  <2>1. Turned(Top, Top.j, Top.qh, np, qp, dp)
    BY <1>1, <1>2, RunningAt
  <2> QED BY <1>1, <2>1
<1>4. Top.qh \in Int
  BY <1>1, TopFacts, FrameTypes
<1> QED BY <1>1, <1>3, <1>4, ReturnStep

LEMMA ChunkReturnStep == ASSUME IInv, ChunkReturn PROVE IInv'
<1> DEFINE f == Top
<1>1. /\ stack # << >> /\ f.pc = "fix" /\ f.fn = "chunk" /\ f.cy = 0 /\ Return(f.qh)
      /\ UNCHANGED <<np, qp, dp, v>>
  BY DEF ChunkReturn, At
<1>2. Running(f, np, qp, dp, ret) /\ Good(f, np, qp, dp, v) /\ IsArray(np) /\ IsArray(qp) /\ IsArray(dp)
  BY <1>1, TopFacts
<1> HIDE DEF f
<1>3. Fixing(f, f.was, f.n, f.q, f.qn, f.qh, np, qp, dp)
  BY <1>1, <1>2, RunningAt
<1>4. /\ f.n \in Nat /\ f.dn \in Nat /\ f.qn \in Nat /\ f.q \in Nat /\ Fits(np, f.n, f.qn + f.dn)
      /\ Fits(qp, f.q, f.qn)
  BY <1>2, CallFacts
<1>5. Fits(np, f.n, f.dn)
  BY <1>4, FitsWithin
<1>6. /\ f.qh \in {0, 1} /\ Value(np, f.n, f.dn) < Divisor(f, dp)
      /\ f.was = (f.qh * P(f.qn) + Value(qp, f.q, f.qn)) * Divisor(f, dp) + Value(np, f.n, f.dn)
  BY <1>1, <1>2, <1>3, <1>4, <1>5, FixedUp
<1>7. Found(f, 0, f.qh, qp) = f.qh * P(f.qn) + Value(qp, f.q, f.qn)
  <2>1. Value(qp, f.q, f.qn) \in Nat
    BY <1>2, <1>4, ValueBounds DEF IsArray
  <2>2. f.q + 0 = f.q /\ f.qn - 0 = f.qn /\ P(0) * Value(qp, f.q, f.qn) = Value(qp, f.q, f.qn)
    <3>1. P(0) = 1
      BY Scales
    <3> QED BY <1>4, <2>1, <3>1
  <2> QED BY <2>2 DEF Found
<1>8. Turned(f, 0, f.qh, np, qp, dp)
  <2>1. 0 + f.dn = f.dn /\ f.n + 0 = f.n /\ 0 \in 0 .. f.qn
    BY <1>4
  <2> QED BY <1>6, <1>7, <2>1 DEF Turned
<1>9. f.qh \in Int
  BY <1>6
<1> QED BY <1>1, <1>8, <1>9, ReturnStep DEF f

LEMMA DcReturnStep == ASSUME IInv, DcReturn PROVE IInv'
<1> DEFINE f == Top  D == Divisor(f, dp)  l == P(Low(f))  h == P(High(f))
           Ql == Value(qp, f.q, Low(f))  Qh == Value(qp, f.q + Low(f), High(f))
           rest == Value(np, f.n, f.dn)
<1>1. /\ stack # << >> /\ f.pc = "fix low" /\ f.fn = "dcn" /\ f.cy = 0 /\ Return(f.qh)
      /\ UNCHANGED <<np, qp, dp, v>>
  BY DEF DcReturn, At
<1>2. Running(f, np, qp, dp, ret) /\ Good(f, np, qp, dp, v) /\ IsArray(np) /\ IsArray(qp) /\ IsArray(dp)
  BY <1>1, TopFacts
<1> HIDE DEF f
<1>3. PICK X \in Nat, e \in Int :
        LowPart(f, X, qp, dp) /\ Fixing(f, X, f.n, f.q, Low(f), e, np, qp, dp)
  BY <1>1, <1>2, RunningAt
<1>4. /\ f.n \in Nat /\ f.dn \in Nat /\ f.qn \in Nat /\ f.q \in Nat /\ f.qn = f.dn
      /\ Low(f) \in Nat /\ High(f) \in Nat /\ Low(f) + High(f) = f.dn
      /\ Fits(np, f.n, f.qn + f.dn) /\ Fits(qp, f.q, f.qn) /\ D \in Nat
  BY <1>1, <1>2, CallFacts
<1>5. Fits(np, f.n, f.dn) /\ Fits(qp, f.q, Low(f)) /\ Fits(qp, f.q + Low(f), High(f))
  <2>1. Fits(np, f.n, f.dn)
    <3>1. f.n <= f.n /\ f.n + f.dn <= f.n + (f.qn + f.dn)
      BY <1>4
    <3> QED BY <1>4, <3>1, FitsWithin
  <2>2. Fits(qp, f.q, Low(f) + High(f))
    BY <1>4
  <2> QED BY <1>4, <2>1, <2>2, FitsSplit
<1>6. /\ f.qh \in {0, 1} /\ X < D * l
      /\ f.was = (f.qh * h + Qh) * l * D + X
  BY <1>3 DEF LowPart
<1>7. rest < D /\ X = (0 * l + Ql) * D + rest
  <2>1. /\ e \in {0, 1} /\ X = (e * l + Ql) * D + rest /\ rest < D
        /\ (X < D * l => e = 0)
    <3>1. Fixing(f, X, f.n, f.q, Low(f), e, np, qp, dp) /\ f.cy = 0
      BY <1>1, <1>3
    <3>2. Fits(np, f.n, f.dn) /\ Fits(qp, f.q, Low(f))
      BY <1>5
    <3>3. /\ Good(f, np, qp, dp, v) /\ IsArray(np) /\ IsArray(qp) /\ IsArray(dp)
      BY <1>2
    <3> QED BY <3>1, <3>2, <3>3, FixedUp
  <2>2. e = 0
    BY <1>6, <2>1
  <2> QED BY <2>1, <2>2
<1>8. Ql \in Nat /\ Qh \in Nat /\ rest \in Nat /\ l \in Nat /\ h \in Nat /\ P(0) = 1
  BY <1>2, <1>4, <1>5, ValueBounds, Scales DEF IsArray
<1>9. P(f.qn) = l * h
  BY <1>4, Scales
<1>10. Value(qp, f.q, f.qn) = Ql + l * Qh
  <2>1. Fits(qp, f.q, Low(f) + High(f)) /\ f.qn = Low(f) + High(f)
    BY <1>4
  <2> QED BY <1>2, <1>4, <2>1, ValueSplit DEF IsArray
<1>11. Found(f, 0, f.qh, qp) = f.qh * (l * h) + (Ql + l * Qh)
  <2>1. f.q + 0 = f.q /\ f.qn - 0 = f.qn /\ P(0) * (Ql + l * Qh) = Ql + l * Qh
    BY <1>4, <1>8
  <2> QED BY <1>9, <1>10, <2>1 DEF Found
<1> HIDE DEF D, l, h, Ql, Qh, rest
<1>12. f.was = (f.qh * (l * h) + (Ql + l * Qh)) * D + rest
  <2>1. X = Ql * D + rest
    BY <1>4, <1>7, <1>8
  <2>2. ASSUME NEW a \in Nat PROVE (a * h + Qh) * l * D + Ql * D = (a * (l * h) + (Ql + l * Qh)) * D
    <3>1. (a * h + Qh) * l = a * (l * h) + l * Qh
      BY <1>8
    <3> DEFINE m == (a * h + Qh) * l
    <3>2. m \in Nat
      BY <1>8
    <3>3. a * (l * h) \in Nat /\ l * Qh \in Nat
      BY <1>8
    <3>4. a * (l * h) + (Ql + l * Qh) = m + Ql
      BY <1>8, <3>1, <3>3
    <3> HIDE DEF m
    <3>5. m * D + Ql * D = (m + Ql) * D
      BY <1>4, <1>8, <3>2
    <3> QED BY <3>4, <3>5 DEF m
  <2>3. (f.qh * h + Qh) * l * D \in Nat /\ Ql * D \in Nat /\ f.qh \in Nat
    BY <1>4, <1>6, <1>8
  <2>4. (f.qh * h + Qh) * l * D + Ql * D = (f.qh * (l * h) + (Ql + l * Qh)) * D
    BY <2>2, <2>3
  <2> QED BY <1>6, <1>8, <2>1, <2>3, <2>4
<1>13. Turned(f, 0, f.qh, np, qp, dp)
  <2>1. 0 + f.dn = f.dn /\ f.n + 0 = f.n /\ 0 \in 0 .. f.qn
    BY <1>4
  <2> QED BY <1>6, <1>7, <1>11, <1>12, <2>1 DEF Turned, D, rest
<1>14. f.qh \in Int
  BY <1>6
<1> QED BY <1>1, <1>13, <1>14, ReturnStep DEF f

(* A call of a window is a good one if its dividend is not beyond its range.  *)
Enterable(fn, q, n, d, qn, dn) ==
  /\ IsArray(np) /\ IsArray(qp) /\ IsArray(dp)
  /\ fn \in {"core", "sb", "dcn", "chunk", "chunks"} /\ q \in Nat /\ n \in Nat /\ d \in Nat
  /\ qn \in Nat /\ dn \in Nat /\ qn >= 1 /\ dn >= 2
  /\ fn = "dcn" => qn = dn /\ dn >= 4
  /\ fn = "chunk" => qn <= dn /\ dn >= 4
  /\ fn = "chunks" => dn >= 4
  /\ Fits(np, n, qn + dn) /\ Fits(qp, q, qn) /\ Fits(dp, d, dn)
  /\ 2 * dp[d + dn - 1] >= Beta /\ v = Exact(dp[d + dn - 1], dp[d + dn - 2])
  /\ Value(np, n, qn + dn) < (Value(dp, d, dn) + 1) * P(qn)
  /\ fn \in {"core", "chunks"} => Value(np, n, qn + dn) < Value(dp, d, dn) * P(qn)

LEMMA Entering ==
  ASSUME NEW fn, NEW q, NEW n, NEW d, NEW qn, NEW dn, Enterable(fn, q, n, d, qn, dn)
  PROVE  LET g == Entered(Frame(fn, q, n, d, qn, dn))
         IN  /\ Good(g, np, qp, dp, v) /\ Running(g, np, qp, dp, ret)
             /\ g.fn = fn /\ g.q = q /\ g.n = n /\ g.d = d /\ g.qn = qn /\ g.dn = dn
             /\ g.was = Value(np, n, qn + dn)
<1> USE DEF Enterable
<1> DEFINE g == Entered(Frame(fn, q, n, d, qn, dn))
<1>1. Value(np, n, qn + dn) \in Nat
  BY ValueBounds DEF IsArray
<1>2. /\ g.fn = fn /\ g.q = q /\ g.n = n /\ g.d = d /\ g.qn = qn /\ g.dn = dn
      /\ g.was = Value(np, n, qn + dn) /\ g.pc = "start" /\ g.qh = 0 /\ g.adds = 0 /\ g.j = qn
  BY DEF Entered, Frame
<1>3. g \in Frames
  <2> DEFINE w == Value(np, n, qn + dn)
             h == [fn |-> fn, pc |-> "start", q |-> q, n |-> n, d |-> d, qn |-> qn, dn |-> dn, qh |-> 0,
                   j |-> qn, qhat |-> 0, top |-> 0, cy |-> 0, adds |-> 0, was |-> w]
  <2>1. g = h
    BY DEF Entered, Frame, None
  <2>2. w \in Nat
    BY <1>1
  <2> HIDE DEF w, g
  <2>3. fn \in {"core", "sb", "dcn", "chunk", "chunks"} /\ "start" \in Labels
    BY DEF Labels
  <2>4. h \in Frames
    BY <2>2, <2>3 DEF Frames
  <2> HIDE DEF h
  <2> QED BY <2>1, <2>4
<1> HIDE DEF g
<1>4. Shape(g) /\ Bounded(g)
  BY <1>2 DEF Shape, Bounded
<1>5. Placed(g, np, qp, dp, v) /\ Fair(g, dp)
  BY <1>2 DEF Placed, Fair, Divisor
<1>6. Good(g, np, qp, dp, v)
  BY <1>3, <1>4, <1>5 DEF Good
<1>7. Running(g, np, qp, dp, ret)
  BY <1>2 DEF Running
<1> QED BY <1>2, <1>6, <1>7 DEF g

(* The top of a division that is not beyond its range is not, either. *)
LEMMA TopSmall ==
  ASSUME NEW X \in Nat, NEW a \in Nat, NEW b \in Nat, NEW p \in Nat \ {0}, NEW c \in Nat \ {0},
         X = a * p + b, NEW D \in Nat, NEW t \in Nat, NEW u \in Nat, D = u + p * t, u < p,
         X < (D + 1) * c
  PROVE  a < (t + 1) * c
<1>1. D + 1 <= (t + 1) * p /\ (t + 1) * p \in Nat
  OBVIOUS
<1>2. (D + 1) * c <= ((t + 1) * p) * c
  BY <1>1, MulLe
<1>3. ((t + 1) * p) * c = ((t + 1) * c) * p /\ (t + 1) * c \in Nat /\ ((t + 1) * c) * p \in Nat
  OBVIOUS
<1>4. (D + 1) * c \in Nat /\ a * p \in Nat
  OBVIOUS
<1>5. a * p < ((t + 1) * c) * p
  BY <1>2, <1>3, <1>4
<1> QED BY <1>3, <1>5, CancelLt

Askable(f, fn, at, q, qlen, k) ==
  /\ IsArray(np) /\ IsArray(qp) /\ IsArray(dp) /\ Good(f, np, qp, dp, v)
  /\ fn \in {"sb", "dcn"} /\ at \in Nat /\ q \in Nat /\ qlen \in Nat /\ k = f.dn - qlen
  /\ qlen >= 2 /\ qlen <= f.dn
  /\ fn = "dcn" => qlen >= 4
  /\ Fits(np, at, qlen + f.dn) /\ Fits(qp, q, qlen)
  /\ Value(np, at, qlen + f.dn) < (Divisor(f, dp) + 1) * P(qlen)

LEMMA Asking ==
  ASSUME NEW f, NEW fn, NEW at, NEW q, NEW qlen, NEW k, Askable(f, fn, at, q, qlen, k)
  PROVE  LET g == Entered(Frame(fn, q, at + k, f.d + k, qlen, qlen))
         IN  /\ Good(g, np, qp, dp, v) /\ Running(g, np, qp, dp, ret)
             /\ g.fn = fn /\ g.q = q /\ g.n = at + k /\ g.d = f.d + k /\ g.qn = qlen /\ g.dn = qlen
             /\ g.was = Value(np, at + k, qlen + qlen)
             /\ Value(np, at, qlen + f.dn) \in Nat
             /\ Asked(f, g, Value(np, at, qlen + f.dn), at, q, qlen, np, dp)
<1> USE DEF Askable
<1> DEFINE g == Entered(Frame(fn, q, at + k, f.d + k, qlen, qlen))
           X == Value(np, at, qlen + f.dn)  a == Value(np, at + k, qlen + qlen)  b == Value(np, at, k)
           D == Divisor(f, dp)  t == Value(dp, f.d + k, qlen)  u == Value(dp, f.d, k)
<1>1. /\ f.d \in Nat /\ f.dn \in Nat /\ D \in Nat /\ Fits(dp, f.d, f.dn)
      /\ k \in Nat /\ k + qlen = f.dn /\ k + (qlen + qlen) = qlen + f.dn
      /\ at + k \in Nat /\ f.d + k \in Nat /\ qlen + qlen \in Nat
  BY CallFacts
<1>2. /\ Fits(np, at, k) /\ Fits(np, at + k, qlen + qlen)
      /\ Fits(dp, f.d, k) /\ Fits(dp, f.d + k, qlen)
  <2>1. Fits(np, at, k + (qlen + qlen)) /\ Fits(dp, f.d, k + qlen)
    BY <1>1
  <2>2. Fits(np, at, k) /\ Fits(np, at + k, qlen + qlen)
    BY <1>1, <2>1, FitsSplit
  <2> QED BY <1>1, <2>1, <2>2, FitsSplit
<1>3. /\ Value(np, at, k + (qlen + qlen)) = b + P(k) * a
      /\ Value(dp, f.d, k + qlen) = u + P(k) * t
  <2>1. Fits(np, at, k + (qlen + qlen)) /\ Fits(dp, f.d, k + qlen)
    BY <1>1
  <2>2. Value(np, at, k + (qlen + qlen)) = b + P(k) * a
    BY <1>1, <2>1, ValueSplit DEF IsArray
  <2>3. Value(dp, f.d, k + qlen) = u + P(k) * t
    BY SMTT(60), <1>1, <2>1, ValueSplit DEF IsArray
  <2> QED BY <2>2, <2>3
<1>4. X \in Nat /\ a \in Nat /\ b \in Nat /\ t \in Nat /\ u \in 0 .. P(k) - 1
  <2>1. X \in Nat
    BY ValueBounds DEF IsArray
  <2>2. a \in Nat /\ b \in Nat
    BY <1>2, ValueBounds DEF IsArray
  <2> QED BY <1>2, <2>1, <2>2, ValueBounds DEF IsArray
<1>5. P(k) \in Nat \ {0} /\ P(qlen) \in Nat \ {0}
  BY <1>1, Scale
<1>6. X = a * P(k) + b /\ D = u + P(k) * t /\ u < P(k)
  <2>1. X = Value(np, at, k + (qlen + qlen)) /\ D = Value(dp, f.d, k + qlen)
    BY <1>1 DEF Divisor
  <2> QED BY <1>3, <1>4, <1>5, <2>1
<1>7. X < (D + 1) * P(qlen)
  OBVIOUS
<1> HIDE DEF X, a, b, D, t, u
<1>8. a < (t + 1) * P(qlen)
  BY <1>1, <1>4, <1>5, <1>6, <1>7, TopSmall
<1>9. /\ 2 * dp[f.d + f.dn - 1] >= Beta /\ v = Exact(dp[f.d + f.dn - 1], dp[f.d + f.dn - 2])
      /\ (f.d + k) + qlen - 1 = f.d + f.dn - 1 /\ (f.d + k) + qlen - 2 = f.d + f.dn - 2
  BY <1>1 DEF Good, Placed
<1>10. /\ Good(g, np, qp, dp, v) /\ Running(g, np, qp, dp, ret)
       /\ g.fn = fn /\ g.q = q /\ g.n = at + k /\ g.d = f.d + k /\ g.qn = qlen /\ g.dn = qlen
       /\ g.was = a
  <2>1. fn \in {"sb", "dcn", "chunk"} /\ qlen >= 1 /\ (fn = "dcn" => qlen = qlen /\ qlen >= 4)
        /\ (fn = "chunk" => qlen <= qlen /\ qlen >= 4)
    OBVIOUS
  <2>2. /\ Value(np, at + k, qlen + qlen) < (Value(dp, f.d + k, qlen) + 1) * P(qlen)
        /\ 2 * dp[(f.d + k) + qlen - 1] >= Beta
        /\ v = Exact(dp[(f.d + k) + qlen - 1], dp[(f.d + k) + qlen - 2])
    BY <1>8, <1>9 DEF a, t
  <2> DEFINE n == at + k  d == f.d + k
  <2>3. Enterable(fn, q, n, d, qlen, qlen)
    <3>1. /\ n \in Nat /\ d \in Nat /\ Fits(np, n, qlen + qlen) /\ Fits(qp, q, qlen) /\ Fits(dp, d, qlen)
          /\ Value(np, n, qlen + qlen) < (Value(dp, d, qlen) + 1) * P(qlen)
          /\ 2 * dp[d + qlen - 1] >= Beta /\ v = Exact(dp[d + qlen - 1], dp[d + qlen - 2])
      BY <1>1, <1>2, <2>2
    <3> HIDE DEF n, d
    <3> QED BY <2>1, <3>1 DEF Enterable
  <2> HIDE DEF n, d
  <2>4. LET c == Entered(Frame(fn, q, n, d, qlen, qlen))
        IN  /\ Good(c, np, qp, dp, v) /\ Running(c, np, qp, dp, ret)
            /\ c.fn = fn /\ c.q = q /\ c.n = n /\ c.d = d /\ c.qn = qlen /\ c.dn = qlen
            /\ c.was = Value(np, n, qlen + qlen)
    BY <2>3, Entering
  <2>5. /\ Good(g, np, qp, dp, v) /\ Running(g, np, qp, dp, ret)
        /\ g.fn = fn /\ g.q = q /\ g.n = at + k /\ g.d = f.d + k /\ g.qn = qlen /\ g.dn = qlen
        /\ g.was = Value(np, at + k, qlen + qlen)
    BY <2>4 DEF n, d
  <2> HIDE DEF g
  <2> QED BY <2>5 DEF a
<1> HIDE DEF g
<1>11. Part(f, X, qlen, dp)
  BY <1>1, <1>4, <1>7 DEF Part, D
<1>12. Asked(f, g, X, at, q, qlen, np, dp)
  BY <1>6, <1>10, <1>11 DEF Asked, b
<1> QED BY <1>4, <1>10, <1>12 DEF X, g, a

(* A call's windows are inside of its caller's. *)
LEMMA InsideCaller ==
  ASSUME NEW h, NEW g, NEW a \in Nat, NEW b \in Nat,
         h.n \in Nat, h.q \in Nat, h.qn \in Nat, h.dn \in Nat, g.qn \in Nat, g.dn \in Nat,
         g.n = h.n + a, g.q = h.q + b, a + g.qn + g.dn <= h.qn + h.dn, b + g.qn <= h.qn
  PROVE  Inside(g, h)
<1> DEFINE hn == h.n  hq == h.q  hqn == h.qn  hdn == h.dn  gqn == g.qn  gdn == g.dn
<1>1. /\ hn \in Nat /\ hq \in Nat /\ hqn \in Nat /\ hdn \in Nat /\ gqn \in Nat /\ gdn \in Nat
      /\ a + gqn + gdn <= hqn + hdn /\ b + gqn <= hqn
  OBVIOUS
<1> HIDE DEF hn, hq, hqn, hdn, gqn, gdn
<1>2. /\ hn <= hn + a /\ (hn + a) + gqn + gdn <= hn + hqn + hdn
      /\ hq <= hq + b /\ (hq + b) + gqn <= hq + hqn
  BY <1>1
<1> QED BY <1>2 DEF Inside, hn, hq, hqn, hdn, gqn, gdn

LEMMA DcHighStep == ASSUME IInv, DcHigh PROVE IInv'
<1> DEFINE f == Top  h == [f EXCEPT !.pc = "cross high"]
           g == Entered(Frame(Divider(High(f)), f.q + Low(f), f.n + 2 * Low(f), f.d + Low(f), High(f), High(f)))
           at == f.n + Low(f)  X == Value(np, at, High(f) + f.dn)  D == Divisor(f, dp)
<1>1. /\ stack # << >> /\ f.pc = "start" /\ f.fn = "dcn" /\ Calls(h, g)
      /\ UNCHANGED <<np, qp, dp, v, ret>>
  BY DEF DcHigh, At
<1>2. /\ Running(f, np, qp, dp, ret) /\ Good(f, np, qp, dp, v) /\ f \in Frames
      /\ IsArray(np) /\ IsArray(qp) /\ IsArray(dp)
  BY <1>1, TopFacts
<1>3. /\ h \in Frames /\ Alike(h, f) /\ Bounded(h) /\ h.fn = "dcn" /\ h.pc = "cross high"
      /\ Low(h) = Low(f) /\ High(h) = High(f) /\ h.n = f.n /\ h.q = f.q /\ h.dn = f.dn /\ h.was = f.was
      /\ h.d = f.d /\ h.qn = f.qn /\ h.adds = f.adds
  <2> HIDE DEF f
  <2>1. h \in Frames /\ h.adds = f.adds /\ h.fn = f.fn
    BY <1>2 DEF Frames, Labels
  <2>2. Alike(h, f) /\ h.pc = "cross high"
    BY <1>2 DEF Frames, Alike
  <2>3. Bounded(h)
    BY <1>2, <2>1 DEF Good, Bounded
  <2> QED BY <1>1, <2>1, <2>2, <2>3 DEF Alike, Low, High
<1> HIDE DEF f, h
<1>4. f.was = Value(np, f.n, f.qn + f.dn)
  BY <1>1, <1>2, RunningAt
<1>5. /\ f.n \in Nat /\ f.q \in Nat /\ f.d \in Nat /\ f.dn \in Nat /\ f.qn = f.dn /\ f.dn >= 4
      /\ Low(f) \in Nat /\ High(f) \in Nat /\ Low(f) + High(f) = f.dn /\ Low(f) <= High(f)
      /\ High(f) <= Low(f) + 1 /\ D \in Nat
      /\ Fits(np, f.n, f.qn + f.dn) /\ Fits(qp, f.q, f.qn)
  BY <1>1, <1>2, CallFacts
<1>6. /\ Low(f) + (High(f) + f.dn) = f.qn + f.dn /\ at \in Nat /\ High(f) + f.dn \in Nat
      /\ High(f) >= 2 /\ f.dn - High(f) = Low(f) /\ at + Low(f) = f.n + 2 * Low(f)
  BY <1>5
<1>7. Fits(np, f.n, Low(f) + (High(f) + f.dn)) /\ Fits(qp, f.q, Low(f) + High(f))
  BY <1>5, <1>6
<1>8. Fits(np, f.n, Low(f)) /\ Fits(np, at, High(f) + f.dn) /\ Fits(qp, f.q + Low(f), High(f))
  BY <1>5, <1>6, <1>7, FitsSplit
<1>9. f.was = X * P(Low(f)) + Value(np, f.n, Low(f)) /\ X \in Nat /\ Value(np, f.n, Low(f)) \in Nat
  <2>1. Value(np, f.n, Low(f) + (High(f) + f.dn)) = Value(np, f.n, Low(f)) + P(Low(f)) * X
    BY <1>2, <1>5, <1>6, <1>7, ValueSplit DEF IsArray
  <2>2. X \in Nat /\ Value(np, f.n, Low(f)) \in Nat /\ P(Low(f)) \in Nat
    BY <1>2, <1>5, <1>8, ValueBounds, Scales DEF IsArray
  <2> HIDE DEF X
  <2> QED BY <1>4, <1>6, <2>1, <2>2
<1>10. X < (D + 1) * P(High(f))
  <2>1. f.was < (D + 1) * P(f.qn)
    BY <1>2 DEF Good, Fair
  <2> DEFINE p == P(Low(f))  c == P(High(f))
  <2>2. P(f.qn) = p * c /\ p \in Nat \ {0} /\ c \in Nat
    BY <1>5, Scales
  <2> HIDE DEF X, p, c, D
  <2>3. (D + 1) * (p * c) = ((D + 1) * c) * p /\ (D + 1) * c \in Nat /\ ((D + 1) * c) * p \in Nat
    BY <1>5, <2>2
  <2>4. X * p < ((D + 1) * c) * p
    BY <1>9, <2>1, <2>2, <2>3 DEF p
  <2>5. X < (D + 1) * c
    BY <1>9, <2>2, <2>3, <2>4, CancelLt
  <2> QED BY <2>5 DEF c
<1>11. /\ Good(g, np, qp, dp, v) /\ Running(g, np, qp, dp, ret)
       /\ g.q = f.q + Low(f) /\ g.n = f.n + 2 * Low(f) /\ g.d = f.d + Low(f)
       /\ g.qn = High(f) /\ g.dn = High(f)
       /\ Asked(f, g, X, at, f.q + Low(f), High(f), np, dp)
  <2>1. Divider(High(f)) \in {"sb", "dcn"} /\ (Divider(High(f)) = "dcn" => High(f) >= 4)
    BY <1>5, BlockDivAssumption DEF Divider
  <2>2. f.q + Low(f) \in Nat /\ High(f) <= f.dn
    BY <1>5
  <2>3. Askable(f, Divider(High(f)), at, f.q + Low(f), High(f), Low(f))
    <3>1. Low(f) = f.dn - High(f)
      BY <1>5
    <3> HIDE DEF at
    <3> QED BY <1>2, <1>5, <1>6, <1>8, <1>10, <2>1, <2>2, <3>1 DEF Askable
  <2>4. g = Entered(Frame(Divider(High(f)), f.q + Low(f), at + Low(f), f.d + Low(f), High(f), High(f)))
    BY <1>6
  <2> HIDE DEF g, at
  <2> QED BY <1>6, <2>3, <2>4, Asking
<1> HIDE DEF g
<1>12. Inside(g, h)
  <2>1. /\ g.n = h.n + 2 * Low(f) /\ g.q = h.q + Low(f) /\ 2 * Low(f) \in Nat
        /\ 2 * Low(f) + g.qn + g.dn <= h.qn + h.dn /\ Low(f) + g.qn <= h.qn
    <3>1. /\ g.n = f.n + 2 * Low(f) /\ g.q = f.q + Low(f) /\ g.qn = High(f) /\ g.dn = High(f)
      BY <1>11
    <3>2. h.n = f.n /\ h.q = f.q /\ h.qn = f.qn /\ h.dn = f.dn
      BY <1>3
    <3>3. /\ 2 * Low(f) \in Nat /\ 2 * Low(f) + High(f) + High(f) <= f.qn + f.dn
          /\ Low(f) + High(f) <= f.qn
      BY <1>5
    <3> QED BY <3>1, <3>2, <3>3
  <2> QED BY <1>3, <1>5, <1>11, <2>1, InsideCaller
<1>13. Waits(h, g, np, qp, dp)
  <2>1. HighPart(h, X, np)
    BY <1>3, <1>9 DEF HighPart
  <2>2. Asked(h, g, X, h.n + Low(h), h.q + Low(h), High(h), np, dp)
    BY <1>3, <1>11 DEF Asked, Part, Divisor
  <2> HIDE DEF X
  <2>3. X \in Nat
    BY <1>9
  <2> QED BY <1>3, <2>1, <2>2, <2>3 DEF Waits
<1> QED BY <1>1, <1>3, <1>11, <1>12, <1>13, CallStep DEF f

LEMMA DcLowStep == ASSUME IInv, DcLow PROVE IInv'
<1> DEFINE f == Top  h == [f EXCEPT !.pc = "cross low"]
           g == Entered(Frame(Divider(Low(f)), f.q, f.n + High(f), f.d + High(f), Low(f), Low(f)))
           at == f.n + Low(f)  X == Value(np, f.n, Low(f) + f.dn)  D == Divisor(f, dp)
           l == P(Low(f))  Q == f.qh * P(High(f)) + Value(qp, f.q + Low(f), High(f))
           low == Value(np, f.n, Low(f))  rest == Value(np, at, f.dn)
<1>1. /\ stack # << >> /\ f.pc = "fix high" /\ f.fn = "dcn" /\ f.cy = 0 /\ Calls(h, g)
      /\ UNCHANGED <<np, qp, dp, v, ret>>
  BY DEF DcLow, At
<1>2. /\ Running(f, np, qp, dp, ret) /\ Good(f, np, qp, dp, v) /\ f \in Frames
      /\ IsArray(np) /\ IsArray(qp) /\ IsArray(dp)
  BY <1>1, TopFacts
<1>3. /\ h \in Frames /\ Alike(h, f) /\ Bounded(h) /\ h.fn = "dcn" /\ h.pc = "cross low"
      /\ Low(h) = Low(f) /\ High(h) = High(f) /\ h.n = f.n /\ h.q = f.q /\ h.dn = f.dn /\ h.was = f.was
      /\ h.d = f.d /\ h.qn = f.qn /\ h.adds = f.adds /\ h.qh = f.qh
  <2> HIDE DEF f
  <2>1. h \in Frames /\ h.adds = f.adds /\ h.fn = f.fn /\ h.qh = f.qh
    BY <1>2 DEF Frames, Labels
  <2>2. Alike(h, f) /\ h.pc = "cross low"
    BY <1>2 DEF Frames, Alike
  <2>3. Bounded(h)
    BY <1>2, <2>1 DEF Good, Bounded
  <2> QED BY <1>1, <2>1, <2>2, <2>3 DEF Alike, Low, High
<1> HIDE DEF f, h
<1>4. PICK Y \in Nat : /\ HighPart(f, Y, np)
                       /\ Fixing(f, Y, at, f.q + Low(f), High(f), f.qh, np, qp, dp)
  BY <1>1, <1>2, RunningAt
<1>5. /\ f.n \in Nat /\ f.q \in Nat /\ f.d \in Nat /\ f.dn \in Nat /\ f.qn = f.dn /\ f.dn >= 4
      /\ Low(f) \in Nat /\ High(f) \in Nat /\ Low(f) + High(f) = f.dn /\ Low(f) <= High(f)
      /\ High(f) <= Low(f) + 1 /\ D \in Nat
      /\ Fits(np, f.n, f.qn + f.dn) /\ Fits(qp, f.q, f.qn)
  BY <1>1, <1>2, CallFacts
<1>6. /\ at \in Nat /\ Low(f) + f.dn \in Nat /\ Low(f) >= 2 /\ f.dn - Low(f) = High(f)
      /\ f.n + (Low(f) + f.dn) <= f.n + (f.qn + f.dn)
  BY <1>5
<1>7. Fits(np, f.n, Low(f) + f.dn) /\ Fits(qp, f.q, Low(f) + High(f))
  BY <1>5, <1>6, FitsWithin
<1>8. /\ Fits(np, f.n, Low(f)) /\ Fits(np, at, f.dn) /\ Fits(qp, f.q, Low(f))
      /\ Fits(qp, f.q + Low(f), High(f))
  BY <1>5, <1>7, FitsSplit
<1>9. X = low + l * rest /\ X \in Nat /\ low \in 0 .. l - 1 /\ rest \in Nat /\ l \in Nat \ {0} /\ Q \in Int
  <2>1. X = low + l * rest
    BY <1>2, <1>5, <1>7, ValueSplit DEF IsArray
  <2>2. X \in Nat
    BY <1>2, <1>7, ValueBounds DEF IsArray
  <2>3. low \in 0 .. l - 1 /\ rest \in Nat
    BY <1>2, <1>8, ValueBounds DEF IsArray
  <2>4. Q \in Int
    <3>1. Value(qp, f.q + Low(f), High(f)) \in Nat
      BY <1>2, <1>8, ValueBounds DEF IsArray
    <3>2. P(High(f)) \in Nat /\ f.qh \in Int
      BY <1>2, <1>5, Scales DEF Frames
    <3> QED BY <3>1, <3>2
  <2>5. l \in Nat \ {0}
    BY <1>5, Scales
  <2> QED BY <2>1, <2>2, <2>3, <2>4, <2>5
<1>10. f.qh \in {0, 1} /\ Y = Q * D + rest /\ rest < D /\ f.was = Y * l + low
  <2>1. /\ f.qh \in {0, 1} /\ Y = Q * D + rest /\ rest < D
    <3> HIDE DEF at, D
    <3>1. /\ Fixing(f, Y, at, f.q + Low(f), High(f), f.qh, np, qp, dp)
          /\ Fits(np, at, f.dn) /\ Fits(qp, f.q + Low(f), High(f))
      BY <1>4, <1>8
    <3> DEFINE e == f.qh  q == f.q + Low(f)  n == High(f)
    <3>3. /\ Fixing(f, Y, at, q, n, e, np, qp, dp) /\ Fits(np, at, f.dn) /\ Fits(qp, q, n)
          /\ Good(f, np, qp, dp, v) /\ IsArray(np) /\ IsArray(qp) /\ IsArray(dp) /\ f.cy = 0
      BY <1>1, <1>2, <3>1
    <3> HIDE DEF e, q, n
    <3>4. /\ e \in {0, 1} /\ Y = (e * P(n) + Value(qp, q, n)) * Divisor(f, dp) + Value(np, at, f.dn)
          /\ Value(np, at, f.dn) < Divisor(f, dp)
      BY <3>3, FixedUp
    <3>2. /\ f.qh \in {0, 1}
          /\ Y = (f.qh * P(High(f)) + Value(qp, f.q + Low(f), High(f))) * Divisor(f, dp) + Value(np, at, f.dn)
          /\ Value(np, at, f.dn) < Divisor(f, dp)
      BY <3>4 DEF e, q, n
    <3> QED BY <3>2 DEF D
  <2> QED BY <1>4, <2>1 DEF HighPart
<1>11. f.was = Q * l * D + X /\ X < D * l
  <2> HIDE DEF X, Q, l, low, rest, D
  <2>1. Q * D \in Int
    BY <1>5, <1>9
  <2>2. (Q * D + rest) * l = (Q * l) * D + l * rest
    BY <1>5, <1>9
  <2>3. (Q * l) * D \in Int /\ l * rest \in Nat
    BY <1>5, <1>9
  <2>4. (rest + 1) * l <= D * l /\ (rest + 1) * l = l * rest + l /\ D * l \in Nat
    BY <1>5, <1>9, <1>10, MulLe
  <2> QED BY <1>9, <1>10, <2>2, <2>3, <2>4
<1>12. /\ Good(g, np, qp, dp, v) /\ Running(g, np, qp, dp, ret)
       /\ g.q = f.q /\ g.n = f.n + High(f) /\ g.d = f.d + High(f)
       /\ g.qn = Low(f) /\ g.dn = Low(f)
       /\ Asked(f, g, X, f.n, f.q, Low(f), np, dp)
  <2>1. Divider(Low(f)) \in {"sb", "dcn"} /\ (Divider(Low(f)) = "dcn" => Low(f) >= 4)
    BY <1>5, BlockDivAssumption DEF Divider
  <2>2. Low(f) <= f.dn
    BY <1>5
  <2>3. X < (D + 1) * l
    <3> HIDE DEF X, D, l
    <3>1. (D + 1) * l = D * l + l /\ D * l \in Nat
      BY <1>5, <1>9
    <3> QED BY <1>9, <1>11, <3>1
  <2>4. Askable(f, Divider(Low(f)), f.n, f.q, Low(f), High(f))
    <3>1. High(f) = f.dn - Low(f)
      BY <1>5
    <3> QED BY <1>2, <1>5, <1>6, <1>7, <1>8, <2>1, <2>2, <2>3, <3>1 DEF Askable
  <2> HIDE DEF g
  <2> QED BY <2>4, Asking DEF g
<1> HIDE DEF g
<1>13. Inside(g, h)
  <2>1. /\ g.n = h.n + High(f) /\ g.q = h.q + 0 /\ 0 \in Nat
        /\ High(f) + g.qn + g.dn <= h.qn + h.dn /\ 0 + g.qn <= h.qn
    <3>1. g.n = f.n + High(f) /\ g.q = f.q /\ g.qn = Low(f) /\ g.dn = Low(f)
      BY <1>12
    <3>2. h.n = f.n /\ h.q = f.q /\ h.qn = f.qn /\ h.dn = f.dn
      BY <1>3
    <3>3. High(f) + Low(f) + Low(f) <= f.qn + f.dn /\ 0 + Low(f) <= f.qn /\ f.q = f.q + 0
      BY <1>5
    <3> QED BY <3>1, <3>2, <3>3
  <2> QED BY <1>3, <1>5, <1>12, <2>1, InsideCaller
<1>14. Waits(h, g, np, qp, dp)
  <2>1. LowPart(h, X, qp, dp)
    BY <1>3, <1>10, <1>11 DEF LowPart, Divisor
  <2>2. Asked(h, g, X, h.n, h.q, Low(h), np, dp)
    BY <1>3, <1>12 DEF Asked, Part, Divisor
  <2> HIDE DEF X
  <2>3. X \in Nat
    BY <1>9
  <2> QED BY <1>3, <2>1, <2>2, <2>3 DEF Waits
<1> QED BY <1>1, <1>3, <1>12, <1>13, <1>14, CallStep DEF f

LEMMA ChunkStartStep == ASSUME IInv, ChunkStart PROVE IInv'
<1> DEFINE f == Top  k == f.dn - f.qn
           small == Frame("sb", f.q, f.n, f.d, f.qn, f.dn)
           large == Frame("dcn", f.q, f.n + k, f.d + k, f.qn, f.qn)
           g == Entered(IF f.qn < DC_THRESHOLD THEN small ELSE large)
           pass == f.qn < DC_THRESHOLD \/ k = 0
           h == [f EXCEPT !.pc = IF pass THEN "pass" ELSE "cross"]
<1>1. /\ stack # << >> /\ f.pc = "start" /\ f.fn = "chunk" /\ Calls(h, g)
      /\ UNCHANGED <<np, qp, dp, v, ret>>
  BY DEF ChunkStart, At
<1>2. /\ Running(f, np, qp, dp, ret) /\ Good(f, np, qp, dp, v) /\ f \in Frames
      /\ IsArray(np) /\ IsArray(qp) /\ IsArray(dp)
  BY <1>1, TopFacts
<1>3. /\ h \in Frames /\ Alike(h, f) /\ Bounded(h) /\ h.fn = "chunk"
      /\ h.pc = (IF pass THEN "pass" ELSE "cross")
      /\ h.n = f.n /\ h.q = f.q /\ h.dn = f.dn /\ h.was = f.was
      /\ h.d = f.d /\ h.qn = f.qn
  <2> HIDE DEF f, pass
  <2>1. h \in Frames /\ h.adds = f.adds /\ h.fn = f.fn
    BY <1>2 DEF Frames, Labels
  <2>2. Alike(h, f) /\ h.pc = IF pass THEN "pass" ELSE "cross"
    BY <1>2 DEF Frames, Alike
  <2>3. Bounded(h)
    BY <1>2, <2>1 DEF Good, Bounded
  <2> QED BY <1>1, <2>1, <2>2, <2>3 DEF Alike
<1> HIDE DEF f, h
<1>4. f.was = Value(np, f.n, f.qn + f.dn)
  BY <1>1, <1>2, RunningAt
<1>5. /\ f.n \in Nat /\ f.q \in Nat /\ f.d \in Nat /\ f.dn \in Nat /\ f.qn \in Nat
      /\ f.dn >= 4 /\ f.qn >= 1 /\ f.qn <= f.dn /\ k \in Nat
      /\ Fits(np, f.n, f.qn + f.dn) /\ Fits(qp, f.q, f.qn) /\ Fits(dp, f.d, f.dn)
  BY <1>1, <1>2, CallFacts
<1>6. f.was < (Value(dp, f.d, f.dn) + 1) * P(f.qn)
  BY <1>2 DEF Good, Fair, Divisor
<1>7. DC_THRESHOLD \in Nat /\ DC_THRESHOLD >= 4
  BY BlockDivAssumption
<1>8. ASSUME pass
      PROVE  /\ Good(g, np, qp, dp, v) /\ Running(g, np, qp, dp, ret)
             /\ g.q = f.q /\ g.n = f.n /\ g.d = f.d /\ g.qn = f.qn /\ g.dn = f.dn /\ g.was = f.was
  <2>1. 2 * dp[f.d + f.dn - 1] >= Beta /\ v = Exact(dp[f.d + f.dn - 1], dp[f.d + f.dn - 2])
    BY <1>2 DEF Good, Placed
  <2> DEFINE fn == IF f.qn < DC_THRESHOLD THEN "sb" ELSE "dcn"
  <2>2. g = Entered(Frame(fn, f.q, f.n, f.d, f.qn, f.dn))
    <3>1. ~(f.qn < DC_THRESHOLD) => f.n + k = f.n /\ f.d + k = f.d /\ f.qn = f.dn
      BY <1>5, <1>8
    <3> QED BY <3>1
  <2>3. fn \in {"sb", "dcn", "chunk"} /\ (fn = "dcn" => f.qn = f.dn /\ f.dn >= 4)
        /\ (fn = "chunk" => f.qn <= f.dn /\ f.dn >= 4)
    BY <1>5, <1>7, <1>8
  <2>4. f.dn >= 2 /\ Value(np, f.n, f.qn + f.dn) < (Value(dp, f.d, f.dn) + 1) * P(f.qn)
    BY <1>4, <1>5, <1>6
  <2> HIDE DEF fn, g
  <2>5. Enterable(fn, f.q, f.n, f.d, f.qn, f.dn)
    BY <1>2, <1>5, <2>1, <2>3, <2>4 DEF Enterable
  <2> QED BY <1>4, <2>2, <2>5, Entering
<1>9. ASSUME ~pass
      PROVE  /\ Good(g, np, qp, dp, v) /\ Running(g, np, qp, dp, ret)
             /\ g.q = f.q /\ g.n = f.n + k /\ g.d = f.d + k /\ g.qn = f.qn /\ g.dn = f.qn
             /\ Asked(f, g, f.was, f.n, f.q, f.qn, np, dp)
  <2>1. g = Entered(Frame("dcn", f.q, f.n + k, f.d + k, f.qn, f.qn)) /\ f.qn >= 4
    BY <1>5, <1>7, <1>9
  <2>2. "dcn" \in {"sb", "dcn"} /\ f.qn >= 2
    BY <1>5, <2>1
  <2>3. Value(np, f.n, f.qn + f.dn) < (Divisor(f, dp) + 1) * P(f.qn)
    BY <1>4, <1>6 DEF Divisor
  <2>4. k = f.dn - f.qn
    OBVIOUS
  <2> HIDE DEF g, k
  <2>5. Askable(f, "dcn", f.n, f.q, f.qn, k)
    BY <1>2, <1>5, <2>1, <2>2, <2>3, <2>4 DEF Askable
  <2> QED BY <1>4, <2>1, <2>5, Asking
<1>10. Inside(g, h) /\ Good(g, np, qp, dp, v) /\ Running(g, np, qp, dp, ret)
  <2> HIDE DEF g
  <2>1. CASE pass
    BY <1>3, <1>5, <1>8, <2>1 DEF Inside
  <2>2. CASE ~pass
    BY <1>3, <1>5, <1>9, <2>2 DEF Inside
  <2> QED BY <2>1, <2>2
<1>11. Waits(h, g, np, qp, dp)
  <2> HIDE DEF g
  <2>1. CASE pass
    <3>1. h.pc = "pass"
      BY <1>3, <2>1
    <3> QED BY <1>3, <1>8, <2>1, <3>1 DEF Waits
  <2>2. CASE ~pass
    <3>1. h.pc = "cross"
      BY <1>3, <2>2
    <3>2. Asked(h, g, h.was, h.n, h.q, h.qn, np, dp)
      BY <1>3, <1>9, <2>2 DEF Asked, Part, Divisor
    <3> QED BY <1>3, <3>1, <3>2 DEF Waits
  <2> QED BY <2>1, <2>2
<1> HIDE DEF g
<1> QED BY <1>1, <1>3, <1>10, <1>11, CallStep DEF f

LEMMA ChunksFirstStep == ASSUME IInv, ChunksFirst PROVE IInv'
<1> DEFINE f == Top  h == [f EXCEPT !.pc = "next", !.qh = ret]
<1>1. /\ stack # << >> /\ f.pc = "first" /\ f.fn = "chunks" /\ Becomes(h)
      /\ UNCHANGED <<np, qp, dp, v>> /\ ret' = NoReturn
  BY DEF ChunksFirst, At
<1>2. /\ Running(f, np, qp, dp, ret) /\ Good(f, np, qp, dp, v) /\ f \in Frames
      /\ IsArray(np) /\ IsArray(qp) /\ IsArray(dp) /\ ret \in Int
  BY <1>1, TopFacts
<1> HIDE DEF f
<1>3. /\ h \in Frames /\ h.adds = f.adds /\ h.fn = f.fn /\ Alike(h, f) /\ h.pc = "next"
      /\ h.qh = ret /\ h.j = f.j
  BY <1>2 DEF Frames, Labels, Alike
<1>4. Bounded(h)
  BY <1>2, <1>3 DEF Good, Bounded
<1> HIDE DEF h
<1>5. Multiple(f.j, f.dn) /\ Turned(f, f.j, ret, np, qp, dp)
  BY <1>1, <1>2, RunningAt
<1>6. Multiple(h.j, h.dn) /\ Turned(h, h.j, h.qh, np, qp, dp)
  BY <1>3, <1>5 DEF Turned, Found, Divisor, Alike
<1>7. Running(h, np', qp', dp, ret')
  BY <1>1, <1>3, <1>6 DEF Running
<1>8. Outside(np, np, f.n, f.qn + f.dn) /\ Outside(qp, qp, f.q, f.qn)
  BY NothingOutside
<1>9. ret' \in Int
  BY <1>1 DEF NoReturn
<1> QED BY <1>1, <1>2, <1>3, <1>4, <1>7, <1>8, <1>9, UpdateStep DEF f

(* The blocks left after the first chunk are a multiple of the divisor's.  *)
LEMMA FirstChunkRight ==
  ASSUME NEW qn \in Nat, NEW dn \in Nat, qn >= 1, dn >= 1
  PROVE  LET c == FirstChunk(qn, dn)
         IN  c \in 1 .. dn /\ c <= qn /\ Multiple(qn - c, dn)
<1> DEFINE q == qn \div dn  r == qn % dn
<1>1. q \in Int /\ r \in 0 .. dn - 1 /\ qn = q * dn + r
  BY DivMod
<1> HIDE DEF q, r
<1>2. q >= 0
  <2> SUFFICES ASSUME q <= -1 PROVE FALSE
    BY <1>1
  <2>1. q * dn <= (-1) * dn
    BY <1>1, MulLe
  <2> QED BY <1>1, <2>1
<1>3. q * dn \in Nat
  BY <1>1, <1>2
<1>4. CASE r = 0
  <2>1. q >= 1
    BY <1>1, <1>2, <1>4
  <2>2. qn - dn = (q - 1) * dn /\ q - 1 \in Nat /\ (q - 1) * dn \in Nat
    BY <1>1, <1>4, <2>1
  <2>3. FirstChunk(qn, dn) = dn
    BY <1>4 DEF FirstChunk, r
  <2>4. Multiple(qn - dn, dn)
    BY <2>2 DEF Multiple
  <2> QED BY <2>2, <2>3, <2>4
<1>5. CASE r # 0
  <2>1. FirstChunk(qn, dn) = r
    BY <1>5 DEF FirstChunk, r
  <2>2. qn - r = q * dn /\ q \in Nat
    BY <1>1, <1>2, <1>3
  <2>3. Multiple(qn - r, dn)
    BY <2>2 DEF Multiple
  <2> QED BY <1>1, <1>3, <1>5, <2>1, <2>3
<1> QED BY <1>4, <1>5

LEMMA ChunksStartStep == ASSUME IInv, ChunksStart PROVE IInv'
<1> DEFINE f == Top  c == FirstChunk(f.qn, f.dn)  p == f.qn - c
           h == [f EXCEPT !.pc = "first", !.j = p]
           g == Entered(Frame("chunk", f.q + p, f.n + p, f.d, c, f.dn))
           a == Value(np, f.n + p, c + f.dn)  low == Value(np, f.n, p)  D == Divisor(f, dp)
<1>1. /\ stack # << >> /\ f.pc = "start" /\ f.fn = "chunks" /\ Calls(h, g)
      /\ UNCHANGED <<np, qp, dp, v, ret>>
  BY DEF ChunksStart, At
<1>2. /\ Running(f, np, qp, dp, ret) /\ Good(f, np, qp, dp, v) /\ f \in Frames
      /\ IsArray(np) /\ IsArray(qp) /\ IsArray(dp)
  BY <1>1, TopFacts
<1> HIDE DEF f
<1>3. /\ f.n \in Nat /\ f.q \in Nat /\ f.d \in Nat /\ f.dn \in Nat /\ f.qn \in Nat
      /\ f.dn >= 4 /\ f.qn >= 1 /\ D \in Nat
      /\ Fits(np, f.n, f.qn + f.dn) /\ Fits(qp, f.q, f.qn) /\ Fits(dp, f.d, f.dn)
  BY <1>1, <1>2, CallFacts
<1>4. c \in 1 .. f.dn /\ c <= f.qn /\ Multiple(p, f.dn)
  BY <1>3, FirstChunkRight
<1> HIDE DEF c
<1>5. /\ p \in Nat /\ p + c = f.qn /\ c \in Nat /\ p + (c + f.dn) = f.qn + f.dn /\ c + f.dn \in Nat
      /\ f.q + p \in Nat /\ f.n + p \in Nat
  BY <1>3, <1>4
<1> HIDE DEF p
<1>6. /\ h \in Frames /\ h.adds = f.adds /\ h.fn = "chunks" /\ Alike(h, f) /\ h.pc = "first"
      /\ h.j = p /\ h.n = f.n /\ h.q = f.q /\ h.d = f.d /\ h.qn = f.qn /\ h.dn = f.dn /\ h.was = f.was
  <2>1. "first" \in Labels /\ p \in Int
    BY <1>5 DEF Labels
  <2> DEFINE pc == "first"
  <2>3. pc \in Labels /\ h = MovedTo(f, pc, p)
    BY <2>1 DEF MovedTo
  <2> HIDE DEF pc, h
  <2>4. h \in Frames /\ Alike(h, f) /\ h.pc = pc /\ h.j = p /\ h.adds = f.adds
    BY <1>2, <2>1, <2>3, FrameMovedTo
  <2>2. h \in Frames /\ Alike(h, f) /\ h.pc = "first" /\ h.j = p /\ h.adds = f.adds
    BY <2>4 DEF pc
  <2> HIDE DEF h
  <2> QED BY <1>1, <2>2 DEF Alike
<1>7. Bounded(h)
  BY <1>1, <1>2, <1>6 DEF Good, Bounded
<1> HIDE DEF h
<1>8. f.was = Value(np, f.n, f.qn + f.dn)
  BY <1>1, <1>2, RunningAt
<1>9. Fits(np, f.n, p + (c + f.dn)) /\ Fits(qp, f.q, p + c)
  BY <1>3, <1>5
<1>10. Fits(np, f.n, p) /\ Fits(np, f.n + p, c + f.dn) /\ Fits(qp, f.q + p, c)
  BY <1>3, <1>5, <1>9, FitsSplit
<1>11. f.was = a * P(p) + low /\ a \in Nat /\ low \in Nat /\ P(p) \in Nat \ {0} /\ P(c) \in Nat
  <2>1. Value(np, f.n, p + (c + f.dn)) = low + P(p) * a
    BY <1>2, <1>3, <1>5, <1>9, ValueSplit DEF IsArray
  <2>2. a \in Nat /\ low \in Nat /\ P(p) \in Nat \ {0} /\ P(c) \in Nat
    BY <1>2, <1>5, <1>10, ValueBounds, Scales DEF IsArray
  <2> HIDE DEF a, low
  <2> QED BY <1>5, <1>8, <2>1, <2>2
<1>12. a < (D + 1) * P(c)
  <2>1. f.was < D * P(f.qn)
    BY <1>1, <1>2 DEF Good, Fair
  <2>2. P(f.qn) = P(p) * P(c)
    BY <1>5, Scales
  <2> HIDE DEF a, low, D
  <2> DEFINE u == P(p)  w == P(c)
  <2>3. u \in Nat \ {0} /\ w \in Nat /\ f.was = a * u + low /\ f.was < D * (u * w)
    BY <1>11, <2>1, <2>2
  <2> HIDE DEF u, w
  <2>4. D * (u * w) = (D * w) * u /\ D * w \in Nat /\ a * u \in Nat /\ (D * w) * u \in Nat
    BY <1>3, <1>11, <2>3
  <2>5. a * u < (D * w) * u
    BY <1>11, <2>3, <2>4
  <2>6. a < D * w
    BY <1>11, <2>3, <2>4, <2>5, CancelLt
  <2>7. (D + 1) * w = D * w + w
    BY <1>3, <2>3
  <2> QED BY <1>11, <2>3, <2>4, <2>6, <2>7 DEF w
<1>13. /\ Good(g, np, qp, dp, v) /\ Running(g, np, qp, dp, ret)
       /\ g.q = f.q + p /\ g.n = f.n + p /\ g.d = f.d /\ g.qn = c /\ g.dn = f.dn /\ g.was = a
  <2>1. 2 * dp[f.d + f.dn - 1] >= Beta /\ v = Exact(dp[f.d + f.dn - 1], dp[f.d + f.dn - 2])
    BY <1>2 DEF Good, Placed
  <2>2. /\ "chunk" \in {"sb", "dcn", "chunk"} /\ ("chunk" = "dcn" => c = f.dn /\ f.dn >= 4)
        /\ ("chunk" = "chunk" => c <= f.dn /\ f.dn >= 4) /\ c >= 1 /\ f.dn >= 2
    BY <1>3, <1>4
  <2>3. Value(np, f.n + p, c + f.dn) < (Value(dp, f.d, f.dn) + 1) * P(c)
    BY <1>12 DEF a, D, Divisor
  <2>4. Enterable("chunk", f.q + p, f.n + p, f.d, c, f.dn)
    BY <1>2, <1>3, <1>5, <1>10, <2>1, <2>2, <2>3 DEF Enterable
  <2> HIDE DEF g
  <2> QED BY <2>4, Entering DEF g
<1> HIDE DEF g
<1>14. Inside(g, h)
  BY <1>3, <1>5, <1>6, <1>13 DEF Inside
<1>15. Waits(h, g, np, qp, dp)
  <2>1. Chunked(h, g) /\ g.qn = h.qn - h.j
    BY <1>3, <1>4, <1>5, <1>6, <1>13 DEF Chunked, p
  <2>2. h.was = g.was * P(h.j) + Value(np, h.n, h.j)
    BY <1>6, <1>11, <1>13
  <2> QED BY <1>6, <2>1, <2>2 DEF Waits
<1> QED BY <1>1, <1>6, <1>7, <1>13, <1>14, <1>15, CallStep DEF f

LEMMA ChunksNextStep == ASSUME IInv, ChunksNext PROVE IInv'
<1> DEFINE f == Top  p == f.j - f.dn
           h == [f EXCEPT !.j = p]
           g == Entered(Frame("dcn", f.q + p, f.n + p, f.d, f.dn, f.dn))
           a == Value(np, f.n + p, f.dn + f.dn)  low == Value(np, f.n, p)  D == Divisor(f, dp)
           mid == Value(np, f.n + p, f.dn)  rest == Value(np, f.n + f.j, f.dn)  w == P(f.dn)
<1>1. /\ stack # << >> /\ f.pc = "next" /\ f.fn = "chunks" /\ Calls(h, g) /\ f.j > 0
      /\ UNCHANGED <<np, qp, dp, v, ret>>
  BY DEF ChunksNext, At
<1>2. /\ Running(f, np, qp, dp, ret) /\ Good(f, np, qp, dp, v) /\ f \in Frames
      /\ IsArray(np) /\ IsArray(qp) /\ IsArray(dp)
  BY <1>1, TopFacts
<1> HIDE DEF f
<1>3. /\ f.n \in Nat /\ f.q \in Nat /\ f.d \in Nat /\ f.dn \in Nat /\ f.qn \in Nat
      /\ f.dn >= 4 /\ f.qn >= 1 /\ D \in Nat
      /\ Fits(np, f.n, f.qn + f.dn) /\ Fits(qp, f.q, f.qn) /\ Fits(dp, f.d, f.dn)
  BY <1>1, <1>2, CallFacts
<1>4. Multiple(f.j, f.dn) /\ Turned(f, f.j, f.qh, np, qp, dp)
  BY <1>1, <1>2, RunningAt
<1>5. p \in Nat /\ Multiple(p, f.dn)
  <2>1. PICK m \in Nat : f.j = m * f.dn
    BY <1>4 DEF Multiple
  <2>2. m >= 1
    BY <1>1, <1>3, <2>1
  <2>3. p = (m - 1) * f.dn /\ m - 1 \in Nat /\ (m - 1) * f.dn \in Nat
    BY <1>3, <2>1, <2>2
  <2> QED BY <2>3 DEF Multiple
<1>6. /\ f.j = p + f.dn /\ f.j \in Nat /\ f.j <= f.qn /\ p + (f.dn + f.dn) = f.j + f.dn /\ f.dn + f.dn \in Nat
      /\ f.q + p \in Nat /\ f.n + p \in Nat /\ (f.n + p) + f.dn = f.n + f.j /\ f.j + f.dn \in Nat
  BY <1>3, <1>4, <1>5 DEF Turned
<1> HIDE DEF p
<1>7. /\ h \in Frames /\ h.adds = f.adds /\ h.fn = "chunks" /\ Alike(h, f) /\ h.pc = "next" /\ h.qh = f.qh
      /\ h.j = p /\ h.n = f.n /\ h.q = f.q /\ h.d = f.d /\ h.qn = f.qn /\ h.dn = f.dn /\ h.was = f.was
  <2>1. p \in Int
    BY <1>5
  <2>2. h = Moved(f, p)
    BY DEF Moved
  <2> HIDE DEF h
  <2>3. h \in Frames /\ Alike(h, f) /\ h.pc = f.pc /\ h.j = p /\ h.adds = f.adds /\ h.qh = f.qh
    BY <1>2, <2>1, <2>2, FrameMoved
  <2> QED BY <1>1, <2>3 DEF Alike
<1>8. Bounded(h)
  BY <1>1, <1>2, <1>7 DEF Good, Bounded
<1> HIDE DEF h
<1>9. /\ Fits(np, f.n, p + (f.dn + f.dn)) /\ Fits(qp, f.q + p, f.dn)
      /\ Fits(np, f.n, p) /\ Fits(np, f.n + p, f.dn + f.dn)
      /\ Fits(np, f.n + p, f.dn) /\ Fits(np, f.n + f.j, f.dn)
  <2>1. Fits(np, f.n, p + (f.dn + f.dn)) /\ Fits(qp, f.q + p, f.dn)
    <3>1. /\ f.n <= f.n /\ f.n + (p + (f.dn + f.dn)) <= f.n + (f.qn + f.dn)
          /\ p + (f.dn + f.dn) \in Nat /\ f.qn + f.dn \in Nat
          /\ f.q <= f.q + p /\ (f.q + p) + f.dn <= f.q + f.qn
      BY <1>3, <1>5, <1>6
    <3>2. Fits(np, f.n, p + (f.dn + f.dn))
      BY <1>3, <3>1, FitsWithin
    <3>3. Fits(qp, f.q + p, f.dn)
      BY <1>3, <1>6, <3>1, FitsWithin
    <3> QED BY <3>2, <3>3
  <2>2. Fits(np, f.n, p) /\ Fits(np, f.n + p, f.dn + f.dn)
    BY <1>3, <1>5, <1>6, <2>1, FitsSplit
  <2>3. Fits(np, f.n + p, f.dn) /\ Fits(np, (f.n + p) + f.dn, f.dn)
    BY <1>3, <1>6, <2>2, FitsSplit
  <2> QED BY <1>6, <2>1, <2>2, <2>3
<1>10. /\ a \in Nat /\ low \in Nat /\ P(p) \in Nat \ {0} /\ mid \in 0 .. w - 1 /\ rest \in Nat
       /\ w \in Nat \ {0}
  <2>1. a \in Nat /\ low \in Nat
    BY <1>2, <1>9, ValueBounds DEF IsArray
  <2>2. mid \in 0 .. w - 1 /\ rest \in Nat
    BY <1>2, <1>9, ValueBounds DEF IsArray
  <2>3. P(p) \in Nat \ {0} /\ w \in Nat \ {0}
    BY <1>3, <1>5, Scale
  <2> QED BY <2>1, <2>2, <2>3
<1>11. Value(np, f.n, f.j + f.dn) = low + P(p) * a /\ a = mid + w * rest
  <2>1. Value(np, f.n, p + (f.dn + f.dn)) = low + P(p) * a
    BY <1>2, <1>3, <1>5, <1>6, <1>9, ValueSplit DEF IsArray
  <2>2. a = mid + w * Value(np, (f.n + p) + f.dn, f.dn)
    BY <1>2, <1>3, <1>6, <1>9, ValueSplit DEF IsArray
  <2> QED BY <1>6, <2>1, <2>2
<1>12. rest < D /\ f.qh \in {0, 1} /\ f.was = Found(f, f.j, f.qh, qp) * D + Value(np, f.n, f.j + f.dn)
  BY <1>4 DEF Turned
<1>13. a < D * w /\ a < (D + 1) * w
  <2> HIDE DEF a, mid, rest, w, D
  <2>1. (rest + 1) * w <= D * w /\ (rest + 1) * w = w * rest + w /\ D * w \in Nat /\ (D + 1) * w = D * w + w
    BY <1>3, <1>10, <1>12, MulLe
  <2>2. w * rest \in Nat
    BY <1>10
  <2> QED BY <1>10, <1>11, <2>1, <2>2
<1>14. /\ Good(g, np, qp, dp, v) /\ Running(g, np, qp, dp, ret)
       /\ g.q = f.q + p /\ g.n = f.n + p /\ g.d = f.d /\ g.qn = f.dn /\ g.dn = f.dn /\ g.was = a
  <2>1. 2 * dp[f.d + f.dn - 1] >= Beta /\ v = Exact(dp[f.d + f.dn - 1], dp[f.d + f.dn - 2])
    BY <1>2 DEF Good, Placed
  <2>2. /\ "dcn" \in {"sb", "dcn", "chunk"} /\ ("dcn" = "dcn" => f.dn = f.dn /\ f.dn >= 4)
        /\ ("dcn" = "chunk" => f.dn <= f.dn /\ f.dn >= 4) /\ f.dn >= 1 /\ f.dn >= 2
    BY <1>3
  <2>3. Value(np, f.n + p, f.dn + f.dn) < (Value(dp, f.d, f.dn) + 1) * P(f.dn)
    BY <1>13 DEF a, D, Divisor, w
  <2>4. Enterable("dcn", f.q + p, f.n + p, f.d, f.dn, f.dn)
    BY <1>2, <1>3, <1>6, <1>9, <2>1, <2>2, <2>3 DEF Enterable
  <2> HIDE DEF g
  <2> QED BY <2>4, Entering DEF g
<1> HIDE DEF g
<1>15. Inside(g, h)
  BY <1>3, <1>5, <1>6, <1>7, <1>14 DEF Inside
<1>16. Waits(h, g, np, qp, dp)
  <2>1. Chunked(h, g) /\ g.qn = h.dn /\ h.j + h.dn <= h.qn /\ h.qh \in {0, 1}
    BY <1>3, <1>5, <1>6, <1>7, <1>12, <1>14 DEF Chunked
  <2>2. h.was = Found(h, h.j + h.dn, h.qh, qp) * Divisor(h, dp) + g.was * P(h.j) + Value(np, h.n, h.j)
    <3>1. Found(h, h.j + h.dn, h.qh, qp) = Found(f, f.j, f.qh, qp) /\ Divisor(h, dp) = D
      BY <1>6, <1>7 DEF Found, Divisor
    <3> DEFINE F == Found(f, f.j, f.qh, qp)
    <3>2. F \in Int
      <4>1. Fits(qp, f.q + f.j, f.qn - f.j)
        <5>1. /\ f.q + f.j \in Nat /\ f.qn - f.j \in Nat /\ f.q <= f.q + f.j
              /\ (f.q + f.j) + (f.qn - f.j) <= f.q + f.qn
          BY <1>3, <1>6
        <5> QED BY <1>3, <5>1, FitsWithin
      <4>2. Value(qp, f.q + f.j, f.qn - f.j) \in Nat
        BY <1>2, <4>1, ValueBounds DEF IsArray
      <4>3. P(f.qn) \in Nat /\ P(f.j) \in Nat
        BY <1>3, <1>6, Scale
      <4> QED BY <1>12, <4>2, <4>3 DEF Found
    <3> HIDE DEF F, a, low, D
    <3>3. F * D \in Int /\ P(p) * a = a * P(p) /\ a * P(p) \in Nat
      BY <1>3, <1>10, <3>2
    <3>4. f.was = F * D + a * P(p) + low
      BY <1>10, <1>11, <1>12, <3>3 DEF F
    <3> QED BY <1>7, <1>14, <3>1, <3>4 DEF F, low
  <2>3. g.was < Divisor(h, dp) * P(h.dn)
    BY <1>7, <1>13, <1>14 DEF Divisor, D, w
  <2> QED BY <1>7, <2>1, <2>2, <2>3 DEF Waits
<1> QED BY <1>1, <1>7, <1>8, <1>14, <1>15, <1>16, CallStep DEF f

(* A normalized divisor is at least half of its range. *)
LEMMA HalfRange ==
  ASSUME NEW z, IsArray(z), NEW at \in Nat, NEW m \in Nat, Fits(z, at, m + 1), 2 * z[at + m] >= Beta
  PROVE  P(m + 1) <= 2 * Value(z, at, m + 1)
<1>1. Fits(z, at, m) /\ Fits(z, at + m, 1) /\ at + m \in DOMAIN z
  <2>1. m \in Blocks(m + 1)
    BY DEF Blocks
  <2> QED BY <2>1, FitsSplit DEF Fits
<1>2. Value(z, at, m + 1) = Value(z, at, m) + P(m) * z[at + m]
  <2>1. Value(z, at, m + 1) = Value(z, at, m) + P(m) * Value(z, at + m, 1)
    BY ValueSplit DEF IsArray
  <2>2. Value(z, at + m, 1) = z[at + m]
    <3>1. at + m \in Nat
      OBVIOUS
    <3> QED BY <1>1, <3>1, ValueShort DEF IsArray
  <2> QED BY <2>1, <2>2
<1>3. Value(z, at, m) \in Nat /\ P(m) \in Nat /\ P(m + 1) = Beta * P(m) /\ z[at + m] \in Nat
  <2>1. Value(z, at, m) \in Nat
    BY <1>1, ValueBounds DEF IsArray
  <2>2. P(m) \in Nat
    BY Scale
  <2>3. P(m + 1) = Beta * P(m)
    BY Scales
  <2>4. z[at + m] \in Nat
    BY <1>1, Base DEF IsArray, Digits, Blocks
  <2> QED BY <2>1, <2>2, <2>3, <2>4
<1> DEFINE d == z[at + m]  p == P(m)
<1>4. Beta * p <= (2 * d) * p
  BY <1>3, Base, MulLe
<1>5. (2 * d) * p = 2 * (p * d) /\ p * d \in Nat /\ Beta * p \in Nat
  BY <1>3, Base
<1> HIDE DEF d, p
<1> QED BY <1>2, <1>3, <1>4, <1>5 DEF d, p

(* A part of the quotient found from the top t of the divisor D = t p + u is   *)
(* at most two too large, however far the rest of the divisor goes.            *)
LEMMA CrossArith ==
  ASSUME NEW X \in Nat, NEW K \in Nat, NEW t \in Nat, NEW p \in Nat \ {0}, NEW u \in Nat, u < p,
         NEW c \in Nat \ {0}, c <= 2 * t, NEW D \in Nat, D = u + p * t, X < (D + 1) * c,
         NEW lo \in Nat, lo < p, NEW hi \in Nat, hi < t, NEW V, V = lo + p * hi,
         X = (K * t) * p + V
  PROVE  X = K * D + (V - K * u) /\ V - K * u < D /\ V - K * u >= -(2 * D)
<1>1. K * u \in Nat /\ p * t \in Nat /\ p * hi \in Nat /\ K * t \in Nat /\ (K * t) * p \in Nat
  OBVIOUS
<1>2. K * D = K * u + (K * t) * p
  OBVIOUS
<1>3. p * hi + p <= p * t
  <2>1. (hi + 1) * p <= t * p
    BY MulLe
  <2> QED BY <2>1
<1>4. V \in Nat /\ V < D
  BY <1>1, <1>3
<1>5. K <= c + 1
  <2> SUFFICES ASSUME c + 2 <= K PROVE FALSE
    OBVIOUS
  <2>1. (D + 1) * c <= ((t + 1) * p) * c
    <3>1. D + 1 <= (t + 1) * p /\ (t + 1) * p \in Nat
      BY <1>1
    <3> QED BY <3>1, MulLe
  <2>2. (K * t) * p < ((t + 1) * c) * p
    <3>1. ((t + 1) * p) * c = ((t + 1) * c) * p /\ ((t + 1) * c) * p \in Nat /\ (D + 1) * c \in Nat
      OBVIOUS
    <3> QED BY <1>1, <1>4, <2>1, <3>1
  <2>3. K * t < (t + 1) * c
    <3>1. (t + 1) * c \in Nat
      OBVIOUS
    <3> QED BY <1>1, <2>2, <3>1, CancelLt
  <2>4. (c + 2) * t <= K * t
    BY MulLe
  <2>5. (c + 2) * t = c * t + 2 * t /\ (t + 1) * c = c * t + c /\ c * t \in Nat
    OBVIOUS
  <2> QED BY <1>1, <2>3, <2>4, <2>5
<1>6. K * u <= (c + 1) * u
  BY <1>5, MulLe
<1>7. c * u <= (2 * t) * u /\ c * u \in Nat /\ (c + 1) * u = c * u + u
  BY MulLe
<1>8. (2 * t) * u <= 2 * (p * t)
  <2>1. u * (2 * t) <= p * (2 * t)
    BY MulLe
  <2>2. u * (2 * t) = (2 * t) * u /\ p * (2 * t) = 2 * (p * t)
    OBVIOUS
  <2> QED BY <2>1, <2>2
<1>9. (2 * t) * u \in Nat
  OBVIOUS
<1>10. K * u <= 2 * D
  BY <1>1, <1>6, <1>7, <1>8, <1>9
<1> QED BY <1>1, <1>2, <1>4, <1>10

(* A change of the upper part of a window is one of the window. *)
LEMMA SubAbove ==
  ASSUME NEW x, IsArray(x), NEW at \in Nat, NEW m \in Nat, NEW n \in Nat, Fits(x, at, m + n),
         NEW val \in Int
  PROVE  LET s == SubN(x, at + m, n, val)
         IN  /\ IsArray(s.to) /\ Outside(x, s.to, at, m + n) /\ s.out \in Int
             /\ Value(x, at, m + n) - P(m) * val = Value(s.to, at, m + n) - s.out * P(m + n)
<1> DEFINE s == SubN(x, at + m, n, val)  y == s.to  o == s.out
           a == Value(x, at, m)  b == Value(x, at + m, n)  b2 == Value(y, at + m, n)
<1>1. Fits(x, at, m) /\ Fits(x, at + m, n)
  BY FitsSplit
<1>2. /\ IsArray(y) /\ Outside(x, y, at + m, n) /\ o \in Int
      /\ b - val = b2 - o * P(n)
  BY <1>1, SubNRight
<1> HIDE DEF s
<1>3. Outside(x, y, at, m + n)
  <2>1. at + m \in Int /\ at \in Int /\ n \in Int /\ m + n \in Int /\ at <= at + m
        /\ (at + m) + n <= at + (m + n)
    OBVIOUS
  <2> QED BY <1>2, <2>1, OutsideWider
<1>4. Value(y, at, m) = a
  <2>1. at + m <= at + m /\ at + m \in Int /\ n \in Int
    OBVIOUS
  <2> QED BY <1>1, <1>2, <2>1, ValueKept
<1>5. Fits(y, at, m + n) /\ Fits(y, at + m, n)
  BY <1>1, <1>2, FitsKept
<1>6. Value(x, at, m + n) = a + P(m) * b /\ Value(y, at, m + n) = a + P(m) * b2
  <2>1. Value(x, at, m + n) = a + P(m) * b
    BY ValueSplit DEF IsArray
  <2>2. Value(y, at, m + n) = Value(y, at, m) + P(m) * b2
    BY <1>2, <1>5, ValueSplit DEF IsArray
  <2> QED BY <1>4, <2>1, <2>2
<1>7. a \in Nat /\ b \in Nat /\ b2 \in Nat
  <2>1. a \in Nat /\ b \in Nat
    BY <1>1, ValueBounds DEF IsArray
  <2> QED BY <1>2, <1>5, <2>1, ValueBounds DEF IsArray
<1>8. P(m + n) = P(m) * P(n) /\ P(m) \in Nat /\ P(n) \in Nat
  BY Scales
<1> HIDE DEF a, b, b2, o, y
<1>9. Value(x, at, m + n) - P(m) * val = Value(y, at, m + n) - o * P(m + n)
  <2>1. b2 = b - val + o * P(n) /\ o * P(n) \in Int
    BY <1>2, <1>7, <1>8
  <2> DEFINE w == o * P(n)  p == P(m)
  <2>2. w \in Int /\ p \in Nat /\ o * P(m + n) = p * w
    BY <1>2, <1>8
  <2> HIDE DEF w, p
  <2>3. p * (b - val + w) = p * b - p * val + p * w
    BY <1>7, <2>2
  <2>4. p * b \in Int /\ p * val \in Int /\ p * w \in Int
    BY <1>7, <2>2
  <2>5. b2 = b - val + w
    BY <2>1 DEF w
  <2>6. Value(x, at, m + n) = a + p * b /\ Value(y, at, m + n) = a + p * b2
    BY <1>6 DEF p
  <2>7. Value(x, at, m + n) - p * val = Value(y, at, m + n) - p * w
    BY <1>7, <2>3, <2>4, <2>5, <2>6
  <2> QED BY <2>2, <2>7 DEF p
<1> QED BY <1>2, <1>3, <1>9 DEF s, y, o

LEMMA CrossRight ==
  ASSUME IsArray(np), IsArray(qp), IsArray(dp), NEW f, Good(f, np, qp, dp, v),
         NEW X, NEW at, NEW q, NEW qlen, Crossing(f, X, at, q, qlen, ret, np, qp, dp),
         Fits(np, at, f.dn), Fits(qp, q, qlen)
  PROVE  LET c == Cross(f, at, q, qlen, f.dn - qlen)
         IN  /\ IsArray(c.to) /\ Outside(np, c.to, at, f.dn) /\ c.out \in Int
             /\ \A h : h.d = f.d /\ h.dn = f.dn /\ h.cy = c.out /\ h.adds = 0 =>
                  Fixing(h, X, at, q, qlen, ret, c.to, qp, dp)
<1> DEFINE k == f.dn - qlen  t == Value(dp, f.d + k, qlen)  u == Value(dp, f.d, k)
           D == Divisor(f, dp)  Q == Value(qp, q, qlen)  K == ret * P(qlen) + Q
           lo == Value(np, at, k)  hi == Value(np, at + k, qlen)  V == Value(np, at, f.dn)
           c == Cross(f, at, q, qlen, k)  W == Value(c.to, at, f.dn)
<1>1. /\ f.d \in Nat /\ f.dn \in Nat /\ D \in Nat /\ Fits(dp, f.d, f.dn) /\ at \in Nat
      /\ f.dn >= 2
  BY CallFacts DEF Fits
<1>2. /\ X \in Nat /\ qlen \in 1 .. f.dn /\ X < (D + 1) * P(qlen) /\ ret \in {0, 1}
      /\ X = (K * t) * P(k) + V /\ hi < t
  BY DEF Crossing, Part
<1>3. k \in Nat /\ k + qlen = f.dn /\ qlen + k = f.dn /\ qlen \in Nat /\ qlen >= 1 /\ at + qlen \in Nat /\ at + k \in Nat
      /\ f.d + k \in Nat
  BY <1>1, <1>2
<1> HIDE DEF k
<1>4. Fits(dp, f.d, k) /\ Fits(dp, f.d + k, qlen) /\ Fits(np, at, k) /\ Fits(np, at + k, qlen)
  <2>1. Fits(dp, f.d, k + qlen) /\ Fits(np, at, k + qlen)
    BY <1>1, <1>3
  <2>2. Fits(np, at, k) /\ Fits(np, at + k, qlen)
    BY <1>1, <1>3, <2>1, FitsSplit
  <2> QED BY <1>1, <1>3, <2>1, <2>2, FitsSplit
<1>5. /\ t \in Nat /\ u \in Nat /\ u < P(k) /\ Q \in Nat /\ lo \in Nat /\ lo < P(k) /\ hi \in Nat
      /\ V \in Nat
  <2>1. t \in Nat /\ u \in 0 .. P(k) - 1
    BY <1>4, ValueBounds DEF IsArray
  <2>2. Q \in Nat /\ V \in Nat
    BY ValueBounds DEF IsArray
  <2>3. lo \in 0 .. P(k) - 1 /\ hi \in Nat
    BY <1>4, ValueBounds DEF IsArray
  <2>4. P(k) \in Nat
    BY <1>3, Scales
  <2> QED BY <2>1, <2>2, <2>3, <2>4
<1>6. P(k) \in Nat \ {0} /\ P(qlen) \in Nat \ {0} /\ P(f.dn) = P(qlen) * P(k) /\ P(f.dn) \in Nat
  <2>1. P(k) \in Nat \ {0} /\ P(qlen) \in Nat \ {0} /\ P(f.dn) \in Nat
    BY <1>1, <1>3, Scale
  <2>2. P(qlen + k) = P(qlen) * P(k)
    BY <1>3, Scales
  <2> QED BY <1>3, <2>1, <2>2
<1>7. D = u + P(k) * t /\ V = lo + P(k) * hi
  <2>1. Value(dp, f.d, k + qlen) = u + P(k) * t
    <3>1. Fits(dp, f.d, k + qlen)
      BY <1>1, <1>3
    <3> QED BY <1>1, <1>3, <3>1, ValueSplit DEF IsArray
  <2>2. Value(np, at, k + qlen) = lo + P(k) * hi
    <3>1. Fits(np, at, k + qlen)
      BY <1>1, <1>3
    <3> QED BY <1>1, <1>3, <3>1, ValueSplit DEF IsArray
  <2> QED BY <1>3, <2>1, <2>2 DEF Divisor
<1>8. P(qlen) <= 2 * t
  <2> DEFINE m == qlen - 1
  <2>1. m \in Nat /\ m + 1 = qlen /\ (f.d + k) + m = f.d + f.dn - 1
    BY <1>1, <1>3
  <2>2. 2 * dp[(f.d + k) + m] >= Beta
    BY <2>1 DEF Good, Placed
  <2> HIDE DEF m
  <2>3. Fits(dp, f.d + k, m + 1)
    BY <1>4, <2>1
  <2>4. P(m + 1) <= 2 * Value(dp, f.d + k, m + 1)
    BY <1>3, <2>1, <2>2, <2>3, HalfRange
  <2> QED BY <2>1, <2>4
<1>9. K \in Nat
  BY <1>2, <1>5, <1>6
<1>10. X = K * D + (V - K * u) /\ V - K * u < D /\ V - K * u >= -(2 * D)
  <2> DEFINE p == P(k)  c0 == P(qlen)
  <2> HIDE DEF K, D, t, u, lo, hi, V
  <2>1. /\ X \in Nat /\ K \in Nat /\ t \in Nat /\ p \in Nat \ {0} /\ u \in Nat /\ u < p
        /\ c0 \in Nat \ {0} /\ c0 <= 2 * t /\ D \in Nat /\ D = u + p * t /\ X < (D + 1) * c0
        /\ lo \in Nat /\ lo < p /\ hi \in Nat /\ hi < t /\ V = lo + p * hi
        /\ X = (K * t) * p + V
    BY <1>1, <1>2, <1>5, <1>6, <1>7, <1>8, <1>9
  <2> HIDE DEF p, c0
  <2> QED BY <2>1, CrossArith
<1> DEFINE s == SubN(np, at, f.dn, Q * u)  r == SubN(s.to, at + qlen, k, u)
<1>11. /\ IsArray(s.to) /\ Outside(np, s.to, at, f.dn) /\ s.out \in Int
       /\ V - Q * u = Value(s.to, at, f.dn) - s.out * P(f.dn)
  <2>1. Q * u \in Int
    BY <1>5
  <2> QED BY <2>1, SubNRight
<1> HIDE DEF s
<1>12. /\ IsArray(r.to) /\ Outside(s.to, r.to, at, f.dn) /\ r.out \in Int
       /\ Value(s.to, at, f.dn) - P(qlen) * u = Value(r.to, at, f.dn) - r.out * P(f.dn)
  <2>1. Fits(s.to, at, qlen + k)
    BY <1>3, <1>11, FitsKept
  <2>2. u \in Int
    BY <1>5
  <2>3. /\ IsArray(r.to) /\ Outside(s.to, r.to, at, qlen + k) /\ r.out \in Int
        /\ Value(s.to, at, qlen + k) - P(qlen) * u = Value(r.to, at, qlen + k) - r.out * P(qlen + k)
    <3> HIDE DEF u
    <3>1. IsArray(s.to) /\ at \in Nat /\ qlen \in Nat /\ k \in Nat
      BY <1>1, <1>3, <1>11
    <3> QED BY <2>1, <2>2, <3>1, SubAbove
  <2> QED BY <1>3, <2>3
<1> HIDE DEF r
<1>13. c = IF ret = 1 THEN [to |-> r.to, out |-> s.out + r.out] ELSE s
  BY DEF c, Cross, s, r, Q, u
<1> HIDE DEF c
<1>14. /\ IsArray(c.to) /\ Outside(np, c.to, at, f.dn) /\ c.out \in Int
       /\ V - K * u = W - c.out * P(f.dn)
  <2>1. CASE ret = 0
    <3>1. c = s
      BY <1>13, <2>1
    <3>2. K = Q
      BY <1>5, <1>6, <2>1
    <3> QED BY <1>11, <3>1, <3>2
  <2>2. CASE ret = 1
    <3>1. c.to = r.to /\ c.out = s.out + r.out
      BY <1>13, <2>2
    <3>2. K * u = Q * u + P(qlen) * u
      BY <1>5, <1>6, <2>2
    <3>3. (s.out + r.out) * P(f.dn) = s.out * P(f.dn) + r.out * P(f.dn)
          /\ s.out * P(f.dn) \in Int /\ r.out * P(f.dn) \in Int
      BY <1>6, <1>11, <1>12
    <3>4. Fits(s.to, at, f.dn) /\ Fits(r.to, at, f.dn)
      BY <1>11, <1>12, FitsKept
    <3>5. Value(s.to, at, f.dn) \in Nat /\ Value(r.to, at, f.dn) \in Nat
      BY <1>11, <1>12, <3>4, ValueBounds DEF IsArray
    <3>6. Q * u \in Int /\ P(qlen) * u \in Int
      BY <1>5, <1>6
    <3> HIDE DEF V, K, Q, u
    <3>7. V - K * u = Value(r.to, at, f.dn) - (s.out + r.out) * P(f.dn)
      BY <1>5, <1>11, <1>12, <3>2, <3>3, <3>5, <3>6
    <3>8. Outside(np, r.to, at, f.dn)
      BY <1>11, <1>12, OutsideTwice
    <3> QED BY <1>11, <1>12, <3>1, <3>7, <3>8
  <2> QED BY <1>2, <2>1, <2>2
<1>15. ASSUME NEW h, h.d = f.d, h.dn = f.dn, h.cy = c.out, h.adds = 0
       PROVE  Fixing(h, X, at, q, qlen, ret, c.to, qp, dp)
  <2>1. Divisor(h, dp) = D /\ Value(c.to, at, h.dn) - h.cy * P(h.dn) = V - K * u
    BY <1>14, <1>15 DEF Divisor
  <2>2. Part(h, X, qlen, dp)
    BY <1>2, <1>15, <2>1 DEF Part
  <2>3. (2 - h.adds) * D = 2 * D /\ ret \in Int
    BY <1>1, <1>2, <1>15
  <2>4. V - K * u >= -((2 - h.adds) * D)
    BY <1>10, <2>3
  <2>5. X = K * D + (V - K * u) /\ V - K * u < D
    BY <1>10
  <2> DEFINE e == Value(c.to, at, h.dn) - h.cy * P(h.dn)
  <2>6. e < D /\ e >= -((2 - h.adds) * D) /\ X = K * D + e
    BY <2>1, <2>4, <2>5
  <2> HIDE DEF D
  <2> QED BY <2>1, <2>2, <2>3, <2>6 DEF Fixing, K, Q
<1> QED BY <1>14, <1>15 DEF c, k

(* The window of a call's dividend that a part of its quotient is found from. *)
LEMMA InWindow ==
  ASSUME IsArray(np), IsArray(dp), NEW f, Good(f, np, qp, dp, v), NEW at \in Nat,
         f.n <= at, at + f.dn <= f.n + f.qn + f.dn, NEW y, IsArray(y), Outside(np, y, at, f.dn)
  PROVE  Outside(np, y, f.n, f.qn + f.dn) /\ Fits(np, at, f.dn)
<1>1. f.n \in Nat /\ f.qn \in Nat /\ f.dn \in Nat /\ Fits(np, f.n, f.qn + f.dn)
  BY CallFacts
<1>2. /\ at \in Int /\ f.dn \in Int /\ f.n \in Int /\ f.qn + f.dn \in Int
      /\ at + f.dn <= f.n + (f.qn + f.dn)
  BY <1>1
<1>3. Outside(np, y, f.n, f.qn + f.dn)
  BY <1>2, OutsideWider
<1> QED BY <1>1, <1>2, <1>3, FitsWithin

LEMMA DcCrossHighStep == ASSUME IInv, DcCrossHigh PROVE IInv'
<1> DEFINE f == Top  at == f.n + Low(f)  q == f.q + Low(f)
           c == Cross(f, at, q, High(f), Low(f))
           h == [f EXCEPT !.pc = "fix high", !.qh = ret, !.cy = c.out, !.adds = 0]
<1>1. /\ stack # << >> /\ f.pc = "cross high" /\ f.fn = "dcn" /\ Becomes(h)
      /\ np' = c.to /\ qp' = qp /\ dp' = dp /\ v' = v /\ ret' = NoReturn
  BY DEF DcCrossHigh, At
<1>2. /\ Running(f, np, qp, dp, ret) /\ Good(f, np, qp, dp, v) /\ f \in Frames
      /\ IsArray(np) /\ IsArray(qp) /\ IsArray(dp) /\ ret \in Int
  BY <1>1, TopFacts
<1> HIDE DEF f
<1>3. PICK X \in Nat : /\ HighPart(f, X, np)
                       /\ Crossing(f, X, at, q, High(f), ret, np, qp, dp)
  BY <1>1, <1>2, RunningAt
<1>4. /\ f.n \in Nat /\ f.q \in Nat /\ f.dn \in Nat /\ f.qn = f.dn
      /\ Low(f) \in Nat /\ High(f) \in Nat /\ Low(f) + High(f) = f.dn /\ Low(f) <= High(f)
      /\ Fits(np, f.n, f.qn + f.dn) /\ Fits(qp, f.q, f.qn)
  BY <1>1, <1>2, CallFacts
<1>5. at \in Nat /\ f.n <= at /\ at + f.dn <= f.n + f.qn + f.dn /\ f.dn - High(f) = Low(f)
  BY <1>4
<1>6. Fits(np, at, f.dn) /\ Fits(qp, q, High(f)) /\ Fits(np, f.n, Low(f))
  <2>1. Fits(np, at, f.dn) /\ Fits(np, f.n, Low(f))
    BY <1>4, <1>5, FitsWithin
  <2>2. Fits(qp, f.q, Low(f) + High(f))
    BY <1>4
  <2> QED BY <1>4, <2>1, <2>2, FitsSplit
<1>7. /\ IsArray(c.to) /\ Outside(np, c.to, at, f.dn) /\ c.out \in Int
      /\ \A g : g.d = f.d /\ g.dn = f.dn /\ g.cy = c.out /\ g.adds = 0 =>
           Fixing(g, X, at, q, High(f), ret, c.to, qp, dp)
  <2> HIDE DEF at, q, c
  <2>1. LET b == Cross(f, at, q, High(f), f.dn - High(f))
        IN  /\ IsArray(b.to) /\ Outside(np, b.to, at, f.dn) /\ b.out \in Int
            /\ \A g : g.d = f.d /\ g.dn = f.dn /\ g.cy = b.out /\ g.adds = 0 =>
                 Fixing(g, X, at, q, High(f), ret, b.to, qp, dp)
    BY <1>2, <1>3, <1>6, CrossRight
  <2>2. c = Cross(f, at, q, High(f), f.dn - High(f))
    BY <1>5 DEF c
  <2> QED BY <2>1, <2>2
<1> HIDE DEF c
<1>8. /\ h \in Frames /\ h.fn = "dcn" /\ Alike(h, f) /\ h.pc = "fix high"
      /\ h.qh = ret /\ h.cy = c.out /\ h.adds = 0 /\ h.d = f.d /\ h.dn = f.dn /\ h.n = f.n /\ h.q = f.q
      /\ h.was = f.was /\ Bounded(h)
  <2> DEFINE pc == "fix high"
  <2>1. pc \in Labels
    BY DEF Labels
  <2>2. h = Crossed(f, pc, ret, c.out)
    BY DEF Crossed
  <2> HIDE DEF pc, h
  <2>3. /\ h \in Frames /\ Alike(h, f) /\ h.pc = pc /\ h.qh = ret /\ h.cy = c.out /\ h.adds = 0
    BY <1>2, <1>7, <2>1, <2>2, FrameCrossed
  <2>4. Bounded(h)
    BY <2>3 DEF Bounded
  <2>5. h.fn = f.fn
    BY <2>3 DEF Alike
  <2> QED BY <1>1, <2>3, <2>4, <2>5 DEF Alike, pc
<1> HIDE DEF h
<1>9. Low(h) = Low(f) /\ High(h) = High(f)
  BY <1>8 DEF Low, High
<1>10. Fixing(h, X, at, q, High(f), ret, c.to, qp, dp)
  BY <1>7, <1>8
<1>11. HighPart(h, X, c.to)
  <2>1. Value(c.to, f.n, Low(f)) = Value(np, f.n, Low(f))
    <3>1. f.n + Low(f) <= at /\ at \in Int /\ f.dn \in Int
      BY <1>4
    <3> HIDE DEF at
    <3> QED BY <1>2, <1>6, <1>7, <3>1, ValueKept
  <2> QED BY <1>3, <1>8, <1>9, <2>1 DEF HighPart
<1>12. Running(h, c.to, qp, dp, ret')
  <2>1. Fixing(h, X, h.n + Low(h), h.q + Low(h), High(h), h.qh, c.to, qp, dp)
    BY <1>8, <1>9, <1>10
  <2> QED BY <1>8, <1>11, <2>1 DEF Running
<1>13. Outside(np, c.to, f.n, f.qn + f.dn) /\ Outside(qp, qp, f.q, f.qn)
  BY <1>2, <1>5, <1>7, InWindow, NothingOutside
<1>14. ret' \in Int
  BY <1>1, NoReturnInt
<1> QED BY <1>1, <1>2, <1>7, <1>8, <1>12, <1>13, <1>14, UpdateStep DEF f

LEMMA DcCrossLowStep == ASSUME IInv, DcCrossLow PROVE IInv'
<1> DEFINE f == Top  c == Cross(f, f.n, f.q, Low(f), High(f))
           h == [f EXCEPT !.pc = "fix low", !.cy = c.out, !.adds = 0]
<1>1. /\ stack # << >> /\ f.pc = "cross low" /\ f.fn = "dcn" /\ Becomes(h)
      /\ np' = c.to /\ qp' = qp /\ dp' = dp /\ v' = v /\ ret' = NoReturn
  BY DEF DcCrossLow, At
<1>2. /\ Running(f, np, qp, dp, ret) /\ Good(f, np, qp, dp, v) /\ f \in Frames
      /\ IsArray(np) /\ IsArray(qp) /\ IsArray(dp) /\ ret \in Int
  BY <1>1, TopFacts
<1> HIDE DEF f
<1>3. PICK X \in Nat : LowPart(f, X, qp, dp) /\ Crossing(f, X, f.n, f.q, Low(f), ret, np, qp, dp)
  BY <1>1, <1>2, RunningAt
<1>4. /\ f.n \in Nat /\ f.q \in Nat /\ f.dn \in Nat /\ f.qn = f.dn
      /\ Low(f) \in Nat /\ High(f) \in Nat /\ Low(f) + High(f) = f.dn
      /\ Fits(np, f.n, f.qn + f.dn) /\ Fits(qp, f.q, f.qn)
  BY <1>1, <1>2, CallFacts
<1>5. f.n <= f.n /\ f.n + f.dn <= f.n + f.qn + f.dn /\ f.dn - Low(f) = High(f)
  BY <1>4
<1>6. Fits(np, f.n, f.dn) /\ Fits(qp, f.q, Low(f))
  BY <1>4, <1>5, FitsWithin
<1>7. /\ IsArray(c.to) /\ Outside(np, c.to, f.n, f.dn) /\ c.out \in Int
      /\ \A g : g.d = f.d /\ g.dn = f.dn /\ g.cy = c.out /\ g.adds = 0 =>
           Fixing(g, X, f.n, f.q, Low(f), ret, c.to, qp, dp)
  <2> HIDE DEF c
  <2>1. LET b == Cross(f, f.n, f.q, Low(f), f.dn - Low(f))
        IN  /\ IsArray(b.to) /\ Outside(np, b.to, f.n, f.dn) /\ b.out \in Int
            /\ \A g : g.d = f.d /\ g.dn = f.dn /\ g.cy = b.out /\ g.adds = 0 =>
                 Fixing(g, X, f.n, f.q, Low(f), ret, b.to, qp, dp)
    BY <1>2, <1>3, <1>6, CrossRight
  <2>2. c = Cross(f, f.n, f.q, Low(f), f.dn - Low(f))
    BY <1>5 DEF c
  <2> QED BY <2>1, <2>2
<1> HIDE DEF c
<1>8. /\ h \in Frames /\ h.fn = "dcn" /\ Alike(h, f) /\ h.pc = "fix low"
      /\ h.qh = f.qh /\ h.cy = c.out /\ h.adds = 0 /\ h.d = f.d /\ h.dn = f.dn /\ h.n = f.n /\ h.q = f.q
      /\ h.was = f.was /\ Bounded(h)
  <2> DEFINE pc == "fix low"
  <2>1. pc \in Labels
    BY DEF Labels
  <2>2. h = CrossedLow(f, pc, c.out)
    BY DEF CrossedLow
  <2> HIDE DEF pc, h
  <2>3. /\ h \in Frames /\ Alike(h, f) /\ h.pc = pc /\ h.qh = f.qh /\ h.cy = c.out /\ h.adds = 0
    BY <1>2, <1>7, <2>1, <2>2, FrameCrossedLow
  <2>4. Bounded(h)
    BY <2>3 DEF Bounded
  <2>5. h.fn = f.fn
    BY <2>3 DEF Alike
  <2> QED BY <1>1, <2>3, <2>4, <2>5 DEF Alike, pc
<1> HIDE DEF h
<1>9. Low(h) = Low(f) /\ High(h) = High(f)
  BY <1>8 DEF Low, High
<1>10. Fixing(h, X, h.n, h.q, Low(h), ret, c.to, qp, dp)
  BY <1>7, <1>8, <1>9
<1>11. LowPart(h, X, qp, dp)
  BY <1>3, <1>8, <1>9 DEF LowPart, Divisor
<1>12. Running(h, c.to, qp, dp, ret')
  BY <1>2, <1>8, <1>10, <1>11 DEF Running
<1>13. Outside(np, c.to, f.n, f.qn + f.dn) /\ Outside(qp, qp, f.q, f.qn)
  BY <1>2, <1>4, <1>5, <1>7, InWindow, NothingOutside
<1>14. ret' \in Int
  BY <1>1, NoReturnInt
<1> QED BY <1>1, <1>2, <1>7, <1>8, <1>12, <1>13, <1>14, UpdateStep DEF f

LEMMA ChunkCrossStep == ASSUME IInv, ChunkCross PROVE IInv'
<1> DEFINE f == Top  c == Cross(f, f.n, f.q, f.qn, f.dn - f.qn)
           h == [f EXCEPT !.pc = "fix", !.qh = ret, !.cy = c.out, !.adds = 0]
<1>1. /\ stack # << >> /\ f.pc = "cross" /\ f.fn = "chunk" /\ Becomes(h)
      /\ np' = c.to /\ qp' = qp /\ dp' = dp /\ v' = v /\ ret' = NoReturn
  BY DEF ChunkCross, At
<1>2. /\ Running(f, np, qp, dp, ret) /\ Good(f, np, qp, dp, v) /\ f \in Frames
      /\ IsArray(np) /\ IsArray(qp) /\ IsArray(dp) /\ ret \in Int
  BY <1>1, TopFacts
<1> HIDE DEF f
<1>3. Crossing(f, f.was, f.n, f.q, f.qn, ret, np, qp, dp)
  BY <1>1, <1>2, RunningAt
<1>4. /\ f.n \in Nat /\ f.q \in Nat /\ f.dn \in Nat /\ f.qn \in Nat
      /\ Fits(np, f.n, f.qn + f.dn) /\ Fits(qp, f.q, f.qn)
  BY <1>1, <1>2, CallFacts
<1>5. f.n <= f.n /\ f.n + f.dn <= f.n + f.qn + f.dn
  BY <1>4
<1>6. Fits(np, f.n, f.dn)
  BY <1>4, <1>5, FitsWithin
<1>7. /\ IsArray(c.to) /\ Outside(np, c.to, f.n, f.dn) /\ c.out \in Int
      /\ \A g : g.d = f.d /\ g.dn = f.dn /\ g.cy = c.out /\ g.adds = 0 =>
           Fixing(g, f.was, f.n, f.q, f.qn, ret, c.to, qp, dp)
  BY <1>2, <1>3, <1>4, <1>6, CrossRight
<1> HIDE DEF c
<1>8. /\ h \in Frames /\ h.fn = "chunk" /\ Alike(h, f) /\ h.pc = "fix"
      /\ h.qh = ret /\ h.cy = c.out /\ h.adds = 0 /\ h.d = f.d /\ h.dn = f.dn /\ h.n = f.n /\ h.q = f.q
      /\ h.was = f.was /\ h.qn = f.qn /\ Bounded(h)
  <2> DEFINE pc == "fix"
  <2>1. pc \in Labels
    BY DEF Labels
  <2>2. h = Crossed(f, pc, ret, c.out)
    BY DEF Crossed
  <2> HIDE DEF pc, h
  <2>3. /\ h \in Frames /\ Alike(h, f) /\ h.pc = pc /\ h.qh = ret /\ h.cy = c.out /\ h.adds = 0
    BY <1>2, <1>7, <2>1, <2>2, FrameCrossed
  <2>4. Bounded(h)
    BY <2>3 DEF Bounded
  <2>5. h.fn = f.fn
    BY <2>3 DEF Alike
  <2> QED BY <1>1, <2>3, <2>4, <2>5 DEF Alike, pc
<1> HIDE DEF h
<1>9. Fixing(h, h.was, h.n, h.q, h.qn, h.qh, c.to, qp, dp)
  BY <1>7, <1>8
<1>10. Running(h, c.to, qp, dp, ret')
  BY <1>8, <1>9 DEF Running
<1>11. Outside(np, c.to, f.n, f.qn + f.dn) /\ Outside(qp, qp, f.q, f.qn)
  BY <1>2, <1>4, <1>5, <1>7, InWindow, NothingOutside
<1>12. ret' \in Int
  BY <1>1, NoReturnInt
<1> QED BY <1>1, <1>2, <1>7, <1>8, <1>10, <1>11, <1>12, UpdateStep DEF f

(* One less of the quotient part, the divisor added back: twice at most. *)
LEMMA AddBackRight ==
  ASSUME IsArray(np), IsArray(qp), IsArray(dp), NEW f, Good(f, np, qp, dp, v),
         NEW X, NEW at, NEW q, NEW qlen, NEW e, Fixing(f, X, at, q, qlen, e, np, qp, dp), f.cy > 0,
         Fits(np, at, f.dn), Fits(qp, q, qlen)
  PROVE  LET s == SubN(qp, q, qlen, 1)
             a == AddN(np, at, f.dn, Den(f))
         IN  /\ IsArray(s.to) /\ Outside(qp, s.to, q, qlen) /\ s.out \in Int
             /\ IsArray(a.to) /\ Outside(np, a.to, at, f.dn) /\ a.out \in Int
             /\ f.adds \in {0, 1}
             /\ \A h : h.d = f.d /\ h.dn = f.dn /\ h.cy = f.cy - a.out /\ h.adds = f.adds + 1 =>
                  Fixing(h, X, at, q, qlen, e - s.out, a.to, s.to, dp)
<1> DEFINE s == SubN(qp, q, qlen, 1)  a == AddN(np, at, f.dn, Den(f))  D == Divisor(f, dp)
           p == P(qlen)  Q == Value(qp, q, qlen)  V == Value(np, at, f.dn)  w == P(f.dn)
           Q2 == Value(s.to, q, qlen)  V2 == Value(a.to, at, f.dn)
           K == e * p + Q  rest == V - f.cy * w
<1>1. /\ f.cy \in Int /\ f.adds \in Nat /\ f.dn \in Nat /\ D \in Nat /\ D = Den(f) /\ qlen \in Nat
  BY CallFacts DEF Divisor, Den, Fits
<1>2. p \in Nat \ {0} /\ w \in Nat \ {0} /\ Q \in Nat /\ V \in 0 .. w - 1
  <2>1. p \in Nat \ {0} /\ w \in Nat \ {0}
    BY <1>1, Scale
  <2>2. Q \in Nat /\ V \in 0 .. w - 1
    BY ValueBounds DEF IsArray
  <2> QED BY <2>1, <2>2
<1>3. /\ Part(f, X, qlen, dp) /\ e \in Int /\ X = K * D + rest
      /\ rest < D /\ rest >= -((2 - f.adds) * D)
  BY DEF Fixing
<1>4. /\ IsArray(s.to) /\ Outside(qp, s.to, q, qlen) /\ s.out \in Int
      /\ Q - 1 = Q2 - s.out * p
  BY SubNRight
<1>5. /\ IsArray(a.to) /\ Outside(np, a.to, at, f.dn) /\ a.out \in Int
      /\ V + D = V2 + a.out * w
  BY <1>1, AddNRight
<1> HIDE DEF s, a
<1>6. Q2 \in Nat /\ V2 \in Nat
  <2>1. Fits(s.to, q, qlen) /\ Fits(a.to, at, f.dn)
    BY <1>4, <1>5, FitsKept
  <2> QED BY <1>4, <1>5, <2>1, ValueBounds DEF IsArray
<1>7. rest < 0
  <2>1. 1 * w <= f.cy * w /\ f.cy * w \in Int
    BY <1>1, <1>2, MulLe
  <2> HIDE DEF V, w
  <2> QED BY <1>2, <2>1
<1>8. f.adds \in {0, 1}
  <2> SUFFICES ASSUME f.adds >= 2 PROVE FALSE
    BY <1>1
  <2>1. (2 - f.adds) * D <= 0 * D
    BY <1>1, MulLe
  <2>2. (2 - f.adds) * D \in Int
    BY <1>1
  <2>3. rest \in Int
    BY <1>1, <1>2
  <2> HIDE DEF rest
  <2> QED BY <1>1, <1>3, <1>7, <2>1, <2>2, <2>3
<1>9. ASSUME NEW h, h.d = f.d, h.dn = f.dn, h.cy = f.cy - a.out, h.adds = f.adds + 1
      PROVE  Fixing(h, X, at, q, qlen, e - s.out, a.to, s.to, dp)
  <2> DEFINE rest2 == V2 - h.cy * w  K2 == (e - s.out) * p + Q2
  <2>1. rest2 = rest + D
    <3>1. (f.cy - a.out) * w = f.cy * w - a.out * w /\ f.cy * w \in Int /\ a.out * w \in Int
      BY <1>1, <1>2, <1>5
    <3> HIDE DEF V, V2, w, D
    <3> QED BY <1>1, <1>2, <1>5, <1>6, <1>9, <3>1
  <2>2. K2 = K - 1
    <3>1. (e - s.out) * p = e * p - s.out * p /\ e * p \in Int /\ s.out * p \in Int
      BY <1>2, <1>3, <1>4
    <3>2. Q2 = Q - 1 + s.out * p
      <4> HIDE DEF Q, Q2, p
      <4> QED BY <1>2, <1>4, <1>6, <3>1
    <3> HIDE DEF Q, Q2, p
    <3> QED BY <1>2, <3>1, <3>2
  <2>3. K \in Int /\ rest \in Int
    BY <1>1, <1>2, <1>3
  <2>4. (K - 1) * D = K * D - D /\ K * D \in Int
    <3> HIDE DEF K, D
    <3> QED BY <1>1, <2>3
  <2>5. X = K2 * D + rest2
    <3> HIDE DEF K, K2, D, rest, rest2
    <3> QED BY <1>1, <1>3, <2>1, <2>2, <2>3, <2>4
  <2>6. (2 - h.adds) * D = (2 - f.adds) * D - D /\ (2 - f.adds) * D \in Int
    <3> HIDE DEF D
    <3> QED BY <1>1, <1>8, <1>9
  <2>7. rest2 < D /\ rest2 >= -((2 - h.adds) * D)
    <3> HIDE DEF D, rest, rest2
    <3> QED BY <1>1, <1>3, <1>7, <2>1, <2>3, <2>6
  <2>8. Part(h, X, qlen, dp) /\ Divisor(h, dp) = D /\ e - s.out \in Int
    BY <1>3, <1>4, <1>9 DEF Part, Divisor
  <2>9. Value(a.to, at, h.dn) - h.cy * P(h.dn) = rest2
    BY <1>9
  <2> HIDE DEF rest2, D
  <2> QED BY <2>5, <2>7, <2>8, <2>9 DEF Fixing, K2, p, Q2
<1> QED BY <1>4, <1>5, <1>8, <1>9 DEF s, a

LEMMA InQuotient ==
  ASSUME IsArray(qp), IsArray(dp), NEW f, Good(f, np, qp, dp, v), NEW q \in Nat, NEW qlen \in Nat,
         f.q <= q, q + qlen <= f.q + f.qn, NEW y, IsArray(y), Outside(qp, y, q, qlen)
  PROVE  Outside(qp, y, f.q, f.qn) /\ Fits(qp, q, qlen)
<1>1. f.q \in Nat /\ f.qn \in Nat /\ Fits(qp, f.q, f.qn)
  BY CallFacts
<1>2. q \in Int /\ qlen \in Int /\ f.q \in Int /\ f.qn \in Int
  BY <1>1
<1>3. Outside(qp, y, f.q, f.qn)
  BY <1>2, OutsideWider
<1> QED BY <1>1, <1>3, FitsWithin

LEMMA DcFixHighStep == ASSUME IInv, DcFixHigh PROVE IInv'
<1> DEFINE f == Top  at == f.n + Low(f)  q == f.q + Low(f)
           s == SubN(qp, q, High(f), 1)  a == AddN(np, at, f.dn, Den(f))
           h == [f EXCEPT !.cy = @ - a.out, !.adds = Counted(@), !.qh = @ - s.out]
<1>0. /\ stack # << >> /\ f.pc = "fix high" /\ f.cy > 0
      /\ np' = a.to /\ qp' = s.to /\ dp' = dp /\ v' = v /\ ret' = ret
  BY DEF DcFixHigh, AddBackDc, At
<1>1. /\ stack # << >> /\ f.pc = "fix high" /\ f.fn = "dcn" /\ f.cy > 0
      /\ np' = a.to /\ qp' = s.to /\ dp' = dp /\ v' = v /\ ret' = ret
  <2>1. Running(f, np, qp, dp, ret)
    BY <1>0, TopFacts
  <2> HIDE DEF f, a, s
  <2>2. f.fn = "dcn"
    BY <1>0, <2>1 DEF Running
  <2> QED BY <1>0, <2>2
<1>2. /\ Running(f, np, qp, dp, ret) /\ Good(f, np, qp, dp, v) /\ f \in Frames
      /\ IsArray(np) /\ IsArray(qp) /\ IsArray(dp) /\ ret \in Int
  BY <1>1, TopFacts
<1>3. Becomes(h)
  BY <1>0 DEF DcFixHigh, AddBackDc
<1> HIDE DEF f
<1>4. PICK X \in Nat : HighPart(f, X, np) /\ Fixing(f, X, at, q, High(f), f.qh, np, qp, dp)
  BY <1>1, <1>2, RunningAt
<1>5. /\ f.n \in Nat /\ f.q \in Nat /\ f.dn \in Nat /\ f.qn = f.dn /\ f.adds \in Nat
      /\ Low(f) \in Nat /\ High(f) \in Nat /\ Low(f) + High(f) = f.dn /\ Low(f) <= High(f)
      /\ Fits(np, f.n, f.qn + f.dn) /\ Fits(qp, f.q, f.qn)
  BY <1>1, <1>2, CallFacts
<1>6. /\ at \in Nat /\ f.n <= at /\ at + f.dn <= f.n + f.qn + f.dn
      /\ q \in Nat /\ f.q <= q /\ q + High(f) <= f.q + f.qn
  BY <1>5
<1>7. Fits(np, at, f.dn) /\ Fits(qp, q, High(f)) /\ Fits(np, f.n, Low(f))
  <2>1. f.qn + f.dn \in Nat /\ f.n + Low(f) <= f.n + (f.qn + f.dn) /\ at + f.dn <= f.n + (f.qn + f.dn)
        /\ f.n <= f.n
    BY <1>5
  <2>2. Fits(np, at, f.dn)
    BY <1>5, <1>6, <2>1, FitsWithin
  <2>3. Fits(qp, q, High(f))
    BY <1>5, <1>6, FitsWithin
  <2>4. Fits(np, f.n, Low(f))
    BY <1>5, <2>1, FitsWithin
  <2> QED BY <2>2, <2>3, <2>4
<1>8. /\ IsArray(s.to) /\ Outside(qp, s.to, q, High(f)) /\ s.out \in Int
      /\ IsArray(a.to) /\ Outside(np, a.to, at, f.dn) /\ a.out \in Int
      /\ f.adds \in {0, 1}
      /\ \A g : g.d = f.d /\ g.dn = f.dn /\ g.cy = f.cy - a.out /\ g.adds = f.adds + 1 =>
           Fixing(g, X, at, q, High(f), f.qh - s.out, a.to, s.to, dp)
  <2> HIDE DEF at, q
  <2> QED BY <1>1, <1>2, <1>4, <1>7, AddBackRight
<1> HIDE DEF s, a
<1>9. /\ h \in Frames /\ h.fn = "dcn" /\ Alike(h, f) /\ h.pc = "fix high"
      /\ h.qh = f.qh - s.out /\ h.cy = f.cy - a.out /\ h.adds = f.adds + 1
      /\ h.d = f.d /\ h.dn = f.dn /\ h.n = f.n /\ h.q = f.q /\ h.was = f.was
  <2>1. Counted(f.adds) = f.adds + 1 /\ f.adds + 1 \in Nat
    BY <1>8 DEF Counted
  <2> DEFINE e2 == f.qh - s.out  b == f.cy - a.out
  <2>2. e2 \in Int /\ b \in Int
    BY <1>2, <1>8, FrameTypes
  <2>3. h = Fixed(f, e2, b, f.adds + 1)
    BY <2>1 DEF Fixed
  <2> HIDE DEF h, e2, b
  <2>4. h \in Frames /\ Alike(h, f) /\ h.pc = f.pc /\ h.qh = e2 /\ h.cy = b /\ h.adds = f.adds + 1
    BY <1>2, <2>1, <2>2, <2>3, FrameFixed
  <2> QED BY <1>1, <2>4 DEF Alike, e2, b
<1> HIDE DEF h
<1>10. Low(h) = Low(f) /\ High(h) = High(f) /\ Bounded(h)
  <2>1. Low(h) = Low(f) /\ High(h) = High(f)
    BY <1>9 DEF Low, High
  <2>2. h.adds <= 2
    <3>1. f.adds + 1 <= 2
      BY <1>8
    <3> QED BY <1>9, <3>1
  <2>3. h.fn \notin {"sb", "core"}
    BY <1>9
  <2> QED BY <2>1, <2>2, <2>3 DEF Bounded
<1>11. Fixing(h, X, at, q, High(f), h.qh, a.to, s.to, dp)
  BY <1>8, <1>9
<1>12. HighPart(h, X, a.to)
  <2>1. Value(a.to, f.n, Low(f)) = Value(np, f.n, Low(f))
    <3>1. f.n + Low(f) <= at /\ at \in Int /\ f.dn \in Int
      BY <1>5
    <3> HIDE DEF at
    <3> QED BY <1>2, <1>7, <1>8, <3>1, ValueKept
  <2> QED BY <1>4, <1>9, <1>10, <2>1 DEF HighPart
<1>13. Running(h, a.to, s.to, dp, ret')
  BY <1>9, <1>10, <1>11, <1>12 DEF Running
<1>14. Outside(np, a.to, f.n, f.qn + f.dn) /\ Outside(qp, s.to, f.q, f.qn)
  BY <1>2, <1>5, <1>6, <1>8, InWindow, InQuotient
<1> QED BY <1>1, <1>2, <1>3, <1>8, <1>9, <1>10, <1>13, <1>14, UpdateStep DEF f

LEMMA DcFixLowStep == ASSUME IInv, DcFixLow PROVE IInv'
<1> DEFINE f == Top
           s == SubN(qp, f.q, Low(f), 1)  a == AddN(np, f.n, f.dn, Den(f))
           h == [f EXCEPT !.cy = @ - a.out, !.adds = Counted(@), !.qh = @]
<1>0. /\ stack # << >> /\ f.pc = "fix low" /\ f.cy > 0
      /\ np' = a.to /\ qp' = s.to /\ dp' = dp /\ v' = v /\ ret' = ret
  BY DEF DcFixLow, AddBackDc, At
<1>1. /\ stack # << >> /\ f.pc = "fix low" /\ f.fn = "dcn" /\ f.cy > 0
      /\ np' = a.to /\ qp' = s.to /\ dp' = dp /\ v' = v /\ ret' = ret
  <2>1. Running(f, np, qp, dp, ret)
    BY <1>0, TopFacts
  <2> HIDE DEF f, a, s
  <2>2. f.fn = "dcn"
    BY <1>0, <2>1 DEF Running
  <2> QED BY <1>0, <2>2
<1>2. /\ Running(f, np, qp, dp, ret) /\ Good(f, np, qp, dp, v) /\ f \in Frames
      /\ IsArray(np) /\ IsArray(qp) /\ IsArray(dp) /\ ret \in Int
  BY <1>1, TopFacts
<1>3. Becomes(h)
  BY <1>0 DEF DcFixLow, AddBackDc
<1> HIDE DEF f
<1>4. PICK X \in Nat, e \in Int :
        LowPart(f, X, qp, dp) /\ Fixing(f, X, f.n, f.q, Low(f), e, np, qp, dp)
  BY <1>1, <1>2, RunningAt
<1>5. /\ f.n \in Nat /\ f.q \in Nat /\ f.dn \in Nat /\ f.qn = f.dn /\ f.adds \in Nat
      /\ Low(f) \in Nat /\ High(f) \in Nat /\ Low(f) + High(f) = f.dn
      /\ Fits(np, f.n, f.qn + f.dn) /\ Fits(qp, f.q, f.qn)
  BY <1>1, <1>2, CallFacts
<1>6. /\ f.n <= f.n /\ f.n + f.dn <= f.n + f.qn + f.dn
      /\ f.q <= f.q /\ f.q + Low(f) <= f.q + f.qn
  BY <1>5
<1>7. Fits(np, f.n, f.dn) /\ Fits(qp, f.q, Low(f)) /\ Fits(qp, f.q + Low(f), High(f))
  <2>1. Fits(qp, f.q, Low(f) + High(f))
    BY <1>5
  <2> QED BY <1>5, <1>6, <2>1, FitsWithin, FitsSplit
<1>8. /\ IsArray(s.to) /\ Outside(qp, s.to, f.q, Low(f)) /\ s.out \in Int
      /\ IsArray(a.to) /\ Outside(np, a.to, f.n, f.dn) /\ a.out \in Int
      /\ f.adds \in {0, 1}
      /\ \A g : g.d = f.d /\ g.dn = f.dn /\ g.cy = f.cy - a.out /\ g.adds = f.adds + 1 =>
           Fixing(g, X, f.n, f.q, Low(f), e - s.out, a.to, s.to, dp)
  BY <1>1, <1>2, <1>4, <1>7, AddBackRight
<1> HIDE DEF s, a
<1>9. /\ h \in Frames /\ h.fn = "dcn" /\ Alike(h, f) /\ h.pc = "fix low"
      /\ h.qh = f.qh /\ h.cy = f.cy - a.out /\ h.adds = f.adds + 1
      /\ h.d = f.d /\ h.dn = f.dn /\ h.n = f.n /\ h.q = f.q /\ h.was = f.was
  <2>1. Counted(f.adds) = f.adds + 1 /\ f.adds + 1 \in Nat
    BY <1>8 DEF Counted
  <2> DEFINE e2 == f.qh  b == f.cy - a.out
  <2>2. e2 \in Int /\ b \in Int
    BY <1>2, <1>8, FrameTypes
  <2>3. h = Fixed(f, e2, b, f.adds + 1)
    BY <2>1 DEF Fixed
  <2> HIDE DEF h, e2, b
  <2>4. h \in Frames /\ Alike(h, f) /\ h.pc = f.pc /\ h.qh = e2 /\ h.cy = b /\ h.adds = f.adds + 1
    BY <1>2, <2>1, <2>2, <2>3, FrameFixed
  <2> QED BY <1>1, <2>4 DEF Alike, e2, b
<1> HIDE DEF h
<1>10. Low(h) = Low(f) /\ High(h) = High(f) /\ Bounded(h)
  <2>1. Low(h) = Low(f) /\ High(h) = High(f)
    BY <1>9 DEF Low, High
  <2>2. h.adds <= 2
    <3>1. f.adds + 1 <= 2
      BY <1>8
    <3> QED BY <1>9, <3>1
  <2>3. h.fn \notin {"sb", "core"}
    BY <1>9
  <2> QED BY <2>1, <2>2, <2>3 DEF Bounded
<1>11. Fixing(h, X, h.n, h.q, Low(h), e - s.out, a.to, s.to, dp) /\ e - s.out \in Int
  <2>1. Fixing(h, X, f.n, f.q, Low(f), e - s.out, a.to, s.to, dp)
    BY <1>8, <1>9
  <2>2. e - s.out \in Int
    BY <1>8
  <2> QED BY <1>9, <1>10, <2>1, <2>2
<1>12. LowPart(h, X, s.to, dp)
  <2>1. Value(s.to, f.q + Low(f), High(f)) = Value(qp, f.q + Low(f), High(f))
    <3>1. f.q + Low(f) <= f.q + Low(f) /\ f.q \in Int /\ Low(f) \in Int
      BY <1>5
    <3> QED BY <1>2, <1>7, <1>8, <3>1, ValueKept
  <2> QED BY <1>4, <1>9, <1>10, <2>1 DEF LowPart, Divisor
<1>13. Running(h, a.to, s.to, dp, ret')
  BY <1>9, <1>11, <1>12 DEF Running
<1>14. Outside(np, a.to, f.n, f.qn + f.dn) /\ Outside(qp, s.to, f.q, f.qn)
  BY <1>2, <1>5, <1>6, <1>8, InWindow, InQuotient
<1> QED BY <1>1, <1>2, <1>3, <1>8, <1>9, <1>10, <1>13, <1>14, UpdateStep DEF f

LEMMA ChunkFixStep == ASSUME IInv, ChunkFix PROVE IInv'
<1> DEFINE f == Top
           s == SubN(qp, f.q, f.qn, 1)  a == AddN(np, f.n, f.dn, Den(f))
           h == [f EXCEPT !.cy = @ - a.out, !.adds = Counted(@), !.qh = @ - s.out]
<1>1. /\ stack # << >> /\ f.pc = "fix" /\ f.fn \in {"dcn", "chunk"} /\ f.cy > 0
      /\ np' = a.to /\ qp' = s.to /\ dp' = dp /\ v' = v /\ ret' = ret
  BY DEF ChunkFix, AddBackDc, At
<1>2. /\ Running(f, np, qp, dp, ret) /\ Good(f, np, qp, dp, v) /\ f \in Frames
      /\ IsArray(np) /\ IsArray(qp) /\ IsArray(dp) /\ ret \in Int
  BY <1>1, TopFacts
<1>3. Becomes(h)
  BY <1>1 DEF ChunkFix, AddBackDc
<1> HIDE DEF f
<1>4. f.fn = "chunk" /\ Fixing(f, f.was, f.n, f.q, f.qn, f.qh, np, qp, dp)
  BY <1>1, <1>2 DEF Running
<1>5. /\ f.n \in Nat /\ f.q \in Nat /\ f.dn \in Nat /\ f.qn \in Nat /\ f.adds \in Nat
      /\ Fits(np, f.n, f.qn + f.dn) /\ Fits(qp, f.q, f.qn)
  BY <1>1, <1>2, CallFacts
<1>6. /\ f.n <= f.n /\ f.n + f.dn <= f.n + f.qn + f.dn
      /\ f.q <= f.q /\ f.q + f.qn <= f.q + f.qn
  BY <1>5
<1>7. Fits(np, f.n, f.dn)
  BY <1>5, <1>6, FitsWithin
<1>8. /\ IsArray(s.to) /\ Outside(qp, s.to, f.q, f.qn) /\ s.out \in Int
      /\ IsArray(a.to) /\ Outside(np, a.to, f.n, f.dn) /\ a.out \in Int
      /\ f.adds \in {0, 1}
      /\ \A g : g.d = f.d /\ g.dn = f.dn /\ g.cy = f.cy - a.out /\ g.adds = f.adds + 1 =>
           Fixing(g, f.was, f.n, f.q, f.qn, f.qh - s.out, a.to, s.to, dp)
  BY <1>1, <1>2, <1>4, <1>5, <1>7, AddBackRight
<1> HIDE DEF s, a
<1>9. /\ h \in Frames /\ h.fn = "chunk" /\ Alike(h, f) /\ h.pc = "fix"
      /\ h.qh = f.qh - s.out /\ h.cy = f.cy - a.out /\ h.adds = f.adds + 1
      /\ h.d = f.d /\ h.dn = f.dn /\ h.n = f.n /\ h.q = f.q /\ h.was = f.was /\ h.qn = f.qn
  <2>1. Counted(f.adds) = f.adds + 1 /\ f.adds + 1 \in Nat
    BY <1>8 DEF Counted
  <2> DEFINE e2 == f.qh - s.out  b == f.cy - a.out
  <2>2. e2 \in Int /\ b \in Int
    BY <1>2, <1>8, FrameTypes
  <2>3. h = Fixed(f, e2, b, f.adds + 1)
    BY <2>1 DEF Fixed
  <2> HIDE DEF h, e2, b
  <2>4. h \in Frames /\ Alike(h, f) /\ h.pc = f.pc /\ h.qh = e2 /\ h.cy = b /\ h.adds = f.adds + 1
    BY <1>2, <2>1, <2>2, <2>3, FrameFixed
  <2> QED BY <1>4, <1>1, <2>4 DEF Alike, e2, b
<1> HIDE DEF h
<1>10. Bounded(h)
  BY <1>8, <1>9 DEF Bounded
<1>11. Fixing(h, h.was, h.n, h.q, h.qn, h.qh, a.to, s.to, dp)
  BY <1>8, <1>9
<1>12. Running(h, a.to, s.to, dp, ret')
  BY <1>9, <1>11 DEF Running
<1>13. Outside(np, a.to, f.n, f.qn + f.dn) /\ Outside(qp, s.to, f.q, f.qn)
  BY <1>2, <1>5, <1>6, <1>8, InWindow
<1> QED BY <1>1, <1>2, <1>3, <1>8, <1>9, <1>10, <1>12, <1>13, UpdateStep DEF f

(* Schoolbook.  A divisor is normalized, .. *)
LEMMA DivisorHalf ==
  ASSUME NEW x, NEW y, NEW z, NEW s, NEW f, Good(f, x, y, z, s), IsArray(z)
  PROVE  P(f.dn) <= 2 * Divisor(f, z) /\ Divisor(f, z) \in Nat \ {0} /\ Divisor(f, z) < P(f.dn)
<1> DEFINE m == f.dn - 1
<1>1. /\ f.d \in Nat /\ f.dn \in Nat /\ f.dn >= 2 /\ Fits(z, f.d, f.dn)
      /\ Divisor(f, z) \in Nat /\ Divisor(f, z) < P(f.dn)
  BY CallFacts
<1>2. 2 * z[f.d + f.dn - 1] >= Beta
  BY DEF Good, Placed
<1>3. m \in Nat /\ m + 1 = f.dn /\ f.d + m = f.d + f.dn - 1
  BY <1>1
<1> HIDE DEF m
<1>4. P(m + 1) <= 2 * Value(z, f.d, m + 1)
  <2>1. Fits(z, f.d, m + 1) /\ 2 * z[f.d + m] >= Beta
    BY <1>1, <1>2, <1>3
  <2> QED BY <1>1, <1>3, <2>1, HalfRange
<1>5. P(f.dn) <= 2 * Divisor(f, z)
  BY <1>3, <1>4 DEF Divisor
<1>6. P(f.dn) \in Nat \ {0}
  BY <1>1, Scale
<1> QED BY <1>1, <1>5, <1>6

(* .. so from a dividend in its range at most one of it can be taken off the  *)
(* top, and only by a call that is not the outermost.                         *)
LEMMA SbStartStep == ASSUME IInv, SbStart PROVE IInv'
<1> DEFINE f == Top  D == Divisor(f, dp)  at == f.n + f.qn
           s == SubN(np, at, f.dn, Den(f))
           qh == IF f.fn = "sb" /\ s.out = 0 THEN 1 ELSE 0
           h == [f EXCEPT !.pc = "turn", !.qh = qh]
           x == IF qh = 1 THEN s.to ELSE np
           w == P(f.dn)  p == P(f.qn)  T == Value(np, at, f.dn)  T2 == Value(s.to, at, f.dn)
           low == Value(np, f.n, f.qn)
<1>1. /\ stack # << >> /\ f.pc = "start" /\ f.fn \in {"sb", "core"} /\ Becomes(h)
      /\ np' = x /\ qp' = qp /\ dp' = dp /\ v' = v /\ ret' = ret
  BY DEF SbStart, At
<1>2. /\ Running(f, np, qp, dp, ret) /\ Good(f, np, qp, dp, v) /\ f \in Frames
      /\ IsArray(np) /\ IsArray(qp) /\ IsArray(dp) /\ ret \in Int
  BY <1>1, TopFacts
<1> HIDE DEF f
<1>3. f.was = Value(np, f.n, f.qn + f.dn) /\ f.j = f.qn
  BY <1>1, <1>2, RunningAt
<1>4. /\ f.n \in Nat /\ f.q \in Nat /\ f.d \in Nat /\ f.dn \in Nat /\ f.qn \in Nat /\ f.adds \in Nat
      /\ Fits(np, f.n, f.qn + f.dn) /\ Fits(qp, f.q, f.qn) /\ at \in Nat
  BY <1>1, <1>2, CallFacts
<1>5. D \in Nat \ {0} /\ D < w /\ D = Den(f)
  BY <1>2, DivisorHalf DEF Den, Divisor
<1>6. w \in Nat \ {0} /\ p \in Nat \ {0}
  BY <1>4, Scale
<1>7. Fits(np, f.n, f.qn) /\ Fits(np, at, f.dn)
  BY <1>4, FitsSplit
<1>8. f.was = low + p * T
  BY <1>2, <1>3, <1>4, ValueSplit DEF IsArray
<1>9. low \in 0 .. p - 1 /\ low \in Nat /\ T \in 0 .. w - 1
  <2>1. low \in 0 .. p - 1 /\ low \in Nat
    BY <1>2, <1>7, ValueBounds DEF IsArray
  <2> QED BY <1>2, <1>7, <2>1, ValueBounds DEF IsArray
<1>10. /\ IsArray(s.to) /\ Outside(np, s.to, at, f.dn) /\ s.out \in Int
       /\ T - D = T2 - s.out * w
  <2>1. D \in Int
    BY <1>5
  <2> HIDE DEF D, at
  <2> QED BY <1>2, <1>5, <1>7, <2>1, SubNRight
<1> HIDE DEF s
<1>11. T2 \in 0 .. w - 1
  <2>1. Fits(s.to, at, f.dn)
    BY <1>7, <1>10, FitsKept
  <2> QED BY <1>10, <2>1, ValueBounds DEF IsArray
<1>12. T <= D /\ (f.fn = "core" => T < D)
  <2> HIDE DEF D, T, low, p
  <2>1. p * T \in Nat /\ p * T = T * p /\ T \in Nat
    BY <1>6, <1>9
  <2>2. f.was < (D + 1) * p
    BY <1>2 DEF Good, Fair, D, p
  <2>3. T < D + 1
    <3>1. T * p < (D + 1) * p
      <4>1. (D + 1) * p \in Nat
        BY <1>5, <1>6
      <4> QED BY <1>8, <1>9, <2>1, <2>2, <4>1
    <3>2. D + 1 \in Int
      BY <1>5
    <3> QED BY <1>6, <2>1, <3>1, <3>2, CancelLt
  <2>4. ASSUME f.fn = "core" PROVE T < D
    <3>1. f.was < D * p
      BY <1>2, <2>4 DEF Good, Fair, D, p
    <3>2. T * p < D * p
      <4>1. D * p \in Nat
        BY <1>5, <1>6
      <4> QED BY <1>8, <1>9, <2>1, <3>1, <4>1
    <3> QED BY <1>5, <1>6, <2>1, <3>2, CancelLt
  <2> QED BY <1>5, <2>1, <2>3, <2>4
<1>13. /\ IsArray(x) /\ Outside(np, x, at, f.dn) /\ qh \in {0, 1}
       /\ Value(x, at, f.dn) < D /\ T = qh * D + Value(x, at, f.dn)
  <2>1. CASE qh = 1
    <3>1. s.out = 0 /\ x = s.to
      BY <2>1
    <3>2. s.out * w = 0
      BY <1>6, <3>1
    <3>3. T2 < D /\ T = D + T2
      <4> HIDE DEF T, T2, D, w
      <4> QED BY <1>5, <1>9, <1>10, <1>11, <1>12, <3>1, <3>2
    <3>4. qh * D = D
      BY <1>5, <2>1
    <3> QED BY <1>10, <2>1, <3>1, <3>3, <3>4
  <2>2. CASE qh # 1
    <3>1. qh = 0 /\ x = np /\ (f.fn = "core" \/ s.out # 0)
      BY <1>1, <2>2
    <3>2. T < D
      <4>1. CASE f.fn = "core"
        BY <1>12, <4>1
      <4>2. CASE s.out # 0
        <5> SUFFICES ASSUME T >= D PROVE FALSE
          BY <1>5, <1>9
        <5>1. s.out * w \in Int /\ (s.out >= 1 => 1 * w <= s.out * w) /\ (s.out <= -1 => s.out * w <= (-1) * w)
          BY <1>6, <1>10, MulLe
        <5>2. s.out >= 1 \/ s.out <= -1
          BY <1>10, <4>2
        <5> HIDE DEF T, T2, D, w
        <5> QED BY <1>5, <1>6, <1>9, <1>10, <1>11, <5>1, <5>2
      <4> QED BY <3>1, <4>1, <4>2
    <3>3. Outside(np, np, at, f.dn)
      BY NothingOutside
    <3>4. qh * D = 0
      BY <1>5, <3>1
    <3>5. T = qh * D + T
      BY <1>9, <3>4
    <3> QED BY <1>2, <3>1, <3>2, <3>3, <3>5
  <2> QED BY <2>1, <2>2
<1> HIDE DEF x, qh
<1>14. Fits(x, f.n, f.qn) /\ Fits(x, at, f.dn) /\ Fits(x, f.n, f.qn + f.dn)
  BY <1>4, <1>7, <1>13, FitsKept
<1>15. Value(x, f.n, f.qn + f.dn) = low + p * Value(x, at, f.dn)
  <2>1. Value(x, f.n, f.qn) = low
    <3>1. f.n + f.qn <= at /\ at \in Int /\ f.dn \in Int
      BY <1>4
    <3> HIDE DEF at
    <3> QED BY <1>2, <1>7, <1>13, <3>1, ValueKept
  <2>2. Value(x, f.n, f.qn + f.dn) = Value(x, f.n, f.qn) + p * Value(x, at, f.dn)
    BY <1>4, <1>13, <1>14, ValueSplit DEF IsArray
  <2> QED BY <2>1, <2>2
<1>16. f.was = (qh * p) * D + Value(x, f.n, f.qn + f.dn)
  <2> DEFINE t == Value(x, at, f.dn)
  <2>1. t \in Nat
    BY <1>13, <1>14, ValueBounds DEF IsArray
  <2>2. T = qh * D + t
    BY <1>13
  <2> HIDE DEF t, D, p, low, T
  <2>3. p * (qh * D + t) = (qh * p) * D + p * t /\ p * t \in Nat /\ (qh * p) * D \in Nat
    BY <1>5, <1>6, <1>13, <2>1
  <2>4. f.was = low + ((qh * p) * D + p * t)
    BY <1>8, <2>2, <2>3
  <2>5. Value(x, f.n, f.qn + f.dn) = low + p * t
    BY <1>15 DEF t
  <2> QED BY <1>9, <2>3, <2>4, <2>5
<1>17. Found(f, f.qn, qh, qp) = qh * p
  <2>1. f.q + f.qn \in Nat /\ f.qn - f.qn = 0
    BY <1>4
  <2>2. Value(qp, f.q + f.qn, 0) = 0
    BY <1>2, <2>1, ValueShort DEF IsArray
  <2>3. P(f.qn) * 0 = 0 /\ qh * p \in Int
    BY <1>6, <1>13
  <2> QED BY <2>1, <2>2, <2>3 DEF Found
<1>18. /\ h \in Frames /\ Alike(h, f) /\ h.pc = "turn" /\ h.qh = qh /\ h.j = f.j /\ h.adds = f.adds
  <2>1. qh \in Int
    BY <1>13
  <2> QED BY <1>2, <2>1 DEF Frames, Labels, Alike
<1> HIDE DEF h
<1>19. Turned(h, h.j, h.qh, x, qp, dp)
  <2>1. f.qn \in 0 .. f.qn
    BY <1>4
  <2>2. Turned(f, f.qn, qh, x, qp, dp)
    BY <1>13, <1>16, <1>17, <2>1 DEF Turned
  <2> QED BY <1>3, <1>18, <2>2 DEF Turned, Found, Divisor, Alike
<1>20. Running(h, x, qp, dp, ret)
  <2>1. h.fn \in {"sb", "core"}
    BY <1>1, <1>18 DEF Alike
  <2> QED BY <1>18, <1>19, <2>1 DEF Running
<1>21. Outside(np, x, f.n, f.qn + f.dn) /\ Outside(qp, qp, f.q, f.qn)
  <2>1. /\ at \in Int /\ f.dn \in Int /\ f.n \in Int /\ f.qn + f.dn \in Int /\ f.n <= at
        /\ at + f.dn <= f.n + (f.qn + f.dn)
    BY <1>4
  <2> HIDE DEF at
  <2> QED BY <1>2, <1>13, <2>1, OutsideWider, NothingOutside
<1>22. Bounded(h)
  BY <1>2, <1>18 DEF Good, Bounded, Alike
<1> QED BY <1>1, <1>2, <1>13, <1>18, <1>20, <1>21, <1>22, UpdateStep DEF f

(* A turn: W, the window of dn + 1 blocks that its quotient block divides. *)
TurnOf(f, j, W) ==
  /\ j \in Nat /\ j <= f.qn - 1 /\ f.n + j \in Nat /\ f.j = j + 1
  /\ Fits(np, f.n + j, f.dn) /\ Fits(np, f.n, j) /\ Fits(np, f.n + j, f.dn + 1)
  /\ N2(f, j) \in 0 .. Beta - 1
  /\ W \in Nat /\ W < Beta * Divisor(f, dp)
  /\ W = Value(np, f.n + j, f.dn) + P(f.dn) * N2(f, j)
  /\ f.qh \in {0, 1}
  /\ f.was = Found(f, j + 1, f.qh, qp) * Divisor(f, dp) + (Value(np, f.n, j) + P(j) * W)

LEMMA TurnFacts ==
  ASSUME IsArray(np), IsArray(qp), IsArray(dp), NEW f, Good(f, np, qp, dp, v),
         Turned(f, f.j, f.qh, np, qp, dp), f.j > 0
  PROVE  TurnOf(f, f.j - 1, Value(np, f.n + (f.j - 1), f.dn + 1))
<1> DEFINE j == f.j - 1  at == f.n + j  W == Value(np, at, f.dn + 1)  D == Divisor(f, dp)
           b == np[at]  R == Value(np, f.n + f.j, f.dn)
<1>1. /\ f.n \in Nat /\ f.dn \in Nat /\ f.qn \in Nat /\ D \in Nat
      /\ Fits(np, f.n, f.qn + f.dn)
  BY CallFacts
<1>2. /\ f.j \in 0 .. f.qn /\ f.qh \in {0, 1} /\ R < D
      /\ f.was = Found(f, f.j, f.qh, qp) * D + Value(np, f.n, f.j + f.dn)
  BY DEF Turned
<1>3. /\ j \in Nat /\ j <= f.qn - 1 /\ at \in Nat /\ f.j = j + 1 /\ at + 1 = f.n + f.j
      /\ j + (f.dn + 1) = f.j + f.dn /\ 1 + f.dn = f.dn + 1 /\ f.dn + 1 \in Nat /\ f.j + f.dn \in Nat
  BY <1>1, <1>2
<1> HIDE DEF j
<1>4. Fits(np, f.n, j) /\ Fits(np, at, f.dn + 1)
  <2>1. /\ f.qn + f.dn \in Nat /\ f.n <= f.n /\ f.n + j <= f.n + (f.qn + f.dn) /\ f.n <= at
        /\ at + (f.dn + 1) <= f.n + (f.qn + f.dn)
    BY <1>1, <1>3
  <2>2. Fits(np, f.n, j)
    BY <1>1, <1>3, <2>1, FitsWithin
  <2>3. Fits(np, at, f.dn + 1)
    <3> HIDE DEF at
    <3> QED BY <1>1, <1>3, <2>1, FitsWithin
  <2> QED BY <2>2, <2>3
<1>5. Fits(np, at, f.dn) /\ Fits(np, at + f.dn, 1) /\ Fits(np, at, 1) /\ Fits(np, at + 1, f.dn)
  <2> HIDE DEF at
  <2>1. Fits(np, at, 1 + f.dn)
    BY <1>3, <1>4
  <2>2. Fits(np, at, f.dn) /\ Fits(np, at + f.dn, 1)
    BY <1>1, <1>3, <1>4, FitsSplit
  <2> QED BY <1>1, <1>3, <2>1, <2>2, FitsSplit
<1>6. W = Value(np, at, f.dn) + P(f.dn) * N2(f, j) /\ N2(f, j) \in 0 .. Beta - 1
  <2> DEFINE c == at + f.dn
  <2>1. c \in DOMAIN np /\ c \in Nat /\ f.n + j + f.dn = c
    <3>1. 0 \in Blocks(1) /\ c + 0 = c /\ c \in Nat /\ f.n + j + f.dn = c
      BY <1>1, <1>3 DEF Blocks
    <3> QED BY <1>5, <3>1 DEF Fits
  <2>2. N2(f, j) = np[c] /\ np[c] \in 0 .. Beta - 1
    BY <2>1 DEF N2, IsArray, Digits, Blocks
  <2>3. W = Value(np, at, f.dn) + P(f.dn) * Value(np, c, 1)
    BY <1>1, <1>3, <1>4, ValueSplit DEF IsArray
  <2> HIDE DEF c, at, W
  <2>4. Value(np, c, 1) = np[c]
    BY <2>1, ValueShort DEF IsArray
  <2> QED BY <2>2, <2>3, <2>4
<1>7. W = b + Beta * R /\ b \in 0 .. Beta - 1
  <2>1. at \in DOMAIN np
    <3>1. 0 \in Blocks(1) /\ at + 0 = at
      BY <1>3 DEF Blocks
    <3> QED BY <1>5, <3>1 DEF Fits
  <2>2. b \in 0 .. Beta - 1
    BY <2>1 DEF IsArray, Digits, Blocks
  <2>3. Fits(np, at, 1 + f.dn)
    BY <1>3, <1>4
  <2>4. Value(np, at, 1 + f.dn) = Value(np, at, 1) + P(1) * Value(np, at + 1, f.dn)
    BY <1>1, <1>3, <2>3, ValueSplit DEF IsArray
  <2>5. Value(np, at, 1) = b
    BY <1>3, <2>1, ValueShort DEF IsArray
  <2>6. P(1) = Beta
    BY Scales
  <2> QED BY <1>3, <2>2, <2>4, <2>5, <2>6
<1>8. W \in Nat /\ W < Beta * D
  <2>1. R \in Nat
    BY <1>3, <1>5, ValueBounds DEF IsArray
  <2> HIDE DEF R, W, b, D
  <2>2. (R + 1) * Beta <= D * Beta /\ (R + 1) * Beta = Beta * R + Beta /\ D * Beta = Beta * D
        /\ Beta * R \in Nat /\ Beta * D \in Nat
    BY <1>1, <1>2, <2>1, Base, MulLe
  <2> QED BY <1>7, <2>2, Base
<1>9. Value(np, f.n, f.j + f.dn) = Value(np, f.n, j) + P(j) * W
  <2>1. Fits(np, f.n, j + (f.dn + 1))
    <3>1. /\ f.qn + f.dn \in Nat /\ f.n <= f.n /\ f.n + (j + (f.dn + 1)) <= f.n + (f.qn + f.dn)
          /\ j + (f.dn + 1) \in Nat
      BY <1>1, <1>3
    <3> QED BY <1>1, <3>1, FitsWithin
  <2>2. Value(np, f.n, j + (f.dn + 1)) = Value(np, f.n, j) + P(j) * W
    BY <1>1, <1>3, <2>1, ValueSplit DEF IsArray
  <2> QED BY <1>3, <2>2
<1>10. f.was = Found(f, j + 1, f.qh, qp) * D + (Value(np, f.n, j) + P(j) * W)
  BY <1>2, <1>3, <1>9
<1> HIDE DEF W, at, D
<1>11. TurnOf(f, j, W)
  BY <1>2, <1>3, <1>4, <1>5, <1>6, <1>8, <1>10 DEF TurnOf, at, D
<1> QED BY <1>11 DEF j, W, at

(* What the turn leaves: qhat times the divisor, and the rest. *)
LEMMA TurnTaken ==
  ASSUME IsArray(np), IsArray(qp), IsArray(dp), NEW f, Good(f, np, qp, dp, v),
         NEW j, NEW W, TurnOf(f, j, W), NEW x, IsArray(x), Outside(np, x, f.n + j, f.dn),
         NEW h, h \in Frames, Alike(h, f), h.j = j, h.qh = f.qh,
         h.qhat \in Blocks(Beta), h.cy \in {0, 1},
         NEW rest, rest = Value(x, f.n + j, f.dn) - h.cy * P(f.dn),
         W = h.qhat * Divisor(f, dp) + rest,
         -Divisor(f, dp) <= rest, rest < Divisor(f, dp),
         h.cy = 1 => h.adds = 0 /\ h.qhat >= 1,
         h.pc = "rare" => h.top = IF h.cy = 1 THEN Beta - 1 ELSE 0
  PROVE  Corrected(h, x, qp, dp)
<1> DEFINE at == f.n + j  D == Divisor(f, dp)  F == Found(f, j + 1, f.qh, qp)
           t == Value(x, at, f.dn)  low == Value(np, f.n, j)  c == h.cy  a == h.qhat  p == P(j)  w == P(f.dn)
<1>1. /\ f.n \in Nat /\ f.dn \in Nat /\ f.qn \in Nat /\ f.q \in Nat /\ D \in Nat
      /\ Fits(qp, f.q, f.qn) /\ Fits(np, f.n, f.qn + f.dn)
  BY CallFacts
<1>2. /\ j \in Nat /\ j <= f.qn - 1 /\ at \in Nat /\ f.j = j + 1
      /\ Fits(np, at, f.dn) /\ Fits(np, f.n, j) /\ W \in Nat /\ f.qh \in {0, 1}
      /\ f.was = F * D + (low + p * W)
  BY DEF TurnOf
<1>3. p \in Nat \ {0} /\ w \in Nat \ {0} /\ P(j + f.dn) = p * w
  <2>1. p \in Nat \ {0} /\ w \in Nat \ {0}
    BY <1>1, <1>2, Scale
  <2>2. P(j + f.dn) = p * w
    BY <1>1, <1>2, Scales
  <2> QED BY <2>1, <2>2
<1>4. Value(x, f.n, j + f.dn) = low + p * t
  <2>1. Fits(np, f.n, j + f.dn)
    <3>1. j + f.dn \in Nat /\ f.qn + f.dn \in Nat /\ f.n <= f.n /\ f.n + (j + f.dn) <= f.n + (f.qn + f.dn)
      BY <1>1, <1>2
    <3> QED BY <1>1, <3>1, FitsWithin
  <2>2. Fits(x, f.n, j + f.dn)
    BY <2>1, FitsKept
  <2>3. Value(x, f.n, j) = low
    <3>1. f.n + j <= at /\ at \in Int /\ f.dn \in Int
      BY <1>1, <1>2
    <3>2. Outside(np, x, at, f.dn)
      OBVIOUS
    <3> HIDE DEF at
    <3> QED BY <1>2, <3>1, <3>2, ValueKept
  <2>4. Value(x, f.n, j + f.dn) = Value(x, f.n, j) + p * t
    BY <1>1, <1>2, <2>2, ValueSplit DEF IsArray
  <2> QED BY <2>3, <2>4
<1>5. t \in Nat /\ low \in Nat
  <2>1. Fits(x, at, f.dn)
    BY <1>2, FitsKept
  <2>2. t \in Nat
    BY <2>1, ValueBounds DEF IsArray
  <2> QED BY <1>2, <2>2, ValueBounds DEF IsArray
<1>6. F \in Int
  <2>1. /\ f.q + (j + 1) \in Nat /\ f.qn - (j + 1) \in Nat /\ f.q <= f.q + (j + 1)
        /\ (f.q + (j + 1)) + (f.qn - (j + 1)) <= f.q + f.qn /\ j + 1 \in Nat
    BY <1>1, <1>2
  <2>2. Fits(qp, f.q + (j + 1), f.qn - (j + 1))
    BY <1>1, <2>1, FitsWithin
  <2>3. Value(qp, f.q + (j + 1), f.qn - (j + 1)) \in Nat
    BY <2>2, ValueBounds DEF IsArray
  <2>4. P(f.qn) \in Nat /\ P(j + 1) \in Nat
    BY <1>1, <2>1, Scale
  <2> QED BY <1>2, <2>3, <2>4 DEF Found
<1>7. a \in Nat /\ c \in Int /\ a \in Int
  BY Base DEF Blocks
<1>8. f.was = (F + p * a) * D + Value(x, f.n, j + f.dn) - c * P(j + f.dn)
  <2>1. W = a * D + (t - c * w)
    OBVIOUS
  <2> HIDE DEF F, p, a, D, t, c, w, low
  <2> DEFINE e == a * D  g == c * w
  <2>2. e \in Int /\ g \in Int
    BY <1>1, <1>3, <1>7
  <2>3. (F + p * a) * D = F * D + p * e /\ c * (p * w) = p * g
    BY <1>1, <1>3, <1>6, <1>7
  <2> HIDE DEF e, g
  <2>4. p * (e + (t - g)) = p * e + p * t - p * g
    BY <1>3, <1>5, <2>2
  <2>5. p * e \in Int /\ p * t \in Int /\ p * g \in Int /\ F * D \in Int
    BY <1>1, <1>3, <1>5, <1>6, <2>2
  <2>6. W = e + (t - g)
    BY <2>1 DEF e, g
  <2>7. f.was = F * D + (low + (p * e + p * t - p * g))
    BY <1>2, <2>4, <2>6
  <2> QED BY <1>3, <1>4, <1>5, <2>3, <2>5, <2>7
<1>9. Found(h, h.j + 1, h.qh, qp) = F /\ Divisor(h, dp) = D /\ h.dn = f.dn /\ h.n = f.n /\ h.qn = f.qn /\ h.was = f.was
  BY DEF Found, Divisor, Alike
<1>10. h.j \in 0 .. h.qn - 1
  BY <1>1, <1>2, <1>9
<1> HIDE DEF F, D
<1>11. h.was = (Found(h, h.j + 1, h.qh, qp) + P(h.j) * h.qhat) * Divisor(h, dp)
               + Value(x, h.n, h.j + h.dn) - h.cy * P(h.j + h.dn)
  BY <1>8, <1>9
<1>12. Value(x, h.n + h.j, h.dn) - h.cy * P(h.dn) = rest
  BY <1>9
<1> QED BY <1>2, <1>9, <1>10, <1>11, <1>12 DEF Corrected, D

(* The two top blocks of a window, which div3by2 sees. *)
LEMMA TopTwo ==
  ASSUME NEW x, IsArray(x), NEW at \in Nat, NEW m \in Nat, Fits(x, at, m + 2)
  PROVE  /\ Fits(x, at, m) /\ Fits(x, at + m, 2)
         /\ x[at + m] \in 0 .. Beta - 1 /\ x[at + m + 1] \in 0 .. Beta - 1
         /\ Value(x, at + m, 2) = x[at + m + 1] * Beta + x[at + m]
         /\ Value(x, at, m) \in 0 .. P(m) - 1 /\ Value(x, at, m) \in Nat
         /\ Value(x, at, m + 2) = Value(x, at, m) + P(m) * (x[at + m + 1] * Beta + x[at + m])
<1> DEFINE c == at + m
<1>1. Fits(x, at, m) /\ Fits(x, c, 2)
  BY FitsSplit
<1>2. c \in Nat /\ c + 1 \in Nat /\ at + m + 1 = c + 1 /\ 1 + 1 = 2 /\ 1 \in Nat
  OBVIOUS
<1>3. Value(x, at, m + 2) = Value(x, at, m) + P(m) * Value(x, c, 2)
  BY ValueSplit DEF IsArray
<1>4. Value(x, at, m) \in 0 .. P(m) - 1 /\ Value(x, at, m) \in Nat
  BY <1>1, ValueBounds DEF IsArray
<1> HIDE DEF c
<1>5. c \in DOMAIN x /\ c + 1 \in DOMAIN x
  <2>1. 0 \in Blocks(2) /\ 1 \in Blocks(2) /\ c + 0 = c
    BY <1>2 DEF Blocks
  <2> QED BY <1>1, <2>1 DEF Fits
<1>6. x[c] \in 0 .. Beta - 1 /\ x[c + 1] \in 0 .. Beta - 1
  BY <1>5 DEF IsArray, Digits, Blocks
<1>7. Value(x, c, 2) = x[c + 1] * Beta + x[c]
  <2>1. Fits(x, c, 1 + 1)
    BY <1>1, <1>2
  <2>2. Value(x, c, 1 + 1) = Value(x, c, 1) + P(1) * Value(x, c + 1, 1)
    BY <1>2, <2>1, ValueSplit DEF IsArray
  <2>3. Value(x, c, 1) = x[c] /\ Value(x, c + 1, 1) = x[c + 1]
    BY <1>2, <1>5, ValueShort DEF IsArray
  <2>4. P(1) = Beta
    BY Scales
  <2>5. Beta * x[c + 1] + x[c] = x[c + 1] * Beta + x[c] /\ Beta * x[c + 1] \in Int
    BY <1>6, Base
  <2> QED BY <1>2, <1>6, <2>2, <2>3, <2>4, <2>5, Base
<1> QED BY <1>1, <1>2, <1>3, <1>4, <1>6, <1>7 DEF c

LEMMA DivisorBlocks ==
  ASSUME NEW f, Good(f, np, qp, dp, v), IsArray(dp)
  PROVE  LET m == f.dn - 2
             l == Value(dp, f.d, m)
         IN  /\ m \in Nat /\ m + 2 = f.dn /\ l \in Nat /\ l < P(m)
             /\ D1(f) \in 0 .. Beta - 1 /\ D0(f) \in 0 .. Beta - 1 /\ 2 * D1(f) >= Beta
             /\ v = Exact(D1(f), D0(f))
             /\ Divisor(f, dp) = l + P(m) * (D1(f) * Beta + D0(f))
             /\ P(m) \in Nat \ {0} /\ P(f.dn) = (P(m) * Beta) * Beta
<1> DEFINE m == f.dn - 2  l == Value(dp, f.d, m)
<1>1. f.dn \in Nat /\ f.dn >= 2 /\ f.d \in Nat /\ Fits(dp, f.d, f.dn)
  BY CallFacts
<1>2. m \in Nat /\ m + 2 = f.dn /\ f.d + m + 1 = f.d + f.dn - 1 /\ f.d + m = f.d + f.dn - 2
  BY <1>1
<1>3. 2 * D1(f) >= Beta /\ v = Exact(D1(f), D0(f))
  BY DEF Good, Placed, D1, D0
<1> HIDE DEF m
<1>4. Fits(dp, f.d, m + 2)
  BY <1>1, <1>2
<1>5. /\ dp[f.d + m] \in 0 .. Beta - 1 /\ dp[f.d + m + 1] \in 0 .. Beta - 1
      /\ l \in 0 .. P(m) - 1 /\ l \in Nat
      /\ Value(dp, f.d, m + 2) = l + P(m) * (dp[f.d + m + 1] * Beta + dp[f.d + m])
  BY <1>1, <1>2, <1>4, TopTwo
<1>6. dp[f.d + m] = D0(f) /\ dp[f.d + m + 1] = D1(f)
  BY <1>2 DEF D0, D1
<1>7. P(m) \in Nat \ {0}
  BY <1>2, Scale
<1>8. P(f.dn) = (P(m) * Beta) * Beta
  <2>1. P(m + 2) = P(m) * P(2) /\ P(2) = Beta * Beta
    BY <1>2, Scales
  <2>2. P(m) * (Beta * Beta) = (P(m) * Beta) * Beta
    BY <1>7, Base
  <2> QED BY <1>2, <2>1, <2>2
<1>9. l < P(m)
  BY <1>5, <1>7
<1> QED BY <1>2, <1>3, <1>5, <1>6, <1>7, <1>8, <1>9 DEF Divisor, m

(* A top block that equals the divisor's: Beta - 1 is right or one too large. *)
EqualTop(D, w, d1, d0, p, l, W, t, t2, o) ==
  /\ D \in Nat \ {0} /\ w \in Nat \ {0} /\ w <= 2 * D /\ D < w
  /\ d1 \in Nat /\ d0 \in Nat /\ d0 <= Beta - 1 /\ p \in Nat \ {0} /\ w = (p * Beta) * Beta
  /\ l \in Nat /\ l < p /\ D = l + p * (d1 * Beta + d0)
  /\ W \in Nat /\ W < Beta * D /\ t \in Nat /\ W = t + w * d1
  /\ t2 \in Nat /\ t2 < w /\ o \in Int /\ t - (Beta - 1) * D = t2 - o * w

LEMMA RareArith ==
  ASSUME NEW D, NEW w, NEW d1, NEW d0, NEW p, NEW l, NEW W, NEW t, NEW t2, NEW o,
         EqualTop(D, w, d1, d0, p, l, W, t, t2, o)
  PROVE  LET rest == t2 + (d1 - o) * w
         IN  /\ W = (Beta - 1) * D + rest /\ -D <= rest /\ rest < D
             /\ d1 - o \in {0, -1}
<1> USE DEF EqualTop
<1> DEFINE rest == t2 + (d1 - o) * w  E == (Beta - 1) * D
<1>1. E \in Nat /\ Beta * D = E + D
  BY Base
<1>2. (d1 - o) * w = w * d1 - o * w /\ w * d1 \in Int /\ o * w \in Int /\ (d1 - o) * w \in Int
  OBVIOUS
<1>3. W = E + rest
  <2>1. t - E = t2 - o * w
    OBVIOUS
  <2> HIDE DEF E
  <2> QED BY <1>1, <1>2, <2>1
<1>4. Beta * D < w * d1 + w
  <2>1. D < p * ((d1 + 1) * Beta)
    <3>1. (d1 * Beta + d0 + 1) * p <= ((d1 + 1) * Beta) * p
      <4>1. d1 * Beta + d0 + 1 <= (d1 + 1) * Beta /\ d1 * Beta + d0 + 1 \in Int /\ (d1 + 1) * Beta \in Int
        BY Base
      <4> QED BY <4>1, MulLe
    <3> DEFINE y == d1 * Beta + d0  u == (d1 + 1) * Beta
    <3>2. y \in Nat /\ u \in Nat /\ (y + 1) * p <= u * p /\ D = l + p * y
      BY <3>1, Base
    <3> HIDE DEF y, u
    <3>3. (y + 1) * p = p * y + p /\ u * p = p * u /\ p * y \in Nat /\ p * u \in Nat
      BY <3>2
    <3>4. D < p * u
      BY <3>2, <3>3
    <3> QED BY <3>4 DEF u
  <2> DEFINE u == p * ((d1 + 1) * Beta)
  <2>2. u \in Nat /\ u * Beta = w * d1 + w
    <3>1. u * Beta = ((p * Beta) * Beta) * (d1 + 1) /\ u \in Nat
      BY Base
    <3>2. w * (d1 + 1) = w * d1 + w
      OBVIOUS
    <3> QED BY <3>1, <3>2
  <2>3. D < u
    BY <2>1
  <2> HIDE DEF u
  <2>4. D * Beta < u * Beta /\ D * Beta = Beta * D
    BY <2>2, <2>3, Base, MulLt
  <2> QED BY <2>2, <2>4
<1>5. -D <= rest /\ rest < D
  <2> HIDE DEF E, rest
  <2>1. rest \in Int
    BY <1>2 DEF rest
  <2> QED BY <1>1, <1>2, <1>3, <1>4, <2>1
<1>6. d1 - o \in {0, -1}
  <2> DEFINE z == d1 - o
  <2>1. z \in Int /\ rest = t2 + z * w
    OBVIOUS
  <2> HIDE DEF rest, E, z
  <2>2. (z >= 1 => 1 * w <= z * w) /\ (z <= -2 => z * w <= (-2) * w) /\ z * w \in Int
    BY <2>1, MulLe
  <2>3. ~(z >= 1) /\ ~(z <= -2)
    BY <1>5, <2>1, <2>2
  <2> QED BY <2>1, <2>3 DEF z
<1> HIDE DEF rest, E
<1> QED BY <1>3, <1>5, <1>6 DEF rest, E

RareFrame(f, j, top, cy) ==
  [f EXCEPT !.j = j, !.qhat = Beta - 1, !.top = top, !.cy = cy, !.pc = "rare", !.adds = 0]

LEMMA FrameRare ==
  ASSUME NEW f \in Frames, NEW j \in Int, NEW top \in Int, NEW cy \in Int
  PROVE  LET h == RareFrame(f, j, top, cy)
         IN  /\ h \in Frames /\ Alike(h, f) /\ h.pc = "rare" /\ h.j = j /\ h.qhat = Beta - 1
             /\ h.top = top /\ h.cy = cy /\ h.adds = 0 /\ h.qh = f.qh
<1>1. Beta - 1 \in Int /\ "rare" \in Labels
  BY Base DEF Labels
<1> QED BY <1>1 DEF Frames, Alike, RareFrame

(* A schoolbook step of the innermost call that writes in dn blocks of its  *)
(* window, none, or the block above them.                                   *)
LEMMA TurnWindow ==
  ASSUME IsArray(np), IsArray(dp), NEW f, Good(f, np, qp, dp, v), NEW j \in Nat, j <= f.qn - 1,
         NEW x, Outside(np, x, f.n + j, f.dn)
  PROVE  Outside(np, x, f.n, f.qn + f.dn) /\ Outside(qp, qp, f.q, f.qn)
<1>1. f.n \in Nat /\ f.qn \in Nat /\ f.dn \in Nat
  BY CallFacts
<1> DEFINE at == f.n + j
<1>2. /\ at \in Int /\ f.dn \in Int /\ f.n \in Int /\ f.qn + f.dn \in Int /\ f.n <= at
      /\ at + f.dn <= f.n + (f.qn + f.dn)
  BY <1>1
<1>3. Outside(np, x, at, f.dn)
  OBVIOUS
<1> HIDE DEF at
<1>4. Outside(np, x, f.n, f.qn + f.dn)
  BY <1>2, <1>3, OutsideWider
<1> QED BY <1>4, NothingOutside

LEMMA RareTurnStep == ASSUME IInv, RareTurn PROVE IInv'
<1> DEFINE f == Top  j == f.j - 1  at == f.n + j  D == Divisor(f, dp)
           s == SubN(np, at, f.dn, (Beta - 1) * Den(f))
           top == N2(f, j) - s.out
           h == RareFrame(f, j, top % Beta, IF top < 0 THEN 1 ELSE 0)
           W == Value(np, at, f.dn + 1)  w == P(f.dn)  t == Value(np, at, f.dn)  t2 == Value(s.to, at, f.dn)
<1>1. /\ stack # << >> /\ f.pc = "turn" /\ f.fn \in {"sb", "core"} /\ f.j > 0 /\ Becomes(h)
      /\ Rare(f, j) /\ np' = s.to /\ qp' = qp /\ dp' = dp /\ v' = v /\ ret' = ret
  BY DEF RareTurn, At, RareFrame
<1>2. /\ Running(f, np, qp, dp, ret) /\ Good(f, np, qp, dp, v) /\ f \in Frames
      /\ IsArray(np) /\ IsArray(qp) /\ IsArray(dp) /\ ret \in Int
  BY <1>1, TopFacts
<1> HIDE DEF f
<1>3. Turned(f, f.j, f.qh, np, qp, dp)
  BY <1>1, <1>2, RunningAt
<1>4. TurnOf(f, j, W)
  BY <1>1, <1>2, <1>3, TurnFacts
<1> HIDE DEF j
<1>5. /\ j \in Nat /\ j <= f.qn - 1 /\ at \in Nat /\ Fits(np, at, f.dn) /\ W \in Nat /\ W < Beta * D
      /\ W = t + w * N2(f, j) /\ N2(f, j) = D1(f) /\ f.dn \in Nat
  BY <1>1, <1>4 DEF TurnOf, Rare, Fits
<1>6. D \in Nat \ {0} /\ D < w /\ w <= 2 * D /\ D = Den(f) /\ w \in Nat \ {0}
  <2>1. D \in Nat \ {0} /\ D < w /\ w <= 2 * D
    BY <1>2, DivisorHalf
  <2>2. D = Den(f) /\ w \in Nat \ {0}
    BY <1>5, Scale DEF Divisor, Den
  <2> QED BY <2>1, <2>2
<1>7. /\ IsArray(s.to) /\ Outside(np, s.to, at, f.dn) /\ s.out \in Int
      /\ t - (Beta - 1) * D = t2 - s.out * w
  <2> DEFINE val == (Beta - 1) * Den(f)
  <2>1. val \in Int /\ val = (Beta - 1) * D
    BY <1>6, Base
  <2>2. s = SubN(np, at, f.dn, val)
    OBVIOUS
  <2> HIDE DEF val, at, s, D
  <2>3. LET c == SubN(np, at, f.dn, val)
        IN  /\ IsArray(c.to) /\ Outside(np, c.to, at, f.dn) /\ c.out \in Int
            /\ Value(np, at, f.dn) - val = Value(c.to, at, f.dn) - c.out * P(f.dn)
    BY <1>2, <1>5, <2>1, SubNRight
  <2> QED BY <2>1, <2>2, <2>3
<1> HIDE DEF s
<1>8. t \in Nat /\ t2 \in 0 .. w - 1
  <2>1. t \in Nat
    BY <1>2, <1>5, ValueBounds DEF IsArray
  <2>2. Fits(s.to, at, f.dn)
    BY <1>5, <1>7, FitsKept
  <2> QED BY <1>7, <2>1, <2>2, ValueBounds DEF IsArray
<1> DEFINE rest == t2 + top * w
<1>9. W = (Beta - 1) * D + rest /\ -D <= rest /\ rest < D /\ top \in {0, -1}
  <2> DEFINE m == f.dn - 2  l == Value(dp, f.d, m)  d1 == D1(f)  d0 == D0(f)  p == P(m)  o == s.out
  <2>1. /\ l \in Nat /\ l < p /\ d1 \in Nat /\ d0 \in Nat /\ d0 <= Beta - 1
        /\ D = l + p * (d1 * Beta + d0) /\ p \in Nat \ {0} /\ w = (p * Beta) * Beta
    <3>1. /\ l \in Nat /\ l < p /\ d1 \in 0 .. Beta - 1 /\ d0 \in 0 .. Beta - 1
          /\ D = l + p * (d1 * Beta + d0) /\ p \in Nat \ {0} /\ w = (p * Beta) * Beta
      BY <1>2, DivisorBlocks
    <3> HIDE DEF l, p, d1, d0, D, w
    <3> QED BY <3>1, Base
  <2>2. t2 \in Nat /\ t2 < w /\ o \in Int /\ W = t + w * d1 /\ t - (Beta - 1) * D = t2 - o * w
    BY <1>5, <1>6, <1>7, <1>8
  <2>3. top = d1 - o
    BY <1>5
  <2>4. t \in Nat /\ W \in Nat /\ W < Beta * D /\ D \in Nat \ {0} /\ D < w /\ w <= 2 * D /\ w \in Nat \ {0}
    BY <1>5, <1>6, <1>8
  <2> HIDE DEF l, p, d1, d0, o, D, w, W, t, t2, top
  <2>5. LET r == t2 + (d1 - o) * w
        IN  W = (Beta - 1) * D + r /\ -D <= r /\ r < D /\ d1 - o \in {0, -1}
    <3>1. EqualTop(D, w, d1, d0, p, l, W, t, t2, o)
      BY <2>1, <2>2, <2>4 DEF EqualTop
    <3> QED BY <3>1, RareArith
  <2> QED BY <2>3, <2>5
<1> DEFINE cy == IF top < 0 THEN 1 ELSE 0
<1>10. cy \in {0, 1} /\ top = -cy /\ top % Beta = (IF cy = 1 THEN Beta - 1 ELSE 0) /\ top % Beta \in Int
  <2>1. CASE top = 0
    <3>1. 0 % Beta = 0
      <4>1. 0 = 0 * Beta + 0 /\ 0 \in 0 .. Beta - 1 /\ 0 \in Int
        BY Base
      <4> QED BY <4>1, Base, DivModUnique
    <3> QED BY <2>1, <3>1
  <2>2. CASE top = -1
    <3>1. (-1) % Beta = Beta - 1
      <4>1. -1 = (-1) * Beta + (Beta - 1) /\ Beta - 1 \in 0 .. Beta - 1 /\ -1 \in Int
        BY Base
      <4> QED BY <4>1, Base, DivModUnique
    <3> QED BY <2>2, <3>1, Base
  <2> QED BY <1>9, <2>1, <2>2
<1>11. rest = t2 - cy * w
  <2>1. top * w = -(cy * w) /\ cy * w \in Int
    BY <1>6, <1>10
  <2> HIDE DEF top, cy, w, t2
  <2> QED BY <1>8, <1>6, <2>1
<1>12. /\ h \in Frames /\ Alike(h, f) /\ h.pc = "rare" /\ h.j = j /\ h.qhat = Beta - 1
       /\ h.top = top % Beta /\ h.cy = cy /\ h.adds = 0 /\ h.qh = f.qh
  <2>1. h = RareFrame(f, j, top % Beta, cy)
    OBVIOUS
  <2>2. j \in Int /\ cy \in Int /\ top % Beta \in Int
    BY <1>5, <1>10
  <2> HIDE DEF h, cy, top
  <2> QED BY <1>2, <2>1, <2>2, FrameRare
<1> HIDE DEF h, top, cy, rest, W
<1>13. Corrected(h, s.to, qp, dp)
  <2> DEFINE x == s.to
  <2>1. IsArray(x) /\ Outside(np, x, f.n + j, f.dn)
    BY <1>7
  <2>2. /\ h.qhat \in Blocks(Beta) /\ h.cy \in {0, 1} /\ (h.cy = 1 => h.adds = 0 /\ h.qhat >= 1)
        /\ (h.pc = "rare" => h.top = IF h.cy = 1 THEN Beta - 1 ELSE 0)
    BY <1>10, <1>12, Base DEF Blocks
  <2>3. /\ rest = Value(x, f.n + j, f.dn) - h.cy * P(f.dn) /\ W = h.qhat * Divisor(f, dp) + rest
        /\ -Divisor(f, dp) <= rest /\ rest < Divisor(f, dp)
    BY <1>9, <1>11, <1>12
  <2> HIDE DEF x
  <2>4. Corrected(h, x, qp, dp)
    BY <1>2, <1>4, <1>12, <2>1, <2>2, <2>3, TurnTaken
  <2> QED BY <2>4 DEF x
<1>14. Running(h, s.to, qp, dp, ret)
  <2>1. h.fn \in {"sb", "core"}
    BY <1>1, <1>12 DEF Alike
  <2> QED BY <1>12, <1>13, <2>1 DEF Running
<1>15. Bounded(h)
  BY <1>12 DEF Bounded
<1>16. Outside(np, s.to, f.n, f.qn + f.dn) /\ Outside(qp, qp, f.q, f.qn)
  BY <1>2, <1>5, <1>7, TurnWindow
<1> QED BY <1>1, <1>2, <1>7, <1>12, <1>14, <1>15, <1>16, UpdateStep DEF f

(* Any other top block: the estimate is of the divisor's top two blocks d, so *)
(* what the rest of the divisor, l, takes may be a divisor too much.          *)
OtherTop(D, p, d, l, lo, q, e, W, t2, o) ==
  /\ p \in Nat \ {0} /\ d \in Nat /\ Beta <= d /\ d < Beta * Beta
  /\ l \in Nat /\ l < p /\ D = l + p * d
  /\ lo \in Nat /\ lo < p /\ q \in Nat /\ q <= Beta - 1 /\ e \in Nat /\ e < d
  /\ W = lo + p * (q * d + e)
  /\ t2 \in Nat /\ t2 < p /\ o \in Int /\ lo - q * l = t2 - o * p

LEMMA UsualArith ==
  ASSUME NEW D, NEW p, NEW d, NEW l, NEW lo, NEW q, NEW e, NEW W, NEW t2, NEW o,
         OtherTop(D, p, d, l, lo, q, e, W, t2, o)
  PROVE  LET r == e - o
             rest == t2 + p * r
         IN  /\ W = q * D + rest /\ -D <= rest /\ rest < D
             /\ r \in Int /\ -(Beta * Beta) <= r /\ r < Beta * Beta
             /\ (r < 0 => q >= 1)
<1> USE DEF OtherTop
<1> DEFINE r == e - o  rest == t2 + p * r  a == q * l  b == p * d  c == p * e
<1>1. /\ a \in Nat /\ b \in Nat /\ c \in Nat /\ r \in Int /\ p * r = c - o * p /\ o * p \in Int
      /\ p * r \in Int /\ D \in Nat /\ D = l + b
  OBVIOUS
<1>2. rest = lo - a + c
  <2>1. lo - a = t2 - o * p
    OBVIOUS
  <2> HIDE DEF a, c, r
  <2> QED BY <1>1, <2>1
<1>3. W = q * D + rest
  <2>1. p * (q * d + e) = q * b + c /\ q * (l + b) = a + q * b /\ q * b \in Nat
    OBVIOUS
  <2>2. W = lo + (q * b + c) /\ q * D = a + q * b
    BY <1>1, <2>1
  <2> HIDE DEF a, b, c, rest
  <2> QED BY <1>1, <1>2, <2>1, <2>2
<1>4. rest < D
  <2>1. (e + 1) * p <= d * p
    <3>1. e + 1 <= d /\ e + 1 \in Int /\ d \in Int
      OBVIOUS
    <3> QED BY <3>1, MulLe
  <2>2. (e + 1) * p = c + p /\ d * p = b
    OBVIOUS
  <2> HIDE DEF a, b, c, rest
  <2> QED BY <1>1, <1>2, <2>1, <2>2
<1>5. a <= D
  <2>1. q * l <= Beta * l
    <3>1. q <= Beta /\ q \in Int /\ Beta \in Int
      BY Base
    <3> QED BY <3>1, MulLe
  <2>2. l * Beta <= p * Beta
    <3>1. l <= p /\ l \in Int /\ p \in Int /\ Beta \in Nat
      BY Base
    <3> QED BY <3>1, MulLe
  <2>3. Beta * p <= d * p
    <3>1. Beta \in Int /\ d \in Int /\ p \in Nat
      BY Base
    <3> QED BY <3>1, MulLe
  <2>4. Beta * l = l * Beta /\ p * Beta = Beta * p /\ d * p = b /\ Beta * l \in Nat /\ Beta * p \in Nat
    BY Base
  <2> HIDE DEF b
  <2>5. a <= b
    BY <1>1, <2>1, <2>2, <2>3, <2>4
  <2> HIDE DEF a
  <2> QED BY <1>1, <2>5
<1>6. -D <= rest /\ rest \in Int
  <2> HIDE DEF a, c, rest, b
  <2> QED BY <1>1, <1>2, <1>5
<1>7. r < 0 => q >= 1
  <2> SUFFICES ASSUME r <= -1, q = 0 PROVE FALSE
    BY <1>1
  <2>1. a = 0
    OBVIOUS
  <2>2. r * p <= (-1) * p /\ r * p = p * r
    BY <1>1, MulLe
  <2> HIDE DEF a, c, r
  <2>3. rest < 0
    BY <1>1, <2>2
  <2> HIDE DEF rest
  <2> QED BY <1>1, <1>2, <2>1, <2>3
<1>8. r < Beta * Beta
  <2> SUFFICES ASSUME d + 1 <= r PROVE FALSE
    BY <1>1, Base
  <2>1. (d + 1) * p <= r * p /\ r * p = p * r /\ (d + 1) * p = b + p
    BY <1>1, MulLe
  <2> HIDE DEF b, r
  <2>2. rest >= b + p
    BY <1>1, <2>1
  <2> HIDE DEF rest
  <2> QED BY <1>1, <1>4, <1>6, <2>2
<1>9. -(Beta * Beta) <= r
  <2> SUFFICES ASSUME r <= -(d + 2) PROVE FALSE
    BY <1>1, Base
  <2>1. r * p <= (-(d + 2)) * p /\ r * p = p * r /\ (-(d + 2)) * p = -(b + 2 * p)
    BY <1>1, MulLe
  <2> HIDE DEF b, r
  <2>2. rest <= t2 - (b + 2 * p)
    BY <1>1, <2>1
  <2> HIDE DEF rest
  <2> QED BY <1>1, <1>6, <2>2
<1> HIDE DEF rest
<1> QED BY <1>1, <1>3, <1>4, <1>6, <1>7, <1>8, <1>9 DEF rest

UsualFrame(f, j, q, cy) == [f EXCEPT !.j = j, !.qhat = q, !.cy = cy, !.pc = "usual", !.adds = 0]

LEMMA FrameUsual ==
  ASSUME NEW f \in Frames, NEW j \in Int, NEW q \in Int, NEW cy \in Int
  PROVE  LET h == UsualFrame(f, j, q, cy)
         IN  /\ h \in Frames /\ Alike(h, f) /\ h.pc = "usual" /\ h.j = j /\ h.qhat = q
             /\ h.cy = cy /\ h.adds = 0 /\ h.qh = f.qh
<1>1. "usual" \in Labels
  BY DEF Labels
<1> QED BY <1>1 DEF Frames, Alike, UsualFrame

(* What div3by2 is asked in a turn, and answers. *)
Answered(f, j, W) ==
  LET m == f.dn - 2
      d == D1(f) * Beta + D0(f)
      e == Estimate(f, j)
  IN  /\ N2(f, j) * Beta + N1(f, j) < d
      /\ e.q \in 0 .. Beta - 1 /\ e.r \in 0 .. d - 1
      /\ (N2(f, j) * Beta + N1(f, j)) * Beta + N0(f, j) = e.q * d + e.r
      /\ W = Value(np, f.n + j, m) + P(m) * (e.q * d + e.r)
      /\ Value(np, f.n + j, m) \in Nat /\ Value(np, f.n + j, m) < P(m)
      /\ Fits(np, f.n + j, m) /\ Fits(np, f.n + j + m, 2)

(* .. for which it must be a question it has the range for, .. *)
Answerable(u2, u1, u0, d1, d0) ==
  /\ u2 \in 0 .. Beta - 1 /\ u1 \in 0 .. Beta - 1 /\ u0 \in 0 .. Beta - 1
  /\ d1 \in 0 .. Beta - 1 /\ d0 \in 0 .. Beta - 1 /\ 2 * d1 >= Beta
  /\ u2 * Beta + u1 < d1 * Beta + d0

LEMMA Answers ==
  ASSUME NEW u2, NEW u1, NEW u0, NEW d1, NEW d0, Answerable(u2, u1, u0, d1, d0)
  PROVE  LET D == d1 * Beta + d0
             e == Div3by2(u2, u1, u0, d1, d0, Exact(d1, d0))
         IN  /\ e.q \in 0 .. Beta - 1 /\ e.r \in 0 .. D - 1
             /\ (u2 * Beta + u1) * Beta + u0 = e.q * D + e.r
<1> USE DEF Answerable
<1> QED BY Div3by2Exact

(* .. whose top two blocks' quotient by Beta is the top one. *)
LEMMA TopBlock ==
  ASSUME NEW a \in Int, NEW r \in 0 .. Beta - 1
  PROVE  (a * Beta + r) \div Beta = a
<1> DEFINE x == a * Beta + r
<1>1. x \in Int /\ x = a * Beta + r /\ Beta \in Nat \ {0}
  BY Base
<1> HIDE DEF x
<1>2. x \div Beta = a
  BY <1>1, DivModUnique
<1> QED BY <1>2 DEF x

LEMMA EstimateRight ==
  ASSUME IsArray(np), IsArray(qp), IsArray(dp), NEW f, Good(f, np, qp, dp, v),
         NEW j, NEW W, TurnOf(f, j, W), ~Rare(f, j)
  PROVE  Answered(f, j, W)
<1> DEFINE m == f.dn - 2  at == f.n + j  D == Divisor(f, dp)  l == Value(dp, f.d, m)  lo == Value(np, at, m)
           u2 == N2(f, j)  u1 == N1(f, j)  u0 == N0(f, j)  d1 == D1(f)  d0 == D0(f)  p == P(m)
           d == d1 * Beta + d0  e == Estimate(f, j)  y == u2 * Beta + u1
<1>1. /\ m \in Nat /\ m + 2 = f.dn /\ l \in Nat /\ l < p
      /\ d1 \in 0 .. Beta - 1 /\ d0 \in 0 .. Beta - 1 /\ 2 * d1 >= Beta /\ v = Exact(d1, d0)
      /\ D = l + p * d /\ p \in Nat \ {0} /\ P(f.dn) = (p * Beta) * Beta
  BY DivisorBlocks
<1>2. /\ at \in Nat /\ Fits(np, at, f.dn) /\ W \in Nat /\ W < Beta * D
      /\ W = Value(np, at, f.dn) + P(f.dn) * u2 /\ u2 \in 0 .. Beta - 1
  BY DEF TurnOf
<1>3. j \in Nat /\ f.n \in Nat
  BY CallFacts DEF TurnOf
<1> HIDE DEF m
<1>4. /\ Fits(np, at, m) /\ Fits(np, at + m, 2) /\ lo \in Nat /\ lo < p
      /\ u1 \in 0 .. Beta - 1 /\ u0 \in 0 .. Beta - 1
      /\ Value(np, at, f.dn) = lo + p * (u1 * Beta + u0)
  <2> DEFINE g == np[at + m + 1]  k == np[at + m]
  <2>1. Fits(np, at, m + 2)
    BY <1>1, <1>2
  <2>2. /\ Fits(np, at, m) /\ Fits(np, at + m, 2)
        /\ k \in 0 .. Beta - 1 /\ g \in 0 .. Beta - 1
        /\ lo \in 0 .. p - 1 /\ lo \in Nat
        /\ Value(np, at, m + 2) = lo + p * (g * Beta + k)
    BY <1>1, <1>2, <2>1, TopTwo
  <2>3. u1 = g /\ u0 = k
    <3>1. f.n + j + f.dn - 1 = at + m + 1 /\ f.n + j + f.dn - 2 = at + m
      BY <1>1, <1>3
    <3> QED BY <3>1 DEF N1, N0
  <2>4. lo < p
    <3> HIDE DEF lo, p
    <3> QED BY <1>1, <2>2
  <2> HIDE DEF g, k
  <2> QED BY <1>1, <2>2, <2>3, <2>4
<1> HIDE DEF u2, u1, u0, d1, d0, at, D, p, l, lo
<1>5. W = lo + p * (y * Beta + u0)
  <2>1. ((p * Beta) * Beta) * u2 = p * ((u2 * Beta) * Beta)
    BY <1>1, <1>2, Base
  <2>2. p * (y * Beta + u0) = p * ((u2 * Beta) * Beta) + p * (u1 * Beta + u0)
    <3> DEFINE A == (u2 * Beta) * Beta  C == u1 * Beta + u0
    <3>1. y * Beta + u0 = A + C /\ A \in Int /\ C \in Int
      BY <1>2, <1>4, Base
    <3> HIDE DEF A, C
    <3>2. p * (A + C) = p * A + p * C
      BY <1>1, <3>1
    <3> QED BY <3>1, <3>2 DEF A, C
  <2>3. p * ((u2 * Beta) * Beta) \in Int /\ p * (u1 * Beta + u0) \in Int
    BY <1>1, <1>2, <1>4, Base
  <2> HIDE DEF y
  <2> QED BY <1>1, <1>2, <1>4, <2>1, <2>2, <2>3
<1>6. y < d
  <2>1. y \in Nat /\ d \in Nat
    BY <1>1, <1>2, <1>4, Base
  <2>2. y # d
    <3> SUFFICES ASSUME y = d PROVE FALSE
      OBVIOUS
    <3>1. y \div Beta = u2
      BY <1>2, <1>4, TopBlock
    <3>2. d \div Beta = d1
      BY <1>1, TopBlock
    <3>3. u2 = d1
      BY <3>1, <3>2
    <3> QED BY <3>3 DEF Rare, u2, d1
  <2> HIDE DEF y, d
  <2>3. y < d + 1
    <3> DEFINE c == p * Beta
    <3>1. c \in Nat \ {0} /\ y * c \in Nat /\ (d + 1) * c \in Nat /\ d + 1 \in Int
      BY <1>1, <2>1, Base
    <3>2. p * (y * Beta + u0) = y * c + p * u0 /\ p * u0 \in Nat
      BY <1>1, <1>4, <2>1, Base
    <3>3. Beta * D = Beta * l + d * c /\ Beta * l \in Nat /\ d * c \in Nat /\ (d + 1) * c = d * c + c
      BY <1>1, <2>1, Base
    <3>4. Beta * l < c
      <4>1. l * Beta < p * Beta /\ l * Beta = Beta * l
        BY <1>1, Base, MulLt
      <4> QED BY <4>1
    <3> HIDE DEF c
    <3>5. y * c < (d + 1) * c
      BY <1>2, <1>4, <1>5, <3>1, <3>2, <3>3, <3>4
    <3> QED BY <2>1, <3>1, <3>5, CancelLt
  <2> QED BY <2>1, <2>2, <2>3
<1>7. /\ e.q \in 0 .. Beta - 1 /\ e.r \in 0 .. d - 1
      /\ y * Beta + u0 = e.q * d + e.r
  <2>1. e = Div3by2(u2, u1, u0, d1, d0, Exact(d1, d0))
    BY <1>1 DEF Estimate, u2, u1, u0, d1, d0
  <2>2. Answerable(u2, u1, u0, d1, d0)
    BY <1>1, <1>2, <1>4, <1>6 DEF Answerable
  <2> HIDE DEF e
  <2>3. LET d9 == d1 * Beta + d0
            e9 == Div3by2(u2, u1, u0, d1, d0, Exact(d1, d0))
        IN  /\ e9.q \in 0 .. Beta - 1 /\ e9.r \in 0 .. d9 - 1
            /\ (u2 * Beta + u1) * Beta + u0 = e9.q * d9 + e9.r
    BY <2>2, Answers
  <2> QED BY <2>1, <2>3
<1>8. W = lo + p * (e.q * d + e.r)
  BY <1>5, <1>7
<1> HIDE DEF e
<1> QED BY <1>4, <1>6, <1>7, <1>8 DEF Answered, m, at, lo, u2, u1, u0, d1, d0, p, e

(* A value of two blocks, wrapped. *)
LEMMA Wrapped ==
  ASSUME NEW r \in Int, -(Beta * Beta) <= r, r < Beta * Beta
  PROVE  LET cy == IF r < 0 THEN 1 ELSE 0
             u == r % (Beta * Beta)
         IN  u = r + cy * (Beta * Beta) /\ u \in 0 .. Beta * Beta - 1 /\ u % P(2) = u
<1> DEFINE w == Beta * Beta  cy == IF r < 0 THEN 1 ELSE 0  u == r % w
<1>1. w \in Nat \ {0} /\ P(2) = w
  BY Base, Scales
<1>2. -w <= r /\ r < w
  OBVIOUS
<1> HIDE DEF w
<1>3. cy \in {0, 1} /\ r = (-cy) * w + (r + cy * w) /\ r + cy * w \in 0 .. w - 1 /\ -cy \in Int
  BY <1>1, <1>2
<1> DEFINE a == r + cy * w  b == -cy
<1>4. /\ a = 0 * w + a /\ 0 \in Int /\ a \in Int /\ a \in 0 .. w - 1
      /\ b \in Int /\ r = b * w + a
  BY <1>1, <1>3
<1> HIDE DEF a, b
<1>5. r % w = a
  BY <1>1, <1>4, DivModUnique
<1>6. a % w = a
  BY <1>1, <1>4, DivModUnique
<1>7. u = a /\ u % P(2) = a
  BY <1>1, <1>5, <1>6
<1> HIDE DEF cy, u
<1> QED BY <1>4, <1>7 DEF a, w, cy, u

(* The window after block_submul_vec and the two blocks of the remainder. *)
LEMMA TwoBlocksPut ==
  ASSUME NEW x, IsArray(x), NEW at \in Nat, NEW m \in Nat, Fits(x, at, m + 2),
         NEW y, IsArray(y), Outside(x, y, at, m), NEW u \in 0 .. Beta * Beta - 1, u % P(2) = u
  PROVE  LET z == Put(y, at + m, 2, u)
         IN  /\ IsArray(z) /\ Outside(x, z, at, m + 2)
             /\ Value(z, at, m + 2) = Value(y, at, m) + P(m) * u
<1> DEFINE z == Put(y, at + m, 2, u)  c == at + m
<1>1. Fits(x, at, m) /\ Fits(x, c, 2) /\ c \in Nat /\ 2 \in Nat /\ u \in Int
  <2>1. Fits(x, at, m) /\ Fits(x, c, 2)
    BY FitsSplit
  <2> QED BY <2>1
<1> HIDE DEF c
<1>2. Fits(y, at, m) /\ Fits(y, c, 2) /\ Fits(y, at, m + 2)
  BY <1>1, FitsKept
<1>3. Digits(y) /\ DOMAIN y \subseteq Int
  BY DEF IsArray
<1>4. z = Put(y, c, 2, u)
  BY DEF c
<1> HIDE DEF z
<1>5. Digits(z) /\ Outside(y, z, c, 2) /\ Value(z, c, 2) = u % P(2)
  BY <1>1, <1>2, <1>3, <1>4, PutRight
<1>6. IsArray(z)
  BY <1>3, <1>5 DEF IsArray, Outside
<1>7. Outside(x, z, at, m + 2)
  <2>1. /\ at \in Int /\ m \in Int /\ m + 2 \in Int /\ 2 \in Int /\ c \in Int
        /\ at <= at /\ at + m <= at + (m + 2) /\ at <= c /\ c + 2 <= at + (m + 2)
    BY DEF c
  <2>2. Outside(x, y, at, m + 2)
    BY <2>1, OutsideWider
  <2>3. Outside(y, z, at, m + 2)
    BY <1>5, <2>1, OutsideWider
  <2> QED BY <2>2, <2>3, OutsideTwice
<1>8. Value(z, at, m) = Value(y, at, m)
  <2>1. c \in Int /\ 2 \in Int /\ at + m <= c
    BY DEF c
  <2> QED BY <1>2, <1>5, <1>6, <2>1, ValueKept
<1>9. Value(z, at, m + 2) = Value(z, at, m) + P(m) * Value(z, c, 2)
  <2>1. Fits(z, at, m + 2)
    BY <1>2, <1>5, FitsKept
  <2>2. Value(z, at, m + 2) = Value(z, at, m) + P(m) * Value(z, at + m, 2)
    BY <1>1, <1>6, <2>1, ValueSplit DEF IsArray
  <2> QED BY <2>2 DEF c
<1>10. Value(z, at, m + 2) = Value(y, at, m) + P(m) * u
  BY <1>5, <1>8, <1>9
<1> QED BY <1>6, <1>7, <1>10 DEF z, c

(* So in such a turn the borrow is one divisor's at most. *)
LEMMA UsualTurnStep == ASSUME IInv, UsualTurn PROVE IInv'
<1> DEFINE f == Top  j == f.j - 1  at == f.n + j  D == Divisor(f, dp)  e == Estimate(f, j)
           m == f.dn - 2  l == Value(dp, f.d, m)  lo == Value(np, at, m)  p == P(m)  w == P(f.dn)
           s == SubN(np, at, m, e.q * l)
           r == e.r - s.out
           u == r % (Beta * Beta)
           cy == IF r < 0 THEN 1 ELSE 0
           x == Put(s.to, at + m, 2, u)
           h == UsualFrame(f, j, e.q, cy)
           W == Value(np, at, f.dn + 1)  d == D1(f) * Beta + D0(f)  t2 == Value(s.to, at, m)
<1>1. /\ stack # << >> /\ f.pc = "turn" /\ f.fn \in {"sb", "core"} /\ f.j > 0 /\ Becomes(h)
      /\ ~Rare(f, j) /\ np' = Put(s.to, f.n + j + f.dn - 2, 2, u)
      /\ qp' = qp /\ dp' = dp /\ v' = v /\ ret' = ret
  BY DEF UsualTurn, At, UsualFrame
<1>2. /\ Running(f, np, qp, dp, ret) /\ Good(f, np, qp, dp, v) /\ f \in Frames
      /\ IsArray(np) /\ IsArray(qp) /\ IsArray(dp) /\ ret \in Int
  BY <1>1, TopFacts
<1> HIDE DEF f
<1>3. Turned(f, f.j, f.qh, np, qp, dp)
  BY <1>1, <1>2, RunningAt
<1>4. TurnOf(f, j, W)
  BY <1>1, <1>2, <1>3, TurnFacts
<1>5. Answered(f, j, W)
  BY <1>1, <1>2, <1>4, EstimateRight
<1> HIDE DEF j
<1>6. /\ m \in Nat /\ m + 2 = f.dn /\ l \in Nat /\ l < p
      /\ D1(f) \in 0 .. Beta - 1 /\ D0(f) \in 0 .. Beta - 1 /\ 2 * D1(f) >= Beta
      /\ D = l + p * d /\ p \in Nat \ {0} /\ w = (p * Beta) * Beta
  BY <1>2, DivisorBlocks
<1>7. /\ j \in Nat /\ j <= f.qn - 1 /\ at \in Nat /\ Fits(np, at, f.dn) /\ f.n \in Nat
  <2>1. f.n \in Nat
    BY <1>2, CallFacts
  <2> QED BY <1>4, <2>1 DEF TurnOf
<1>8. /\ e.q \in 0 .. Beta - 1 /\ e.r \in 0 .. d - 1 /\ W = lo + p * (e.q * d + e.r)
      /\ lo \in Nat /\ lo < p /\ Fits(np, at, m)
  BY <1>5 DEF Answered
<1>9. np' = x
  <2>1. f.n + j + f.dn - 2 = at + m
    BY <1>6, <1>7
  <2> QED BY <1>1, <2>1
<1> HIDE DEF e, m
<1>10. /\ IsArray(s.to) /\ Outside(np, s.to, at, m) /\ s.out \in Int
       /\ lo - e.q * l = t2 - s.out * p
  <2> DEFINE val == e.q * l
  <2>1. val \in Int
    BY <1>6, <1>8
  <2>2. s = SubN(np, at, m, val)
    OBVIOUS
  <2> HIDE DEF val, at, s
  <2>3. LET c == SubN(np, at, m, val)
        IN  /\ IsArray(c.to) /\ Outside(np, c.to, at, m) /\ c.out \in Int
            /\ Value(np, at, m) - val = Value(c.to, at, m) - c.out * P(m)
    BY <1>2, <1>8, <2>1, SubNRight
  <2> QED BY <2>2, <2>3 DEF val
<1> HIDE DEF s
<1>11. t2 \in Nat /\ t2 < p
  <2>1. Fits(s.to, at, m)
    BY <1>8, <1>10, FitsKept
  <2>2. t2 \in 0 .. p - 1 /\ t2 \in Nat
    BY <1>10, <2>1, ValueBounds DEF IsArray
  <2> HIDE DEF t2, p
  <2> QED BY <1>6, <2>2
<1> DEFINE rest == t2 + p * r
<1>12. /\ W = e.q * D + rest /\ -D <= rest /\ rest < D
       /\ r \in Int /\ -(Beta * Beta) <= r /\ r < Beta * Beta /\ (r < 0 => e.q >= 1)
  <2> DEFINE q == e.q  er == e.r  o == s.out
  <2>1. d \in Nat /\ Beta <= d /\ d < Beta * Beta
    <3> DEFINE d1 == D1(f)  d0 == D0(f)
    <3>1. d1 \in Nat /\ d0 \in Nat /\ 1 <= d1 /\ d1 <= Beta - 1 /\ d0 <= Beta - 1 /\ d = d1 * Beta + d0
      BY <1>6, Base
    <3> HIDE DEF d1, d0, d
    <3>2. 1 * Beta <= d1 * Beta /\ d1 * Beta <= (Beta - 1) * Beta
      BY <3>1, Base, MulLe
    <3> QED BY <3>1, <3>2, Base
  <2>2. q \in Nat /\ q <= Beta - 1 /\ er \in Nat /\ er < d
    BY <1>8, <2>1, Base
  <2>3. /\ W = lo + p * (q * d + er) /\ lo - q * l = t2 - o * p /\ o \in Int /\ r = er - o
    BY <1>8, <1>10
  <2> HIDE DEF q, er, o, r, d, l, lo, p, D, W, t2
  <2>4. OtherTop(D, p, d, l, lo, q, er, W, t2, o)
    BY <1>6, <1>8, <1>11, <2>1, <2>2, <2>3 DEF OtherTop
  <2>5. LET r9 == er - o
            rest9 == t2 + p * r9
        IN  /\ W = q * D + rest9 /\ -D <= rest9 /\ rest9 < D
            /\ r9 \in Int /\ -(Beta * Beta) <= r9 /\ r9 < Beta * Beta
            /\ (r9 < 0 => q >= 1)
    BY <2>4, UsualArith
  <2> QED BY <2>3, <2>5 DEF q
<1> HIDE DEF r
<1>13. u = r + cy * (Beta * Beta) /\ u \in 0 .. Beta * Beta - 1 /\ u % P(2) = u /\ cy \in {0, 1}
  BY <1>12, Wrapped
<1> HIDE DEF u
<1>14. IsArray(x) /\ Outside(np, x, at, f.dn) /\ Value(x, at, f.dn) = t2 + p * u
  <2>1. Fits(np, at, m + 2) /\ m \in Nat /\ at \in Nat
    BY <1>6, <1>7
  <2> DEFINE y == s.to
  <2>2. IsArray(y) /\ Outside(np, y, at, m) /\ x = Put(y, at + m, 2, u)
    BY <1>10
  <2> HIDE DEF y, at, x
  <2>3. LET z == Put(y, at + m, 2, u)
        IN  /\ IsArray(z) /\ Outside(np, z, at, m + 2)
            /\ Value(z, at, m + 2) = Value(y, at, m) + P(m) * u
    BY <1>2, <1>13, <2>1, <2>2, TwoBlocksPut
  <2> QED BY <1>6, <2>2, <2>3 DEF y
<1> HIDE DEF x, cy
<1>15. rest = Value(x, at, f.dn) - cy * w
  <2> DEFINE b2 == Beta * Beta
  <2>1. b2 \in Int /\ w = p * b2 /\ p \in Int
    BY <1>6, Base
  <2>2. u = r + cy * b2 /\ r \in Int /\ cy \in Int
    BY <1>12, <1>13
  <2> HIDE DEF b2, p, w, t2
  <2>3. p * (r + cy * b2) = p * r + cy * (p * b2)
    BY <2>1, <2>2
  <2>4. p * r \in Int /\ cy * (p * b2) \in Int /\ t2 \in Int
    BY <1>11, <2>1, <2>2
  <2> QED BY <1>14, <2>1, <2>2, <2>3, <2>4
<1>16. /\ h \in Frames /\ Alike(h, f) /\ h.pc = "usual" /\ h.j = j /\ h.qhat = e.q
       /\ h.cy = cy /\ h.adds = 0 /\ h.qh = f.qh
  <2>1. j \in Int /\ cy \in Int /\ e.q \in Int
    BY <1>7, <1>8, <1>13
  <2> HIDE DEF cy
  <2> QED BY <1>2, <2>1, FrameUsual
<1>17. cy = 1 => e.q >= 1
  BY <1>12 DEF cy
<1> HIDE DEF h, rest, W
<1>18. Corrected(h, x, qp, dp)
  <2>1. IsArray(x) /\ Outside(np, x, f.n + j, f.dn)
    BY <1>14
  <2>2. /\ h.qhat \in Blocks(Beta) /\ h.cy \in {0, 1} /\ (h.cy = 1 => h.adds = 0 /\ h.qhat >= 1)
        /\ (h.pc = "rare" => h.top = IF h.cy = 1 THEN Beta - 1 ELSE 0)
    BY <1>8, <1>13, <1>16, <1>17, Base DEF Blocks
  <2>3. /\ rest = Value(x, f.n + j, f.dn) - h.cy * P(f.dn) /\ W = h.qhat * Divisor(f, dp) + rest
        /\ -Divisor(f, dp) <= rest /\ rest < Divisor(f, dp)
    BY <1>12, <1>15, <1>16
  <2> QED BY <1>2, <1>4, <1>16, <2>1, <2>2, <2>3, TurnTaken
<1>19. Running(h, x, qp, dp, ret)
  <2>1. h.fn \in {"sb", "core"}
    BY <1>1, <1>16 DEF Alike
  <2> QED BY <1>16, <1>18, <2>1 DEF Running
<1>20. Bounded(h)
  BY <1>16 DEF Bounded
<1>21. Outside(np, x, f.n, f.qn + f.dn) /\ Outside(qp, qp, f.q, f.qn)
  BY <1>2, <1>7, <1>14, TurnWindow
<1> QED BY <1>1, <1>2, <1>9, <1>14, <1>16, <1>19, <1>20, <1>21, UpdateStep DEF f

(* The dividend from quotient block j's window on down, when only that has   *)
(* changed.                                                                  *)
LEMMA FromWindow ==
  ASSUME IsArray(np), IsArray(dp), NEW f, Good(f, np, qp, dp, v), NEW j \in Nat, j <= f.qn - 1,
         NEW x, IsArray(x), Outside(np, x, f.n + j, f.dn)
  PROVE  /\ Fits(np, f.n + j, f.dn) /\ Fits(x, f.n + j, f.dn) /\ f.n + j \in Nat
         /\ Value(np, f.n, j) \in Nat /\ Value(x, f.n + j, f.dn) \in 0 .. P(f.dn) - 1
         /\ Value(x, f.n + j, f.dn) \in Nat
         /\ Value(x, f.n, j + f.dn) = Value(np, f.n, j) + P(j) * Value(x, f.n + j, f.dn)
         /\ P(j) \in Nat \ {0} /\ P(f.dn) \in Nat \ {0} /\ P(j + f.dn) = P(j) * P(f.dn)
<1> DEFINE at == f.n + j
<1>1. /\ f.n \in Nat /\ f.dn \in Nat /\ f.qn \in Nat /\ Fits(np, f.n, f.qn + f.dn)
  BY CallFacts
<1>2. at \in Nat
  BY <1>1
<1>3. Fits(np, f.n, j + f.dn)
  <2>1. j + f.dn \in Nat /\ f.qn + f.dn \in Nat /\ f.n <= f.n /\ f.n + (j + f.dn) <= f.n + (f.qn + f.dn)
    BY <1>1
  <2> QED BY <1>1, <2>1, FitsWithin
<1>4. Fits(np, f.n, j) /\ Fits(np, at, f.dn)
  BY <1>1, <1>3, FitsSplit
<1>5. Fits(x, f.n, j + f.dn) /\ Fits(x, at, f.dn)
  BY <1>3, <1>4, FitsKept
<1>6. Value(x, f.n, j) = Value(np, f.n, j)
  <2>1. f.n + j <= at /\ at \in Int /\ f.dn \in Int /\ Outside(np, x, at, f.dn)
    BY <1>1, <1>2
  <2> HIDE DEF at
  <2> QED BY <1>4, <2>1, ValueKept
<1>7. Value(x, f.n, j + f.dn) = Value(x, f.n, j) + P(j) * Value(x, at, f.dn)
  BY <1>1, <1>5, ValueSplit DEF IsArray
<1>8. Value(x, at, f.dn) \in 0 .. P(f.dn) - 1 /\ Value(x, at, f.dn) \in Nat
  BY <1>5, ValueBounds DEF IsArray
<1>9. Value(np, f.n, j) \in Nat
  BY <1>4, ValueBounds DEF IsArray
<1>10. P(j) \in Nat \ {0} /\ P(f.dn) \in Nat \ {0}
  BY <1>1, Scale
<1>11. P(j + f.dn) = P(j) * P(f.dn)
  BY <1>1, Scales
<1> QED BY <1>2, <1>4, <1>5, <1>6, <1>7, <1>8, <1>9, <1>10, <1>11

LEMMA FoundInt ==
  ASSUME NEW x, NEW y, NEW z, NEW s, NEW f, Good(f, x, y, z, s), IsArray(z), IsArray(y),
         NEW j \in Nat, j <= f.qn, NEW qh \in {0, 1}
  PROVE  Found(f, j, qh, y) \in Int
<1>1. f.q \in Nat /\ f.qn \in Nat /\ Fits(y, f.q, f.qn)
  BY CallFacts
<1>2. /\ f.q + j \in Nat /\ f.qn - j \in Nat /\ f.q <= f.q + j /\ (f.q + j) + (f.qn - j) <= f.q + f.qn
  BY <1>1
<1>3. Fits(y, f.q + j, f.qn - j)
  BY <1>1, <1>2, FitsWithin
<1>4. Value(y, f.q + j, f.qn - j) \in Nat
  BY <1>3, ValueBounds DEF IsArray
<1>5. P(f.qn) \in Nat /\ P(j) \in Nat
  BY <1>1, Scale
<1> QED BY <1>4, <1>5 DEF Found

AddedBack(f, a, b, c, e) == [f EXCEPT !.qhat = a, !.cy = b, !.adds = c, !.top = e]

LEMMA FrameAddedBack ==
  ASSUME NEW f \in Frames, NEW a \in Int, NEW b \in Int, NEW c \in Nat, NEW e \in Int
  PROVE  LET h == AddedBack(f, a, b, c, e)
         IN  /\ h \in Frames /\ Alike(h, f) /\ h.pc = f.pc /\ h.j = f.j /\ h.qh = f.qh
             /\ h.qhat = a /\ h.cy = b /\ h.adds = c /\ h.top = e
BY DEF Frames, Alike, AddedBack

(* Adding the divisor once makes the borrow good. *)
LEMMA AddBackSbStep == ASSUME IInv, AddBackSb PROVE IInv'
<1> DEFINE f == Top  j == f.j  at == f.n + j  D == Divisor(f, dp)  w == P(f.dn)  p == P(j)
           a == AddN(np, at, f.dn, D)
           carry == IF f.pc = "usual" THEN a.out ELSE (f.top + a.out) \div Beta
           top == IF f.pc = "usual" THEN f.top ELSE (f.top + a.out) % Beta
           qhat == (f.qhat - 1) % Beta
           h == AddedBack(f, qhat, f.cy - carry, Counted(f.adds), top)
           t == Value(np, at, f.dn)  t2 == Value(a.to, at, f.dn)  low == Value(np, f.n, j)
           F == Found(f, j + 1, f.qh, qp)
<1>1. /\ stack # << >> /\ f.pc \in {"rare", "usual"} /\ f.fn \in {"sb", "core"} /\ f.cy > 0 /\ Becomes(h)
      /\ np' = a.to /\ qp' = qp /\ dp' = dp /\ v' = v /\ ret' = ret
  BY DEF AddBackSb, At, AddedBack, Divisor, Den
<1>2. /\ Running(f, np, qp, dp, ret) /\ Good(f, np, qp, dp, v) /\ f \in Frames
      /\ IsArray(np) /\ IsArray(qp) /\ IsArray(dp) /\ ret \in Int
  BY <1>1, TopFacts
<1> HIDE DEF f
<1>3. Corrected(f, np, qp, dp)
  BY <1>1, <1>2, RunningAt
<1>4. /\ j \in 0 .. f.qn - 1 /\ f.qh \in {0, 1} /\ f.qhat \in Blocks(Beta) /\ f.cy = 1
      /\ f.was = (F + p * f.qhat) * D + Value(np, f.n, j + f.dn) - f.cy * P(j + f.dn)
      /\ -D <= t - f.cy * w /\ f.adds = 0 /\ f.qhat >= 1
      /\ (f.pc = "rare" => f.top = Beta - 1)
  BY <1>1, <1>3 DEF Corrected
<1>5. f.qn \in Nat /\ f.dn \in Nat /\ j \in Nat /\ j <= f.qn - 1 /\ j + 1 \in Nat /\ j + 1 <= f.qn
  <2>1. f.qn \in Nat /\ f.dn \in Nat
    BY <1>2, CallFacts
  <2> QED BY <1>4, <2>1
<1>6. D \in Nat \ {0} /\ D < w
  BY <1>2, DivisorHalf
<1> HIDE DEF j
<1>7. Fits(np, at, f.dn) /\ at \in Nat
  BY <1>2, <1>5, NothingOutside, FromWindow
<1>8. /\ IsArray(a.to) /\ Outside(np, a.to, at, f.dn) /\ a.out \in Int
      /\ t + D = t2 + a.out * w
  <2>1. D \in Int
    BY <1>6
  <2> HIDE DEF D, at
  <2> QED BY <1>2, <1>7, <2>1, AddNRight
<1> DEFINE x == a.to
<1>9. IsArray(x) /\ Outside(np, x, f.n + j, f.dn)
  BY <1>8
<1>10. /\ low \in Nat /\ t \in Nat /\ t \in 0 .. w - 1 /\ p \in Nat \ {0} /\ w \in Nat \ {0}
       /\ P(j + f.dn) = p * w /\ Value(np, f.n, j + f.dn) = low + p * t
  BY <1>2, <1>5, NothingOutside, FromWindow
<1>11. /\ t2 \in Nat /\ t2 \in 0 .. w - 1 /\ Value(x, f.n, j + f.dn) = low + p * t2
  <2> HIDE DEF x
  <2>1. /\ Value(x, f.n + j, f.dn) \in Nat /\ Value(x, f.n + j, f.dn) \in 0 .. P(f.dn) - 1
        /\ Value(x, f.n, j + f.dn) = Value(np, f.n, j) + P(j) * Value(x, f.n + j, f.dn)
    BY <1>2, <1>5, <1>9, FromWindow
  <2> QED BY <2>1 DEF x
<1> HIDE DEF a
<1>12. a.out = 1 /\ t2 = t - w + D /\ t2 < D
  <2> DEFINE o == a.out
  <2>1. f.cy * w = w
    BY <1>4, <1>10
  <2>2. (o >= 2 => 2 * w <= o * w) /\ (o <= 0 => o * w <= 0 * w) /\ o * w \in Int /\ o \in Int
    BY <1>8, <1>10, MulLe
  <2> HIDE DEF o, t, t2, w, D
  <2>3. ~(o >= 2) /\ ~(o <= 0)
    BY <1>4, <1>6, <1>8, <1>10, <1>11, <2>1, <2>2 DEF o
  <2>4. o = 1 /\ o * w = w
    BY <1>10, <2>2, <2>3
  <2> QED BY <1>6, <1>8, <1>10, <1>11, <2>4 DEF o
<1>13. carry = 1 /\ top \in Int /\ (f.pc = "rare" => top = 0)
  <2>1. CASE f.pc = "usual"
    <3>1. f.top \in Int
      BY <1>2 DEF Frames
    <3> QED BY <1>12, <2>1, <3>1
  <2>2. CASE f.pc = "rare"
    <3>1. f.top + a.out = Beta
      BY <1>4, <1>12, <2>2, Base
    <3>2. Beta \div Beta = 1 /\ Beta % Beta = 0
      <4>1. Beta = 1 * Beta + 0 /\ 1 \in Int /\ 0 \in 0 .. Beta - 1 /\ Beta \in Int
        BY Base
      <4> QED BY <4>1, Base, DivModUnique
    <3> QED BY <2>2, <3>1, <3>2
  <2> QED BY <1>1, <2>1, <2>2
<1>14. qhat = f.qhat - 1 /\ qhat \in Blocks(Beta) /\ qhat \in Nat
  <2> DEFINE b == f.qhat - 1
  <2>1. b = 0 * Beta + b /\ b \in 0 .. Beta - 1 /\ b \in Int /\ 0 \in Int
    BY <1>4, Base DEF Blocks
  <2> HIDE DEF b
  <2>2. b % Beta = b
    BY <2>1, Base, DivModUnique
  <2>3. qhat = b
    BY <2>2 DEF b
  <2> QED BY <2>1, <2>3, Base DEF b, Blocks
<1>15. /\ h \in Frames /\ Alike(h, f) /\ h.pc = f.pc /\ h.j = j /\ h.qh = f.qh
       /\ h.qhat = qhat /\ h.cy = 0 /\ h.adds = 1 /\ h.top = top
  <2>1. f.cy - carry = 0 /\ Counted(f.adds) = 1
    BY <1>4, <1>13 DEF Counted
  <2>2. h = AddedBack(f, qhat, 0, 1, top)
    BY <2>1
  <2>3. qhat \in Int /\ top \in Int /\ 0 \in Int /\ 1 \in Nat
    BY <1>13, <1>14
  <2> HIDE DEF h, top, qhat
  <2>4. LET g == AddedBack(f, qhat, 0, 1, top)
        IN  /\ g \in Frames /\ Alike(g, f) /\ g.pc = f.pc /\ g.j = f.j /\ g.qh = f.qh
            /\ g.qhat = qhat /\ g.cy = 0 /\ g.adds = 1 /\ g.top = top
    BY <1>2, <2>3, FrameAddedBack
  <2> QED BY <2>2, <2>4 DEF j
<1> HIDE DEF h, carry, top, qhat
<1>16. F \in Int
  BY <1>2, <1>4, <1>5, FoundInt
<1>17. f.was = (F + p * qhat) * D + Value(x, f.n, j + f.dn)
  <2> DEFINE g == f.qhat
  <2>1. g \in Int /\ g = qhat + 1 /\ f.cy * P(j + f.dn) = p * w /\ qhat \in Int
    BY <1>4, <1>10, <1>14, Base DEF Blocks
  <2>2. f.was = (F + p * g) * D + (low + p * t) - p * w
    BY <1>4, <1>10, <2>1
  <2> HIDE DEF g, t, t2, low, p, w, D, F, x
  <2>3. (F + p * g) * D = (F + p * qhat) * D + p * D /\ (F + p * qhat) * D \in Int /\ p * D \in Int
    BY <1>6, <1>10, <1>16, <2>1
  <2>4. p * t2 = p * t - p * w + p * D /\ p * t \in Int /\ p * w \in Int
    BY <1>6, <1>10, <1>12
  <2> QED BY <1>10, <1>11, <2>2, <2>3, <2>4
<1>18. Corrected(h, x, qp, dp)
  <2> HIDE DEF F, p, D, w, t2, x
  <2>1. h.fn = f.fn /\ h.qn = f.qn /\ h.dn = f.dn /\ h.n = f.n /\ h.q = f.q /\ h.d = f.d /\ h.was = f.was
    BY <1>15 DEF Alike
  <2>2. Found(h, h.j + 1, h.qh, qp) = F /\ Divisor(h, dp) = D /\ P(h.j) = p /\ P(h.dn) = w
    BY <1>15, <2>1 DEF Found, Divisor, F, D, p, w
  <2>3. Value(x, h.n + h.j, h.dn) = t2 /\ Value(x, h.n, h.j + h.dn) = Value(x, f.n, j + f.dn)
    BY <1>15, <2>1 DEF t2, x
  <2>4. h.cy * P(h.dn) = 0 /\ h.cy * P(h.j + h.dn) = 0
    <3>1. P(f.dn) \in Nat /\ P(j + f.dn) \in Nat
      BY <1>5, Scale
    <3> QED BY <1>15, <2>1, <3>1
  <2>5. h.was = (F + p * h.qhat) * D + Value(x, h.n, h.j + h.dn) - 0
    <3>1. Value(x, f.n, j + f.dn) \in Int
      BY <1>10, <1>11
    <3> DEFINE V == Value(x, f.n, j + f.dn)  e == (F + p * qhat) * D
    <3>2. e \in Int /\ V \in Int
      BY <1>6, <1>10, <1>14, <1>16, <3>1
    <3>3. e + V = e + V - 0
      <4> HIDE DEF e, V
      <4> QED BY <3>2
    <3> QED BY <1>15, <1>17, <2>1, <2>3, <3>3
  <2>6. -D <= t2 - 0 /\ t2 - 0 < D
    BY <1>6, <1>11, <1>12
  <2>7. h.j \in 0 .. h.qn - 1 /\ h.qh \in {0, 1} /\ h.qhat \in Blocks(Beta) /\ h.cy \in {0, 1}
    BY <1>4, <1>14, <1>15, <2>1 DEF j
  <2>8. (h.cy = 1 => h.adds = 0 /\ h.qhat >= 1) /\ (h.pc = "rare" => h.top = IF h.cy = 1 THEN Beta - 1 ELSE 0)
    BY <1>13, <1>15
  <2> QED BY <2>2, <2>3, <2>4, <2>5, <2>6, <2>7, <2>8 DEF Corrected
<1>19. Running(h, x, qp, dp, ret)
  <2>1. h.fn \in {"sb", "core"} /\ h.pc \in {"rare", "usual"}
    BY <1>1, <1>15 DEF Alike
  <2> QED BY <1>18, <2>1 DEF Running
<1>20. Bounded(h)
  BY <1>15 DEF Bounded
<1>21. Outside(np, x, f.n, f.qn + f.dn) /\ Outside(qp, qp, f.q, f.qn)
  <2> HIDE DEF x
  <2> QED BY <1>2, <1>5, <1>9, TurnWindow
<1> QED BY <1>1, <1>2, <1>9, <1>15, <1>19, <1>20, <1>21, UpdateStep DEF f

(* Writing a single block, .. *)
LEMMA OneBlock ==
  ASSUME NEW x, IsArray(x), NEW at \in Nat, at \in DOMAIN x, NEW a \in Blocks(Beta)
  PROVE  LET y == [x EXCEPT ![at] = a]
         IN  IsArray(y) /\ Outside(x, y, at, 1) /\ y[at] = a
<1> DEFINE y == [x EXCEPT ![at] = a]
<1>1. DOMAIN y = DOMAIN x /\ y[at] = a /\ \A i \in DOMAIN x : i # at => y[i] = x[i]
  OBVIOUS
<1> HIDE DEF y
<1>2. IsArray(y)
  <2>1. \A i \in DOMAIN y : y[i] \in Blocks(Beta)
    BY <1>1 DEF IsArray, Digits
  <2> QED BY <1>1, <2>1 DEF IsArray, Digits
<1>3. Outside(x, y, at, 1)
  BY <1>1 DEF Outside, IsArray
<1> QED BY <1>1, <1>2, <1>3 DEF y

(* .. which is the next one of the quotient. *)
LEMMA FoundStored ==
  ASSUME IsArray(qp), IsArray(dp), NEW f, Good(f, np, qp, dp, v), NEW j \in Nat, j <= f.qn - 1,
         NEW a \in Blocks(Beta), NEW qh \in {0, 1}
  PROVE  LET y == [qp EXCEPT ![f.q + j] = a]
         IN  /\ IsArray(y) /\ Outside(qp, y, f.q, f.qn)
             /\ Found(f, j, qh, y) = Found(f, j + 1, qh, qp) + P(j) * a
<1> DEFINE at == f.q + j  k == (f.qn - j) - 1  y == [qp EXCEPT ![at] = a]
           z == Value(qp, at + 1, k)
<1>1. f.q \in Nat /\ f.qn \in Nat /\ Fits(qp, f.q, f.qn)
  BY CallFacts
<1>2. /\ at \in Nat /\ k \in Nat /\ 1 + k = f.qn - j /\ k = f.qn - (j + 1) /\ at + 1 = f.q + (j + 1)
      /\ at + 1 \in Nat /\ 1 + k \in Nat /\ f.q <= at /\ at + (1 + k) <= f.q + f.qn
      /\ at + 1 <= f.q + f.qn /\ j \in Blocks(f.qn)
  BY <1>1 DEF Blocks
<1>3. at \in DOMAIN qp
  BY <1>1, <1>2 DEF Fits
<1> HIDE DEF at, k
<1>4. IsArray(y) /\ Outside(qp, y, at, 1) /\ y[at] = a
  BY <1>2, <1>3, OneBlock
<1> HIDE DEF y
<1>5. Outside(qp, y, f.q, f.qn)
  <2>1. f.q \in Int /\ f.qn \in Int /\ at \in Int /\ 1 \in Int
    BY <1>1, <1>2
  <2> QED BY <1>2, <1>4, <2>1, OutsideWider
<1>6. Fits(qp, at, 1 + k)
  BY <1>1, <1>2, FitsWithin
<1>7. Fits(qp, at + 1, k) /\ Fits(y, at, 1 + k)
  <2>1. Fits(qp, at + 1, k)
    BY <1>2, <1>6, FitsSplit
  <2> QED BY <1>4, <1>6, <2>1, FitsKept
<1>8. Value(y, at + 1, k) = z
  <2>1. at \in Int /\ 1 \in Int /\ at + 1 <= at + 1
    BY <1>2
  <2> QED BY <1>2, <1>4, <1>7, <2>1, ValueKept
<1>9. Value(y, at, 1 + k) = a + Beta * z
  <2>1. Value(y, at, 1 + k) = Value(y, at, 1) + P(1) * Value(y, at + 1, k)
    BY <1>2, <1>4, <1>7, ValueSplit DEF IsArray
  <2>2. Value(y, at, 1) = a
    <3>1. at \in DOMAIN y
      BY <1>3, <1>4 DEF Outside
    <3> QED BY <1>2, <1>4, <3>1, ValueShort DEF IsArray
  <2>3. P(1) = Beta
    BY Scales
  <2> QED BY <1>8, <2>1, <2>2, <2>3
<1>10. z \in Nat /\ a \in Nat
  <2>1. z \in Nat
    BY <1>7, ValueBounds DEF IsArray
  <2> QED BY <2>1, Base DEF Blocks
<1>11. P(j) \in Nat /\ P(j + 1) = Beta * P(j) /\ P(f.qn) \in Nat
  <2>1. P(j + 1) = Beta * P(j)
    BY Scales
  <2> QED BY <1>1, <2>1, Scale
<1>12. Found(f, j, qh, y) = qh * P(f.qn) + P(j) * (a + Beta * z)
  BY <1>2, <1>9 DEF Found, at
<1>13. Found(f, j + 1, qh, qp) = qh * P(f.qn) + (Beta * P(j)) * z
  BY <1>2, <1>11 DEF Found
<1>14. Found(f, j, qh, y) = Found(f, j + 1, qh, qp) + P(j) * a
  <2> DEFINE e == qh * P(f.qn)  p == P(j)
  <2>1. e \in Int /\ p \in Int
    BY <1>11
  <2>2. Found(f, j, qh, y) = e + p * (a + Beta * z) /\ Found(f, j + 1, qh, qp) = e + (Beta * p) * z
    BY <1>12, <1>13
  <2> HIDE DEF e, p
  <2>3. p * (a + Beta * z) = p * a + (Beta * p) * z /\ p * a \in Int /\ (Beta * p) * z \in Int
    <3> HIDE DEF z
    <3> QED BY <1>10, <2>1, Base
  <2> QED BY <2>1, <2>2, <2>3 DEF p
<1> QED BY <1>4, <1>5, <1>14 DEF y, at

Stored(f) == [f EXCEPT !.pc = "turn", !.top = None]

LEMMA FrameStored ==
  ASSUME NEW f \in Frames
  PROVE  LET h == Stored(f)
         IN  /\ h \in Frames /\ Alike(h, f) /\ h.pc = "turn" /\ h.j = f.j /\ h.qh = f.qh
             /\ h.adds = f.adds
<1>1. "turn" \in Labels /\ None \in Int
  BY DEF Labels, None
<1> QED BY <1>1 DEF Frames, Alike, Stored

LEMMA StoreBlockStep == ASSUME IInv, StoreBlock PROVE IInv'
<1> DEFINE f == Top  j == f.j  D == Divisor(f, dp)  h == Stored(f)
           y == [qp EXCEPT ![f.q + j] = f.qhat]
           c == f.n + j + f.dn
           x == IF f.fn = "sb" THEN [np EXCEPT ![c] = 0] ELSE np
           F == Found(f, j + 1, f.qh, qp)
<1>1. /\ stack # << >> /\ f.pc \in {"rare", "usual"} /\ f.fn \in {"sb", "core"} /\ f.cy = 0 /\ Becomes(h)
      /\ np' = x /\ qp' = y /\ dp' = dp /\ v' = v /\ ret' = ret
  BY DEF StoreBlock, At, Stored
<1>2. /\ Running(f, np, qp, dp, ret) /\ Good(f, np, qp, dp, v) /\ f \in Frames
      /\ IsArray(np) /\ IsArray(qp) /\ IsArray(dp) /\ ret \in Int
  BY <1>1, TopFacts
<1> HIDE DEF f
<1>3. Corrected(f, np, qp, dp)
  BY <1>1, <1>2, RunningAt
<1>4. /\ j \in 0 .. f.qn - 1 /\ f.qh \in {0, 1} /\ f.qhat \in Blocks(Beta) /\ f.cy = 0
      /\ f.was = (F + P(j) * f.qhat) * D + Value(np, f.n, j + f.dn) - f.cy * P(j + f.dn)
      /\ Value(np, f.n + j, f.dn) - f.cy * P(f.dn) < D
  BY <1>1, <1>3 DEF Corrected
<1>5. /\ f.qn \in Nat /\ f.dn \in Nat /\ f.n \in Nat /\ j \in Nat /\ j <= f.qn - 1 /\ j \in 0 .. f.qn
      /\ Fits(np, f.n, f.qn + f.dn) /\ D \in Nat
  <2>1. f.qn \in Nat /\ f.dn \in Nat /\ f.n \in Nat /\ Fits(np, f.n, f.qn + f.dn) /\ D \in Nat
    BY <1>2, CallFacts
  <2> QED BY <1>4, <2>1
<1> HIDE DEF j
<1>6. /\ IsArray(y) /\ Outside(qp, y, f.q, f.qn) /\ Found(f, j, f.qh, y) = F + P(j) * f.qhat
  BY <1>2, <1>4, <1>5, FoundStored
<1> HIDE DEF y
<1>7. c \in Nat /\ c \in DOMAIN np
  <2>1. j + f.dn \in Blocks(f.qn + f.dn) /\ f.n + (j + f.dn) = c /\ c \in Nat
    BY <1>5 DEF Blocks
  <2> QED BY <1>5, <2>1 DEF Fits
<1>8. IsArray(x) /\ Outside(np, x, c, 1)
  <2> HIDE DEF c
  <2>1. CASE f.fn = "sb"
    <3>1. 0 \in Blocks(Beta)
      BY Base DEF Blocks
    <3>2. LET z == [np EXCEPT ![c] = 0] IN IsArray(z) /\ Outside(np, z, c, 1)
      BY <1>2, <1>7, <3>1, OneBlock
    <3> QED BY <2>1, <3>2
  <2>2. CASE f.fn # "sb"
    BY <1>2, <2>2, NothingOutside
  <2> QED BY <2>1, <2>2
<1> HIDE DEF x
<1>9. Outside(np, x, f.n, f.qn + f.dn)
  <2>1. c \in Int /\ 1 \in Int /\ f.n \in Int /\ f.qn + f.dn \in Int /\ f.n <= c /\ c + 1 <= f.n + (f.qn + f.dn)
    BY <1>5
  <2> HIDE DEF c
  <2> QED BY <1>2, <1>8, <2>1, OutsideWider
<1>10. /\ Fits(np, f.n, j + f.dn) /\ Fits(np, f.n + j, f.dn)
  <2>1. j + f.dn \in Nat /\ f.qn + f.dn \in Nat /\ f.n <= f.n /\ f.n + (j + f.dn) <= f.n + (f.qn + f.dn)
    BY <1>5
  <2>2. Fits(np, f.n, j + f.dn)
    BY <1>5, <2>1, FitsWithin
  <2> QED BY <1>5, <2>2, FitsSplit
<1>11. Value(x, f.n, j + f.dn) = Value(np, f.n, j + f.dn) /\ Value(x, f.n + j, f.dn) = Value(np, f.n + j, f.dn)
  <2>1. c \in Int /\ 1 \in Int /\ f.n + (j + f.dn) <= c /\ (f.n + j) + f.dn <= c
    BY <1>5
  <2> HIDE DEF c
  <2>2. Value(x, f.n, j + f.dn) = Value(np, f.n, j + f.dn)
    BY <1>2, <1>8, <1>10, <2>1, ValueKept
  <2>3. Value(x, f.n + j, f.dn) = Value(np, f.n + j, f.dn)
    BY <1>2, <1>8, <1>10, <2>1, ValueKept
  <2> QED BY <2>2, <2>3
<1>12. Turned(f, j, f.qh, x, y, dp)
  <2> DEFINE V == Value(np, f.n, j + f.dn)  t == Value(np, f.n + j, f.dn)  e == (F + P(j) * f.qhat) * D
  <2>1. V \in Nat /\ t \in Nat
    <3>1. V \in Nat
      BY <1>2, <1>10, ValueBounds DEF IsArray
    <3> QED BY <1>2, <1>10, <3>1, ValueBounds DEF IsArray
  <2>2. f.cy * P(j + f.dn) = 0 /\ f.cy * P(f.dn) = 0
    <3>1. P(f.dn) \in Nat /\ P(j + f.dn) \in Nat
      BY <1>5, Scale
    <3> QED BY <1>4, <3>1
  <2>3. e \in Int
    <3>1. F \in Int
      <4>1. j + 1 \in Nat /\ j + 1 <= f.qn
        BY <1>5
      <4> QED BY <1>2, <1>4, <4>1, FoundInt
    <3>2. P(j) \in Nat /\ f.qhat \in Int
      BY <1>4, <1>5, Scale DEF Blocks
    <3> HIDE DEF F, D
    <3> QED BY <1>5, <3>1, <3>2
  <2>4. f.was = e + V - 0 /\ t - 0 < D
    BY <1>4, <2>2
  <2> HIDE DEF e, V, t
  <2>5. f.was = e + V /\ t < D
    BY <1>5, <2>1, <2>3, <2>4
  <2>6. f.was = Found(f, j, f.qh, y) * D + Value(x, f.n, j + f.dn) /\ Value(x, f.n + j, f.dn) < D
    BY <1>6, <1>11, <2>5 DEF e, V, t
  <2> QED BY <1>4, <1>5, <2>6 DEF Turned
<1>13. h \in Frames /\ Alike(h, f) /\ h.pc = "turn" /\ h.j = j /\ h.qh = f.qh /\ h.adds = f.adds
  BY <1>2, FrameStored DEF j
<1> HIDE DEF h
<1>14. Running(h, x, y, dp, ret)
  <2>1. h.fn \in {"sb", "core"}
    BY <1>1, <1>13 DEF Alike
  <2>2. Turned(h, h.j, h.qh, x, y, dp)
    BY <1>12, <1>13 DEF Turned, Found, Divisor, Alike
  <2> QED BY <1>13, <2>1, <2>2 DEF Running
<1>15. Bounded(h)
  BY <1>2, <1>13 DEF Good, Bounded, Alike
<1> QED BY <1>1, <1>2, <1>6, <1>8, <1>9, <1>13, <1>14, <1>15, UpdateStep DEF f

-----------------------------------------------------------------------------
(* The theorems *)

(* Every step of the division keeps the invariant. *)
LEMMA Step == ASSUME IInv, [Next]_vars PROVE IInv'
<1>1. CASE SbStart BY <1>1, SbStartStep
<1>2. CASE RareTurn BY <1>2, RareTurnStep
<1>3. CASE UsualTurn BY <1>3, UsualTurnStep
<1>4. CASE AddBackSb BY <1>4, AddBackSbStep
<1>5. CASE StoreBlock BY <1>5, StoreBlockStep
<1>6. CASE SbReturn BY <1>6, SbReturnStep
<1>7. CASE DcHigh BY <1>7, DcHighStep
<1>8. CASE DcCrossHigh BY <1>8, DcCrossHighStep
<1>9. CASE DcFixHigh BY <1>9, DcFixHighStep
<1>10. CASE DcLow BY <1>10, DcLowStep
<1>11. CASE DcCrossLow BY <1>11, DcCrossLowStep
<1>12. CASE DcFixLow BY <1>12, DcFixLowStep
<1>13. CASE DcReturn BY <1>13, DcReturnStep
<1>14. CASE ChunkStart BY <1>14, ChunkStartStep
<1>15. CASE ChunkPass BY <1>15, ChunkPassStep
<1>16. CASE ChunkCross BY <1>16, ChunkCrossStep
<1>17. CASE ChunkFix BY <1>17, ChunkFixStep
<1>18. CASE ChunkReturn BY <1>18, ChunkReturnStep
<1>19. CASE ChunksStart BY <1>19, ChunksStartStep
<1>20. CASE ChunksFirst BY <1>20, ChunksFirstStep
<1>21. CASE ChunksNext BY <1>21, ChunksNextStep
<1>22. CASE ChunksReturn BY <1>22, ChunksReturnStep
<1>23. CASE Leave BY <1>23, LeaveStep
<1>24. CASE UNCHANGED vars
  BY <1>24 DEF vars, IInv, Top
<1> QED BY <1>1, <1>2, <1>3, <1>4, <1>5, <1>6, <1>7, <1>8, <1>9, <1>10, <1>11, <1>12, <1>13,
           <1>14, <1>15, <1>16, <1>17, <1>18, <1>19, <1>20, <1>21, <1>22, <1>23, <1>24
        DEF Next, Schoolbook, Recursion, Chunks

(* The divisor and its reciprocal seed never change. *)
LEMMA SeedKept == ASSUME [Next]_vars PROVE dp' = dp /\ v' = v
<1>1. CASE Schoolbook
  BY <1>1 DEF Schoolbook, SbStart, RareTurn, UsualTurn, AddBackSb, StoreBlock, SbReturn
<1>2. CASE Recursion
  BY <1>2 DEF Recursion, DcHigh, DcCrossHigh, DcFixHigh, DcLow, DcCrossLow, DcFixLow, DcReturn, AddBackDc
<1>3. CASE Chunks
  BY <1>3 DEF Chunks, ChunkStart, ChunkPass, ChunkCross, ChunkFix, ChunkReturn, ChunksStart, ChunksFirst,
              ChunksNext, ChunksReturn, AddBackDc
<1>4. CASE Leave
  BY <1>4 DEF Leave
<1>5. CASE UNCHANGED vars
  BY <1>5 DEF vars
<1> QED BY <1>1, <1>2, <1>3, <1>4, <1>5 DEF Next

(* A number in an array of its own. *)
LEMMA ArrayOf ==
  ASSUME NEW n \in Nat, NEW a \in Nat, a < P(n)
  PROVE  LET x == Put([i \in Blocks(n) |-> 0], 0, n, a)
         IN  /\ IsArray(x) /\ DOMAIN x = Blocks(n) /\ Fits(x, 0, n) /\ Value(x, 0, n) = a
<1> DEFINE z == [i \in Blocks(n) |-> 0]  x == Put(z, 0, n, a)
<1>1. DOMAIN z = Blocks(n) /\ \A i \in Blocks(n) : z[i] = 0
  OBVIOUS
<1> HIDE DEF z
<1>2. Digits(z) /\ DOMAIN z \subseteq Int /\ Fits(z, 0, n) /\ 0 \in Nat /\ a \in Int
  <2>1. \A i \in DOMAIN z : z[i] \in Blocks(Beta)
    BY <1>1, Base DEF Blocks
  <2>2. Blocks(n) \subseteq Int
    BY DEF Blocks
  <2>3. Fits(z, 0, n)
    <3>1. \A i \in Blocks(n) : 0 + i = i
      BY <2>2
    <3> QED BY <1>1, <3>1 DEF Fits
  <2> QED BY <1>1, <2>1, <2>2, <2>3 DEF Digits
<1> HIDE DEF x
<1>3. Digits(x) /\ Outside(z, x, 0, n) /\ Value(x, 0, n) = a % P(n)
  BY <1>2, PutRight DEF x
<1>4. DOMAIN x = Blocks(n) /\ IsArray(x) /\ Fits(x, 0, n)
  BY <1>1, <1>2, <1>3 DEF IsArray, Outside, Fits
<1>5. a % P(n) = a
  <2> DEFINE w == P(n)
  <2>1. w \in Nat \ {0} /\ a < w
    BY Scale
  <2> HIDE DEF w
  <2>2. a = 0 * w + a /\ a \in 0 .. w - 1 /\ a \in Int /\ 0 \in Int
    BY <2>1
  <2>3. a % w = a
    BY <2>1, <2>2, DivModUnique
  <2> QED BY <2>3 DEF w
<1> QED BY <1>3, <1>4, <1>5 DEF x, z

(* A divisor in the upper half of its range has its top block there, too. *)
LEMMA TopHalf ==
  ASSUME NEW z, IsArray(z), NEW m \in Nat, Fits(z, 0, m + 1), P(m + 1) <= 2 * Value(z, 0, m + 1)
  PROVE  2 * z[m] >= Beta /\ P(m) <= Value(z, 0, m + 1)
<1>1. Fits(z, 0, m) /\ m \in DOMAIN z
  <2>1. m \in Blocks(m + 1) /\ 0 + m = m /\ 0 \in Nat /\ 1 \in Nat
    BY DEF Blocks
  <2> QED BY <2>1, FitsSplit DEF Fits
<1> DEFINE l == Value(z, 0, m)  d == z[m]  p == P(m)  V == Value(z, 0, m + 1)
<1>2. V = l + p * d
  <2>1. 0 \in Nat /\ 1 \in Nat /\ 0 + m = m
    OBVIOUS
  <2>2. V = Value(z, 0, m) + P(m) * Value(z, 0 + m, 1)
    BY <2>1, ValueSplit DEF IsArray
  <2>3. Value(z, m, 1) = z[m]
    BY <1>1, ValueShort DEF IsArray
  <2> QED BY <2>1, <2>2, <2>3
<1>3. l \in Nat /\ l < p /\ p \in Nat \ {0} /\ d \in Nat /\ P(m + 1) = Beta * p
  <2>1. p \in Nat \ {0}
    BY Scale
  <2>2. l \in 0 .. p - 1 /\ l \in Nat
    BY <1>1, ValueBounds DEF IsArray
  <2>3. d \in Nat
    BY <1>1, Base DEF IsArray, Digits, Blocks
  <2>4. P(m + 1) = Beta * p
    BY Scales
  <2> HIDE DEF l, p
  <2> QED BY <2>1, <2>2, <2>3, <2>4
<1>4. Beta * p <= 2 * V
  BY <1>3
<1> HIDE DEF l, d, p, V
<1>5. p * d \in Nat /\ V \in Nat /\ Beta * p \in Nat
  BY <1>2, <1>3, Base
<1>6. Beta < 2 * (d + 1)
  <2>1. Beta * p < (2 * (d + 1)) * p
    <3>1. (2 * (d + 1)) * p = 2 * (p * d) + 2 * p
      BY <1>3
    <3> QED BY <1>2, <1>3, <1>4, <1>5, <3>1
  <2>2. Beta \in Int /\ 2 * (d + 1) \in Int
    BY <1>3, Base
  <2> QED BY <1>3, <2>1, <2>2, CancelLt
<1>7. 2 * d >= Beta
  <2>1. Beta = 2 * (Beta \div 2) /\ Beta \div 2 \in Int
    <3>1. 2 \in Nat \ {0} /\ Beta \in Int
      BY Base
    <3>2. Beta = (Beta \div 2) * 2 + (Beta % 2) /\ Beta \div 2 \in Int
      BY <3>1, DivMod
    <3> QED BY <3>2, Base
  <2> DEFINE g == Beta \div 2
  <2>2. g \in Int /\ Beta = 2 * g
    BY <2>1
  <2> HIDE DEF g
  <2> QED BY <1>3, <1>6, <2>2
<1>8. p <= V
  <2>1. 2 * p <= Beta * p
    <3>1. 2 <= Beta /\ 2 \in Int /\ Beta \in Int
      BY Base
    <3> QED BY <1>3, <3>1, MulLe
  <2> QED BY <1>3, <1>4, <1>5, <2>1
<1> QED BY <1>7, <1>8 DEF d, p, V

(* The seed div3by2 asks for: the exact reciprocal of the divisor's two top  *)
(* blocks, as long as there are two.                                         *)
SeedExact ==
  \E n \in Nat : n >= 2 /\ DOMAIN dp = Blocks(n) /\ v = Exact(dp[n - 1], dp[n - 2])

LEMMA InitGood == ASSUME Init, SeedExact PROVE IInv
<1> PICK p \in Problems :
      /\ np = Put([i \in Blocks(p.nn) |-> 0], 0, p.nn, p.num)
      /\ qp = [i \in Blocks(p.nn - p.dn) |-> 0]
      /\ dp = Put([i \in Blocks(p.dn) |-> 0], 0, p.dn, p.den)
      /\ stack = <<[Frame(IF p.dn < DC_THRESHOLD THEN "core" ELSE "chunks", 0, 0, 0, p.nn - p.dn, p.dn)
                      EXCEPT !.was = p.num]>>
      /\ ret = NoReturn
  BY DEF Init
<1> DEFINE nn == p.nn  dn == p.dn  num == p.num  den == p.den  qn == nn - dn  m == dn - 1
           fn == IF dn < DC_THRESHOLD THEN "core" ELSE "chunks"
           f == Entered(Frame(fn, 0, 0, 0, qn, dn))
<1>1. /\ nn \in Nat /\ dn \in Nat /\ num \in Nat /\ den \in Nat /\ 2 <= dn /\ dn < nn
      /\ P(dn) <= 2 * den /\ den < P(dn) /\ num < P(nn - 1)
  BY BlockDivAssumption
<1>2. /\ np = Put([i \in Blocks(nn) |-> 0], 0, nn, num) /\ qp = [i \in Blocks(qn) |-> 0]
      /\ dp = Put([i \in Blocks(dn) |-> 0], 0, dn, den)
      /\ stack = <<[Frame(fn, 0, 0, 0, qn, dn) EXCEPT !.was = num]>>
  OBVIOUS
<1> HIDE DEF nn, dn, num, den
<1>3. qn \in Nat /\ qn >= 1 /\ qn + dn = nn /\ m \in Nat /\ m + 1 = dn /\ m + qn = nn - 1 /\ nn - 1 \in Nat
      /\ (nn - 1) + 1 = nn
  BY <1>1
<1> HIDE DEF qn, m
<1>4. IsArray(dp) /\ DOMAIN dp = Blocks(dn) /\ Fits(dp, 0, dn) /\ Value(dp, 0, dn) = den
  BY <1>1, <1>2, ArrayOf
<1>5. num < den * P(qn) /\ 2 * dp[m] >= Beta /\ P(qn) \in Nat \ {0}
  <2>1. 2 * dp[m] >= Beta /\ P(m) <= den
    <3>1. Fits(dp, 0, m + 1) /\ P(m + 1) <= 2 * Value(dp, 0, m + 1)
      BY <1>1, <1>3, <1>4
    <3>2. 2 * dp[m] >= Beta /\ P(m) <= Value(dp, 0, m + 1)
      BY <1>3, <1>4, <3>1, TopHalf
    <3> QED BY <1>3, <1>4, <3>2
  <2>2. P(nn - 1) = P(m) * P(qn)
    BY <1>3, Scales
  <2>3. P(qn) \in Nat \ {0} /\ P(m) \in Int
    BY <1>3, Scale
  <2>4. P(m) * P(qn) <= den * P(qn)
    BY <1>1, <2>1, <2>3, MulLe
  <2> QED BY <1>1, <2>1, <2>2, <2>3, <2>4
<1>6. IsArray(np) /\ Fits(np, 0, nn) /\ Value(np, 0, nn) = num
  <2>1. num < P(nn)
    <3>1. P(nn) = Beta * P(nn - 1) /\ P(nn - 1) \in Nat
      BY <1>3, Scales
    <3>2. 1 * P(nn - 1) <= Beta * P(nn - 1)
      <4>1. 1 <= Beta /\ 1 \in Int /\ Beta \in Int
        BY Base
      <4> QED BY <3>1, <4>1, MulLe
    <3> QED BY <1>1, <3>1, <3>2, Base
  <2> QED BY <1>1, <1>2, <2>1, ArrayOf
<1>7. IsArray(qp) /\ Fits(qp, 0, qn)
  <2>1. DOMAIN qp = Blocks(qn) /\ \A i \in Blocks(qn) : qp[i] = 0
    BY <1>2
  <2>2. \A i \in Blocks(qn) : i \in Int /\ 0 + i = i
    BY DEF Blocks
  <2>3. 0 \in Blocks(Beta)
    BY Base DEF Blocks
  <2> QED BY <1>3, <2>1, <2>2, <2>3 DEF IsArray, Digits, Fits
<1>8. v = Exact(dp[dn - 1], dp[dn - 2])
  <2>1. PICK n \in Nat : n >= 2 /\ Blocks(dn) = Blocks(n) /\ v = Exact(dp[n - 1], dp[n - 2])
    BY <1>4 DEF SeedExact
  <2>2. n = dn
    <3>1. n - 1 \in Blocks(n) /\ dn - 1 \in Blocks(dn)
      BY <1>1, <2>1 DEF Blocks
    <3>2. n - 1 \in 0 .. dn - 1 /\ dn - 1 \in 0 .. n - 1
      BY <2>1, <3>1 DEF Blocks
    <3> QED BY <1>1, <2>1, <3>2
  <2> QED BY <2>1, <2>2
<1>9. Enterable(fn, 0, 0, 0, qn, dn)
  <2>1. 0 + dn - 1 = m /\ 0 + dn - 1 = dn - 1 /\ 0 + dn - 2 = dn - 2 /\ dn - 1 = m
    <3>1. dn \in Int
      BY <1>1
    <3>2. dn - 1 = m
      BY DEF m
    <3> QED BY <3>1, <3>2
  <2>2. fn \in {"core", "chunks"} /\ (fn = "chunks" => dn >= 4) /\ 0 \in Nat
    <3>1. DC_THRESHOLD \in Nat /\ DC_THRESHOLD >= 4
      BY BlockDivAssumption
    <3> QED BY <1>1, <3>1
  <2>3. num < (den + 1) * P(qn)
    <3>1. (den + 1) * P(qn) = den * P(qn) + P(qn) /\ den * P(qn) \in Nat
      BY <1>1, <1>5
    <3> QED BY <1>1, <1>5, <3>1
  <2> HIDE DEF fn
  <2>4. Fits(np, 0, qn + dn) /\ Value(np, 0, qn + dn) = num
    BY <1>3, <1>6
  <2>5. 2 * dp[0 + dn - 1] >= Beta /\ v = Exact(dp[0 + dn - 1], dp[0 + dn - 2])
    BY <1>5, <1>8, <2>1
  <2> QED BY <1>1, <1>3, <1>4, <1>5, <1>6, <1>7, <2>2, <2>3, <2>4, <2>5 DEF Enterable
<1> HIDE DEF fn
<1>10. /\ Good(f, np, qp, dp, v) /\ Running(f, np, qp, dp, ret)
  BY <1>9, Entering
<1>11. stack = <<f>>
  BY <1>2, <1>3, <1>6 DEF Entered, Frame
<1> HIDE DEF f
<1>12. f \in Frames
  BY <1>10 DEF Good
<1>13. stack \in Seq(Frames) /\ Len(stack) = 1 /\ stack[1] = f /\ stack # << >>
  BY <1>11, <1>12
<1>14. GoodStack(stack, np, qp, dp, v)
  <2>1. \A k \in 1 .. Len(stack) : k = 1
    BY <1>13
  <2>2. \A k \in 1 .. Len(stack) : Good(stack[k], np, qp, dp, v)
    BY <1>10, <1>13, <2>1
  <2>3. \A k \in 1 .. Len(stack) : \A i \in 1 .. Len(stack) : ~(k < i)
    BY <1>13
  <2>4. ~\E k \in 1 .. Len(stack) - 1 : TRUE
    BY <1>13
  <2> QED BY <2>2, <2>3, <2>4 DEF GoodStack
<1>15. Running(Top, np, qp, dp, ret)
  BY <1>10, <1>13 DEF Top
<1>16. ret \in Int
  BY NoReturnInt
<1> QED BY <1>4, <1>6, <1>7, <1>13, <1>14, <1>15, <1>16 DEF IInv

(* From an exact seed the invariant holds throughout. *)
LEMMA Invariant == Spec => [](SeedExact => IInv)
<1>1. Init => (SeedExact => IInv)
  BY InitGood
<1>2. (SeedExact => IInv) /\ [Next]_vars => (SeedExact => IInv)'
  <2> SUFFICES ASSUME SeedExact => IInv, [Next]_vars, SeedExact'
               PROVE IInv'
    OBVIOUS
  <2>1. SeedExact
    BY SeedKept DEF SeedExact
  <2> QED BY <2>1, Step
<1> QED BY <1>1, <1>2, PTL DEF Spec

(* The block division divides, for every base, every length and every        *)
(* threshold: a call of divrem_core, blk_sbpi1, blk_dcpi1_div_qr_n,           *)
(* blk_chunk_divide or blk_dcpi1_div_qr that returns leaves (qh, quotient) *  *)
(* divisor + remainder = dividend, with the remainder below the divisor and   *)
(* qh a bit - from an exact reciprocal seed, which is what div3by2 asks for.  *)
THEOREM DivisionRight == Spec => [](SeedExact => Divides)
<1>1. IInv => Divides
  <2> SUFFICES ASSUME IInv, stack # << >>, Top.pc = "done"
               PROVE LET f == Top
                         rest == Value(np, f.n, f.dn)
                     IN  /\ f.qh \in {0, 1}
                         /\ rest < Den(f)
                         /\ f.was - rest = (f.qh * P(f.qn) + Value(qp, f.q, f.qn)) * Den(f)
    BY DEF Divides
  <2> DEFINE f == Top  rest == Value(np, f.n, f.dn)  D == Divisor(f, dp)  F == Found(f, 0, f.qh, qp)
  <2>1. /\ Running(f, np, qp, dp, ret) /\ Good(f, np, qp, dp, v) /\ f.pc = "done"
        /\ IsArray(np) /\ IsArray(qp) /\ IsArray(dp)
    BY TopFacts
  <2> HIDE DEF f
  <2>2. Turned(f, 0, f.qh, np, qp, dp)
    BY <2>1, RunningDone
  <2>3. /\ f.n \in Nat /\ f.q \in Nat /\ f.qn \in Nat /\ f.dn \in Nat /\ D \in Nat
        /\ Fits(qp, f.q, f.qn) /\ Fits(np, f.n, f.qn + f.dn)
    BY <2>1, CallFacts
  <2>4. f.n + 0 = f.n /\ f.q + 0 = f.q /\ f.qn - 0 = f.qn /\ 0 + f.dn = f.dn
    BY <2>3
  <2>5. f.qh \in {0, 1} /\ rest < D /\ f.was = F * D + rest
    BY <2>2, <2>4 DEF Turned
  <2>6. F = f.qh * P(f.qn) + Value(qp, f.q, f.qn) /\ F \in Int
    <3>1. P(0) = 1 /\ P(f.qn) \in Nat
      BY <2>3, Scales
    <3>2. Value(qp, f.q, f.qn) \in Nat
      BY <2>1, <2>3, ValueBounds DEF IsArray
    <3>3. 1 * Value(qp, f.q, f.qn) = Value(qp, f.q, f.qn)
      BY <3>2
    <3>4. F = f.qh * P(f.qn) + Value(qp, f.q, f.qn)
      BY <2>4, <3>1, <3>3 DEF Found
    <3> QED BY <2>5, <3>1, <3>2, <3>4
  <2>7. rest \in Nat
    <3>1. f.dn <= f.qn + f.dn /\ f.n + f.dn <= f.n + (f.qn + f.dn) /\ f.n <= f.n /\ f.qn + f.dn \in Nat
      BY <2>3
    <3>2. Fits(np, f.n, f.dn)
      BY <2>3, <3>1, FitsWithin
    <3> QED BY <2>1, <3>2, ValueBounds DEF IsArray
  <2>8. f.was - rest = F * D
    <3> DEFINE e == F * D
    <3>1. e \in Int /\ f.was = e + rest
      BY <2>3, <2>5, <2>6
    <3> HIDE DEF e, rest
    <3>2. f.was - rest = e
      BY <2>7, <3>1
    <3> QED BY <3>2 DEF e
  <2>9. D = Den(f)
    BY DEF Divisor, Den
  <2>10. f.was - rest = (f.qh * P(f.qn) + Value(qp, f.q, f.qn)) * Den(f)
    BY <2>6, <2>8, <2>9
  <2> HIDE DEF D, rest
  <2> QED BY <2>5, <2>9, <2>10 DEF f, rest
<1>2. (SeedExact => IInv) => (SeedExact => Divides)
  BY <1>1
<1> QED BY <1>2, Invariant, PTL

(* div3by2's estimates are exact and the add-back loops short: a schoolbook   *)
(* turn only asks for a quotient of three blocks by two that fits a block,    *)
(* gets it, and is at most one divisor too far; a half or a chunk of blocks   *)
(* at most two ("R<0 => Q too big; <= 2 iters").  Here, too, for every base   *)
(* and length, from an exact seed.                                            *)
THEOREM EstimatesRight == Spec => [](SeedExact => EstimateExact)
<1>1. IInv => EstimateExact
  <2> SUFFICES ASSUME IInv PROVE EstimateExact
    OBVIOUS
  <2>1. ASSUME NEW k \in 1 .. Len(stack)
        PROVE  stack[k].adds <= IF stack[k].fn \in {"sb", "core"} THEN 1 ELSE 2
    BY DEF IInv, GoodStack, Good, Bounded
  <2>2. ASSUME At({"sb", "core"}, "turn"), Top.j > 0, ~Rare(Top, Top.j - 1)
        PROVE  LET f == Top
                   j == f.j - 1
                   D == D1(f) * Beta + D0(f)
                   e == Estimate(f, j)
               IN  /\ N2(f, j) * Beta + N1(f, j) < D
                   /\ e.q \in 0 .. Beta - 1 /\ e.r \in 0 .. D - 1
                   /\ (N2(f, j) * Beta + N1(f, j)) * Beta + N0(f, j) = e.q * D + e.r
    <3> DEFINE f == Top  j == f.j - 1  W == Value(np, f.n + j, f.dn + 1)
    <3>1. /\ stack # << >> /\ f.pc = "turn" /\ f.j > 0 /\ ~Rare(f, j)
      BY <2>2 DEF At
    <3>2. /\ Running(f, np, qp, dp, ret) /\ Good(f, np, qp, dp, v)
          /\ IsArray(np) /\ IsArray(qp) /\ IsArray(dp)
      BY <3>1, TopFacts
    <3> HIDE DEF f
    <3>3. Turned(f, f.j, f.qh, np, qp, dp)
      BY <3>1, <3>2, RunningAt
    <3>4. TurnOf(f, j, W)
      BY <3>1, <3>2, <3>3, TurnFacts
    <3>5. Answered(f, j, W)
      BY <3>1, <3>2, <3>4, EstimateRight
    <3> QED BY <3>5 DEF Answered, f, j
  <2> QED BY <2>1, <2>2 DEF EstimateExact
<1>2. (SeedExact => IInv) => (SeedExact => EstimateExact)
  BY <1>1
<1> QED BY <1>2, Invariant, PTL

-----------------------------------------------------------------------------
(* The seed's distance from the exact reciprocal *)

(* A quotient r = N / t in units of 1/H, with a cut divisor: t counts whole   *)
(* multiples of c in D, W is C / D and N * c is C in those units.             *)
LEMMA CutDivisor ==
  ASSUME NEW C \in Nat, NEW D \in Nat \ {0}, NEW c \in Nat \ {0}, NEW H \in Nat \ {0},
         NEW t \in Nat \ {0}, NEW N \in Nat, NEW W \in Nat, NEW r \in Nat,
         N * c = C * H, W * D < C, C <= (W + 1) * D,
         c * t <= D, D < c * t + c, r * t <= N, N < (r + 1) * t, r * c <= 2 * D
  PROVE  W * H <= r /\ r < (W + 1) * H + 2
<1> DEFINE ct == c * t  Nc == N * c  WH == W * H  W1H == (W + 1) * H
<1>1. ct \in Nat \ {0} /\ Nc \in Nat /\ WH \in Nat /\ W1H \in Nat
  OBVIOUS
<1>2. WH <= r
  <2>1. Nc < ((r + 1) * t) * c
    <3>1. N \in Int /\ (r + 1) * t \in Int
      OBVIOUS
    <3> QED BY <3>1, MulLt
  <2>2. ((r + 1) * t) * c = (r + 1) * ct
    OBVIOUS
  <2>3. ct * (r + 1) <= D * (r + 1)
    <3>1. ct \in Int /\ D \in Int /\ r + 1 \in Nat
      BY <1>1
    <3> HIDE DEF ct
    <3> QED BY <3>1, MulLe DEF ct
  <2>4. (W * D) * H < C * H
    <3>1. W * D \in Int /\ C \in Int
      OBVIOUS
    <3> QED BY <3>1, MulLt
  <2>5. (W * D) * H = WH * D /\ C * H = Nc
    OBVIOUS
  <2>6. ct * (r + 1) = (r + 1) * ct /\ D * (r + 1) = (r + 1) * D /\ (r + 1) * D \in Int /\ (r + 1) * ct \in Int
    BY <1>1
  <2>7. WH * D \in Int
    BY <1>1
  <2> DEFINE a == WH * D  b == (r + 1) * D  e == (r + 1) * ct
  <2>8. a < Nc /\ Nc < e /\ e <= b /\ a \in Int /\ b \in Int /\ e \in Int
    BY <2>1, <2>2, <2>3, <2>4, <2>5, <2>6, <2>7
  <2> HIDE DEF Nc, e, ct
  <2>9. a < b
    <3> HIDE DEF a, b
    <3> QED BY <1>1, <2>8
  <2>10. WH < r + 1
    <3> HIDE DEF WH
    <3>1. WH \in Int /\ r + 1 \in Int
      BY <1>1
    <3> QED BY <2>9, <3>1, CancelLt
  <2> QED BY <1>1, <2>10
<1>3. r < W1H + 2
  <2>1. CASE r = 0
    BY <1>1, <2>1
  <2>2. CASE r # 0
    <3>1. D * r < (ct + c) * r
      <4>1. D \in Int /\ ct + c \in Int /\ r \in Nat \ {0}
        BY <1>1, <2>2
      <4> QED BY <4>1, MulLt
    <3>2. (r * t) * c <= Nc
      <4>1. r * t \in Int /\ N \in Int
        OBVIOUS
      <4> QED BY <4>1, MulLe
    <3>3. C * H <= ((W + 1) * D) * H
      <4>1. C \in Int /\ (W + 1) * D \in Int
        OBVIOUS
      <4> QED BY <4>1, MulLe
    <3>4. (ct + c) * r = (r * t) * c + r * c /\ ((W + 1) * D) * H = W1H * D
      OBVIOUS
    <3>5. D * r = r * D /\ (W1H + 2) * D = W1H * D + 2 * D
      BY <1>1
    <3> DEFINE a == r * D  b == (r * t) * c  e == r * c  f == W1H * D
    <3>6. a < b + e /\ b <= Nc /\ Nc <= f /\ e <= 2 * D /\ (W1H + 2) * D = f + 2 * D
      BY <3>1, <3>2, <3>3, <3>4, <3>5
    <3>7. a \in Int /\ b \in Int /\ e \in Int /\ f \in Int
      BY <1>1
    <3>8. r * D < (W1H + 2) * D
      <4> HIDE DEF a, b, e, f, Nc, W1H
      <4>1. a < f + 2 * D
        BY <1>1, <3>6, <3>7
      <4> QED BY <3>6, <4>1 DEF a
    <3> HIDE DEF W1H
    <3>9. W1H + 2 \in Int /\ r \in Int
      BY <1>1
    <3> QED BY <3>8, <3>9, CancelLt
  <2> QED BY <2>1, <2>2
<1> QED BY <1>2, <1>3

(* A number that lies within h of those that h divides to W is divided to W   *)
(* or a neighbour.                                                           *)
LEMMA Neighbours ==
  ASSUME NEW x \in Int, NEW h \in Nat \ {0}, NEW W \in Int, (W - 1) * h <= x, x < (W + 2) * h
  PROVE  x \div h - W \in -1 .. 1
<1> DEFINE q == x \div h  m == x % h
<1>1. x = q * h + m /\ q \in Int /\ m \in 0 .. h - 1
  BY DivMod
<1> HIDE DEF q, m
<1>2. q < W + 2
  <2>1. q * h < (W + 2) * h
    <3>1. q * h \in Int /\ (W + 2) * h \in Int
      BY <1>1
    <3> QED BY <1>1, <3>1
  <2>2. W + 2 \in Int
    OBVIOUS
  <2> QED BY <1>1, <2>1, <2>2, CancelLt
<1>3. W - 1 < q + 1
  <2>1. (q + 1) * h = q * h + h
    BY <1>1
  <2>2. (W - 1) * h < (q + 1) * h
    <3>1. q * h \in Int /\ (W - 1) * h \in Int
      BY <1>1
    <3> QED BY <1>1, <2>1, <3>1
  <2>3. W - 1 \in Int /\ q + 1 \in Int
    BY <1>1
  <2> QED BY <2>2, <2>3, CancelLt
<1> QED BY <1>1, <1>2, <1>3 DEF q

(* The seed is off by less than what is dropped of it, Guard / 2 units of its *)
(* last place, two of which are kept for what the cut divisor adds.          *)
UlpsSmall == \A e \in Ulps : -(Guard \div 2) <= e /\ e + 1 < Guard \div 2

LEMMA SeedClose ==
  ASSUME UlpsSmall, NEW d1 \in 0 .. Beta - 1, NEW d0 \in 0 .. Beta - 1, 2 * d1 >= Beta,
         NEW s \in Seeds(d1, d0)
  PROVE  s - Exact(d1, d0) \in -1 .. 1
<1> DEFINE H == Guard \div 2  c == Beta \div Guard  D == d1 * Beta + d0  C == Beta * Beta * Beta
           top == d1 * Guard + d0 \div c  one == Beta * Guard  N == (one * one) \div 2
           W == (C - 1) \div D  r == N \div top
           held(x) == IF x < one \div 2 THEN one \div 2 ELSE IF x < one THEN x ELSE one - 1
<1>1. H \in Nat \ {0} /\ Guard = 2 * H /\ Guard \in Nat \ {0}
  <2>1. Guard = (Guard \div 2) * 2 + (Guard % 2) /\ Guard \div 2 \in Int
    <3>1. 2 \in Nat \ {0} /\ Guard \in Int
      BY BlockDivAssumption
    <3> QED BY <3>1, DivMod
  <2> QED BY <2>1, BlockDivAssumption
<1>2. c \in Nat \ {0} /\ Beta = c * Guard
  <2>1. Beta = (Beta \div Guard) * Guard + (Beta % Guard) /\ Beta \div Guard \in Int
    <3>1. Beta \in Int
      BY Base
    <3> QED BY <1>1, <3>1, DivMod
  <2>2. Beta % Guard = 0
    BY BlockDivAssumption
  <2> HIDE DEF c
  <2>3. Beta = c * Guard /\ c \in Int
    BY <1>1, <2>1, <2>2 DEF c
  <2>4. 0 * Guard < c * Guard
    BY <1>1, <2>3, Base
  <2>5. 0 < c
    <3>1. 0 \in Int
      OBVIOUS
    <3> QED BY <1>1, <2>3, <2>4, <3>1, CancelLt
  <2> QED BY <2>3, <2>5
<1>3. \E e \in Ulps : s = held(r + e) \div H - Beta
  BY DEF Seeds
<1>4. PICK e \in Ulps : s = held(r + e) \div H - Beta
  BY <1>3
<1> HIDE DEF H, c
<1>5. -H <= e /\ e + 1 < H /\ e \in Int
  BY BlockDivAssumption DEF UlpsSmall, H
<1>6. D \in Nat \ {0} /\ Beta * Beta <= 2 * D /\ D < Beta * Beta
  <2>1. d1 * Beta <= (Beta - 1) * Beta
    <3>1. d1 \in Int /\ Beta - 1 \in Int /\ d1 <= Beta - 1 /\ Beta \in Nat
      BY Base
    <3> QED BY <3>1, MulLe
  <2>2. Beta * Beta <= (2 * d1) * Beta
    <3>1. Beta \in Int /\ 2 * d1 \in Int /\ Beta \in Nat
      BY Base
    <3> QED BY <3>1, MulLe
  <2>3. d1 * Beta \in Nat /\ (2 * d1) * Beta = 2 * (d1 * Beta) /\ (Beta - 1) * Beta = Beta * Beta - Beta
        /\ Beta * Beta > 0
    BY Base
  <2> QED BY <2>1, <2>2, <2>3, Base
<1>7. C \in Nat /\ C > 0 /\ C = Beta * (Beta * Beta)
  BY Base
<1>8. W \in Nat /\ W * D < C /\ C <= (W + 1) * D
  <2> DEFINE x == C - 1
  <2>1. x \in Nat /\ x \in Int /\ x = C - 1
    BY <1>7
  <2> HIDE DEF x, D, C
  <2>2. x = (x \div D) * D + (x % D) /\ x \div D \in Int /\ x % D \in 0 .. D - 1
    BY <1>6, <2>1, DivMod
  <2>3. x \div D >= 0
    BY <1>6, <2>1
  <2> DEFINE w == x \div D  m == x % D
  <2>4. x = w * D + m /\ w \in Nat /\ m \in 0 .. D - 1
    BY <2>2, <2>3
  <2> HIDE DEF w, m
  <2>5. (w + 1) * D = w * D + D /\ w * D \in Nat
    BY <1>6, <2>4
  <2>6. w * D < C /\ C <= (w + 1) * D
    BY <1>6, <1>7, <2>1, <2>4, <2>5
  <2> QED BY <2>1, <2>4, <2>6 DEF w, x
<1>9. C - 1 = Beta * Beta * Beta - 1 /\ Exact(d1, d0) = W - Beta
  BY DEF Exact
<1>10. W < 2 * Beta /\ W >= Beta
  <2>1. W * D < (2 * Beta) * D
    <3>1. (Beta * Beta) * Beta <= (2 * D) * Beta
      <4>1. Beta * Beta \in Int /\ 2 * D \in Int /\ Beta \in Nat
        BY <1>6, Base
      <4> QED BY <1>6, <4>1, MulLe
    <3>2. (2 * D) * Beta = (2 * Beta) * D /\ (2 * Beta) * D \in Int /\ W * D \in Int
      BY <1>6, <1>8, Base
    <3> HIDE DEF W, D
    <3> QED BY <1>7, <1>8, <3>1, <3>2, Base
  <2>2. Beta * D < (W + 1) * D
    <3>1. D * Beta < (Beta * Beta) * Beta
      <4>1. D \in Int /\ Beta * Beta \in Int /\ Beta \in Nat \ {0}
        BY <1>6, Base
      <4> QED BY <1>6, <4>1, MulLt
    <3>2. D * Beta = Beta * D /\ Beta * D \in Int /\ (W + 1) * D \in Int
      BY <1>6, <1>8, Base
    <3> HIDE DEF W, D
    <3> QED BY <1>7, <1>8, <3>1, <3>2, Base
  <2>3. W \in Int /\ 2 * Beta \in Int /\ Beta \in Int /\ W + 1 \in Int
    BY <1>8, Base
  <2> HIDE DEF W, D
  <2>4. W < 2 * Beta
    BY <1>6, <2>1, <2>3, CancelLt
  <2>5. Beta < W + 1
    BY <1>6, <2>2, <2>3, CancelLt
  <2> QED BY <2>3, <2>4, <2>5
<1> HIDE DEF W
<1>11. one = 2 * (Beta * H) /\ Beta * H \in Nat \ {0} /\ one \div 2 = Beta * H /\ one \in Nat \ {0}
       /\ N = one * (Beta * H) /\ one * c = Beta * Beta
  <2> DEFINE b == Beta * H
  <2>1. b \in Nat \ {0} /\ one = 2 * b
    BY <1>1, Base
  <2>2. one * c = Beta * Beta
    <3>1. (Beta * Guard) * c = Beta * (c * Guard)
      BY <1>1, <1>2, Base
    <3> QED BY <1>2, <3>1
  <2> HIDE DEF b, one
  <2> DEFINE y == one * b  z == one * one
  <2>3. one = b * 2 + 0 /\ z = y * 2 + 0 /\ 0 \in 0 .. 2 - 1 /\ 2 \in Nat \ {0}
        /\ one \in Int /\ b \in Int /\ y \in Int /\ z \in Int
    <3>1. one * (2 * b) = (one * b) * 2 /\ one \in Int
      BY <2>1
    <3> QED BY <2>1, <3>1
  <2> HIDE DEF y, z
  <2>4. one \div 2 = b /\ z \div 2 = y
    BY <2>3, DivModUnique
  <2> QED BY <2>1, <2>2, <2>4 DEF b, y, z
<1> HIDE DEF one, N
<1>12. N \in Nat /\ N * c = C * H
  <2>1. (one * (Beta * H)) * c = (one * c) * (Beta * H) /\ one * (Beta * H) \in Nat
    BY <1>2, <1>11
  <2>2. (Beta * Beta) * (Beta * H) = C * H
    BY <1>1, Base
  <2> QED BY <1>11, <2>1, <2>2
<1>13. top \in Nat \ {0} /\ c * top <= D /\ D < c * top + c /\ one <= 2 * top
  <2> DEFINE u == d0 \div c  m == d0 % c
  <2>1. d0 = u * c + m /\ u \in Int /\ m \in 0 .. c - 1 /\ d0 \in Int
    <3>1. d0 \in Int
      BY Base
    <3> QED BY <1>2, <3>1, DivMod
  <2>2. u >= 0
    BY <1>2, Base
  <2> HIDE DEF u, m
  <2>3. c * (d1 * Guard + u) = d1 * (c * Guard) + u * c
    BY <1>1, <1>2, <2>1, Base
  <2>4. d1 * Beta \in Int /\ u * c \in Int /\ u * c + m = d0
    BY <1>2, <2>1, Base
  <2>5. c * top = d1 * Beta + u * c
    BY <1>2, <2>3 DEF u
  <2>6. Beta * Guard <= (2 * d1) * Guard
    <3>1. Beta \in Int /\ 2 * d1 \in Int
      BY Base
    <3> QED BY <1>1, <3>1, MulLe
  <2>7. (2 * d1) * Guard = 2 * (d1 * Guard) /\ d1 * Guard \in Nat
    BY <1>1, Base
  <2>8. top = d1 * Guard + u /\ top \in Int /\ one <= 2 * top
    BY <1>11, <2>1, <2>2, <2>6, <2>7 DEF u, one
  <2>9. top > 0
    BY <1>11, <2>8
  <2> HIDE DEF top
  <2>10. c * top \in Int
    BY <1>2, <2>8
  <2> DEFINE p == d1 * Beta  w == u * c
  <2>11. p \in Int /\ w \in Int /\ w + m = d0 /\ c * top = p + w /\ D = p + d0
    BY <2>4, <2>5
  <2> HIDE DEF D, p, w
  <2> QED BY <1>2, <2>1, <2>8, <2>9, <2>10, <2>11
<1> HIDE DEF top
<1>14. r \in Nat /\ r * top <= N /\ N < (r + 1) * top
  <2>1. N = (N \div top) * top + (N % top) /\ N \div top \in Int /\ N % top \in 0 .. top - 1
    <3>1. N \in Int
      BY <1>12
    <3> QED BY <1>13, <3>1, DivMod
  <2>2. N \div top >= 0
    BY <1>12, <1>13
  <2> DEFINE m == N % top
  <2>3. N = r * top + m /\ r \in Nat /\ m \in 0 .. top - 1
    BY <2>1, <2>2
  <2> HIDE DEF r, m
  <2>4. (r + 1) * top = r * top + top /\ r * top \in Nat
    BY <1>13, <2>3
  <2> QED BY <1>13, <2>3, <2>4
<1> HIDE DEF r
<1>15. r * c <= 2 * D
  <2>1. one * r <= (2 * top) * r
    <3>1. one \in Int /\ 2 * top \in Int
      BY <1>11, <1>13
    <3> QED BY <1>13, <1>14, <3>1, MulLe
  <2>2. (2 * top) * r = 2 * (r * top) /\ r * top \in Int /\ one * r \in Int /\ one * r = r * one
    BY <1>11, <1>13, <1>14
  <2>3. 2 * N = one * one /\ one * one \in Int
    <3>1. one * (2 * (Beta * H)) = 2 * (one * (Beta * H))
      BY <1>11
    <3> QED BY <1>11, <3>1
  <2>4. r * one <= one * one
    <3> DEFINE x == r * top  y == one * one  z == one * r
    <3>1. z <= 2 * x /\ x <= N /\ 2 * N = y /\ x \in Int /\ y \in Int /\ z \in Int /\ z = r * one
      BY <1>14, <2>1, <2>2, <2>3
    <3> HIDE DEF x, y, z
    <3>2. z <= y
      BY <1>12, <3>1
    <3> QED BY <3>1, <3>2 DEF y
  <2>5. r <= one
    <3>1. r \in Int /\ one \in Int
      BY <1>11, <1>14
    <3> QED BY <1>11, <2>4, <3>1, CancelLe
  <2>6. r * c <= one * c
    <3>1. r \in Int /\ one \in Int /\ c \in Nat
      BY <1>2, <1>11, <1>14
    <3> QED BY <2>5, <3>1, MulLe
  <2>7. r * c \in Int /\ Beta * Beta \in Int /\ one * c = Beta * Beta
    BY <1>2, <1>11, <1>14, Base
  <2> HIDE DEF D
  <2> QED BY <1>6, <2>6, <2>7
<1>16. W * H <= r /\ r < (W + 1) * H + 2
  <2> HIDE DEF D, C
  <2> QED BY <1>1, <1>2, <1>6, <1>7, <1>8, <1>12, <1>13, <1>14, <1>15, CutDivisor
<1> DEFINE x == r + e  WH == W * H  y == held(x)
<1>17. (W - 1) * H = WH - H /\ (W + 2) * H = WH + 2 * H /\ (W + 1) * H = WH + H /\ WH \in Int
  BY <1>1, <1>8
<1>18. WH - H <= x /\ x < WH + 2 * H /\ x \in Int
  <2> HIDE DEF WH
  <2> QED BY <1>1, <1>5, <1>14, <1>16, <1>17 DEF WH
<1>19. Beta * H <= WH /\ WH + H <= 2 * (Beta * H)
  <2>1. Beta * H <= W * H
    <3>1. Beta \in Int /\ W \in Int /\ H \in Nat
      BY <1>1, <1>8, Base
    <3> QED BY <1>10, <3>1, MulLe
  <2>2. (W + 1) * H <= (2 * Beta) * H
    <3>1. 2 * Beta \in Int /\ W + 1 \in Int /\ H \in Nat /\ W + 1 <= 2 * Beta
      BY <1>1, <1>8, <1>10, Base
    <3> QED BY <3>1, MulLe
  <2>3. (2 * Beta) * H = 2 * (Beta * H)
    BY <1>1, Base
  <2> QED BY <1>17, <2>1, <2>2, <2>3
<1> HIDE DEF x, WH
<1>20. WH - H <= y /\ y < WH + 2 * H /\ y \in Int
  <2> DEFINE b == Beta * H
  <2>1. b \in Int /\ one = 2 * b /\ one \div 2 = b /\ b <= WH /\ WH + H <= 2 * b
    BY <1>11, <1>19
  <2> HIDE DEF b
  <2>2. CASE x < b
    <3>1. y = b
      BY <2>1, <2>2
    <3> QED BY <1>1, <1>17, <1>18, <2>1, <2>2, <3>1
  <2>3. CASE ~(x < b) /\ x < one
    <3>1. y = x
      BY <2>1, <2>3
    <3> QED BY <1>18, <3>1
  <2>4. CASE ~(x < b) /\ ~(x < one)
    <3>1. y = one - 1
      BY <2>1, <2>4
    <3> QED BY <1>1, <1>17, <1>18, <2>1, <2>4, <3>1
  <2> QED BY <2>2, <2>3, <2>4
<1>21. s = y \div H - Beta
  BY <1>4 DEF x
<1> HIDE DEF y
<1>22. y \div H - W \in -1 .. 1
  <2>1. (W - 1) * H <= y /\ y < (W + 2) * H /\ W \in Int
    BY <1>8, <1>17, <1>20
  <2> QED BY <1>1, <1>20, <2>1, Neighbours
<1>23. y \div H \in Int
  BY <1>1, <1>20, DivMod
<1> DEFINE q == y \div H
<1>24. q \in Int /\ q - W \in -1 .. 1 /\ s = q - Beta /\ Exact(d1, d0) = W - Beta
  BY <1>9, <1>21, <1>22, <1>23
<1> HIDE DEF q
<1> QED BY <1>8, <1>24, Base

(* The seed is the exact reciprocal of the divisor's two top blocks, or one   *)
(* more, or one less.                                                        *)
SeedNear ==
  \E n \in Nat : n >= 2 /\ DOMAIN dp = Blocks(n) /\ v - Exact(dp[n - 1], dp[n - 2]) \in -1 .. 1

LEMMA InitNear == ASSUME UlpsSmall, Init PROVE SeedNear
<1> PICK p \in Problems :
      /\ dp = Put([i \in Blocks(p.dn) |-> 0], 0, p.dn, p.den)
      /\ v \in Seeds(p.den \div P(p.dn - 1), (p.den \div P(p.dn - 2)) % Beta)
  BY DEF Init
<1> DEFINE dn == p.dn  den == p.den  m == dn - 1  z == [i \in Blocks(dn) |-> 0]  g == den \div P(m)
<1>1. dn \in Nat /\ den \in Nat /\ 2 <= dn /\ P(dn) <= 2 * den /\ den < P(dn)
  BY BlockDivAssumption
<1>2. dp = Put(z, 0, dn, den) /\ v \in Seeds(den \div P(dn - 1), (den \div P(dn - 2)) % Beta)
  OBVIOUS
<1> HIDE DEF dn, den
<1>3. m \in Nat /\ m + 1 = dn /\ m - 0 = m /\ 0 <= m /\ m < 0 + dn /\ m = dn - 1
      /\ (dn - 2) - 0 = dn - 2 /\ 0 <= dn - 2 /\ dn - 2 < 0 + dn
  BY <1>1
<1>4. IsArray(dp) /\ DOMAIN dp = Blocks(dn) /\ Fits(dp, 0, dn) /\ Value(dp, 0, dn) = den
  BY <1>1, <1>2, ArrayOf
<1>5. dp[m] = g % Beta /\ dp[dn - 2] = (den \div P(dn - 2)) % Beta
  <2>1. DOMAIN z = Blocks(dn) /\ m \in Blocks(dn) /\ dn - 2 \in Blocks(dn)
    BY <1>1, <1>3 DEF Blocks
  <2> HIDE DEF z, m
  <2>2. dp[m] = (den \div P(m - 0)) % Beta
    BY <1>2, <1>3, <2>1 DEF Put
  <2>3. dp[dn - 2] = (den \div P((dn - 2) - 0)) % Beta
    BY <1>2, <1>3, <2>1 DEF Put
  <2> QED BY <1>3, <2>2, <2>3
<1> HIDE DEF z, m
<1>6. g \in 0 .. Beta - 1
  <2> DEFINE w == P(m)
  <2>1. w \in Nat \ {0} /\ P(dn) = Beta * w
    <3>1. w \in Nat \ {0}
      BY <1>3, Scale
    <3> QED BY <1>3, <3>1, Scales
  <2> HIDE DEF w
  <2>2. den = (den \div w) * w + (den % w) /\ den % w \in 0 .. w - 1 /\ den \div w \in Int
    <3>1. den \in Int
      BY <1>1
    <3> QED BY <2>1, <3>1, DivMod
  <2> DEFINE a == den \div w  b == den % w
  <2>3. den = a * w + b /\ b \in 0 .. w - 1 /\ a \in Int
    BY <2>2
  <2> HIDE DEF a, b
  <2>4. a * w < Beta * w /\ a * w > (-1) * w
    BY <1>1, <2>1, <2>3, Base
  <2>5. a < Beta
    BY <2>1, <2>3, <2>4, Base, CancelLt
  <2>6. -1 < a
    BY <2>1, <2>3, <2>4, CancelLt
  <2> QED BY <2>3, <2>5, <2>6, Base DEF a, w
<1>7. dp[m] = g
  <2> HIDE DEF g
  <2>1. g = 0 * Beta + g /\ 0 \in Int /\ g \in Int
    <3>1. g \in Int /\ 0 * Beta = 0
      BY <1>6, Base
    <3> QED BY <3>1
  <2>2. g % Beta = g
    BY <1>6, <2>1, Base, DivModUnique
  <2> QED BY <1>5, <2>2
<1>8. 2 * dp[m] >= Beta
  <2>1. Fits(dp, 0, m + 1) /\ P(m + 1) <= 2 * Value(dp, 0, m + 1)
    BY <1>1, <1>3, <1>4
  <2> QED BY <1>3, <1>4, <2>1, TopHalf
<1>9. dp[dn - 2] \in 0 .. Beta - 1 /\ dp[m] \in 0 .. Beta - 1 /\ dp[m] = dp[dn - 1]
  <2>1. m \in DOMAIN dp /\ dn - 2 \in DOMAIN dp
    BY <1>1, <1>3, <1>4 DEF Blocks
  <2> QED BY <1>3, <1>4, <2>1 DEF IsArray, Digits, Blocks
<1>10. v \in Seeds(dp[m], dp[dn - 2])
  BY <1>2, <1>3, <1>5, <1>7
<1>11. v - Exact(dp[m], dp[dn - 2]) \in -1 .. 1
  <2> DEFINE d1 == dp[m]  d0 == dp[dn - 2]
  <2>1. d1 \in 0 .. Beta - 1 /\ d0 \in 0 .. Beta - 1 /\ 2 * d1 >= Beta /\ v \in Seeds(d1, d0)
    BY <1>8, <1>9, <1>10
  <2> HIDE DEF d1, d0
  <2>2. v - Exact(d1, d0) \in -1 .. 1
    BY <2>1, SeedClose
  <2> QED BY <2>2 DEF d1, d0
<1> QED BY <1>1, <1>4, <1>9, <1>11 DEF SeedNear

(* What the program's own seed is good for: a reciprocal that reads only part *)
(* of the divisor's second block, and is off by no more than the digits its   *)
(* caller drops, is within one of the exact one, on either side, for every    *)
(* base, guard and normalized divisor (recip_3by2_seed.h:6).  It may be one   *)
(* off, which is not enough for the theorems above: see run block_div_seed.   *)
THEOREM SeedWithinOne == UlpsSmall => (Spec => []SeedNear)
<1> SUFFICES ASSUME UlpsSmall PROVE Spec => []SeedNear
  OBVIOUS
<1>1. Init => SeedNear
  BY InitNear
<1>2. SeedNear /\ [Next]_vars => SeedNear'
  <2> SUFFICES ASSUME SeedNear, [Next]_vars PROVE SeedNear'
    OBVIOUS
  <2>1. dp' = dp /\ v' = v
    BY SeedKept
  <2> QED BY <2>1 DEF SeedNear
<1> QED BY <1>1, <1>2, PTL DEF Spec

=============================================================================
