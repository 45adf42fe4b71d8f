---------------------------- MODULE NumberProofs ----------------------------
(***************************************************************************)
(* What the proofs about recursive functions rest on: induction over the   *)
(* natural numbers for a set of them, from the well-foundedness of <, and  *)
(* with it powers, the value of digits, its pieces, and division.          *)
(***************************************************************************)
EXTENDS DigitNumbers, WellFoundedInduction, TLAPS

LEMMA SmallestMember ==
  ASSUME NEW T, T \subseteq Nat, T # {}
  PROVE  \E m \in T : \A k \in T : m <= k
<1> DEFINE R == OpToRel(<, Nat)
<1>1. IsWellFoundedOn(R, Nat)
  BY NatLessThanWellFounded
<1>2. \A i \in Nat, j \in Nat : i < j => <<i, j>> \in R
  BY DEF OpToRel
<1> HIDE DEF R
<1>3. PICK m \in T : \A k \in T : ~(<<k, m>> \in R)
  BY <1>1, WFMin
<1>4. \A k \in T : ~(k < m)
  BY <1>2, <1>3
<1> QED BY <1>3, <1>4

LEMMA ByInduction ==
  ASSUME NEW T, T \subseteq Nat, 0 \in T, \A n \in Nat : n \in T => n + 1 \in T
  PROVE  \A n \in Nat : n \in T
<1> DEFINE U == Nat \ T
<1>1. SUFFICES ASSUME U # {} PROVE FALSE
  OBVIOUS
<1>2. PICK m \in U : \A k \in U : m <= k
  BY <1>1, SmallestMember
<1>3. m # 0 /\ m \in Nat
  BY <1>2
<1>4. m - 1 \in Nat /\ m - 1 \in T
  BY <1>2, <1>3
<1>5. m \in T
  BY <1>3, <1>4
<1> QED BY <1>2, <1>5

-----------------------------------------------------------------------------
(* Powers *)

IsPower(p, base, k) == p = [j \in 0 .. k |-> IF j = 0 THEN 1 ELSE base * p[j - 1]]

LEMMA PowerDefined ==
  ASSUME NEW base, NEW k \in Nat
  PROVE  \E p : IsPower(p, base, k) /\ Power(base, k) = p[k]
<1> DEFINE T == {n \in Nat : \E p : IsPower(p, base, n)}
<1>1. 0 \in T
  <2> DEFINE p == [j \in 0 .. 0 |-> 1]
  <2>1. IsPower(p, base, 0)
    BY DEF IsPower
  <2> QED BY <2>1
<1>2. ASSUME NEW n \in Nat, n \in T PROVE n + 1 \in T
  <2>1. PICK p : IsPower(p, base, n)
    BY <1>2
  <2> DEFINE q == [j \in 0 .. n + 1 |-> IF j = 0 THEN 1 ELSE base * p[j - 1]]
  <2>2. \A j \in 0 .. n : q[j] = p[j]
    BY <2>1 DEF IsPower
  <2>3. q = [j \in 0 .. n + 1 |-> IF j = 0 THEN 1 ELSE base * q[j - 1]]
    BY SMTT(40), <2>2
  <2> HIDE DEF q
  <2>4. IsPower(q, base, n + 1)
    BY <2>3 DEF IsPower
  <2> QED BY <2>4
<1>3. k \in T
  BY <1>1, <1>2, ByInduction
<1> DEFINE c == CHOOSE p : IsPower(p, base, k)
<1>4. IsPower(c, base, k)
  BY <1>3
<1>5. Power(base, k) = c[k]
  BY DEF Power, IsPower
<1> QED BY <1>4, <1>5

LEMMA PowersAgree ==
  ASSUME NEW base, NEW k \in Nat, NEW p, NEW q, IsPower(p, base, k), IsPower(q, base, k + 1)
  PROVE  q[k] = p[k]
<1> DEFINE T == {n \in Nat : n <= k => p[n] = q[n]}
<1>1. 0 \in T
  BY DEF IsPower
<1>2. ASSUME NEW n \in Nat, n \in T PROVE n + 1 \in T
  BY <1>2 DEF IsPower
<1>3. k \in T
  BY <1>1, <1>2, ByInduction
<1> QED BY <1>3

LEMMA PowerSteps ==
  ASSUME NEW base
  PROVE  Power(base, 0) = 1 /\ \A k \in Nat : Power(base, k + 1) = base * Power(base, k)
<1>1. Power(base, 0) = 1
  BY PowerDefined DEF IsPower
<1>2. ASSUME NEW k \in Nat PROVE Power(base, k + 1) = base * Power(base, k)
  <2>1. PICK p : IsPower(p, base, k) /\ Power(base, k) = p[k]
    BY PowerDefined
  <2>2. PICK q : IsPower(q, base, k + 1) /\ Power(base, k + 1) = q[k + 1]
    BY PowerDefined
  <2>3. q[k + 1] = base * q[k]
    BY <2>2 DEF IsPower
  <2> QED BY <2>1, <2>2, <2>3, PowersAgree
<1> QED BY <1>1, <1>2

LEMMA PowerPositive ==
  ASSUME NEW base \in Nat, base > 0
  PROVE  \A k \in Nat : Power(base, k) \in Nat /\ Power(base, k) > 0
<1> DEFINE T == {k \in Nat : Power(base, k) \in Nat /\ Power(base, k) > 0}
<1>1. 0 \in T
  BY PowerSteps
<1>2. ASSUME NEW k \in Nat, k \in T PROVE k + 1 \in T
  <2> DEFINE x == Power(base, k)  y == Power(base, k + 1)
  <2>1. x \in Nat /\ x > 0 /\ y = base * x
    BY <1>2, PowerSteps
  <2> HIDE DEF x, y
  <2>2. y \in Nat /\ y > 0
    BY <2>1
  <2> QED BY <2>2 DEF y
<1>3. \A k \in Nat : k \in T
  <2> HIDE DEF T
  <2>1. T \subseteq Nat
    BY DEF T
  <2> QED BY <1>1, <1>2, <2>1, ByInduction
<1> QED BY <1>3

LEMMA PowerSum ==
  ASSUME NEW base \in Nat, base > 0, NEW m \in Nat
  PROVE  \A n \in Nat : Power(base, m + n) = Power(base, m) * Power(base, n)
<1> DEFINE T == {k \in Nat : Power(base, m + k) = Power(base, m) * Power(base, k)}
<1>1. 0 \in T
  <2>1. Power(base, 0) = 1 /\ Power(base, m) \in Nat /\ m + 0 = m
    BY PowerSteps, PowerPositive
  <2> QED BY <2>1
<1>2. ASSUME NEW k \in Nat, k \in T PROVE k + 1 \in T
  <2> DEFINE x == Power(base, m)  y == Power(base, k)  n == m + k
  <2>1. n \in Nat /\ m + (k + 1) = n + 1
    OBVIOUS
  <2>2. Power(base, n) = x * y
    BY <1>2
  <2> HIDE DEF n
  <2>3. Power(base, n + 1) = base * Power(base, n) /\ Power(base, k + 1) = base * y
    BY <2>1, PowerSteps
  <2>4. x \in Nat /\ y \in Nat
    BY PowerPositive
  <2> HIDE DEF x, y
  <2>5. base * (x * y) = x * (base * y)
    BY <2>4
  <2>6. Power(base, m + (k + 1)) = x * Power(base, k + 1)
    BY <2>1, <2>2, <2>3, <2>5
  <2> QED BY <2>6 DEF x
<1>3. \A k \in Nat : k \in T
  <2> HIDE DEF T
  <2>1. T \subseteq Nat
    BY DEF T
  <2> QED BY <1>1, <1>2, <2>1, ByInduction
<1> QED BY <1>3

-----------------------------------------------------------------------------
(* The number a sequence of digits stands for *)

IsNumber(g, f, k, base, from) ==
  g = [j \in from .. k |-> IF j = k THEN 0 ELSE f[j] + base * g[j + 1]]

LEMMA NumberDefined ==
  ASSUME NEW f, NEW base, NEW k \in Nat
  PROVE  \E g : IsNumber(g, f, k, base, 0) /\ Number(f, k, base) = g[0]
<1> DEFINE T == {i \in Nat : i <= k => \E g : IsNumber(g, f, k, base, k - i)}
<1>1. 0 \in T
  <2> DEFINE g == [j \in k .. k |-> 0]
  <2>1. IsNumber(g, f, k, base, k - 0)
    BY DEF IsNumber
  <2> QED BY <2>1
<1>2. ASSUME NEW i \in Nat, i \in T PROVE i + 1 \in T
  <2> SUFFICES ASSUME i + 1 <= k PROVE \E g : IsNumber(g, f, k, base, k - (i + 1))
    OBVIOUS
  <2> DEFINE m == k - (i + 1)
  <2>1. m \in Nat /\ k - i = m + 1 /\ m < k
    OBVIOUS
  <2>2. PICK g : IsNumber(g, f, k, base, m + 1)
    BY <1>2, <2>1
  <2> HIDE DEF m
  <2> DEFINE h == [j \in m .. k |-> IF j = k THEN 0 ELSE f[j] + base * g[j + 1]]
  <2>3. \A j \in m + 1 .. k : h[j] = g[j]
    BY <2>1, <2>2 DEF IsNumber
  <2>4. h = [j \in m .. k |-> IF j = k THEN 0 ELSE f[j] + base * h[j + 1]]
    BY <2>1, <2>3
  <2> HIDE DEF h
  <2>5. IsNumber(h, f, k, base, m)
    BY <2>4 DEF IsNumber
  <2> QED BY <2>5 DEF m
<1>3. k \in T
  <2> HIDE DEF T
  <2>1. T \subseteq Nat
    BY DEF T
  <2> QED BY <1>1, <1>2, <2>1, ByInduction
<1> DEFINE c == CHOOSE g : IsNumber(g, f, k, base, 0)
<1>4. k - k = 0
  OBVIOUS
<1>5. IsNumber(c, f, k, base, 0)
  BY <1>3, <1>4
<1>6. Number(f, k, base) = c[0]
  BY DEF Number, IsNumber
<1> QED BY <1>5, <1>6

(* One more digit on top. *)
LEMMA NumberGrows ==
  ASSUME NEW f, NEW base \in Nat, base > 0, NEW k \in Nat, \A j \in 0 .. k : f[j] \in Int
  PROVE  /\ Number(f, k, base) \in Int
         /\ Number(f, k + 1, base) = Number(f, k, base) + Power(base, k) * f[k]
<1>1. PICK g : IsNumber(g, f, k, base, 0) /\ Number(f, k, base) = g[0]
  BY NumberDefined
<1>2. PICK h : IsNumber(h, f, k + 1, base, 0) /\ Number(f, k + 1, base) = h[0]
  BY NumberDefined
<1> DEFINE T == {i \in Nat : i <= k => /\ g[k - i] \in Int
                                       /\ h[k - i] = g[k - i] + Power(base, i) * f[k]}
<1>3. 0 \in T
  <2>1. g[k - 0] = 0 /\ h[k - 0] = f[k] + base * h[k + 1] /\ h[k + 1] = 0
    BY <1>1, <1>2 DEF IsNumber
  <2>2. Power(base, 0) = 1 /\ f[k] \in Int
    BY PowerSteps
  <2> QED BY <2>1, <2>2
<1>4. ASSUME NEW i \in Nat, i \in T PROVE i + 1 \in T
  <2> SUFFICES ASSUME i + 1 <= k
               PROVE  /\ g[k - (i + 1)] \in Int
                      /\ h[k - (i + 1)] = g[k - (i + 1)] + Power(base, i + 1) * f[k]
    OBVIOUS
  <2> DEFINE m == k - (i + 1)  x == g[m + 1]  y == Power(base, i)
  <2>1. m \in Nat /\ k - i = m + 1 /\ m < k
    OBVIOUS
  <2>2. x \in Int /\ h[m + 1] = x + y * f[k]
    BY <1>4, <2>1
  <2> HIDE DEF m
  <2>3. g[m] = f[m] + base * x /\ h[m] = f[m] + base * h[m + 1]
    BY <1>1, <1>2, <2>1 DEF IsNumber
  <2>4. y \in Nat /\ Power(base, i + 1) = base * y /\ f[k] \in Int /\ f[m] \in Int
    BY <2>1, PowerPositive, PowerSteps
  <2> HIDE DEF x, y
  <2> DEFINE d == f[k]
  <2>5. d \in Int /\ base * (x + y * d) = base * x + (base * y) * d /\ base * x \in Int
    BY <2>2, <2>4
  <2>6. g[m] \in Int /\ h[m] = g[m] + Power(base, i + 1) * f[k]
    BY <2>2, <2>3, <2>4, <2>5
  <2> QED BY <2>6 DEF m
<1>5. k \in T
  <2> HIDE DEF T
  <2>1. T \subseteq Nat
    BY DEF T
  <2> QED BY <1>3, <1>4, <2>1, ByInduction
<1>6. k - k = 0
  OBVIOUS
<1> QED BY <1>1, <1>2, <1>5, <1>6

LEMMA NumberSteps ==
  ASSUME NEW f, NEW base \in Nat, base > 0, NEW n \in Nat, \A j \in 0 .. n - 1 : f[j] \in Int
  PROVE  /\ Number(f, 0, base) = 0
         /\ \A k \in 0 .. n : Number(f, k, base) \in Int
         /\ \A k \in 0 .. n - 1 : Number(f, k + 1, base) = Number(f, k, base) + Power(base, k) * f[k]
<1>1. Number(f, 0, base) = 0
  BY NumberDefined DEF IsNumber
<1>2. ASSUME NEW k \in 0 .. n - 1
      PROVE  /\ Number(f, k, base) \in Int
             /\ Number(f, k + 1, base) = Number(f, k, base) + Power(base, k) * f[k]
  <2>1. k \in Nat /\ \A j \in 0 .. k : f[j] \in Int
    OBVIOUS
  <2> QED BY <2>1, NumberGrows
<1>3. ASSUME n > 0 PROVE Number(f, n, base) \in Int
  <2> DEFINE k == n - 1  x == Number(f, k, base)  y == Power(base, k)
  <2>1. k \in 0 .. n - 1 /\ k \in Nat /\ n = k + 1
    BY <1>3
  <2>2. x \in Int /\ y \in Nat /\ f[k] \in Int /\ Number(f, k + 1, base) = x + y * f[k]
    BY <1>2, <2>1, PowerPositive
  <2> HIDE DEF k, x, y
  <2> DEFINE d == f[k]
  <2>3. x + y * d \in Int
    BY <2>2
  <2> QED BY <2>1, <2>2, <2>3
<1>4. \A k \in 0 .. n : k \in 0 .. n - 1 \/ (k = n /\ n > 0) \/ (k = 0 /\ n = 0)
  OBVIOUS
<1> QED BY <1>1, <1>2, <1>3, <1>4

(* DigitLanes exchanged for others under a carry that moves up. *)
Exchanges(f, g, c, base, n) ==
  /\ \A l \in 0 .. n - 1 : f[l] \in Int /\ g[l] \in Int
  /\ \A l \in 0 .. n : c[l] \in Int
  /\ \A l \in 0 .. n - 1 : f[l] + base * c[l + 1] = g[l] + c[l]

LEMMA Telescope ==
  ASSUME NEW base \in Nat, base > 0, NEW n \in Nat, NEW f, NEW g, NEW c,
         Exchanges(f, g, c, base, n)
  PROVE  Number(f, n, base) + Power(base, n) * c[n] = Number(g, n, base) + c[0]
<1> DEFINE F(k) == Number(f, k, base)  G(k) == Number(g, k, base)  P(k) == Power(base, k)
           T == {k \in Nat : k <= n => F(k) + P(k) * c[k] = G(k) + c[0]}
<1>1. /\ F(0) = 0 /\ G(0) = 0 /\ P(0) = 1
      /\ \A k \in 0 .. n : F(k) \in Int /\ G(k) \in Int
      /\ \A k \in 0 .. n - 1 : F(k + 1) = F(k) + P(k) * f[k] /\ G(k + 1) = G(k) + P(k) * g[k]
  BY NumberSteps, PowerSteps DEF Exchanges
<1>2. \A k \in Nat : P(k) \in Nat /\ P(k + 1) = base * P(k)
  BY PowerPositive, PowerSteps
<1> HIDE DEF F, G, P
<1>3. 0 \in T
  BY <1>1 DEF Exchanges
<1>4. ASSUME NEW k \in Nat, k \in T PROVE k + 1 \in T
  <2> SUFFICES ASSUME k + 1 <= n PROVE F(k + 1) + P(k + 1) * c[k + 1] = G(k + 1) + c[0]
    OBVIOUS
  <2> DEFINE w == P(k)  x == F(k)  y == G(k)  d == f[k]  e == g[k]  u == c[k]  v == c[k + 1]
  <2>1. /\ w \in Nat /\ x \in Int /\ y \in Int /\ d \in Int /\ e \in Int /\ u \in Int /\ v \in Int
        /\ d + base * v = e + u /\ x + w * u = y + c[0] /\ c[0] \in Int
    BY <1>1, <1>2, <1>4 DEF Exchanges
  <2>2. F(k + 1) = x + w * d /\ G(k + 1) = y + w * e /\ P(k + 1) = base * w
    BY <1>1, <1>2
  <2> HIDE DEF w, x, y, d, e, u, v
  <2>3. w * (d + base * v) = w * d + (base * w) * v /\ w * (e + u) = w * e + w * u
    BY <2>1
  <2>4. w * d \in Int /\ w * e \in Int /\ w * u \in Int /\ (base * w) * v \in Int
    BY <2>1
  <2>5. (x + w * d) + (base * w) * v = (y + w * e) + c[0]
    BY <2>1, <2>3, <2>4
  <2> QED BY <2>2, <2>5 DEF v
<1>5. n \in T
  <2> HIDE DEF T
  <2>1. T \subseteq Nat
    BY DEF T
  <2> QED BY <1>3, <1>4, <2>1, ByInduction
<1> QED BY <1>5 DEF F, G, P

(* A combination of two sequences of digits, digit by digit. *)
LEMMA NumberLinear ==
  ASSUME NEW base \in Nat, base > 0, NEW n \in Nat, NEW f, NEW g, NEW h, NEW q \in Int,
         \A l \in 0 .. n - 1 : f[l] \in Int /\ g[l] \in Int /\ h[l] = f[l] + q * g[l]
  PROVE  Number(h, n, base) = Number(f, n, base) + q * Number(g, n, base)
<1> DEFINE F(k) == Number(f, k, base)  G(k) == Number(g, k, base)  P(k) == Power(base, k)
           J(k) == Number(h, k, base)
           T == {k \in Nat : k <= n => J(k) = F(k) + q * G(k)}
<1>1. \A l \in 0 .. n - 1 : h[l] \in Int
  OBVIOUS
<1>2. /\ F(0) = 0 /\ G(0) = 0 /\ J(0) = 0
      /\ \A k \in 0 .. n : F(k) \in Int /\ G(k) \in Int /\ J(k) \in Int
      /\ \A k \in 0 .. n - 1 : /\ F(k + 1) = F(k) + P(k) * f[k] /\ G(k + 1) = G(k) + P(k) * g[k]
                              /\ J(k + 1) = J(k) + P(k) * h[k]
  BY <1>1, NumberSteps
<1>3. \A k \in Nat : P(k) \in Nat
  BY PowerPositive
<1> HIDE DEF F, G, J, P
<1>4. 0 \in T
  BY <1>2
<1>5. ASSUME NEW k \in Nat, k \in T PROVE k + 1 \in T
  <2> SUFFICES ASSUME k + 1 <= n PROVE J(k + 1) = F(k + 1) + q * G(k + 1)
    OBVIOUS
  <2> DEFINE w == P(k)  x == F(k)  y == G(k)  d == f[k]  e == g[k]
  <2>1. /\ w \in Nat /\ x \in Int /\ y \in Int /\ d \in Int /\ e \in Int
        /\ h[k] = d + q * e /\ J(k) = x + q * y
    BY <1>2, <1>3, <1>5
  <2>2. F(k + 1) = x + w * d /\ G(k + 1) = y + w * e /\ J(k + 1) = (x + q * y) + w * (d + q * e)
    BY <1>2, <2>1
  <2> HIDE DEF w, x, y, d, e
  <2>3. (x + q * y) + w * (d + q * e) = (x + w * d) + q * (y + w * e)
    BY <2>1
  <2> QED BY <2>2, <2>3
<1>6. n \in T
  <2> HIDE DEF T
  <2>1. T \subseteq Nat
    BY DEF T
  <2> QED BY <1>4, <1>5, <2>1, ByInduction
<1> QED BY <1>6 DEF F, G, J

(* Only the digits below count. *)
LEMMA NumberOfSame ==
  ASSUME NEW base \in Nat, base > 0, NEW n \in Nat, NEW f, NEW g,
         \A l \in 0 .. n - 1 : f[l] \in Int /\ f[l] = g[l]
  PROVE  Number(f, n, base) = Number(g, n, base)
<1>1. \A l \in 0 .. n - 1 : g[l] \in Int /\ g[l] = f[l] + 0 * f[l]
  OBVIOUS
<1>2. Number(g, n, base) = Number(f, n, base) + 0 * Number(f, n, base)
  BY <1>1, NumberLinear
<1>3. n \in 0 .. n /\ \A l \in 0 .. n - 1 : f[l] \in Int
  OBVIOUS
<1>4. Number(f, n, base) \in Int
  BY <1>3, NumberSteps
<1> QED BY <1>2, <1>4

LEMMA NumberBounds ==
  ASSUME NEW base \in Nat, base > 0, NEW n \in Nat, NEW f, \A l \in 0 .. n - 1 : f[l] \in 0 .. base - 1
  PROVE  Number(f, n, base) \in 0 .. Power(base, n) - 1
<1> DEFINE F(k) == Number(f, k, base)  P(k) == Power(base, k)
           T == {k \in Nat : k <= n => F(k) \in 0 .. P(k) - 1}
<1>0. \A l \in 0 .. n - 1 : f[l] \in Int
  OBVIOUS
<1>1. /\ F(0) = 0 /\ P(0) = 1
      /\ \A k \in 0 .. n - 1 : F(k + 1) = F(k) + P(k) * f[k]
  BY <1>0, NumberSteps, PowerSteps
<1>2. \A k \in Nat : P(k) \in Nat /\ P(k + 1) = base * P(k)
  BY PowerPositive, PowerSteps
<1> HIDE DEF F, P
<1>3. 0 \in T
  BY <1>1
<1>4. ASSUME NEW k \in Nat, k \in T PROVE k + 1 \in T
  <2> SUFFICES ASSUME k + 1 <= n PROVE F(k + 1) \in 0 .. P(k + 1) - 1
    OBVIOUS
  <2> DEFINE w == P(k)  x == F(k)  d == f[k]
  <2>1. w \in Nat /\ x \in 0 .. w - 1 /\ d \in 0 .. base - 1 /\ k \in 0 .. n - 1
    BY <1>2, <1>4
  <2>2. F(k + 1) = x + w * d /\ P(k + 1) = base * w
    BY <1>1, <1>2, <2>1
  <2> HIDE DEF w, x, d
  <2>3. w * d \in Nat /\ w * d <= w * (base - 1) /\ w * (base - 1) = base * w - w
    BY <2>1
  <2> QED BY <2>1, <2>2, <2>3
<1>5. n \in T
  <2> HIDE DEF T
  <2>1. T \subseteq Nat
    BY DEF T
  <2> QED BY <1>3, <1>4, <2>1, ByInduction
<1> QED BY <1>5 DEF F, P

(* The digits from k on are worth a multiple of their power. *)
LEMMA NumberAbove ==
  ASSUME NEW base \in Nat, base > 0, NEW n \in Nat, NEW f, \A l \in 0 .. n - 1 : f[l] \in Int,
         NEW k \in 0 .. n
  PROVE  \E q \in Int : Number(f, n, base) = Number(f, k, base) + Power(base, k) * q
<1> DEFINE F(j) == Number(f, j, base)  P(j) == Power(base, j)
           T == {i \in Nat : k + i <= n => \E q \in Int : F(k + i) = F(k) + P(k) * q}
<1>1. /\ \A j \in 0 .. n : F(j) \in Int
      /\ \A j \in 0 .. n - 1 : F(j + 1) = F(j) + P(j) * f[j]
  BY NumberSteps
<1>2. k \in Nat /\ P(k) \in Nat /\ \A i \in Nat : P(i) \in Nat /\ P(k + i) = P(k) * P(i)
  BY PowerPositive, PowerSum
<1> HIDE DEF F, P
<1>3. 0 \in T
  <2>1. F(k + 0) = F(k) + P(k) * 0
    BY <1>1, <1>2
  <2> QED BY <2>1
<1>4. ASSUME NEW i \in Nat, i \in T PROVE i + 1 \in T
  <2> SUFFICES ASSUME k + (i + 1) <= n PROVE \E q \in Int : F(k + (i + 1)) = F(k) + P(k) * q
    OBVIOUS
  <2> DEFINE j == k + i
  <2>1. j \in 0 .. n - 1 /\ k + (i + 1) = j + 1 /\ j <= n
    BY <1>2
  <2>2. PICK q \in Int : F(j) = F(k) + P(k) * q
    BY <1>4, <2>1
  <2>3. P(j) = P(k) * P(i) /\ P(i) \in Nat
    BY <1>2
  <2> HIDE DEF j
  <2> DEFINE d == f[j]  w == P(k)  v == P(i)  r == q + v * d
  <2>4. F(j + 1) = F(j) + P(j) * f[j] /\ F(k) \in Int
    BY <1>1, <2>1
  <2>5. d \in Int /\ w \in Nat /\ v \in Nat
    BY <1>2, <2>1, <2>3
  <2>6. F(j + 1) = (F(k) + w * q) + (w * v) * d
    BY <2>2, <2>3, <2>4
  <2> HIDE DEF d, w, v
  <2>7. r \in Int /\ w * r = w * q + (w * v) * d /\ w * q \in Int /\ (w * v) * d \in Int
    BY <2>5
  <2>8. F(j + 1) = F(k) + w * r
    BY <2>4, <2>6, <2>7
  <2> HIDE DEF r
  <2> QED BY <2>1, <2>7, <2>8 DEF w
<1>5. n - k \in T /\ k + (n - k) = n
  <2> HIDE DEF T
  <2>1. T \subseteq Nat /\ n - k \in Nat /\ k + (n - k) = n
    BY DEF T
  <2> QED BY <1>3, <1>4, <2>1, ByInduction
<1> QED BY <1>5 DEF F, P

(* Pieces of a number. *)
IntLimbs(f, n) == \A j \in 0 .. n - 1 : f[j] \in Int
Piece(g, f, m, n) == \A l \in 0 .. n - 1 : g[l] = f[m + l]

LEMMA NumberSplit ==
  ASSUME NEW base \in Nat, base > 0, NEW m \in Nat, NEW n \in Nat, NEW f, NEW g,
         IntLimbs(f, m + n), Piece(g, f, m, n)
  PROVE  /\ Number(f, m, base) \in Int /\ Number(g, n, base) \in Int
         /\ Number(f, m + n, base) = Number(f, m, base) + Power(base, m) * Number(g, n, base)
<1> DEFINE F(k) == Number(f, k, base)  G(k) == Number(g, k, base)  P(k) == Power(base, k)
           T == {k \in Nat : k <= n => F(m + k) = F(m) + P(m) * G(k)}
<1>0. /\ \A j \in 0 .. m + n - 1 : f[j] \in Int
      /\ \A l \in 0 .. n - 1 : g[l] = f[m + l]
  BY DEF IntLimbs, Piece
<1>1. /\ \A k \in 0 .. m + n : F(k) \in Int
      /\ \A k \in 0 .. m + n - 1 : F(k + 1) = F(k) + P(k) * f[k]
  <2> DEFINE w == m + n
  <2>1. w \in Nat /\ \A j \in 0 .. w - 1 : f[j] \in Int
    BY <1>0
  <2> HIDE DEF w
  <2>2. /\ \A k \in 0 .. w : Number(f, k, base) \in Int
        /\ \A k \in 0 .. w - 1 : Number(f, k + 1, base) = Number(f, k, base) + Power(base, k) * f[k]
    BY <2>1, NumberSteps
  <2> QED BY <2>2 DEF w
<1>2. /\ G(0) = 0 /\ \A k \in 0 .. n : G(k) \in Int
      /\ \A k \in 0 .. n - 1 : G(k + 1) = G(k) + P(k) * g[k]
  <2>1. \A l \in 0 .. n - 1 : g[l] \in Int
    BY <1>0
  <2> QED BY <2>1, NumberSteps
<1>3. P(m) \in Nat /\ \A k \in Nat : P(k) \in Nat /\ P(m + k) = P(m) * P(k)
  BY PowerPositive, PowerSum
<1> HIDE DEF F, G, P
<1>4. 0 \in T
  <2>1. m + 0 = m /\ F(m) \in Int /\ P(m) * G(0) = 0
    BY <1>1, <1>2, <1>3
  <2> QED BY <2>1
<1>5. ASSUME NEW k \in Nat, k \in T PROVE k + 1 \in T
  <2> SUFFICES ASSUME k + 1 <= n PROVE F(m + (k + 1)) = F(m) + P(m) * G(k + 1)
    OBVIOUS
  <2> DEFINE a == F(m)  b == G(k)  p == P(m)  q == P(k)  d == f[m + k]
  <2>1. /\ m + k \in 0 .. m + n - 1 /\ k \in 0 .. n - 1 /\ m + (k + 1) = m + k + 1 /\ m \in 0 .. m + n
        /\ k \in 0 .. n
    OBVIOUS
  <2>2. F(m + k) = a + p * b
    BY <1>5
  <2>3. F(m + k + 1) = F(m + k) + (p * q) * d /\ G(k + 1) = b + q * d
    BY <1>0, <1>1, <1>2, <1>3, <2>1
  <2>4. a \in Int /\ b \in Int /\ p \in Int /\ q \in Int /\ d \in Int
    BY <1>0, <1>1, <1>2, <1>3, <2>1
  <2> HIDE DEF a, b, p, q, d
  <2>5. p * (b + q * d) = p * b + (p * q) * d /\ p * b \in Int /\ (p * q) * d \in Int
    BY <2>4
  <2>6. F(m + k + 1) = a + p * G(k + 1)
    BY <2>2, <2>3, <2>4, <2>5
  <2> QED BY <2>1, <2>6 DEF a, p
<1>6. n \in T
  <2> HIDE DEF T
  <2>1. T \subseteq Nat
    BY DEF T
  <2> QED BY <1>4, <1>5, <2>1, ByInduction
<1>7. F(m) \in Int /\ G(n) \in Int /\ F(m + n) = F(m) + P(m) * G(n)
  BY <1>1, <1>2, <1>6
<1> QED BY <1>7 DEF F, G, P

(* Equal digits from k on contribute equally. *)
LEMMA NumberAgree ==
  ASSUME NEW base \in Nat, base > 0, NEW n \in Nat, NEW k \in 0 .. n, NEW f, NEW g,
         \A j \in 0 .. n - 1 : f[j] \in Int /\ g[j] \in Int, \A j \in k .. n - 1 : f[j] = g[j]
  PROVE  /\ Number(f, n, base) \in Int /\ Number(g, n, base) \in Int
         /\ Number(f, k, base) \in Int /\ Number(g, k, base) \in Int
         /\ Number(f, n, base) - Number(g, n, base) = Number(f, k, base) - Number(g, k, base)
<1> DEFINE F(j) == Number(f, j, base)  G(j) == Number(g, j, base)  P(j) == Power(base, j)
           T == {d \in Nat : k + d <= n => F(k + d) - G(k + d) = F(k) - G(k)}
<1>1. /\ \A j \in 0 .. n : F(j) \in Int /\ G(j) \in Int
      /\ \A j \in 0 .. n - 1 : F(j + 1) = F(j) + P(j) * f[j] /\ G(j + 1) = G(j) + P(j) * g[j]
  BY NumberSteps
<1>2. \A j \in Nat : P(j) \in Nat
  BY PowerPositive
<1> HIDE DEF F, G, P
<1>3. 0 \in T
  <2>1. k + 0 = k
    OBVIOUS
  <2> QED BY <2>1
<1>4. ASSUME NEW d \in Nat, d \in T PROVE d + 1 \in T
  <2> SUFFICES ASSUME k + (d + 1) <= n PROVE F(k + (d + 1)) - G(k + (d + 1)) = F(k) - G(k)
    OBVIOUS
  <2> DEFINE m == k + d
  <2>1. m \in 0 .. n - 1 /\ m \in 0 .. n /\ m \in k .. n - 1 /\ k + (d + 1) = m + 1 /\ m \in Nat
    OBVIOUS
  <2>2. F(m) - G(m) = F(k) - G(k)
    BY <1>4
  <2> HIDE DEF m
  <2>3. P(m) * f[m] \in Int /\ f[m] = g[m] /\ F(m) \in Int /\ G(m) \in Int
    BY <1>1, <1>2, <2>1
  <2>4. F(m + 1) = F(m) + P(m) * f[m] /\ G(m + 1) = G(m) + P(m) * f[m]
    BY <1>1, <2>1, <2>3
  <2>5. F(m + 1) - G(m + 1) = F(m) - G(m)
    BY <2>3, <2>4
  <2> QED BY <2>1, <2>2, <2>5
<1>5. n - k \in T
  <2> HIDE DEF T
  <2>1. T \subseteq Nat /\ n - k \in Nat
    BY DEF T
  <2> QED BY <1>3, <1>4, <2>1, ByInduction
<1>6. k + (n - k) = n /\ k \in 0 .. n /\ n \in 0 .. n
  OBVIOUS
<1>7. F(n) - G(n) = F(k) - G(k) /\ F(n) \in Int /\ G(n) \in Int /\ F(k) \in Int /\ G(k) \in Int
  BY <1>1, <1>5, <1>6
<1> QED BY <1>7 DEF F, G

(* Lanes of zero above add nothing: a masked tail. *)
LEMMA NumberPadded ==
  ASSUME NEW base \in Nat, base > 0, NEW m \in Nat, NEW k \in 0 .. m, NEW f,
         \A j \in 0 .. m - 1 : f[j] \in Int, \A j \in k .. m - 1 : f[j] = 0
  PROVE  Number(f, m, base) = Number(f, k, base) /\ Number(f, k, base) \in Int
<1> DEFINE F(j) == Number(f, j, base)
           T == {d \in Nat : k + d <= m => F(k + d) = F(k)}
<1>1. \A j \in 0 .. m : F(j) \in Int
  BY NumberSteps
<1>2. \A j \in 0 .. m - 1 : F(j + 1) = F(j) + Power(base, j) * f[j]
  BY NumberSteps
<1>3. \A j \in Nat : Power(base, j) \in Nat
  BY PowerPositive
<1> HIDE DEF F
<1>4. 0 \in T
  OBVIOUS
<1>5. ASSUME NEW d \in Nat, d \in T PROVE d + 1 \in T
  <2> SUFFICES ASSUME k + (d + 1) <= m PROVE F(k + (d + 1)) = F(k)
    OBVIOUS
  <2> DEFINE j == k + d
  <2>1. j \in 0 .. m - 1 /\ j \in k .. m - 1 /\ j \in Nat /\ j + 1 = k + (d + 1) /\ F(j) = F(k)
    BY <1>5
  <2> HIDE DEF j
  <2>2. F(j + 1) = F(j) + Power(base, j) * 0
    BY <1>2, <2>1
  <2>3. Power(base, j) * 0 = 0 /\ F(j) \in Int
    BY <1>1, <1>3, <2>1
  <2> QED BY <2>1, <2>2, <2>3
<1>6. m - k \in T
  <2> HIDE DEF T
  <2>1. T \subseteq Nat
    BY DEF T
  <2>2. m - k \in Nat
    OBVIOUS
  <2> QED BY <1>4, <1>5, <2>1, <2>2, ByInduction
<1>7. m - k \in Nat /\ k + (m - k) = m
  OBVIOUS
<1> QED BY <1>1, <1>6, <1>7 DEF F

-----------------------------------------------------------------------------
(* Division *)

LEMMA Quotient ==
  ASSUME NEW x \in Int, NEW d \in Nat, d > 0, NEW q \in Int, NEW r \in 0 .. d - 1, x = d * q + r
  PROVE  x \div d = q /\ x % d = r
<1> DEFINE a == x \div d  m == x % d
<1>1. a \in Int /\ m \in 0 .. d - 1 /\ x = d * a + m
  OBVIOUS
<1> HIDE DEF a, m
<1>2. d * (a - q) = r - m /\ a - q \in Int
  BY <1>1
<1>3. a - q = 0
  <2> DEFINE e == a - q
  <2>1. CASE e >= 1
    <3>1. d * e >= d
      BY <1>2, <2>1
    <3> QED BY <1>1, <1>2, <3>1
  <2>2. CASE e <= -1
    <3>1. d * e <= -d
      BY <1>2, <2>2
    <3> QED BY <1>1, <1>2, <3>1
  <2> QED BY <1>2, <2>1, <2>2
<1> QED BY <1>1, <1>2, <1>3 DEF a, m

(* Digit l of a number, read off by division. *)
LEMMA DigitOf ==
  ASSUME NEW base \in Nat, base > 0, NEW n \in Nat, NEW f, \A l \in 0 .. n - 1 : f[l] \in 0 .. base - 1,
         NEW c \in Int, NEW x, x = Number(f, n, base) + Power(base, n) * c
  PROVE  /\ x \div Power(base, n) = c
         /\ \A l \in 0 .. n - 1 : (x \div Power(base, l)) % base = f[l]
<1>1. \A l \in 0 .. n - 1 : f[l] \in Int
  OBVIOUS
<1>2. x \div Power(base, n) = c
  <2> DEFINE d == Power(base, n)  r == Number(f, n, base)
  <2>1. d \in Nat /\ d > 0 /\ r \in 0 .. d - 1
    BY NumberBounds, PowerPositive
  <2> HIDE DEF d, r
  <2>2. x \in Int /\ x = d * c + r
    BY <2>1 DEF d, r
  <2>3. x \div d = c
    BY <2>1, <2>2, Quotient
  <2> QED BY <2>3 DEF d
<1>3. ASSUME NEW l \in 0 .. n - 1 PROVE (x \div Power(base, l)) % base = f[l]
  <2> DEFINE d == Power(base, l)  r == Number(f, l, base)  k == l + 1  e == f[l]
             v == Power(base, n - k)
  <2>1. l \in Nat /\ k \in 0 .. n /\ k \in Nat /\ n - k \in Nat /\ k + (n - k) = n /\ e \in 0 .. base - 1
    OBVIOUS
  <2>2. d \in Nat /\ d > 0 /\ r \in 0 .. d - 1
    <3>1. \A j \in 0 .. l - 1 : f[j] \in 0 .. base - 1
      OBVIOUS
    <3> QED BY <2>1, <3>1, NumberBounds, PowerPositive
  <2>3. PICK q \in Int : Number(f, n, base) = Number(f, k, base) + Power(base, k) * q
    BY <1>1, <2>1, NumberAbove
  <2>4. Number(f, k, base) = r + d * e /\ Power(base, k) = base * d
    <3>1. \A j \in 0 .. n - 1 : Number(f, j + 1, base) = Number(f, j, base) + Power(base, j) * f[j]
      BY <1>1, NumberSteps
    <3>2. \A j \in Nat : Power(base, j + 1) = base * Power(base, j)
      BY PowerSteps
    <3> QED BY <2>1, <3>1, <3>2
  <2>5. Power(base, n) = Power(base, k) * v /\ v \in Nat
    <3> DEFINE m == n - k
    <3> HIDE DEF k, m
    <3>1. k \in Nat /\ m \in Nat /\ k + m = n
      BY <2>1 DEF m
    <3>2. Power(base, k + m) = Power(base, k) * Power(base, m) /\ Power(base, m) \in Nat
      BY <3>1, PowerSum, PowerPositive
    <3> QED BY <3>1, <3>2 DEF m
  <2> HIDE DEF d, r, k, e, v
  <2> DEFINE s == q + v * c  t == e + base * s
  <2>6. x = (r + d * e) + (base * d) * q + ((base * d) * v) * c
    BY <2>3, <2>4, <2>5
  <2>7. s \in Int /\ t \in Int
    BY <2>1, <2>5
  <2>8. (base * d) * q + ((base * d) * v) * c = (base * d) * s
    BY <2>2, <2>5
  <2> HIDE DEF s
  <2>9. d * t = d * e + (base * d) * s
    BY <2>1, <2>2, <2>7
  <2>10. /\ d * e \in Int /\ (base * d) * s \in Int /\ (base * d) * q \in Int
         /\ ((base * d) * v) * c \in Int /\ d * t \in Int
    BY <2>1, <2>2, <2>5, <2>7
  <2>11. x \in Int /\ x = d * t + r
    BY <2>2, <2>6, <2>8, <2>9, <2>10
  <2>12. x \div d = t
    <3> HIDE DEF t
    <3> QED BY <2>2, <2>7, <2>11, Quotient
  <2>13. t % base = e
    <3>1. t = base * s + e
      BY <2>1, <2>7
    <3> HIDE DEF t
    <3> QED BY <2>1, <2>7, <3>1, Quotient
  <2> QED BY <2>12, <2>13 DEF d, e
<1> QED BY <1>2, <1>3

-----------------------------------------------------------------------------
(* Products and quotients *)

(* Products keep the order of their other factors, .. *)
LEMMA MulLe == ASSUME NEW a \in Int, NEW b \in Int, NEW c \in Nat, a <= b PROVE a * c <= b * c
<1>1. (b - a) * c >= 0  OBVIOUS
<1> QED  BY <1>1

(* .. strictly, if the common one is not zero, .. *)
LEMMA MulLt == ASSUME NEW a \in Int, NEW b \in Int, NEW c \in Nat \ {0}, a < b PROVE a * c < b * c
<1>1. (b - a) * c > 0  OBVIOUS
<1> QED  BY <1>1

(* .. and show it. *)
LEMMA CancelLe == ASSUME NEW a \in Int, NEW b \in Int, NEW c \in Nat \ {0}, a * c <= b * c PROVE a <= b
BY MulLt

(* The same for a strict order. *)
LEMMA CancelLt == ASSUME NEW a \in Int, NEW b \in Int, NEW c \in Nat \ {0}, a * c < b * c PROVE a < b
BY MulLe

(* Quotient and remainder: what they are. *)
LEMMA DivMod ==
  ASSUME NEW x \in Int, NEW y \in Nat \ {0}
  PROVE  x \div y \in Int /\ x % y \in 0 .. y - 1 /\ x = (x \div y) * y + (x % y)
OBVIOUS

(* The only pair with these two properties is it. *)
LEMMA DivModUnique ==
  ASSUME NEW x \in Int, NEW y \in Nat \ {0}, NEW a \in Int, NEW r \in 0 .. y - 1, x = a * y + r
  PROVE  x \div y = a /\ x % y = r
<1> DEFINE q == x \div y
<1>1. q \in Int /\ x % y \in 0 .. y - 1 /\ x = q * y + (x % y)  BY DivMod
<1> HIDE DEF q
<1>2. ~(q + 1 <= a)
  <2> SUFFICES ASSUME q + 1 <= a PROVE FALSE  OBVIOUS
  <2>1. (q + 1) * y <= a * y  BY <1>1, MulLe
  <2> QED  BY <1>1, <2>1
<1>3. ~(a + 1 <= q)
  <2> SUFFICES ASSUME a + 1 <= q PROVE FALSE  OBVIOUS
  <2>1. (a + 1) * y <= q * y  BY <1>1, MulLe
  <2> QED  BY <1>1, <2>1
<1>4. q = a  BY <1>1, <1>2, <1>3
<1> QED  BY <1>1, <1>4 DEF q

(* A sum that wraps once: block_addc without its carry. *)
LEMMA ModOnce ==
  ASSUME NEW x \in Int, NEW y \in Nat \ {0}, NEW r \in 0 .. y - 1, x = y + r
  PROVE  x % y = r
<1>1. x = 1 * y + r  OBVIOUS
<1> QED  BY <1>1, DivModUnique

(* Comparing top blocks compares numbers with a bound that has none below. *)
LEMMA DivGe ==
  ASSUME NEW x \in Nat, NEW y \in Nat \ {0}, NEW a \in Nat
  PROVE  x \div y >= a <=> x >= a * y
<1> DEFINE q == x \div y
<1>1. q \in Int /\ x % y \in 0 .. y - 1 /\ x = q * y + (x % y)  BY DivMod
<1> HIDE DEF q
<1>2. q >= a => a * y <= q * y  BY <1>1, MulLe
<1>3. q + 1 <= a => (q + 1) * y <= a * y  BY <1>1, MulLe
<1>4. q >= a <=> x >= a * y  BY <1>1, <1>2, <1>3
<1> QED  BY <1>4 DEF q

(* The digits of a number are its value modulo their scale. *)
LEMMA DigitsOfNumber ==
  ASSUME NEW base \in Nat \ {0},
         NEW val \in Int, NEW n \in Nat, NEW f, \A i \in 0 .. n - 1 : f[i] = (val \div Power(base, i)) % base
  PROVE  Number(f, n, base) = val % Power(base, n)
<1> DEFINE P(k) == Power(base, k)
           T == {k \in Nat : k <= n => Number(f, k, base) = val % P(k)}
<1>1. \A i \in Nat : P(i) \in Nat \ {0} /\ P(i + 1) = base * P(i)
  <2>1. \A i \in Nat : P(i + 1) = base * P(i)
    BY PowerSteps
  <2> QED BY <2>1, PowerPositive
<1>2. \A i \in 0 .. n - 1 : f[i] \in 0 .. base - 1 /\ f[i] \in Int
  <2> SUFFICES ASSUME NEW i \in 0 .. n - 1 PROVE (val \div Power(base, i)) % base \in 0 .. base - 1
    OBVIOUS
  <2>1. val \div P(i) \in Int
    <3>1. P(i) \in Nat \ {0}
      BY <1>1
    <3> QED BY <3>1, DivMod
  <2> QED BY <2>1, DivMod
<1>3. /\ Number(f, 0, base) = 0
      /\ \A k \in 0 .. n - 1 : Number(f, k + 1, base) = Number(f, k, base) + P(k) * f[k]
  <2>1. base \in Nat /\ base > 0 /\ \A i \in 0 .. n - 1 : f[i] \in Int
    BY <1>2
  <2> QED BY <2>1, NumberSteps
<1>4. 0 \in T
  <2>1. P(0) = 1
    BY PowerSteps
  <2> QED BY <1>3, <2>1
<1>5. ASSUME NEW k \in Nat, k \in T PROVE k + 1 \in T
  <2> SUFFICES ASSUME k + 1 <= n PROVE Number(f, k + 1, base) = val % P(k + 1)
    OBVIOUS
  <2> DEFINE p == P(k)  q == val \div p  r == val % p  u == q \div base  d == q % base
  <2>1. p \in Nat \ {0} /\ P(k + 1) = base * p
    BY <1>1
  <2>2. k \in 0 .. n - 1 /\ Number(f, k + 1, base) = r + p * f[k] /\ f[k] = d
    BY <1>3, <1>5
  <2> HIDE DEF p
  <2>3. q \in Int /\ r \in 0 .. p - 1 /\ val = q * p + r
    BY <2>1, DivMod
  <2> HIDE DEF q, r
  <2>4. u \in Int /\ d \in 0 .. base - 1 /\ q = u * base + d
    BY <2>3, DivMod
  <2> HIDE DEF u, d
  <2>5. q * p = u * (base * p) + p * d
    BY <2>1, <2>4
  <2>6. p * d \in Nat /\ p * d <= p * (base - 1) /\ p * (base - 1) = base * p - p
    BY <2>1, <2>4
  <2>7. r + p * d \in 0 .. base * p - 1 /\ base * p \in Nat \ {0}
    BY <2>1, <2>3, <2>6
  <2>8. val = u * (base * p) + (r + p * d)
    BY <2>1, <2>3, <2>4, <2>5, <2>6
  <2>9. val % (base * p) = r + p * d
    BY <2>4, <2>7, <2>8, DivModUnique
  <2> QED BY <2>1, <2>2, <2>9
<1>6. n \in T
  <2> HIDE DEF T
  <2>1. T \subseteq Nat
    BY DEF T
  <2> QED BY <1>4, <1>5, <2>1, ByInduction
<1> QED BY <1>6

-----------------------------------------------------------------------------
(* The estimate Q + 1 from the two top blocks leaves a remainder r with      *)
(* c - B^2 <= r < c, where c = max(B^2 - D, q0 B).  So r is negative exactly  *)
(* if, modulo B^2, it is beyond c, which is what q0 is compared with.  w is  *)
(* the reciprocal with its leading B, and k what it is short of B^3.         *)
LEMMA Estimated ==
  ASSUME NEW B \in Nat, B > 1, NEW D \in Nat, D < B * B, B * B <= 2 * D,
         NEW w \in Nat, NEW k \in Nat, B * B * B = w * D + k, 1 <= k, k <= D, k <= B * (B * B - D),
         NEW u2 \in Nat, NEW u1 \in Nat, NEW u0 \in Nat, u1 < B, u0 < B, u2 * B + u1 < D,
         NEW Q \in Int, NEW q0 \in Nat, q0 < B, w * u2 + u1 = Q * B + q0
  PROVE  LET r == u2 * B * B + u1 * B + u0 - (Q + 1) * D
         IN  /\ r >= - D /\ r >= q0 * B - B * B
             /\ r < B * B - D \/ r < q0 * B
<1> DEFINE r == u2 * B * B + u1 * B + u0 - (Q + 1) * D
           E == B * B - D
<1>1. r \in Int /\ E \in Nat \ {0} /\ B \in Nat \ {0}
  OBVIOUS
<1>2. B * r = u2 * k + u1 * E + u0 * B + (q0 - B) * D
  <2>1. D * (w * u2 + u1) = D * (Q * B + q0)
    OBVIOUS
  <2>2. u2 * (B * B * B) = u2 * (w * D + k)
    OBVIOUS
  <2> QED
    BY <2>1, <2>2
<1>3. u2 * k >= 0 /\ u1 * E >= 0 /\ u0 * B >= 0
  BY <1>1
<1> HIDE DEF r, E
<1>4. r >= - D
  <2>1. (- D) * B <= r * B
    <3>1. q0 * D >= 0
      OBVIOUS
    <3> QED  BY <1>1, <1>2, <1>3, <3>1
  <2> QED
    BY <1>1, <2>1, CancelLe
<1>5. r >= q0 * B - B * B
  <2>1. (B - q0) * D <= (B - q0) * (B * B)
    OBVIOUS
  <2>2. (q0 * B - B * B) * B <= r * B
    BY <1>1, <1>2, <1>3, <2>1
  <2> QED
    BY <1>1, <2>2, CancelLe
<1>6. ASSUME r >= E, r >= q0 * B PROVE FALSE
  <2>1. CASE B * E >= D
    <3>1. (B * u2) * k <= (D - 1 - u1) * D
      <4>1. (B * u2) * k <= (B * u2) * D
        OBVIOUS
      <4>2. B * u2 <= D - 1 - u1
        OBVIOUS
      <4>3. (B * u2) * D <= (D - 1 - u1) * D
        BY <4>2, MulLe
      <4> QED
        BY <4>1, <4>3
    <3>2. u1 * (B * E - D) <= (B - 1) * (B * E - D)
      BY <1>1, <2>1, MulLe
    <3>3. u0 * (B * B) <= (B - 1) * (B * B)
      BY MulLe
    <3>4. B * (B * r) = (B * u2) * k + u1 * (B * E) + u0 * (B * B) + (B * q0 - B * B) * D
      BY <1>1, <1>2
    <3>5. B * (B * r) <= E * E + (q0 * B) * D - B * B
      BY <1>1, <3>1, <3>2, <3>3, <3>4 DEF E
    <3>6. (q0 * B) * D <= r * D
      BY <1>1, <1>6, MulLe
    <3>7. E * E <= r * E
      BY <1>1, <1>6, MulLe
    <3>8. B * (B * r) = r * D + r * E
      BY <1>1 DEF E
    <3> QED
      BY <1>1, <3>5, <3>6, <3>7, <3>8
  <2>2. CASE B * E < D
    <3>1. E <= B - 1
      BY <1>1, <2>2, CancelLt
    <3>2. u2 * k <= u2 * (B * E)
      BY <1>1 DEF E
    <3>3. (u2 * B + u1) * E <= (D - 1) * E
      BY <1>1, MulLe
    <3>4. (E + 1 - B) * D <= 0
      BY <1>1, <3>1
    <3>5. u0 * B <= (B - 1) * B
      BY MulLe
    <3>6. B * r <= E * D - E + (B - 1) * B + q0 * D - B * D
      BY <1>1, <1>2, <3>2, <3>3, <3>5
    <3>7. B * r <= q0 * D - B
      BY <1>1, <3>4, <3>6 DEF E
    <3>8. q0 * D <= q0 * (B * B)
      OBVIOUS
    <3>9. (q0 * B) * B <= r * B
      BY <1>1, <1>6, MulLe
    <3> QED
      BY <1>1, <3>7, <3>8, <3>9
  <2> QED
    BY <1>1, <2>1, <2>2
<1> QED
  BY <1>1, <1>4, <1>5, <1>6 DEF r, E

(* The top digit that differs decides. *)
LEMMA TopDecides ==
  ASSUME NEW base \in Nat, base > 0, NEW nv \in Nat, NEW f, NEW g,
         \A j \in 0 .. nv - 1 : f[j] \in 0 .. base - 1 /\ g[j] \in 0 .. base - 1,
         NEW m \in 0 .. nv - 1, f[m] < g[m], \A j \in m + 1 .. nv - 1 : f[j] = g[j]
  PROVE  Number(f, nv, base) < Number(g, nv, base)
<1> DEFINE F(j) == Number(f, j, base)  G(j) == Number(g, j, base)  p == Power(base, m)
<1>1. \A j \in 0 .. nv - 1 : f[j] \in Int /\ g[j] \in Int
  OBVIOUS
<1>3. /\ F(nv) \in Int /\ G(nv) \in Int /\ F(m + 1) \in Int /\ G(m + 1) \in Int
      /\ F(nv) - G(nv) = F(m + 1) - G(m + 1)
  <2> DEFINE k == m + 1
  <2>1. k \in 0 .. nv /\ \A j \in k .. nv - 1 : f[j] = g[j]
    OBVIOUS
  <2> HIDE DEF k
  <2>2. /\ F(nv) \in Int /\ G(nv) \in Int /\ F(k) \in Int /\ G(k) \in Int
        /\ F(nv) - G(nv) = F(k) - G(k)
    BY <1>1, <2>1, NumberAgree
  <2> QED BY <2>2 DEF k
<1>4. F(m + 1) = F(m) + p * f[m] /\ G(m + 1) = G(m) + p * g[m]
  BY <1>1, NumberSteps
<1>5. m \in Nat /\ F(m) \in 0 .. p - 1 /\ G(m) \in 0 .. p - 1 /\ p \in Nat /\ p > 0
  <2>1. m \in Nat /\ \A l \in 0 .. m - 1 : f[l] \in 0 .. base - 1
    OBVIOUS
  <2>2. m \in Nat /\ \A l \in 0 .. m - 1 : g[l] \in 0 .. base - 1
    OBVIOUS
  <2> QED BY <2>1, <2>2, NumberBounds, PowerPositive
<1> HIDE DEF F, G, p
<1> DEFINE a == f[m]  b == g[m]
<1>6. a \in Int /\ b \in Int /\ b >= a + 1
  OBVIOUS
<1> HIDE DEF a, b
<1>7. p * b >= p * (a + 1) /\ p * (a + 1) = p * a + p /\ p * a \in Int /\ p * b \in Int
  BY <1>5, <1>6
<1>8. F(m + 1) = F(m) + p * a /\ G(m + 1) = G(m) + p * b
  BY <1>4 DEF a, b
<1>9. F(nv) < G(nv)
  BY <1>3, <1>5, <1>7, <1>8
<1> QED BY <1>9 DEF F, G
=============================================================================
