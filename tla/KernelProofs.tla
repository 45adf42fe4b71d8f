---------------------------- MODULE KernelProofs ----------------------------
(***************************************************************************)
(* Every streaming kernel of include/canon.h, include/interp_helpers.h and *)
(* include/addsub_nc_impl accounts for all the value it reads and writes   *)
(* exactly its region, for vectors of every length, every base, headroom,  *)
(* set of lane words and length of the region.  Then the exact division by *)
(* 3 of include/interp_helpers.h: it loses nothing, for digits of every    *)
(* even number of bits, vectors of every power of two of lanes, every      *)
(* unrolling whose residue sums u52_d3_mod3 takes and every length.  Last  *)
(* u52_cmp_and_sub and u52_add_carry of include/interp_helpers.h: right    *)
(* for operands of every length and content, with the result apart or in   *)
(* place of either operand.                                                *)
(***************************************************************************)
EXTENDS LaneKernels, DivExact3, CarryOps, LaneProofs

-----------------------------------------------------------------------------
(* The kernels' table *)

KernelShape(k) ==
  /\ k.chain \in {"pos", "neg", "none"} /\ k.half \in BOOLEAN /\ k.carry \in BOOLEAN
  /\ k.stores \in {"vec", "tail", "n+1"} /\ (k.half => k.stores = "vec")
  /\ k.chain = "none" => ~k.carry
  /\ Len(k.coef) \in 1 .. 4
  /\ \A j \in 1 .. Len(k.coef) :
       /\ k.coef[j] \in Int /\ k.reads[j] \in {"vec", "tail", "clip", "short", "top"}
       /\ k.reads[j] = "tail" => k.stores # "n+1"
       /\ k.stores = "tail" => k.reads[j] \in {"tail", "short"}
       /\ k.stores = "n+1" => k.reads[j] \in {"clip", "top"}
  /\ k.stores = "tail" => k.chain # "pos"
  /\ k.stores = "n+1" => k.chain = "pos"

LEMMA KernelFacts == \A k \in Kernels : KernelShape(k)
<1> SUFFICES ASSUME NEW k \in Kernels PROVE KernelShape(k)
  OBVIOUS
<1>1. /\ k.chain \in {"pos", "neg", "none"} /\ k.stores \in {"vec", "tail", "n+1"}
      /\ k.stores = "tail" => k.chain # "pos"
      /\ k.stores = "n+1" => k.chain = "pos"
  BY DEF Kernels, Kernel
<1>4. (k.half = TRUE /\ k.stores = "vec") \/ k.half = FALSE
  BY DEF Kernels, Kernel
<1>5. (k.carry = TRUE /\ k.chain # "none") \/ k.carry = FALSE
  BY DEF Kernels, Kernel
<1>2. Len(k.coef) \in 1 .. 4 /\ \A j \in 1 .. Len(k.coef) : k.coef[j] \in Int
  BY DEF Kernels, Kernel
<1>3. ASSUME NEW j \in 1 .. Len(k.coef)
      PROVE  /\ k.reads[j] \in {"vec", "tail", "clip", "short", "top"}
             /\ k.reads[j] = "tail" => k.stores # "n+1"
             /\ k.stores = "tail" => k.reads[j] \in {"tail", "short"}
             /\ k.stores = "n+1" => k.reads[j] \in {"clip", "top"}
  BY DEF Kernels, Kernel
<1> QED BY <1>1, <1>2, <1>3, <1>4, <1>5 DEF KernelShape

LEMMA Sizes == L \in Nat /\ L \in 0 .. L /\ B \in Nat /\ B > 0
  BY Parameters

-----------------------------------------------------------------------------
(* The region and its masks *)

Region ==
  /\ KernelShape(kernel) /\ n \in Nat /\ n > 0
  /\ len \in [1 .. Arity -> 0 .. n]
  /\ \A k \in 1 .. Arity : kernel.reads[k] \notin {"short", "top"} => len[k] = n

Turn == i \in Nat /\ i < Count

LEMMA Division ==
  ASSUME NEW x \in Nat, NEW d \in Nat, d > 0
  PROVE  /\ x \div d \in Nat /\ d * (x \div d) \in Nat /\ d * (x \div d) <= x /\ x < d * (x \div d) + d
         /\ x % d = x - d * (x \div d) /\ x % d \in 0 .. d - 1
<1> DEFINE q == x \div d  r == x % d
<1>1. q \in Int /\ r \in 0 .. d - 1 /\ x = d * q + r
  OBVIOUS
<1> HIDE DEF q, r
<1>2. q >= 0
  <2>1. SUFFICES ASSUME q <= -1 PROVE FALSE
    BY <1>1
  <2>2. d * q <= -d
    BY <1>1, <2>1
  <2> QED BY <1>1, <2>2
<1>3. d * q \in Nat
  BY <1>1, <1>2
<1> QED BY <1>1, <1>2, <1>3 DEF q, r

(* The last turn is the one that reaches the region's end. *)
LEMMA Turns ==
  ASSUME Region
  PROVE  /\ Count \in Nat /\ Count > 0 /\ (Count - 1) * L \in Nat /\ Count * L = (Count - 1) * L + L
         /\ kernel.stores # "n+1" => (Count - 1) * L < n /\ n <= Count * L
         /\ kernel.stores = "n+1" => (Count - 1) * L <= n /\ n < Count * L
<1> DEFINE q == (n + L) \div L  p == (n + L - 1) \div L
<1>1. n \in Nat /\ n > 0 /\ L \in Nat /\ L > 0 /\ n + L \in Nat /\ n + L - 1 \in Nat
  BY Parameters DEF Region
<1>2. q \in Nat /\ L * q <= n + L /\ n + L < L * q + L
  BY <1>1, Division
<1>3. p \in Nat /\ L * p <= n + L - 1 /\ n + L - 1 < L * p + L
  BY <1>1, Division
<1>4. Count = IF kernel.stores = "n+1" THEN q ELSE p
  BY DEF Count
<1> HIDE DEF q, p
<1>5. p > 0 /\ q > 0
  <2>1. p # 0 /\ q # 0
    <3>1. L * 0 = 0
      BY <1>1
    <3> QED BY <1>1, <1>2, <1>3, <3>1
  <2> QED BY <1>2, <1>3, <2>1
<1>6. ASSUME NEW c \in Nat, c > 0 PROVE (c - 1) * L = L * c - L /\ c * L = L * c /\ (c - 1) * L \in Nat
  BY <1>1, <1>6
<1>7. CASE kernel.stores = "n+1"
  <2>1. Count = q /\ (q - 1) * L = L * q - L /\ q * L = L * q /\ (q - 1) * L \in Nat /\ L * q \in Int
    BY <1>1, <1>2, <1>4, <1>5, <1>6, <1>7
  <2> QED BY <1>1, <1>2, <1>5, <1>7, <2>1
<1>8. CASE kernel.stores # "n+1"
  <2>1. Count = p /\ (p - 1) * L = L * p - L /\ p * L = L * p /\ (p - 1) * L \in Nat /\ L * p \in Int
    BY <1>1, <1>3, <1>4, <1>5, <1>6, <1>8
  <2> QED BY <1>1, <1>3, <1>5, <1>8, <2>1
<1> QED BY <1>7, <1>8

(* What one turn covers: a whole vector before the last turn. *)
LEMMA TurnFacts ==
  ASSUME Region, Turn
  PROVE  /\ i * L \in Nat /\ (i + 1) * L = i * L + L
         /\ Last <=> i + 1 = Count
         /\ ~Last => (i + 1) * L <= (Count - 1) * L
         /\ Last => i * L = (Count - 1) * L
         /\ i * L <= n
<1> DEFINE c == Count
<1>1. /\ c \in Nat /\ c > 0 /\ (c - 1) * L \in Nat /\ (c - 1) * L <= n
      /\ i \in Nat /\ i < c /\ L \in Nat /\ L > 0 /\ n \in Nat
  <2>1. n \in Nat
    BY DEF Region
  <2> QED BY <2>1, Turns, Parameters DEF Turn
<1>2. Last <=> i = c - 1
  BY DEF Last
<1> HIDE DEF c
<1>3. i * L \in Nat /\ (i + 1) * L = i * L + L
  BY <1>1
<1>4. i + 1 <= c - 1 => (i + 1) * L <= (c - 1) * L
  BY <1>1
<1>5. i * L <= (c - 1) * L
  BY <1>1
<1> QED BY <1>1, <1>2, <1>3, <1>4, <1>5 DEF c

LEMMA ClipWhole ==
  ASSUME Region, Turn, NEW k \in Nat, (i + 1) * L <= k
  PROVE  Clip(k) = Lane
<1> DEFINE a == i * L
<1>1. a \in Nat /\ a + L <= k /\ Lane = 0 .. L - 1 /\ L \in Nat
  BY TurnFacts, Parameters
<1>2. Clip(k) = {l \in Lane : l < k - a}
  BY DEF Clip
<1> HIDE DEF a
<1> QED BY <1>1, <1>2

LEMMA ClipPart ==
  ASSUME Region, Turn, NEW k \in Nat, i * L <= k, k < (i + 1) * L
  PROVE  /\ i = k \div L /\ k % L = k - i * L /\ k % L \in Lane
         /\ Clip(k) = 0 .. (k % L) - 1
<1> DEFINE a == i * L  r == k - i * L
<1>1. a \in Nat /\ k < a + L /\ a <= k /\ Lane = 0 .. L - 1 /\ L \in Nat /\ L > 0 /\ i \in Nat /\ a = L * i
  BY TurnFacts, Parameters DEF Turn
<1>2. k = L * i + r /\ r \in 0 .. L - 1
  BY <1>1
<1>3. Clip(k) = {l \in Lane : l < r}
  BY DEF Clip
<1> HIDE DEF r
<1>4. k \div L = i /\ k % L = r
  BY <1>1, <1>2, Quotient
<1>5. {l \in Lane : l < r} = 0 .. r - 1
  BY <1>1, <1>2
<1> QED BY <1>1, <1>2, <1>3, <1>4, <1>5 DEF r

LEMMA ClipNone ==
  ASSUME Region, Turn, NEW k \in Nat, k <= i * L
  PROVE  Clip(k) = {}
<1> DEFINE a == i * L
<1>1. a \in Nat /\ k <= a /\ Lane = 0 .. L - 1 /\ L \in Nat
  BY TurnFacts, Parameters
<1>2. Clip(k) = {l \in Lane : l < k - a}
  BY DEF Clip
<1> HIDE DEF a
<1> QED BY <1>1, <1>2

LEMMA TailMaskRight ==
  ASSUME Region, Turn, kernel.stores # "n+1"
  PROVE  Clip(n) = IF Last THEN TailMask(n) ELSE Lane
<1> DEFINE a == i * L
<1>1. n \in Nat /\ a \in Nat /\ L \in Nat /\ L > 0 /\ (i + 1) * L = a + L /\ i \in Nat /\ a = L * i
  BY TurnFacts, Parameters DEF Region, Turn
<1>2. CASE ~Last
  <2>1. (i + 1) * L <= n
    <3> DEFINE c == (Count - 1) * L
    <3>1. (i + 1) * L <= c /\ c < n /\ c \in Nat
      BY <1>2, Turns, TurnFacts
    <3> HIDE DEF c
    <3> QED BY <1>1, <3>1
  <2> QED BY <1>1, <1>2, <2>1, ClipWhole
<1>3. CASE Last
  <2>1. a < n /\ n <= a + L
    <3> DEFINE c == (Count - 1) * L
    <3>1. a = c /\ c < n /\ n <= Count * L /\ Count * L = c + L
      BY <1>3, Turns, TurnFacts
    <3> HIDE DEF c
    <3> QED BY <1>1, <3>1
  <2>2. CASE n = a + L
    <3>1. n = L * (i + 1) + 0 /\ 0 \in 0 .. L - 1 /\ i + 1 \in Int
      BY <1>1, <2>2
    <3> DEFINE q == i + 1
    <3> HIDE DEF q
    <3>2. n = L * q + 0 /\ q \in Int
      BY <3>1 DEF q
    <3>3. n % L = 0
      BY <1>1, <3>1, <3>2, Quotient
    <3>4. Clip(n) = Lane
      BY <1>1, <2>2, ClipWhole
    <3> QED BY <1>3, <3>3, <3>4 DEF TailMask
  <2>3. CASE n < a + L
    <3>1. n % L = n - a /\ Clip(n) = 0 .. (n % L) - 1
      BY <1>1, <2>1, <2>3, ClipPart
    <3>2. n % L # 0
      BY <1>1, <2>1, <3>1
    <3> QED BY <1>3, <3>1, <3>2 DEF TailMask
  <2> QED BY <1>1, <2>1, <2>2, <2>3
<1> QED BY <1>2, <1>3

(* The four loops of eval2 clip the top part where it ends. *)
LEMMA TopLanesRight ==
  ASSUME Region, Turn, NEW s \in Nat, s <= n
  PROVE  TopLanes(s) = Clip(s)
<1> DEFINE a == i * L
<1>1. n \in Nat /\ a \in Nat /\ L \in Nat /\ L > 0 /\ (i + 1) * L = a + L /\ i \in Nat
  BY TurnFacts, Parameters DEF Region, Turn
<1>2. CASE (i + 1) * L <= s
  <2>1. Clip(s) = Lane
    BY <1>2, ClipWhole
  <2>2. (i + 1) * L \in Int /\ ~((i + 1) * L > s)
    BY <1>1, <1>2
  <2> QED BY <1>2, <2>1, <2>2 DEF TopLanes
<1>3. CASE (i + 1) * L > s /\ (i + 1) * L <= n
  <2>1. TopLanes(s) = IF i = s \div L THEN 0 .. (s % L) - 1 ELSE {}
    <3>1. ~((i + 1) * L <= s)
      BY <1>1, <1>3
    <3> QED BY <1>3, <3>1 DEF TopLanes
  <2>2. CASE a <= s
    BY <1>3, <2>1, <2>2, ClipPart
  <2>3. CASE a > s
    <3>1. Clip(s) = {}
      BY <1>1, <2>3, ClipNone
    <3>2. i # s \div L
      <4>1. SUFFICES ASSUME i = s \div L PROVE FALSE
        OBVIOUS
      <4>2. L * i <= s /\ L * i = a
        BY <1>1, <4>1, Division
      <4> QED BY <1>1, <2>3, <4>2
    <3> QED BY <2>1, <3>1, <3>2
  <2> QED BY <1>1, <2>2, <2>3
<1>4. CASE (i + 1) * L > n
  <2>1. ~((i + 1) * L <= s) /\ ~((i + 1) * L <= n)
    BY <1>1, <1>4
  <2> QED BY <2>1 DEF TopLanes
<1> QED BY <1>1, <1>2, <1>3, <1>4

(* No foreign limb is loaded and none of the operands' own is left out.     *)
LEMMA MasksRight ==
  ASSUME Region, Turn, NEW k \in 1 .. Arity
  PROVE  /\ Loaded(k) = OwnLanes(k) /\ OwnLanes(k) \subseteq Lane
         /\ kernel.stores # "vec" => OwnLanes(k) \subseteq Clip(n)
<1>1. /\ kernel.reads[k] \in {"vec", "tail", "clip", "short", "top"}
      /\ kernel.reads[k] = "tail" => kernel.stores # "n+1"
      /\ kernel.stores \in {"vec", "tail", "n+1"}
      /\ kernel.stores = "tail" => kernel.reads[k] \in {"tail", "short"}
      /\ kernel.stores = "n+1" => kernel.reads[k] \in {"clip", "top"}
  BY DEF Region, KernelShape, Arity
<1>2. len[k] \in Nat /\ len[k] <= n /\ n \in Nat /\ (kernel.reads[k] = "tail" => len[k] = n)
  BY DEF Region
<1>3. Loaded(k) = OwnLanes(k)
  <2>1. CASE kernel.reads[k] = "vec"
    BY <2>1 DEF Loaded, OwnLanes
  <2>2. CASE kernel.reads[k] = "tail"
    BY <1>1, <1>2, <2>2, TailMaskRight DEF Loaded, OwnLanes
  <2>3. CASE kernel.reads[k] = "top"
    BY <1>2, <2>3, TopLanesRight DEF Loaded, OwnLanes
  <2>4. CASE kernel.reads[k] \in {"clip", "short"}
    BY <2>4 DEF Loaded, OwnLanes
  <2> QED BY <1>1, <2>1, <2>2, <2>3, <2>4
<1>4. kernel.stores # "vec" => OwnLanes(k) = Clip(len[k])
  BY <1>1 DEF OwnLanes
<1>5. Clip(len[k]) \subseteq Clip(n)
  <2> DEFINE a == i * L
  <2>1. a \in Nat /\ Lane = 0 .. L - 1 /\ L \in Nat
    BY TurnFacts, Parameters
  <2>2. Clip(len[k]) = {l \in Lane : l < len[k] - a} /\ Clip(n) = {l \in Lane : l < n - a}
    BY DEF Clip
  <2> HIDE DEF a
  <2> QED BY <1>2, <2>1, <2>2
<1>6. OwnLanes(k) \subseteq Lane
  BY DEF OwnLanes, Clip
<1> QED BY <1>3, <1>4, <1>5, <1>6

-----------------------------------------------------------------------------
(* The lanewise combination *)

IsSum(u, f, m) == u = [k \in 1 .. m |-> f[k] + (IF k = 1 THEN 0 ELSE u[k - 1])]

LEMMA SumDefined ==
  ASSUME NEW f, Arity \in Nat, Arity > 0
  PROVE  \E u : IsSum(u, f, Arity) /\ Sum(f) = u[Arity]
<1> DEFINE T == {m \in Nat : \E u : IsSum(u, f, m)}
<1>1. 0 \in T
  <2> DEFINE u == [k \in 1 .. 0 |-> 0]
  <2>1. IsSum(u, f, 0)
    BY DEF IsSum
  <2> QED BY <2>1
<1>2. ASSUME NEW m \in Nat, m \in T PROVE m + 1 \in T
  <2>1. PICK u : IsSum(u, f, m)
    BY <1>2
  <2> DEFINE w == [k \in 1 .. m + 1 |-> f[k] + (IF k = 1 THEN 0 ELSE u[k - 1])]
  <2>2. \A k \in 1 .. m : w[k] = u[k]
    BY <2>1 DEF IsSum
  <2>3. w = [k \in 1 .. m + 1 |-> f[k] + (IF k = 1 THEN 0 ELSE w[k - 1])]
    <3>1. \A k \in 1 .. m + 1 : k # 1 => k - 1 \in 1 .. m
      OBVIOUS
    <3> QED BY <2>2, <3>1
  <2> HIDE DEF w
  <2>4. IsSum(w, f, m + 1)
    BY <2>3 DEF IsSum
  <2> QED BY <2>4
<1>3. Arity \in T
  <2> HIDE DEF T
  <2>1. T \subseteq Nat
    BY DEF T
  <2> QED BY <1>1, <1>2, <2>1, ByInduction
<1> DEFINE c == CHOOSE u : IsSum(u, f, Arity)
<1>4. IsSum(c, f, Arity)
  BY <1>3
<1>5. Sum(f) = c[Arity]
  BY DEF Sum, IsSum
<1> QED BY <1>4, <1>5

Congruent(x, y, w) == x \in Int /\ y \in Int /\ \E q \in Int : x = y + w * q
CongruentTerms(f, g, w) == \A k \in 1 .. Arity : Congruent(f[k], g[k], w)

LEMMA SumCongruent ==
  ASSUME NEW f, NEW g, NEW w \in Int, Arity \in Nat, Arity > 0, CongruentTerms(f, g, w)
  PROVE  Congruent(Sum(f), Sum(g), w)
<1>1. PICK u : IsSum(u, f, Arity) /\ Sum(f) = u[Arity]
  BY SumDefined
<1>2. PICK v : IsSum(v, g, Arity) /\ Sum(g) = v[Arity]
  BY SumDefined
<1> DEFINE T == {k \in Nat : k + 1 <= Arity => Congruent(u[k + 1], v[k + 1], w)}
<1>3. 0 \in T
  <2>1. 1 \in 1 .. Arity /\ u[1] = f[1] + 0 /\ v[1] = g[1] + 0 /\ 0 + 1 = 1
    BY <1>1, <1>2 DEF IsSum
  <2>2. Congruent(f[1], g[1], w)
    BY <2>1 DEF CongruentTerms
  <2>3. u[1] = f[1] /\ v[1] = g[1]
    BY <2>1, <2>2 DEF Congruent
  <2>4. Congruent(u[0 + 1], v[0 + 1], w)
    BY <2>1, <2>2, <2>3
  <2> QED BY <2>4
<1>4. ASSUME NEW k \in Nat, k \in T PROVE k + 1 \in T
  <2> DEFINE j == (k + 1) + 1
  <2> SUFFICES ASSUME j <= Arity PROVE Congruent(u[j], v[j], w)
    OBVIOUS
  <2>1. j \in 1 .. Arity /\ j # 1 /\ j - 1 = k + 1 /\ k + 1 <= Arity
    OBVIOUS
  <2>2. Congruent(u[k + 1], v[k + 1], w)
    BY <1>4, <2>1
  <2> HIDE DEF j
  <2>3. u[j] = f[j] + u[k + 1] /\ v[j] = g[j] + v[k + 1]
    BY <1>1, <1>2, <2>1 DEF IsSum
  <2>4. Congruent(f[j], g[j], w)
    BY <2>1 DEF CongruentTerms
  <2>5. PICK p \in Int : u[k + 1] = v[k + 1] + w * p
    BY <2>2 DEF Congruent
  <2>6. PICK q \in Int : f[j] = g[j] + w * q
    BY <2>4 DEF Congruent
  <2>7. w * (p + q) = w * p + w * q /\ w * p \in Int /\ w * q \in Int
    OBVIOUS
  <2>8. u[k + 1] \in Int /\ v[k + 1] \in Int /\ f[j] \in Int /\ g[j] \in Int
    BY <2>2, <2>4 DEF Congruent
  <2>9. u[j] \in Int /\ v[j] \in Int /\ u[j] = v[j] + w * (p + q) /\ p + q \in Int
    BY <2>3, <2>5, <2>6, <2>7, <2>8
  <2> QED BY <2>9 DEF Congruent
<1>5. \A k \in Nat : k \in T
  <2> HIDE DEF T
  <2>1. T \subseteq Nat
    BY DEF T
  <2> QED BY <1>3, <1>4, <2>1, ByInduction
<1>6. Congruent(u[Arity], v[Arity], w)
  <2>1. Arity - 1 \in T /\ (Arity - 1) + 1 = Arity
    BY <1>5
  <2> QED BY <2>1
<1> QED BY <1>1, <1>2, <1>6

(* What a turn's combined lanes stand for. *)
LaneNumber(v) == IF kernel.chain = "pos" THEN Number(v, L, B) ELSE Value(v)

LEMMA CombinedRight ==
  ASSUME KernelParameters, Region, Turn, NEW xs \in [1 .. Arity -> [Lane -> Words[Arity]]],
         \A l \in Lane : InBudget(TrueLanes(xs)[l])
  PROVE  /\ WordLanes(Combined(xs))
         /\ LaneNumber(Combined(xs)) = Number(TrueLanes(xs), L, B)
         /\ Number(TrueLanes(xs), L, B) \in Int
         /\ kernel.stores # "vec" => \A l \in Lane : l >= n - i * L => Combined(xs)[l] = 0
<1> DEFINE raw(l) == [k \in 1 .. Arity |-> IF l \in OwnLanes(k) THEN kernel.coef[k] * xs[k][l] ELSE 0]
           own(l) == [k \in 1 .. Arity |->
                        IF l \in OwnLanes(k) THEN kernel.coef[k] * Limb(k, xs[k][l]) ELSE 0]
           c == Combined(xs)  t == TrueLanes(xs)
<1>1. Arity \in 1 .. 4 /\ Arity \in Nat /\ Arity > 0 /\ \A k \in 1 .. Arity : kernel.coef[k] \in Int
  <2>1. KernelShape(kernel)
    BY DEF Region
  <2>2. Arity \in 1 .. 4
    BY <2>1 DEF KernelShape, Arity
  <2>3. \A k \in 1 .. Arity : kernel.coef[k] \in Int
    BY <2>1 DEF KernelShape, Arity
  <2> QED BY <2>2, <2>3
<1>2. \A l \in Lane : c[l] = Word(Sum(raw(l))) /\ t[l] = Sum(own(l))
  <2>1. \A k \in 1 .. Arity : Loaded(k) = OwnLanes(k)
    BY MasksRight
  <2>2. ASSUME NEW l \in Lane PROVE c[l] = Word(Sum(raw(l)))
    <3> DEFINE masks == [k \in 1 .. Arity |-> Loaded(k)]
    <3>1. [k \in 1 .. Arity |-> IF l \in masks[k] THEN kernel.coef[k] * xs[k][l] ELSE 0] = raw(l)
      BY <2>1
    <3>2. c[l] = Word(Sum([k \in 1 .. Arity |-> IF l \in masks[k] THEN kernel.coef[k] * xs[k][l] ELSE 0]))
      BY DEF Combined
    <3> QED BY <3>1, <3>2
  <2>3. \A l \in Lane : t[l] = Sum(own(l))
    BY DEF TrueLanes
  <2> QED BY <2>2, <2>3
<1>3. c = [l \in Lane |-> c[l]]
  BY DEF Combined
<1>4. ASSUME NEW k \in 1 .. Arity, NEW l \in Lane
      PROVE  IsWord(xs[k][l]) /\ kernel.coef[k] \in Int
  <2>1. xs[k][l] \in Words[Arity] /\ Words[Arity] \subseteq 0 .. Width - 1
    BY <1>1 DEF KernelParameters
  <2>2. xs[k][l] \in 0 .. Width - 1
    BY <2>1
  <2> QED BY <1>1, <2>2, Parameters DEF IsWord
<1> HIDE DEF c, t
<1>5. ASSUME NEW l \in Lane
      PROVE  /\ Sum(raw(l)) \in Int /\ Sum(own(l)) \in Int
             /\ \E q \in Int : Sum(raw(l)) = Sum(own(l)) + Width * q
  <2> DEFINE f == raw(l)  g == own(l)  w == Width
  <2>1. ASSUME NEW k \in 1 .. Arity
        PROVE  Congruent(f[k], g[k], w)
    <3> DEFINE a == kernel.coef[k]  x == xs[k][l]
    <3>1. IsWord(x) /\ a \in Int
      BY <1>4
    <3>2. f[k] = (IF l \in OwnLanes(k) THEN a * x ELSE 0)
          /\ g[k] = (IF l \in OwnLanes(k) THEN a * Limb(k, x) ELSE 0)
      OBVIOUS
    <3> HIDE DEF f, g, a, x, w
    <3>3. PICK q \in Int : Limb(k, x) = x + w * q /\ x \in Int /\ w \in Int
      <4>1. w \in Int /\ x \in Int /\ w * 0 = 0
        BY <3>1, Parameters DEF IsWord, w
      <4>2. CASE kernel.chain = "pos"
        <5>1. Limb(k, x) = x + w * 0
          BY <4>1, <4>2 DEF Limb
        <5> QED BY <4>1, <5>1
      <4>3. CASE kernel.chain # "pos"
        <5>1. Limb(k, x) = Signed(x)
          BY <4>3 DEF Limb
        <5>2. PICK q \in {0, -1} : Signed(x) = x + Width * q
          BY <3>1, SignedCongruent
        <5> QED BY <4>1, <5>1, <5>2 DEF w
      <4> QED BY <4>2, <4>3
    <3>4. CASE l \in OwnLanes(k)
      <4> DEFINE r == 0 - a * q
      <4>1. a * (x + w * q) = a * x + w * (a * q) /\ a * q \in Int /\ a * x \in Int /\ w * (a * q) \in Int
        BY <3>1, <3>3
      <4>2. w * (0 - a * q) = 0 - w * (a * q)
        BY <3>3, <4>1
      <4>3. f[k] = a * x /\ g[k] = a * x + w * (a * q)
        BY <3>2, <3>3, <3>4, <4>1
      <4>4. f[k] \in Int /\ g[k] \in Int /\ f[k] = g[k] + w * (0 - a * q) /\ 0 - a * q \in Int
        BY <4>1, <4>2, <4>3
      <4> QED BY <4>4 DEF Congruent
    <3>5. CASE l \notin OwnLanes(k)
      <4>1. f[k] = 0 /\ g[k] = 0 /\ 0 = 0 + w * 0
        BY <3>2, <3>3, <3>5
      <4> QED BY <4>1 DEF Congruent
    <3> QED BY <3>4, <3>5
  <2> HIDE DEF f, g, w
  <2>2. CongruentTerms(f, g, w)
    BY <2>1 DEF CongruentTerms
  <2>3. w \in Int
    BY Parameters DEF w
  <2>4. Congruent(Sum(f), Sum(g), w)
    BY <1>1, <2>2, <2>3, SumCongruent
  <2> QED BY <2>4 DEF f, g, w, Congruent
<1>6. ASSUME NEW l \in Lane
      PROVE  /\ IsWord(c[l]) /\ t[l] \in Int
             /\ kernel.chain = "pos" => c[l] = t[l]
             /\ kernel.chain # "pos" => Signed(c[l]) = t[l]
  <2> DEFINE x == Sum(raw(l))  y == Sum(own(l))
  <2>1. x \in Int /\ y \in Int
    BY <1>5
  <2>2. PICK q \in Int : x = y + Width * q
    BY <1>5
  <2>3. c[l] = Word(x) /\ t[l] = y /\ InBudget(y)
    BY <1>2 DEF t
  <2> HIDE DEF x, y
  <2>4. IsWord(Word(x)) /\ IsWord(Word(y))
    BY <2>1, WordOf
  <2>5. Word(x) = Word(y)
    <3>1. PICK p \in Int : y = Width * p + Word(y)
      BY <2>1, WordOf
    <3>2. Width * (p + q) = Width * p + Width * q /\ Width * p \in Int /\ Width * q \in Int
      BY Parameters
    <3>3. Word(y) \in Int
      BY <2>4 DEF IsWord
    <3>4. x = Width * (p + q) + Word(y) /\ p + q \in Int
      BY <2>2, <3>1, <3>2, <3>3
    <3> DEFINE r == p + q  z == Word(y)
    <3>5. x = Width * r + z /\ r \in Int /\ IsWord(z)
      BY <2>4, <3>4
    <3> HIDE DEF r, z
    <3>6. Word(x) = z
      BY <2>1, <3>5, WordIs
    <3> QED BY <3>6 DEF z
  <2>6. CASE kernel.chain = "pos"
    <3>1. IsWord(y) /\ y = Width * 0 + y
      BY <2>1, <2>3, <2>6, Parameters DEF InBudget, IsWord
    <3>2. Word(y) = y
      BY <2>1, <3>1, WordIs
    <3> QED BY <2>1, <2>3, <2>4, <2>5, <2>6, <3>2
  <2>7. CASE kernel.chain # "pos"
    <3>1. Signed(Word(y)) = y
      BY <2>1, <2>3, <2>7, SignedOf DEF InBudget
    <3> QED BY <2>1, <2>3, <2>4, <2>5, <2>7, <3>1
  <2> QED BY <2>6, <2>7
<1>7. WordLanes(c)
  BY <1>3, <1>6 DEF WordLanes
<1>8. LaneNumber(c) = Number(t, L, B) /\ Number(t, L, B) \in Int
  <2>1. \A l \in 0 .. L - 1 : t[l] \in Int
    BY <1>6, Parameters
  <2>2. Number(t, L, B) \in Int
    BY <2>1, Sizes, NumberSteps
  <2>3. CASE kernel.chain = "pos"
    <3>1. \A l \in 0 .. L - 1 : t[l] \in Int /\ t[l] = c[l]
      BY <1>6, <2>3, Parameters
    <3>2. Number(t, L, B) = Number(c, L, B)
      BY <3>1, Sizes, NumberOfSame
    <3> QED BY <2>2, <2>3, <3>2 DEF LaneNumber
  <2>4. CASE kernel.chain # "pos"
    <3> DEFINE g == [l \in Lane |-> Signed(c[l])]
    <3>1. \A l \in 0 .. L - 1 : t[l] \in Int /\ t[l] = g[l]
      BY <1>6, <2>4, Parameters
    <3> HIDE DEF g
    <3>2. Number(t, L, B) = Number(g, L, B)
      BY <3>1, Sizes, NumberOfSame
    <3> QED BY <2>2, <2>4, <3>2 DEF LaneNumber, Value, g
  <2> QED BY <2>3, <2>4
<1>9. ASSUME kernel.stores # "vec", NEW l \in Lane, l >= n - i * L PROVE c[l] = 0
  <2>1. \A k \in 1 .. Arity : l \notin OwnLanes(k)
    <3>1. l \notin Clip(n)
      <4> DEFINE a == i * L
      <4>1. a \in Nat /\ n \in Nat /\ l \in Int /\ l >= n - a
        BY <1>9, TurnFacts, Parameters DEF Region
      <4>2. Clip(n) = {j \in Lane : j < n - a}
        BY DEF Clip
      <4> HIDE DEF a
      <4> QED BY <4>1, <4>2
    <3>2. \A k \in 1 .. Arity : OwnLanes(k) \subseteq Clip(n)
      BY <1>9, MasksRight
    <3> QED BY <3>1, <3>2
  <2> DEFINE f == raw(l)  w == 0
  <2>2. \A k \in 1 .. Arity : f[k] = 0
    BY <2>1
  <2> HIDE DEF f, w
  <2>3. Sum(f) = 0
    <3>1. PICK u : IsSum(u, f, Arity) /\ Sum(f) = u[Arity]
      BY <1>1, SumDefined
    <3> DEFINE T == {k \in Nat : k + 1 <= Arity => u[k + 1] = 0}
    <3>2. 0 \in T
      <4>1. 1 \in 1 .. Arity /\ u[1] = f[1] + 0
        BY <1>1, <3>1 DEF IsSum
      <4> QED BY <2>2, <4>1
    <3>3. ASSUME NEW k \in Nat, k \in T PROVE k + 1 \in T
      <4> SUFFICES ASSUME (k + 1) + 1 <= Arity PROVE u[(k + 1) + 1] = 0
        OBVIOUS
      <4> DEFINE j == (k + 1) + 1
      <4>1. j \in 1 .. Arity /\ j # 1 /\ j - 1 = k + 1 /\ k + 1 <= Arity
        BY <1>1
      <4>2. u[k + 1] = 0
        BY <3>3, <4>1
      <4> HIDE DEF j
      <4>3. u[j] = f[j] + u[k + 1]
        BY <3>1, <4>1 DEF IsSum
      <4>4. u[j] = 0
        BY <2>2, <4>1, <4>2, <4>3
      <4> QED BY <4>4 DEF j
    <3>4. \A k \in Nat : k \in T
      <4> HIDE DEF T
      <4>1. T \subseteq Nat
        BY DEF T
      <4> QED BY <3>2, <3>3, <4>1, ByInduction
    <3>5. Arity - 1 \in T /\ (Arity - 1) + 1 = Arity
      BY <1>1, <3>4
    <3> QED BY <1>1, <3>1, <3>5
  <2>4. Word(0) = 0
    <3>1. IsWord(0) /\ 0 = Width * 0 + 0
      BY Parameters DEF IsWord
    <3> QED BY <3>1, WordIs
  <2> QED BY <1>2, <2>3, <2>4 DEF f
<1> QED BY <1>7, <1>8, <1>9 DEF c, t

-----------------------------------------------------------------------------
(* The inductive invariant *)

Shape == Region /\ i \in 0 .. Count /\ phase \in {"load", "resolve"} /\ (phase = "resolve" => i < Count)

ChainFits(c) ==
  /\ kernel.chain = "pos" => PosChain(c)
  /\ kernel.chain = "neg" => NegChain(c) /\ SmallChain(c)
  /\ kernel.chain = "none" => ChainValue(c) = 0

(* A kernel with a chain holds digits only.  Past the region the combined   *)
(* lanes are zero: nothing else is left for the chain there but its carry.  *)
WholeVectors ==
  /\ WordLanes(prev) /\ (kernel.chain # "none" => DigitLanes(prev) /\ digits)
  /\ phase = "resolve" =>
       /\ WordLanes(lanes)
       /\ kernel.stores # "vec" => \A l \in Lane : l >= n - i * L => lanes[l] = 0

(* What a halving kernel holds back. *)
Behind == IF kernel.half /\ 0 < i THEN Power(B, (i - 1) * L) * (Value(prev) - (prev[0] % 2)) ELSE 0

Owed ==
  CASE kernel.stores = "vec"  -> debt = Power(B, i * L) * ChainValue(chain)
    [] kernel.stores = "tail" -> IF kernel.chain = "none" THEN debt = 0 ELSE debt % Power(B, n) = 0
    [] OTHER             -> debt = 0

Balance ==
  /\ debt \in Int
  /\ i < Count /\ phase = "load" => debt = Behind + Power(B, i * L) * ChainValue(chain)
  /\ i < Count /\ phase = "resolve" =>
       debt = Behind + Power(B, i * L) * (ChainValue(chain) + LaneNumber(lanes))
  /\ i = Count => Owed

IInv == Shape /\ ChainFits(chain) /\ WholeVectors /\ Balance

-----------------------------------------------------------------------------
(* Resolving one vector *)

LEMMA ChainInt ==
  ASSUME Region, NEW c, ChainFits(c)
  PROVE  ChainValue(c) \in Int
<1>1. kernel.chain \in {"pos", "neg", "none"}
  BY DEF Region, KernelShape
<1>2. CASE kernel.chain = "pos"
  <2>1. PosChain(c)
    BY <1>2 DEF ChainFits
  <2> QED BY <2>1, Parameters DEF PosChain, ChainValue
<1>3. CASE kernel.chain = "neg"
  <2>1. SmallChain(c)
    BY <1>3 DEF ChainFits
  <2> QED BY <2>1, Parameters DEF SmallChain
<1>4. CASE kernel.chain = "none"
  BY <1>4 DEF ChainFits
<1> QED BY <1>1, <1>2, <1>3, <1>4

LEMMA ValueInt ==
  ASSUME NEW v, WordLanes(v)
  PROVE  Value(v) \in Int /\ Number(v, L, B) \in Int
<1> DEFINE g == [l \in Lane |-> Signed(v[l])]
<1>1. \A l \in 0 .. L - 1 : g[l] \in Int
  BY Parameters, SignedCongruent DEF WordLanes
<1>2. \A l \in 0 .. L - 1 : v[l] \in Int
  BY Parameters DEF WordLanes, IsWord
<1> HIDE DEF g
<1>3. Number(g, L, B) \in Int
  BY <1>1, Sizes, NumberSteps
<1>4. Number(v, L, B) \in Int
  BY <1>2, Sizes, NumberSteps
<1> QED BY <1>3, <1>4 DEF Value, g

(* The three ways to resolve keep the number. *)
LEMMA ResolvedRight ==
  ASSUME Region, ChainFits(chain), WordLanes(lanes)
  PROVE  LET r == Resolved(lanes)
         IN  /\ WordLanes(r.vec) /\ (kernel.chain # "none" => DigitLanes(r.vec))
             /\ ChainFits(r.chain)
             /\ Value(r.vec) + Power(B, L) * ChainValue(r.chain) = LaneNumber(lanes) + ChainValue(chain)
<1>1. kernel.chain \in {"pos", "neg", "none"}
  BY DEF Region, KernelShape
<1>2. CASE kernel.chain = "pos"
  <2> DEFINE r == Canonize(lanes, chain)
  <2>1. Resolved(lanes) = r
    BY <1>2 DEF Resolved
  <2>2. PosChain(chain)
    BY <1>2 DEF ChainFits
  <2>3. /\ DigitLanes(r.vec) /\ PosChain(r.chain)
        /\ Number(r.vec, L, B) + Power(B, L) * ChainValue(r.chain) = Number(lanes, L, B) + ChainValue(chain)
    BY <2>2, CanonizeExact
  <2> HIDE DEF r
  <2>4. WordLanes(r.vec) /\ Value(r.vec) = Number(r.vec, L, B)
    BY <2>3, ValueOfDigits
  <2>5. ChainFits(r.chain) /\ LaneNumber(lanes) = Number(lanes, L, B)
    BY <1>2, <2>3 DEF ChainFits, LaneNumber
  <2> QED BY <2>1, <2>3, <2>4, <2>5
<1>3. CASE kernel.chain = "neg"
  <2> DEFINE r == CanonNeg(lanes, chain)
  <2>1. Resolved(lanes) = r
    BY <1>3 DEF Resolved
  <2>2. NegChain(chain)
    BY <1>3 DEF ChainFits
  <2>3. /\ DigitLanes(r.vec) /\ NegChain(r.chain) /\ SmallChain(r.chain)
        /\ Number(r.vec, L, B) + Power(B, L) * ChainValue(r.chain) = Value(lanes) + ChainValue(chain)
    BY <2>2, CanonNegExact
  <2> HIDE DEF r
  <2>4. WordLanes(r.vec) /\ Value(r.vec) = Number(r.vec, L, B)
    BY <2>3, ValueOfDigits
  <2>5. ChainFits(r.chain) /\ LaneNumber(lanes) = Value(lanes)
    BY <1>3, <2>3 DEF ChainFits, LaneNumber
  <2> QED BY <2>1, <2>3, <2>4, <2>5
<1>4. CASE kernel.chain = "none"
  <2> DEFINE r == [vec |-> lanes, chain |-> NoCarry]
  <2>1. Resolved(lanes) = r /\ r.vec = lanes /\ r.chain = NoCarry
    BY <1>4 DEF Resolved
  <2>2. ChainValue(NoCarry) = 0
    BY DEF ChainValue, NoCarry
  <2>3. ChainFits(NoCarry)
    BY <1>4, <2>2 DEF ChainFits
  <2>4. ChainValue(chain) = 0 /\ LaneNumber(lanes) = Value(lanes)
    BY <1>4 DEF ChainFits, LaneNumber
  <2>5. Power(B, L) * 0 = 0 /\ Value(lanes) \in Int
    BY Parameters, PowerPositive, ValueInt
  <2> QED BY <1>4, <2>1, <2>2, <2>3, <2>4, <2>5
<1> QED BY <1>1, <1>2, <1>3, <1>4

LEMMA ZeroLanes == DigitLanes(Zero) /\ WordLanes(Zero) /\ Zero[0] % 2 = 0 /\ Value(Zero) \in Int
<1>1. DigitLanes(Zero) /\ Zero[0] = 0
  BY Parameters DEF DigitLanes, Zero
<1> QED BY <1>1, ValueOfDigits, ValueInt

LEMMA HalvedRight ==
  ASSUME NEW lo, WordLanes(lo), kernel.chain # "none" => DigitLanes(lo),
         NEW nx, WordLanes(nx), kernel.chain # "none" => DigitLanes(nx)
  PROVE  HalfOf(Halved(lo, nx), lo, nx) /\ (kernel.chain # "none" => DigitLanes(Halved(lo, nx)))
<1>1. CASE kernel.chain = "none"
  BY <1>1, HalfNcExact DEF Halved
<1>2. CASE kernel.chain # "none"
  BY <1>2, HalfCanonExact DEF Halved
<1> QED BY <1>1, <1>2

(* A store under a mask drops a multiple of the masked part's power. *)
LEMMA MaskedWhole ==
  ASSUME NEW v, WordLanes(v)
  PROVE  Masked(v, Lane) = v
<1>1. v = [l \in Lane |-> v[l]]
  BY DEF WordLanes
<1>2. DOMAIN v = Lane
  BY <1>1
<1>3. Masked(v, Lane) = [l \in Lane |-> v[l]]
  BY <1>2 DEF Masked
<1> QED BY <1>1, <1>3

LEMMA MaskedDigits ==
  ASSUME NEW v, DigitLanes(v), NEW mask
  PROVE  /\ DigitLanes(Masked(v, mask))
         /\ \A l \in Lane : Masked(v, mask)[l] = IF l \in mask THEN v[l] ELSE 0
<1>1. v = [l \in Lane |-> v[l]] /\ \A l \in Lane : v[l] \in 0 .. B - 1
  BY DEF DigitLanes
<1>2. Masked(v, mask) = [l \in Lane |-> IF l \in mask THEN v[l] ELSE 0]
  <2>1. DOMAIN v = Lane
    BY <1>1
  <2> QED BY <2>1 DEF Masked
<1>3. 0 \in 0 .. B - 1
  BY Parameters
<1> QED BY <1>1, <1>2, <1>3 DEF DigitLanes

LEMMA MaskedPart ==
  ASSUME NEW v, DigitLanes(v), NEW t \in 0 .. L, NEW mask, \A l \in Lane : l < t => l \in mask
  PROVE  \E q \in Int : Value(v) - Value(Masked(v, mask)) = Power(B, t) * q
<1> DEFINE m == Masked(v, mask)
<1>1. DigitLanes(m) /\ \A l \in Lane : l < t => m[l] = v[l]
  BY MaskedDigits
<1> HIDE DEF m
<1>2. (\A l \in 0 .. L - 1 : v[l] \in Int) /\ (\A l \in 0 .. L - 1 : m[l] \in Int)
  <2>1. \A x \in DOMAIN [l \in Lane |-> l] : v[x] \in 0 .. B - 1 /\ m[x] \in 0 .. B - 1
    BY <1>1 DEF DigitLanes
  <2> QED BY <2>1, Parameters
<1>3. Value(v) = Number(v, L, B) /\ Value(m) = Number(m, L, B)
  BY <1>1, ValueOfDigits
<1>4. PICK q \in Int : Number(v, L, B) = Number(v, t, B) + Power(B, t) * q
  BY <1>2, Sizes, NumberAbove
<1>5. PICK p \in Int : Number(m, L, B) = Number(m, t, B) + Power(B, t) * p
  BY <1>2, Sizes, NumberAbove
<1>6. t \in Nat /\ \A l \in 0 .. t - 1 : v[l] \in Int /\ v[l] = m[l]
  <2>1. \A l \in 0 .. t - 1 : l \in Lane /\ l \in 0 .. L - 1 /\ l < t
    BY Parameters
  <2> QED BY <1>1, <1>2, <2>1
<1>7. Number(v, t, B) = Number(m, t, B)
  BY <1>6, Sizes, NumberOfSame
<1>8. Number(v, t, B) \in Int /\ Power(B, t) \in Nat
  <2>1. \A l \in 0 .. t - 1 : v[l] \in Int
    BY <1>6
  <2>2. t \in 0 .. t
    OBVIOUS
  <2>3. Number(v, t, B) \in Int
    BY <1>6, <2>1, <2>2, Sizes, NumberSteps
  <2> QED BY <1>6, <2>3, Sizes, PowerPositive
<1> DEFINE w == Power(B, t)
<1>9. w * (q - p) = w * q - w * p /\ w * q \in Int /\ w * p \in Int /\ q - p \in Int
  BY <1>8
<1>10. Value(v) - Value(m) = w * (q - p)
  BY <1>3, <1>4, <1>5, <1>7, <1>8, <1>9
<1> QED BY <1>9, <1>10 DEF m

-----------------------------------------------------------------------------
(* What a turn stores *)

Stored(v) ==
  (IF StoresBelow THEN Power(B, (i - 1) * L) * Value(Halved(prev, v)) ELSE 0)
    + (IF StoresHere THEN Power(B, i * L) * Value(Masked(Here(v), StoreMask)) ELSE 0)

(* Words at hand when a vector is resolved, as numbers: the power of the    *)
(* vector and of the next one, what the chain brings and takes away.        *)
Turning(w, pl, x, y, e, f) ==
  LET r == Resolved(lanes)
  IN  /\ w = Power(B, i * L) /\ pl = Power(B, L) /\ w \in Nat /\ pl \in Nat
      /\ Power(B, (i + 1) * L) = w * pl /\ w * pl \in Nat
      /\ x = LaneNumber(lanes) /\ y = Value(r.vec) /\ e = ChainValue(chain) /\ f = ChainValue(r.chain)
      /\ x \in Int /\ y \in Int /\ e \in Int /\ f \in Int
      /\ y + pl * f = x + e /\ pl * f \in Int
      /\ debt = Behind + w * (e + x)
      /\ w * (e + x) = w * y + (w * pl) * f /\ w * y \in Int /\ (w * pl) * f \in Int

LEMMA TurningRight ==
  ASSUME IInv, phase = "resolve"
  PROVE  \E w, pl, x, y, e, f : Turning(w, pl, x, y, e, f)
<1> DEFINE r == Resolved(lanes)
           w == Power(B, i * L)  pl == Power(B, L)  x == LaneNumber(lanes)  y == Value(r.vec)
           e == ChainValue(chain)  f == ChainValue(r.chain)  b == Behind
<1>1. Region /\ Turn /\ ChainFits(chain) /\ WordLanes(lanes) /\ WordLanes(prev) /\ i < Count
  BY DEF IInv, Shape, Turn, WholeVectors
<1>2. /\ WordLanes(r.vec) /\ ChainFits(r.chain) /\ y + pl * f = x + e
  BY <1>1, ResolvedRight
<1>3. debt = b + w * (e + x)
  BY <1>1 DEF IInv, Balance
<1>4. x \in Int
  BY <1>1, ValueInt DEF LaneNumber
<1>5. y \in Int
  BY <1>2, ValueInt
<1>6. e \in Int /\ f \in Int
  BY <1>1, <1>2, ChainInt
<1>7. i * L \in Nat /\ (i + 1) * L = i * L + L
  BY <1>1, TurnFacts
<1>8. w \in Nat /\ pl \in Nat
  BY <1>7, Sizes, PowerPositive
<1>9. Power(B, (i + 1) * L) = w * pl
  <2>1. Power(B, i * L + L) = w * pl
    BY <1>7, Sizes, PowerSum
  <2> QED BY <1>7, <2>1
<1> HIDE DEF r, w, pl, x, y, e, f, b
<1>10. w * (e + x) = w * y + (w * pl) * f /\ w * y \in Int /\ (w * pl) * f \in Int /\ pl * f \in Int
       /\ w * pl \in Nat
  <2>1. w * (y + pl * f) = w * y + (w * pl) * f /\ w * y \in Int /\ (w * pl) * f \in Int /\ pl * f \in Int
        /\ w * pl \in Nat
    BY <1>5, <1>6, <1>8
  <2>2. w * (e + x) = w * (y + pl * f)
    BY <1>2, <1>4, <1>5, <1>6
  <2> QED BY <2>1, <2>2
<1>11. Turning(w, pl, x, y, e, f)
  BY <1>2, <1>3, <1>4, <1>5, <1>6, <1>8, <1>9, <1>10 DEF Turning, r, w, pl, x, y, e, f, b
<1> QED BY <1>11

(* A whole vector: what is left is what the chain took. *)
LEMMA PlainTurn ==
  ASSUME IInv, phase = "resolve", ~kernel.half, ~Last \/ kernel.stores = "vec"
  PROVE  debt - Stored(Resolved(lanes).vec) = Power(B, (i + 1) * L) * ChainValue(Resolved(lanes).chain)
<1> DEFINE v == Resolved(lanes).vec
<1>1. Region /\ Turn /\ ChainFits(chain) /\ WordLanes(lanes)
  BY DEF IInv, Shape, Turn, WholeVectors
<1>2. WordLanes(v)
  BY <1>1, ResolvedRight
<1>3. StoreMask = Lane
  <2>1. CASE kernel.stores = "vec"
    BY <2>1 DEF StoreMask
  <2>2. CASE ~Last /\ kernel.stores # "vec"
    <3>1. kernel.stores = "tail" \/ kernel.stores = "n+1"
      BY <1>1, <2>2 DEF Region, KernelShape
    <3>2. CASE kernel.stores = "tail"
      BY <2>2, <3>2 DEF StoreMask
    <3>3. CASE kernel.stores = "n+1"
      <4>1. (i + 1) * L <= n + 1 /\ n + 1 \in Nat
        <5> DEFINE c == (Count - 1) * L  d == (i + 1) * L
        <5>1. n \in Nat /\ c \in Nat /\ d <= c /\ c <= n /\ d \in Int
          BY <1>1, <2>2, <3>3, Turns, TurnFacts, Sizes DEF Region
        <5> HIDE DEF c, d
        <5>2. d <= n + 1 /\ n + 1 \in Nat
          BY <5>1
        <5> QED BY <5>2 DEF d
      <4>2. Clip(n + 1) = Lane
        BY <1>1, <4>1, ClipWhole
      <4> QED BY <3>3, <4>2 DEF StoreMask
    <3> QED BY <3>1, <3>2, <3>3
  <2> QED BY <2>1, <2>2
<1>4. Masked(v, Lane) = v
  BY <1>2, MaskedWhole
<1>5. Stored(v) = 0 + Power(B, i * L) * Value(v)
  BY <1>3, <1>4 DEF Stored, StoresBelow, StoresHere, Here
<1>6. PICK w, pl, x, y, e, f : Turning(w, pl, x, y, e, f)
  BY TurningRight
<1>7. Behind = 0
  BY DEF Behind
<1> QED BY <1>5, <1>6, <1>7 DEF Turning

(* The last vector of a region stored under a mask: modulo the region. *)
LEMMA TailTurn ==
  ASSUME IInv, phase = "resolve", Last, kernel.stores = "tail"
  PROVE  LET d == debt - Stored(Resolved(lanes).vec)
         IN  d \in Int /\ IF kernel.chain = "none" THEN d = 0 ELSE d % Power(B, n) = 0
<1> DEFINE r == Resolved(lanes)  v == r.vec  d == debt - Stored(v)  a == i * L  t == n - i * L
           m == Masked(v, StoreMask)
<1>1. Region /\ Turn /\ ChainFits(chain) /\ WordLanes(lanes) /\ kernel.stores # "n+1" /\ kernel.half \in BOOLEAN
      /\ kernel.chain \in {"pos", "neg", "none"} /\ kernel.chain # "pos" /\ kernel.half = FALSE
  <2>1. Region /\ Turn /\ ChainFits(chain) /\ WordLanes(lanes)
    BY DEF IInv, Shape, Turn, WholeVectors
  <2>2. KernelShape(kernel)
    BY <2>1 DEF Region
  <2>3. kernel.half \in BOOLEAN /\ (kernel.half => kernel.stores = "vec")
    BY <2>2 DEF KernelShape
  <2>4. kernel.chain \in {"pos", "neg", "none"} /\ kernel.chain # "pos"
    BY <2>2 DEF KernelShape
  <2> QED BY <2>1, <2>3, <2>4
<1>2. WordLanes(v) /\ (kernel.chain # "none" => DigitLanes(v))
  BY <1>1, ResolvedRight
<1>3. StoreMask = Clip(n)
  <2>1. Clip(n) = TailMask(n)
    BY <1>1, TailMaskRight
  <2> QED BY <2>1 DEF StoreMask
<1>4. a \in Nat /\ n \in Nat /\ t \in 1 .. L /\ (i + 1) * L = a + L /\ n = a + t
  <2> DEFINE c == (Count - 1) * L
  <2>1. /\ a \in Nat /\ n \in Nat /\ a = c /\ c < n /\ n <= Count * L /\ Count * L = c + L
        /\ (i + 1) * L = a + L
    BY <1>1, Turns, TurnFacts DEF Region
  <2> HIDE DEF c, a
  <2>2. t = n - a
    BY DEF a
  <2> HIDE DEF t
  <2> QED BY <2>1, <2>2, Sizes
<1>5. Clip(n) = {l \in Lane : l < t}
  BY DEF Clip
<1>6. Stored(v) = 0 + Power(B, a) * Value(m)
  BY <1>1, <1>2 DEF Stored, StoresBelow, StoresHere, Here
<1>7. PICK w, pl, x, y, e, f : Turning(w, pl, x, y, e, f)
  BY TurningRight
<1>8. Behind = 0
  BY <1>1 DEF Behind
<1>9. w = Power(B, a) /\ y = Value(v)
  BY <1>7 DEF Turning
<1> HIDE DEF a, t
<1>10. CASE kernel.chain = "none"
  <2>1. v = lanes /\ r.chain = NoCarry
    BY <1>10 DEF Resolved
  <2>2. ASSUME NEW l \in Lane PROVE l \notin StoreMask => v[l] = 0
    <3>1. l \notin StoreMask => l >= t
      BY <1>3, <1>4, <1>5, Parameters
    <3>2. l >= t => lanes[l] = 0
      BY DEF IInv, WholeVectors, t
    <3> QED BY <2>1, <3>1, <3>2
  <2>3. m = v
    <3>1. v = [l \in Lane |-> v[l]] /\ DOMAIN v = Lane
      BY <1>2 DEF WordLanes
    <3>2. m = [l \in Lane |-> IF l \in StoreMask THEN v[l] ELSE 0]
      BY <3>1 DEF Masked
    <3>3. [l \in Lane |-> IF l \in StoreMask THEN v[l] ELSE 0] = [l \in Lane |-> v[l]]
      BY <2>2
    <3> QED BY <3>1, <3>2, <3>3
  <2>4. f = 0
    BY <1>7, <2>1 DEF Turning, ChainValue, NoCarry
  <2> HIDE DEF v, m
  <2>5. w * y \in Int /\ (w * pl) * 0 = 0 /\ debt = 0 + (w * y + (w * pl) * f)
    BY <1>7, <1>8 DEF Turning
  <2>6. debt - Stored(v) = 0
    BY <1>6, <1>9, <2>3, <2>4, <2>5
  <2> QED BY <1>10, <2>6 DEF v
<1>11. CASE kernel.chain # "none"
  <2>1. DigitLanes(v)
    BY <1>2, <1>11
  <2>2. t \in 0 .. L /\ \A l \in Lane : l < t => l \in StoreMask
    BY <1>3, <1>4, <1>5, Sizes
  <2>3. PICK q \in Int : Value(v) - Value(m) = Power(B, t) * q
    BY <2>1, <2>2, MaskedPart
  <2>4. DigitLanes(m)
    BY <2>1, MaskedDigits
  <2>5. Value(m) \in Int
    BY <2>4, ValueOfDigits, ValueInt
  <2> DEFINE z == Value(m)  pt == Power(B, t)  s == Power(B, L - t)  pn == Power(B, n)
  <2>6. pt \in Nat /\ s \in Nat /\ pn \in Nat /\ pn > 0 /\ pn = w * pt /\ pl = pt * s /\ w \in Nat
    <3>1. t \in Nat /\ L - t \in Nat /\ t + (L - t) = L /\ a \in Nat /\ n \in Nat /\ n = a + t
      BY <1>4, Sizes
    <3>2. Power(B, a + t) = Power(B, a) * Power(B, t)
      BY <3>1, Sizes, PowerSum
    <3> DEFINE k == L - t
    <3>3. k \in Nat /\ t + k = L
      BY <3>1
    <3> HIDE DEF k
    <3>4. Power(B, t + k) = Power(B, t) * Power(B, k)
      BY <3>1, <3>3, Sizes, PowerSum
    <3>5. Power(B, L) = pt * Power(B, k)
      BY <3>3, <3>4
    <3>6. pl = Power(B, L) /\ w \in Nat
      BY <1>7 DEF Turning
    <3>7. pt \in Nat /\ Power(B, k) \in Nat /\ pn \in Nat /\ pn > 0
      BY <3>1, <3>3, Sizes, PowerPositive
    <3> QED BY <1>9, <3>1, <3>2, <3>5, <3>6, <3>7 DEF k
  <2>7. /\ debt = 0 + (w * y + (w * pl) * f) /\ f \in Int /\ y \in Int /\ w * y \in Int /\ (w * pl) * f \in Int
    BY <1>7, <1>8 DEF Turning
  <2>8. d = (w * y + (w * pl) * f) - w * z
    <3>1. Stored(v) = 0 + w * z /\ w * z \in Int
      BY <1>6, <1>9, <2>5, <2>6
    <3> QED BY <2>7, <3>1
  <2>9. y - z = pt * q
    BY <1>9, <2>3
  <2>10. z \in Int
    BY <2>5
  <2> HIDE DEF d, v, m, z, pt, s, pn
  <2>11. d = w * (y - z) + (w * pl) * f
    <3>1. w * (y - z) = w * y - w * z /\ w * z \in Int
      BY <2>6, <2>7, <2>10
    <3> QED BY <2>7, <2>8, <3>1
  <2>12. w * (pt * q) = pn * q /\ (w * pl) * f = pn * (s * f) /\ pn * (q + s * f) = pn * q + pn * (s * f)
         /\ q + s * f \in Int /\ pn * q \in Int /\ pn * (s * f) \in Int
    <3>1. w * (pt * q) = (w * pt) * q /\ (w * (pt * s)) * f = (w * pt) * (s * f) /\ s * f \in Int
      BY <2>6, <2>7
    <3>2. pn * (q + s * f) = pn * q + pn * (s * f) /\ pn * q \in Int /\ pn * (s * f) \in Int
      BY <2>6, <3>1
    <3> QED BY <2>6, <3>1, <3>2
  <2>13. d = pn * (q + s * f) + 0
    BY <2>9, <2>11, <2>12
  <2> DEFINE k == q + s * f
  <2>14. k \in Int /\ d = pn * k + 0 /\ d \in Int /\ 0 \in 0 .. pn - 1
    BY <2>6, <2>12, <2>13
  <2> HIDE DEF k
  <2>15. d % pn = 0
    BY <2>6, <2>14, Quotient
  <2> QED BY <1>11, <2>14, <2>15 DEF d, v, pn
<1> QED BY <1>10, <1>11

(* eval2's last vector: its n + 1 limbs hold the number, no carry is left. *)
LEMMA TopTurn ==
  ASSUME IInv, phase = "resolve", Last, kernel.stores = "n+1"
  PROVE  debt - Stored(Resolved(lanes).vec) = 0
<1> DEFINE r == Resolved(lanes)  v == r.vec  a == i * L  p == n - i * L  m == Masked(v, StoreMask)
<1>1. Region /\ Turn /\ ChainFits(chain) /\ WordLanes(lanes) /\ kernel.chain = "pos" /\ kernel.half = FALSE
  <2>1. Region /\ Turn /\ ChainFits(chain) /\ WordLanes(lanes)
    BY DEF IInv, Shape, Turn, WholeVectors
  <2>2. KernelShape(kernel)
    BY <2>1 DEF Region
  <2>3. kernel.half \in BOOLEAN /\ (kernel.half => kernel.stores = "vec") /\ kernel.chain = "pos"
    BY <2>2 DEF KernelShape
  <2> QED BY <2>1, <2>3
<1>2. DigitLanes(v) /\ WordLanes(v)
  BY <1>1, ResolvedRight
<1>3. StoreMask = Clip(n + 1)
  BY DEF StoreMask
<1>4. a \in Nat /\ n \in Nat /\ p \in Lane /\ n = a + p
  <2> DEFINE c == (Count - 1) * L
  <2>1. /\ a \in Nat /\ n \in Nat /\ a = c /\ c <= n /\ n < Count * L /\ Count * L = c + L
    BY <1>1, Turns, TurnFacts DEF Region
  <2> HIDE DEF c, a
  <2>2. p = n - a
    BY DEF a
  <2> HIDE DEF p
  <2> QED BY <2>1, <2>2, Parameters
<1>5. Clip(n + 1) = {l \in Lane : l < (n + 1) - a}
  BY DEF Clip
<1>6. Resolved(lanes) = Canonize(lanes, chain) /\ PosChain(chain)
  BY <1>1 DEF Resolved, ChainFits
<1>7. \A l \in Lane : l >= p => lanes[l] = 0
  BY DEF IInv, WholeVectors
<1>8. /\ \A l \in Lane : l > p => v[l] = 0
      /\ ChainValue(r.chain) = 0
  <2> HIDE DEF p
  <2> QED BY <1>1, <1>4, <1>6, <1>7, CanonizeSettles
<1>9. Stored(v) = 0 + Power(B, a) * Value(m)
  BY <1>1, <1>2 DEF Stored, StoresBelow, StoresHere, Here
<1>10. PICK w, pl, x, y, e, f : Turning(w, pl, x, y, e, f)
  BY TurningRight
<1>11. Behind = 0
  BY <1>1 DEF Behind
<1> HIDE DEF a, p
<1>12. m = v
  <2>1. v = [l \in Lane |-> v[l]] /\ DOMAIN v = Lane
    BY <1>2 DEF WordLanes
  <2>2. m = [l \in Lane |-> IF l \in StoreMask THEN v[l] ELSE 0]
    BY <2>1 DEF Masked
  <2>3. ASSUME NEW l \in Lane PROVE l \notin StoreMask => v[l] = 0
    <3>1. l \in Int /\ p \in Int
      BY <1>4, Parameters
    <3>2. l \notin StoreMask => l > p
      BY <1>3, <1>4, <1>5, <3>1
    <3> QED BY <1>8, <3>2
  <2>4. [l \in Lane |-> IF l \in StoreMask THEN v[l] ELSE 0] = [l \in Lane |-> v[l]]
    BY <2>3
  <2> QED BY <2>1, <2>2, <2>4
<1>13. /\ w = Power(B, a) /\ y = Value(v) /\ f = 0 /\ w * y \in Int /\ debt = 0 + (w * y + (w * pl) * f)
       /\ w * pl \in Nat
  BY <1>8, <1>10, <1>11 DEF Turning, a
<1> HIDE DEF v, m
<1>14. debt - Stored(v) = 0
  BY <1>9, <1>12, <1>13
<1> QED BY <1>14 DEF v

(* A halving kernel: twice what it stores, and what it now holds back.      *)
LEMMA HalfTurn ==
  ASSUME IInv, phase = "resolve", kernel.half, i = 0 => Resolved(lanes).vec[0] % 2 = 0
  PROVE  LET v == Resolved(lanes).vec
         IN  debt - 2 * Stored(v)
               = (IF Last THEN 0 ELSE Power(B, i * L) * (Value(v) - (v[0] % 2)))
                   + Power(B, (i + 1) * L) * ChainValue(Resolved(lanes).chain)
<1> DEFINE r == Resolved(lanes)  v == r.vec  below == Halved(prev, v)  here == Halved(v, Zero)
           u == v[0] % 2  b == Value(below)  h == Value(here)  y == Value(v)  w == Power(B, i * L)
           w1 == Power(B, (i - 1) * L)  pl == Power(B, L)  o == Value(prev)  s == prev[0] % 2
           f == ChainValue(r.chain)
<1>1. Region /\ Turn /\ ChainFits(chain) /\ WordLanes(lanes) /\ WordLanes(prev)
      /\ (kernel.chain # "none" => DigitLanes(prev)) /\ kernel.stores = "vec" /\ i \in Nat
  <2>1. Region /\ Turn /\ ChainFits(chain) /\ WordLanes(lanes) /\ WordLanes(prev)
        /\ (kernel.chain # "none" => DigitLanes(prev)) /\ i \in Nat
    BY DEF IInv, Shape, Turn, WholeVectors
  <2>2. KernelShape(kernel)
    BY <2>1 DEF Region
  <2>3. kernel.half => kernel.stores = "vec"
    BY <2>2 DEF KernelShape
  <2> QED BY <2>1, <2>3
<1>2. WordLanes(v) /\ (kernel.chain # "none" => DigitLanes(v))
  BY <1>1, ResolvedRight
<1>3. HalfOf(below, prev, v)
  BY <1>1, <1>2, HalvedRight
<1>4. HalfOf(here, v, Zero) /\ WordLanes(here)
  <2>1. HalfOf(here, v, Zero)
    BY <1>2, ZeroLanes, HalvedRight
  <2> QED BY <2>1 DEF HalfOf
<1>5. Masked(here, StoreMask) = here
  <2>1. StoreMask = Lane
    BY <1>1 DEF StoreMask
  <2> QED BY <1>4, <2>1, MaskedWhole
<1>6. Stored(v) = (IF i > 0 THEN w1 * b ELSE 0) + (IF Last THEN w * h ELSE 0)
  BY <1>5 DEF Stored, StoresBelow, StoresHere, Here
<1>7. /\ b \in Int /\ o \in Int /\ s \in {0, 1} /\ u \in {0, 1}
      /\ 2 * b = o - s + pl * u
  BY <1>3 DEF HalfOf
<1>8. h \in Int /\ y \in Int /\ 2 * h = y - u + pl * 0
  BY <1>4, ZeroLanes DEF HalfOf
<1>9. /\ w \in Nat /\ pl \in Nat /\ f \in Int /\ Power(B, (i + 1) * L) = w * pl /\ w * pl \in Nat
      /\ debt = Behind + (w * y + (w * pl) * f) /\ (w * pl) * f \in Int
  <2>1. PICK ww, pp, x, yy, e, ff : Turning(ww, pp, x, yy, e, ff)
    BY TurningRight
  <2> QED BY <2>1 DEF Turning
<1>10. Behind = IF 0 < i THEN w1 * (o - s) ELSE 0
  BY DEF Behind
<1>11. i = 0 => u = 0
  OBVIOUS
<1>12. i > 0 => w1 \in Nat /\ w = w1 * pl
  <2> SUFFICES ASSUME i > 0 PROVE w1 \in Nat /\ w = w1 * pl
    OBVIOUS
  <2>1. (i - 1) * L \in Nat /\ i * L = (i - 1) * L + L
    BY <1>1, Sizes
  <2> DEFINE k == (i - 1) * L
  <2> HIDE DEF k
  <2>2. k \in Nat /\ i * L = k + L
    BY <2>1 DEF k
  <2>3. Power(B, k + L) = Power(B, k) * Power(B, L) /\ Power(B, k) \in Nat
    BY <2>2, Sizes, PowerSum, PowerPositive
  <2> QED BY <2>2, <2>3 DEF k
<1> DEFINE d == debt - 2 * Stored(v)  z == Stored(v)
<1>13. d = debt - 2 * z
  OBVIOUS
<1> HIDE DEF v, r, below, here, u, b, h, y, w, w1, pl, o, s, f, d
<1>14. /\ w * (y - u) = w * y - w * u /\ w * y \in Int /\ w * u \in Int
       /\ 2 * (w * h) = w * (y - u) /\ w * h \in Int
  <2>1. pl * 0 = 0 /\ w * (2 * h) = 2 * (w * h) /\ w * h \in Int
    BY <1>8, <1>9
  <2>2. 2 * h = y - u
    BY <1>7, <1>8, <2>1
  <2>3. w * (y - u) = w * y - w * u /\ w * y \in Int /\ w * u \in Int
    BY <1>7, <1>8, <1>9
  <2> QED BY <2>1, <2>2, <2>3
<1>15. CASE i = 0
  <2>1. z = 0 + (IF Last THEN w * h ELSE 0) /\ u = 0 /\ Behind = 0
    <3>1. ~(0 < i) /\ ~(i > 0)
      BY <1>15
    <3> QED BY <1>6, <1>10, <1>11, <1>15, <3>1
  <2>2. w * u = 0
    BY <1>9, <2>1
  <2> HIDE DEF z
  <2>3. d = (IF Last THEN 0 ELSE w * (y - u)) + (w * pl) * f
    BY <1>9, <1>13, <1>14, <2>1, <2>2
  <2> QED BY <1>9, <2>3 DEF d, v, r, w, y, u, f
<1>16. CASE i > 0
  <2>1. z = w1 * b + (IF Last THEN w * h ELSE 0) /\ Behind = w1 * (o - s)
    BY <1>6, <1>10, <1>16
  <2>2. w1 \in Nat /\ w = w1 * pl
    BY <1>12, <1>16
  <2>3. w1 * (o - s) \in Int /\ w1 * b \in Int /\ 2 * (w1 * b) = w1 * (o - s) + w * u
    <3>1. w1 * (2 * b) = 2 * (w1 * b) /\ w1 * b \in Int /\ w1 * (o - s) \in Int
      BY <1>7, <2>2
    <3>2. w1 * ((o - s) + pl * u) = w1 * (o - s) + (w1 * pl) * u
      BY <1>7, <1>9, <2>2
    <3> QED BY <1>7, <2>2, <3>1, <3>2
  <2> HIDE DEF z
  <2> DEFINE g == w1 * b  c == w1 * (o - s)  t == w * u  k == (w * pl) * f  j == w * y  m == w * h
  <2> HIDE DEF g, c, t, k, j, m
  <2>4. /\ g \in Int /\ c \in Int /\ t \in Int /\ k \in Int /\ j \in Int /\ m \in Int
        /\ 2 * g = c + t /\ 2 * m = j - t /\ w * (y - u) = j - t
        /\ debt = c + (j + k) /\ z = g + (IF Last THEN m ELSE 0)
    BY <1>9, <1>14, <2>1, <2>3 DEF g, c, t, k, j, m
  <2>5. d = (IF Last THEN 0 ELSE j - t) + k
    BY <1>13, <2>4
  <2>6. d = (IF Last THEN 0 ELSE w * (y - u)) + (w * pl) * f
    BY <2>4, <2>5 DEF k
  <2> QED BY <1>9, <2>6 DEF d, v, r, w, y, u, f
<1> QED BY <1>1, <1>15, <1>16

-----------------------------------------------------------------------------
(* The invariant holds at every turn *)

LEMMA InitInvariant ==
  ASSUME KernelParameters, Init
  PROVE  IInv
<1>1. kernel \in Kernels /\ n \in Nat /\ n > 0 /\ len \in [1 .. Arity -> 0 .. n]
      /\ i = 0 /\ phase = "load" /\ prev = Zero /\ digits = TRUE
  BY DEF Init, KernelParameters
<1>2. Region
  <2>1. \A k \in 1 .. Arity : kernel.reads[k] \notin {"short", "top"} => len[k] = n
    BY DEF Init
  <2> QED BY <1>1, <2>1, KernelFacts DEF Region
<1>3. Shape
  <2>1. Count \in Nat /\ Count > 0
    BY <1>2, Turns
  <2> QED BY <1>1, <1>2, <2>1 DEF Shape
<1>4. PICK c \in (IF kernel.carry THEN CarriesIn ELSE {0}) :
        /\ kernel.chain = "pos" => c >= 0
        /\ chain = IF kernel.chain = "pos" THEN [NoCarry EXCEPT !.hi = c] ELSE CarryIn(Word(c))
        /\ debt = c
  BY DEF Init
<1>5. c \in -H .. H - 1
  <2>1. 0 \in -H .. H - 1 /\ CarriesIn \subseteq -H .. H - 1
    BY Parameters DEF KernelParameters
  <2> QED BY <1>4, <2>1
<1>6. kernel.chain = "none" => c = 0
  <2>1. kernel.chain = "none" => ~kernel.carry
    BY <1>2 DEF Region, KernelShape
  <2> QED BY <1>4, <2>1
<1>7. ChainFits(chain) /\ ChainValue(chain) = c
  <2>1. CASE kernel.chain = "pos"
    <3>1. chain = [hi |-> c, bw |-> 0, cin |-> 0, bin |-> 0] /\ c \in 0 .. H - 1
      BY <1>4, <1>5, <2>1, Parameters DEF NoCarry
    <3>2. PosChain(chain) /\ ChainValue(chain) = c
      BY <3>1, Parameters DEF PosChain, ChainValue
    <3> QED BY <2>1, <3>2 DEF ChainFits
  <2>2. CASE kernel.chain # "pos"
    <3>1. chain = CarryIn(Word(c))
      BY <1>4, <2>2
    <3>2. NegChain(chain) /\ ChainValue(chain) = c
      BY <1>5, <3>1, CarryResumes
    <3> QED BY <1>5, <1>6, <2>2, <3>2 DEF ChainFits, SmallChain
  <2> QED BY <2>1, <2>2
<1>8. WholeVectors
  BY <1>1, ZeroLanes DEF WholeVectors
<1>9. Balance
  <2>1. Count # 0 /\ 0 * L = 0 /\ Power(B, 0) = 1 /\ c \in Int
    BY <1>2, <1>5, Turns, Sizes, PowerSteps, Parameters
  <2>2. Behind = 0
    BY <1>1 DEF Behind
  <2>3. debt = Behind + Power(B, i * L) * ChainValue(chain) /\ debt \in Int
    BY <1>1, <1>4, <1>7, <2>1, <2>2
  <2> QED BY <1>1, <2>1, <2>3 DEF Balance
<1> QED BY <1>3, <1>7, <1>8, <1>9 DEF IInv

LEMMA BehindInt ==
  ASSUME IInv
  PROVE  Behind \in Int
<1>1. WordLanes(prev) /\ i \in Nat
  BY DEF IInv, WholeVectors, Shape
<1>2. Value(prev) \in Int /\ prev[0] % 2 \in Int
  <2>1. prev[0] \in Int
    BY <1>1, Parameters DEF WordLanes, IsWord
  <2> QED BY <1>1, <2>1, ValueInt
<1>3. CASE kernel.half /\ 0 < i
  <2>1. (i - 1) * L \in Nat
    BY <1>1, <1>3, Sizes
  <2>2. Power(B, (i - 1) * L) \in Nat
    BY <2>1, Sizes, PowerPositive
  <2> DEFINE w == Power(B, (i - 1) * L)  x == Value(prev)  y == prev[0] % 2
  <2>3. Behind = w * (x - y) /\ w \in Nat /\ x \in Int /\ y \in Int
    BY <1>2, <1>3, <2>2 DEF Behind
  <2> HIDE DEF w, x, y
  <2> QED BY <2>3
<1>4. CASE ~(kernel.half /\ 0 < i)
  BY <1>4 DEF Behind
<1> QED BY <1>3, <1>4

LEMMA LoadInvariant ==
  ASSUME KernelParameters, IInv, Load
  PROVE  IInv'
<1>1. phase = "load" /\ i < Count /\ phase' = "resolve"
      /\ kernel' = kernel /\ n' = n /\ len' = len /\ i' = i /\ chain' = chain /\ prev' = prev /\ digits' = digits
  BY DEF Load
<1>2. Region /\ Turn /\ i \in 0 .. Count /\ ChainFits(chain)
  BY <1>1 DEF IInv, Shape, Turn
<1>3. PICK xs \in [1 .. Arity -> [Lane -> Words[Arity]]] :
        /\ \A l \in Lane : InBudget(TrueLanes(xs)[l])
        /\ lanes' = Combined(xs)
        /\ debt' = debt + Power(B, i * L) * Number(TrueLanes(xs), L, B)
  BY DEF Load
<1>4. /\ WordLanes(Combined(xs))
      /\ LaneNumber(Combined(xs)) = Number(TrueLanes(xs), L, B)
      /\ Number(TrueLanes(xs), L, B) \in Int
      /\ kernel.stores # "vec" => \A l \in Lane : l >= n - i * L => Combined(xs)[l] = 0
  BY <1>2, <1>3, CombinedRight
<1>5. Shape'
  BY <1>1, <1>2 DEF Shape, Region, Count, Arity
<1>6. ChainFits(chain)'
  BY <1>1, <1>2 DEF ChainFits
<1>7. WholeVectors'
  <2>1. WordLanes(prev) /\ (kernel.chain # "none" => DigitLanes(prev) /\ digits)
    BY DEF IInv, WholeVectors
  <2>2. WordLanes(lanes') /\ (kernel.stores # "vec" => \A l \in Lane : l >= n - i * L => lanes'[l] = 0)
    BY <1>3, <1>4
  <2> QED BY <1>1, <2>1, <2>2 DEF WholeVectors
<1>8. Balance'
  <2> DEFINE w == Power(B, i * L)  e == ChainValue(chain)  x == Number(TrueLanes(xs), L, B)  b == Behind
  <2>1. w \in Nat /\ e \in Int /\ x \in Int /\ b \in Int
    <3>1. i * L \in Nat
      BY <1>2, TurnFacts
    <3> QED BY <1>2, <1>4, <3>1, Sizes, PowerPositive, ChainInt, BehindInt
  <2>2. debt = b + w * e /\ debt' = debt + w * x
    BY <1>1, <1>3 DEF IInv, Balance
  <2>3. Behind' = b /\ Count' = Count
    BY <1>1 DEF Behind, Count
  <2>4. LaneNumber(lanes)' = x
    <3>1. LaneNumber(lanes)' = LaneNumber(Combined(xs))
      BY <1>1, <1>3 DEF LaneNumber
    <3> QED BY <1>4, <3>1
  <2>5. Power(B, i * L)' = w /\ ChainValue(chain)' = e
    BY <1>1
  <2> HIDE DEF w, e, x, b
  <2>6. w * (e + x) = w * e + w * x /\ w * e \in Int /\ w * x \in Int
    BY <2>1
  <2>7. debt' = b + w * (e + x) /\ debt' \in Int
    BY <2>1, <2>2, <2>6
  <2>8. i' # Count'
    BY <1>1, <1>2, <2>3, Turns DEF Turn
  <2> QED BY <1>1, <2>3, <2>4, <2>5, <2>7, <2>8 DEF Balance
<1> QED BY <1>5, <1>6, <1>7, <1>8 DEF IInv

LEMMA ResolveInvariant ==
  ASSUME KernelParameters, IInv, Resolve
  PROVE  IInv'
<1> DEFINE r == Resolved(lanes)  v == r.vec
<1>1. /\ phase = "resolve" /\ i' = i + 1 /\ phase' = "load" /\ kernel' = kernel /\ n' = n /\ len' = len
      /\ chain' = r.chain /\ prev' = IF kernel.half /\ ~Last THEN v ELSE Zero
      /\ kernel.half /\ i = 0 => v[0] % 2 = 0
      /\ debt' = debt - (IF kernel.half THEN 2 * Stored(v) ELSE Stored(v))
  BY DEF Resolve, Stored
<1>2. digits' = (/\ digits
                 /\ StoresBelow => \A l \in Lane : Halved(prev, v)[l] < B
                 /\ StoresHere => \A l \in Lane : Masked(Here(v), StoreMask)[l] < B)
  BY DEF Resolve
<1>3. Region /\ Turn /\ ChainFits(chain) /\ WordLanes(lanes) /\ WordLanes(prev) /\ i \in Nat /\ i < Count
      /\ (kernel.chain # "none" => DigitLanes(prev) /\ digits)
  BY <1>1 DEF IInv, Shape, Turn, WholeVectors
<1>4. /\ WordLanes(v) /\ (kernel.chain # "none" => DigitLanes(v)) /\ ChainFits(r.chain)
  BY <1>3, ResolvedRight
<1>5. Count \in Nat /\ Count' = Count /\ i' = i + 1 /\ (Last <=> i + 1 = Count)
  BY <1>1, <1>3, Turns, TurnFacts DEF Count
<1>6. Shape'
  BY <1>1, <1>3, <1>5 DEF Shape, Region, Arity
<1>7. ChainFits(chain)'
  BY <1>1, <1>4 DEF ChainFits
<1>8. WholeVectors'
  <2>1. WordLanes(prev') /\ (kernel.chain # "none" => DigitLanes(prev'))
    BY <1>1, <1>4, ZeroLanes
  <2>2. kernel.chain # "none" => digits'
    <3> SUFFICES ASSUME kernel.chain # "none" PROVE digits'
      OBVIOUS
    <3>1. DigitLanes(prev) /\ digits /\ DigitLanes(v)
      BY <1>3, <1>4
    <3>2. DigitLanes(Halved(prev, v)) /\ DigitLanes(Halved(v, Zero))
      BY <1>3, <1>4, <3>1, ZeroLanes, HalvedRight
    <3>3. DigitLanes(Here(v))
      BY <3>1, <3>2 DEF Here
    <3>4. DigitLanes(Masked(Here(v), StoreMask))
      BY <3>3, MaskedDigits
    <3>5. \A f : DigitLanes(f) => \A l \in Lane : f[l] < B
      <4> SUFFICES ASSUME NEW f, DigitLanes(f), NEW l \in Lane PROVE f[l] < B
        OBVIOUS
      <4>1. f[l] \in 0 .. B - 1
        BY DEF DigitLanes
      <4> QED BY <4>1, Parameters
    <3>6. (\A l \in Lane : Halved(prev, v)[l] < B) /\ (\A l \in Lane : Masked(Here(v), StoreMask)[l] < B)
      BY <3>2, <3>4, <3>5
    <3> QED BY <1>2, <3>1, <3>6
  <2> QED BY <1>1, <2>1, <2>2 DEF WholeVectors
<1>9. Balance'
  <2> DEFINE w == Power(B, (i + 1) * L)  f == ChainValue(r.chain)
  <2>1. w \in Nat /\ f \in Int /\ w * f \in Int
    <3>1. (i + 1) * L \in Nat
      BY <1>3, Sizes
    <3>2. w \in Nat /\ f \in Int
      BY <1>3, <1>4, <3>1, Sizes, PowerPositive, ChainInt
    <3> HIDE DEF w, f
    <3> QED BY <3>2
  <2>2. ChainValue(chain)' = f /\ Power(B, i * L)' = w
    BY <1>1
  <2>3. kernel.stores \in {"vec", "tail", "n+1"} /\ kernel.half \in BOOLEAN /\ (kernel.half => kernel.stores = "vec")
    BY <1>3 DEF Region, KernelShape
  <2>4. CASE ~kernel.half /\ (~Last \/ kernel.stores = "vec")
    <3>1. debt' = w * f
      <4>1. debt - Stored(v) = w * f
        BY <1>1, <2>4, PlainTurn
      <4> QED BY <1>1, <2>4, <4>1
    <3>2. Behind' = 0
      BY <1>1, <2>4 DEF Behind
    <3>3. debt' = Behind' + Power(B, i * L)' * ChainValue(chain)' /\ debt' \in Int
      BY <2>1, <2>2, <3>1, <3>2
    <3>4. i' = Count' => Owed'
      <4> SUFFICES ASSUME i' = Count' PROVE Owed'
        OBVIOUS
      <4>1. kernel'.stores = "vec"
        BY <1>1, <1>5, <2>4
      <4>2. debt' = Power(B, i * L)' * ChainValue(chain)'
        BY <2>2, <3>1
      <4> QED BY <4>1, <4>2 DEF Owed
    <3> QED BY <1>1, <3>3, <3>4 DEF Balance
  <2>5. CASE ~kernel.half /\ Last /\ kernel.stores = "tail"
    <3> DEFINE d == debt - Stored(v)
    <3>1. d \in Int /\ IF kernel.chain = "none" THEN d = 0 ELSE d % Power(B, n) = 0
      BY <1>1, <2>5, TailTurn
    <3>2. debt' = d /\ i' = Count'
      BY <1>1, <1>5, <2>5
    <3> HIDE DEF d
    <3>3. Owed'
      BY <1>1, <2>5, <3>1, <3>2 DEF Owed
    <3>4. ~(i' < Count')
      BY <1>5, <3>2
    <3> QED BY <3>1, <3>2, <3>3, <3>4 DEF Balance
  <2>6. CASE ~kernel.half /\ Last /\ kernel.stores = "n+1"
    <3>1. debt' = 0 /\ i' = Count'
      BY <1>1, <1>5, <2>6, TopTurn
    <3>2. Owed'
      BY <1>1, <2>6, <3>1 DEF Owed
    <3>3. ~(i' < Count')
      BY <1>5, <3>1
    <3> QED BY <3>1, <3>2, <3>3 DEF Balance
  <2>7. CASE kernel.half
    <3> DEFINE w0 == Power(B, i * L)  y == Value(v)  u == v[0] % 2
    <3>1. debt' = (IF Last THEN 0 ELSE w0 * (y - u)) + w * f
      <4>1. debt - 2 * Stored(v) = (IF Last THEN 0 ELSE w0 * (y - u)) + w * f
        BY <1>1, <2>7, HalfTurn
      <4> QED BY <1>1, <2>7, <4>1
    <3>2. w0 * (y - u) \in Int
      <4>1. i * L \in Nat /\ v[0] \in Int
        BY <1>3, <1>4, TurnFacts, Parameters DEF WordLanes, IsWord
      <4> HIDE DEF v
      <4>2. w0 \in Nat /\ y \in Int
        BY <1>4, <4>1, Sizes, PowerPositive, ValueInt
      <4>3. u \in Int
        BY <4>1
      <4> HIDE DEF w0, y, u
      <4> QED BY <4>2, <4>3
    <3>3. CASE Last
      <4>1. debt' = w * f /\ i' = Count' /\ debt' \in Int
        BY <1>5, <2>1, <3>1, <3>3
      <4>2. kernel'.stores = "vec" /\ debt' = Power(B, i * L)' * ChainValue(chain)'
        BY <1>1, <2>2, <2>3, <2>7, <4>1
      <4>3. Owed'
        BY <4>2 DEF Owed
      <4>4. ~(i' < Count')
        BY <1>5, <4>1
      <4> QED BY <4>1, <4>3, <4>4 DEF Balance
    <3>4. CASE ~Last
      <4>1. Behind' = w0 * (y - u)
        <5>1. prev' = v /\ kernel'.half /\ 0 < i' /\ i' - 1 = i
          BY <1>1, <1>3, <2>7, <3>4
        <5> HIDE DEF v
        <5> QED BY <5>1 DEF Behind
      <4>2. debt' = Behind' + Power(B, i * L)' * ChainValue(chain)' /\ debt' \in Int
        BY <2>1, <2>2, <3>1, <3>2, <3>4, <4>1
      <4>3. i' # Count'
        BY <1>5, <3>4
      <4> QED BY <1>1, <4>2, <4>3 DEF Balance
    <3> QED BY <3>3, <3>4
  <2> QED BY <2>3, <2>4, <2>5, <2>6, <2>7
<1> QED BY <1>6, <1>7, <1>8, <1>9 DEF IInv

LEMMA Invariant ==
  ASSUME KernelParameters
  PROVE  Spec => []IInv
<1>1. Init => IInv
  BY InitInvariant
<1>2. IInv /\ [Next]_vars => IInv'
  <2> SUFFICES ASSUME IInv, [Next]_vars PROVE IInv'
    OBVIOUS
  <2>1. CASE Load
    BY <2>1, LoadInvariant
  <2>2. CASE Resolve
    BY <2>2, ResolveInvariant
  <2>3. CASE UNCHANGED vars
    BY <2>3 DEF vars, IInv, Shape, Region, Arity, Count, ChainFits, WholeVectors, Balance, Behind, Owed, LaneNumber
  <2> QED BY <2>1, <2>2, <2>3 DEF Next
<1> QED BY <1>1, <1>2, PTL DEF Spec

(* No kernel loses or invents value of the lanes it reads, whatever they     *)
(* are, its region and the carry it is handed: LaneKernels!Accounted.        *)
THEOREM ValueAccounted ==
  ASSUME KernelParameters
  PROVE  Spec => []Accounted
<1>1. IInv => Accounted
  <2> SUFFICES ASSUME IInv PROVE Accounted
    OBVIOUS
  <2>1. Region /\ i \in 0 .. Count /\ Count \in Nat /\ i \in Nat
    <3>1. Region /\ i \in 0 .. Count
      BY DEF IInv, Shape
    <3> QED BY <3>1, Turns
  <2>2. kernel.chain \in {"pos", "neg", "none"} /\ kernel.stores \in {"vec", "tail", "n+1"}
        /\ (kernel.stores = "n+1" => kernel.chain = "pos")
    BY <2>1 DEF Region, KernelShape
  <2>3. kernel.chain # "none" => digits
    BY DEF IInv, WholeVectors
  <2>4. ASSUME phase = "load"
        PROVE  CASE ~Done \/ kernel.stores = "vec" -> debt = Held + Power(B, i * L) * ChainValue(chain)
                 [] Done /\ kernel.stores = "tail" ->
                      IF kernel.chain = "none" THEN debt = 0 ELSE digits /\ debt % Power(B, n) = 0
                 [] OTHER -> digits /\ debt = 0
    <3>1. CASE ~Done
      <4>1. i < Count /\ i # Count
        BY <2>1, <3>1 DEF Done
      <4>2. Held = Behind
        BY <3>1 DEF Held, Behind
      <4>3. debt = Behind + Power(B, i * L) * ChainValue(chain)
        BY <2>4, <4>1 DEF IInv, Balance
      <4>4. debt = Held + Power(B, i * L) * ChainValue(chain)
        BY <4>2, <4>3
      <4> QED BY <3>1, <4>4
    <3>2. CASE Done
      <4>1. Owed
        BY <3>2 DEF Done, IInv, Balance
      <4>2. CASE kernel.stores = "vec"
        <5> DEFINE x == Power(B, i * L) * ChainValue(chain)
        <5>1. debt = x /\ Held = 0 /\ debt \in Int
          BY <3>2, <4>1, <4>2 DEF Owed, Held, IInv, Balance
        <5>2. debt = Held + x
          BY <5>1
        <5> QED BY <4>2, <5>2
      <4>3. CASE kernel.stores = "tail"
        BY <2>3, <3>2, <4>1, <4>3 DEF Owed
      <4>4. CASE kernel.stores = "n+1"
        BY <2>2, <2>3, <3>2, <4>1, <4>4 DEF Owed
      <4> QED BY <2>2, <4>2, <4>3, <4>4
    <3> QED BY <3>1, <3>2
  <2>5. kernel.chain = "neg" => ChainValue(CarryIn(Word(ChainValue(chain)))) = ChainValue(chain)
    <3> SUFFICES ASSUME kernel.chain = "neg"
                 PROVE  ChainValue(CarryIn(Word(ChainValue(chain)))) = ChainValue(chain)
      OBVIOUS
    <3>1. ChainValue(chain) \in -H .. H - 1
      BY DEF IInv, ChainFits, SmallChain
    <3> QED BY <3>1, CarryResumes
  <2> QED BY <2>4, <2>5 DEF Accounted
<1> QED BY <1>1, Invariant, PTL

-----------------------------------------------------------------------------
(* What a kernel writes *)

Room == CASE kernel.stores = "vec" -> Count * L [] kernel.stores = "tail" -> n [] OTHER -> n + 1

(* A halving kernel is one vector behind; the last turn stores two.         *)
Reached ==
  IF i = Count THEN Room
  ELSE IF kernel.half THEN (IF i = 0 THEN 0 ELSE (i - 1) * L) ELSE i * L

FInv == Shape /\ wrote = 0 .. Reached - 1

LEMMA Extended ==
  ASSUME NEW a \in Nat, NEW m \in Nat
  PROVE  (0 .. a - 1) \cup {a + l : l \in 0 .. m - 1} = 0 .. (a + m) - 1
<1>1. ASSUME NEW x \in 0 .. (a + m) - 1 PROVE x \in (0 .. a - 1) \cup {a + l : l \in 0 .. m - 1}
  <2>1. CASE x < a
    BY <2>1
  <2>2. CASE x >= a
    <3>1. x - a \in 0 .. m - 1 /\ x = a + (x - a)
      BY <2>2
    <3> QED BY <3>1
  <2> QED BY <2>1, <2>2
<1>2. ASSUME NEW l \in 0 .. m - 1 PROVE a + l \in 0 .. (a + m) - 1
  OBVIOUS
<1>3. 0 .. a - 1 \subseteq 0 .. (a + m) - 1
  OBVIOUS
<1> QED BY <1>1, <1>2, <1>3

(* How much of a vector a turn's mask lets through. *)
LEMMA StoreMaskRight ==
  ASSUME Region, Turn
  PROVE  \E m \in Nat : /\ StoreMask = 0 .. m - 1
                        /\ m = IF Last THEN Room - i * L ELSE L
                        /\ i * L + m = IF Last THEN Room ELSE (i + 1) * L
                        /\ kernel.stores = "vec" => StoreMask = Lane
<1> DEFINE a == i * L  c == (Count - 1) * L  d == (i + 1) * L  e == Count * L
<1>1. /\ a \in Nat /\ n \in Nat /\ c \in Nat /\ d = a + L /\ e = c + L /\ L \in Nat /\ L > 0
      /\ ~Last => d <= c
      /\ Last => a = c
      /\ kernel.stores # "n+1" => c < n /\ n <= e
      /\ kernel.stores = "n+1" => c <= n /\ n < e
  BY Turns, TurnFacts, Parameters DEF Region
<1>2. kernel.stores \in {"vec", "tail", "n+1"} /\ Lane = 0 .. L - 1
  BY Parameters DEF Region, KernelShape
<1>3. CASE kernel.stores = "vec"
  <2>1. StoreMask = Lane /\ Room = e
    BY <1>3 DEF StoreMask, Room
  <2> HIDE DEF a, c, d, e
  <2>2. StoreMask = 0 .. L - 1 /\ L = (IF Last THEN Room - a ELSE L) /\ a + L = (IF Last THEN Room ELSE d)
    BY <1>1, <1>2, <2>1
  <2> QED BY <1>1, <1>2, <2>1, <2>2 DEF a, d
<1>4. CASE kernel.stores # "vec"
  <2> DEFINE k == IF kernel.stores = "tail" THEN n ELSE n + 1  m == IF Last THEN k - a ELSE L
  <2>1. Room = k /\ k \in Nat
    BY <1>1, <1>2, <1>4 DEF Room
  <2>2. StoreMask = Clip(k)
    <3>1. CASE kernel.stores = "tail"
      <4>1. Clip(n) = StoreMask
        BY <3>1, TailMaskRight DEF StoreMask
      <4> QED BY <3>1, <4>1
    <3>2. CASE kernel.stores = "n+1"
      BY <3>2 DEF StoreMask
    <3> QED BY <1>2, <1>4, <3>1, <3>2
  <2>3. Clip(k) = {l \in Lane : l < k - a}
    BY DEF Clip
  <2> HIDE DEF a, c, d, e
  <2>4. /\ Last => k - a \in 1 .. L
        /\ ~Last => k - a >= L
    <3>1. CASE kernel.stores = "tail"
      <4>1. k = n
        BY <3>1
      <4> QED BY <1>1, <3>1, <4>1
    <3>2. CASE kernel.stores = "n+1"
      <4>1. k = n + 1
        BY <3>2
      <4> QED BY <1>1, <3>2, <4>1
    <3> QED BY <1>2, <1>4, <3>1, <3>2
  <2> HIDE DEF k
  <2>5. m \in Nat /\ StoreMask = 0 .. m - 1 /\ m = (IF Last THEN Room - a ELSE L)
        /\ a + m = (IF Last THEN Room ELSE d)
    <3>1. CASE Last
      <4>1. {l \in Lane : l < k - a} = 0 .. (k - a) - 1
        BY <1>1, <1>2, <2>1, <2>4, <3>1
      <4> QED BY <1>1, <2>1, <2>2, <2>3, <2>4, <3>1, <4>1
    <3>2. CASE ~Last
      <4>1. {l \in Lane : l < k - a} = 0 .. L - 1
        BY <1>1, <1>2, <2>1, <2>4, <3>2
      <4> QED BY <1>1, <2>1, <2>2, <2>3, <3>2, <4>1
    <3> QED BY <3>1, <3>2
  <2> QED BY <1>4, <2>5 DEF a, d
<1> QED BY <1>3, <1>4

LEMMA ResolveReaches ==
  ASSUME FInv, Resolve
  PROVE  FInv'
<1>1. /\ phase = "resolve" /\ i' = i + 1 /\ phase' = "load" /\ kernel' = kernel /\ n' = n /\ len' = len
      /\ wrote' = wrote \cup (IF StoresBelow THEN {(i - 1) * L + l : l \in Lane} ELSE {})
                        \cup (IF StoresHere THEN {i * L + l : l \in StoreMask} ELSE {})
  BY DEF Resolve
<1>2. Region /\ Turn /\ i \in Nat /\ i < Count /\ wrote = 0 .. Reached - 1
  BY <1>1 DEF FInv, Shape, Turn
<1>3. Count \in Nat /\ Count' = Count /\ (Last <=> i + 1 = Count) /\ Room' = Room
  BY <1>1, <1>2, Turns, TurnFacts DEF Count, Room
<1>4. Shape'
  BY <1>1, <1>2, <1>3 DEF Shape, Region, Arity
<1>5. PICK m \in Nat : /\ StoreMask = 0 .. m - 1
                       /\ m = IF Last THEN Room - i * L ELSE L
                       /\ i * L + m = IF Last THEN Room ELSE (i + 1) * L
                       /\ kernel.stores = "vec" => StoreMask = Lane
  BY <1>2, StoreMaskRight
<1>6. i * L \in Nat /\ i # Count /\ i' # 0 /\ i' - 1 = i
  BY <1>1, <1>2, TurnFacts
<1>7. wrote' = 0 .. Reached' - 1
  <2>1. CASE ~kernel.half
    <3>1. wrote' = (0 .. i * L - 1) \cup {i * L + l : l \in 0 .. m - 1}
      <4>1. Reached = i * L
        BY <1>6, <2>1 DEF Reached
      <4> QED BY <1>1, <1>2, <1>5, <2>1, <4>1 DEF StoresBelow, StoresHere
    <3>2. wrote' = 0 .. (i * L + m) - 1
      BY <1>5, <1>6, <3>1, Extended
    <3>3. Reached' = IF Last THEN Room ELSE (i + 1) * L
      BY <1>1, <1>3, <1>6, <2>1 DEF Reached
    <3> QED BY <1>5, <3>2, <3>3
  <2>2. CASE kernel.half
    <3>1. Reached' = IF Last THEN Room ELSE i * L
      BY <1>1, <1>3, <1>6, <2>2 DEF Reached
    <3>2. StoresBelow <=> i > 0
      BY <2>2 DEF StoresBelow
    <3>3. StoresHere <=> Last
      BY <2>2 DEF StoresHere
    <3>4. wrote \cup (IF StoresBelow THEN {(i - 1) * L + l : l \in Lane} ELSE {}) = 0 .. i * L - 1
      <4>1. CASE i = 0
        <5>1. ~StoresBelow /\ Reached = 0 /\ i * L = 0
          BY <1>6, <2>2, <3>2, <4>1, Sizes DEF Reached
        <5> QED BY <1>2, <5>1
      <4>2. CASE i > 0
        <5>1. StoresBelow /\ Reached = (i - 1) * L
          BY <1>2, <1>6, <2>2, <3>2, <4>2 DEF Reached
        <5> DEFINE a == (i - 1) * L
        <5>2. a \in Nat /\ a + L = i * L
          BY <1>2, <4>2, Sizes
        <5> HIDE DEF a
        <5>3. (0 .. a - 1) \cup {a + l : l \in 0 .. L - 1} = 0 .. (a + L) - 1
          BY <5>2, Sizes, Extended
        <5>4. Lane = 0 .. L - 1
          BY Parameters
        <5> QED BY <1>2, <5>1, <5>2, <5>3, <5>4 DEF a
      <4> QED BY <1>2, <4>1, <4>2
    <3>5. CASE Last
      <4>1. wrote' = (0 .. i * L - 1) \cup {i * L + l : l \in 0 .. m - 1}
        BY <1>1, <1>5, <3>3, <3>4, <3>5
      <4>2. wrote' = 0 .. (i * L + m) - 1
        BY <1>5, <1>6, <4>1, Extended
      <4> QED BY <1>5, <3>1, <3>5, <4>2
    <3>6. CASE ~Last
      BY <1>1, <3>1, <3>3, <3>4, <3>6
    <3> QED BY <3>5, <3>6
  <2> QED BY <2>1, <2>2
<1> QED BY <1>4, <1>7 DEF FInv

(* Every kernel writes its region, whole and nothing else, whatever the     *)
(* length: LaneKernels!Footprint.                                           *)
THEOREM ExactlyTheRegion ==
  ASSUME KernelParameters
  PROVE  Spec => []Footprint
<1>1. Init => FInv
  <2> SUFFICES ASSUME Init PROVE FInv
    OBVIOUS
  <2>1. Shape
    BY InitInvariant DEF IInv
  <2>2. i = 0 /\ wrote = {}
    BY DEF Init
  <2>3. Count # 0 /\ 0 * L = 0
    BY <2>1, Turns, Sizes DEF Shape
  <2>4. Reached = 0
    BY <2>2, <2>3 DEF Reached
  <2> QED BY <2>1, <2>2, <2>4 DEF FInv
<1>2. FInv /\ [Next]_vars => FInv'
  <2> SUFFICES ASSUME FInv, [Next]_vars PROVE FInv'
    OBVIOUS
  <2>1. CASE Load
    <3>1. /\ i < Count /\ phase' = "resolve" /\ UNCHANGED <<kernel, n, len, i, wrote>>
      BY <2>1 DEF Load
    <3> QED BY <3>1 DEF FInv, Shape, Region, Arity, Count, Reached, Room
  <2>2. CASE Resolve
    BY <2>2, ResolveReaches
  <2>3. CASE UNCHANGED vars
    BY <2>3 DEF vars, FInv, Shape, Region, Arity, Count, Reached, Room
  <2> QED BY <2>1, <2>2, <2>3 DEF Next
<1>3. FInv => Footprint
  <2> SUFFICES ASSUME FInv PROVE Footprint
    OBVIOUS
  <2>1. Region /\ i \in 0 .. Count /\ Count \in Nat /\ i \in Nat /\ wrote = 0 .. Reached - 1
    <3>1. Region /\ i \in 0 .. Count /\ wrote = 0 .. Reached - 1
      BY DEF FInv, Shape
    <3> QED BY <3>1, Turns
  <2>2. CASE Done
    BY <2>1, <2>2 DEF Done, Reached, Room, Footprint
  <2>3. CASE ~Done
    <3>1. Turn /\ i # Count
      BY <2>1, <2>3 DEF Done, Turn
    <3>2. Room \in Nat /\ i * L \in Nat /\ i * L <= Room
      <4>1. PICK m \in Nat : i * L + m = IF Last THEN Room ELSE (i + 1) * L
        BY <2>1, <3>1, StoreMaskRight
      <4> DEFINE c == (Count - 1) * L  a == i * L
      <4>2. /\ c \in Nat /\ a \in Nat /\ n \in Nat /\ Count * L = c + L /\ L \in Nat /\ a <= n /\ a <= c
            /\ (kernel.stores # "n+1" => n <= c + L)
        <5>1. a <= c
          <6>1. ~Last => (i + 1) * L <= c
            BY <2>1, <3>1, TurnFacts
          <6>2. (i + 1) * L = a + L /\ a \in Nat /\ (Last => a = c) /\ c \in Nat
            BY <2>1, <3>1, Turns, TurnFacts
          <6> HIDE DEF a, c
          <6> QED BY <6>1, <6>2, Sizes
        <5> QED BY <2>1, <3>1, <5>1, Turns, TurnFacts, Sizes DEF Region
      <4> HIDE DEF a, c
      <4>3. Room \in {c + L, n, n + 1}
        BY <4>2 DEF Room
      <4> QED BY <4>2, <4>3 DEF a
    <3>3. Reached \in Nat /\ Reached <= Room
      <4>1. i > 0 => (i - 1) * L \in Nat /\ (i - 1) * L <= i * L
        BY <2>1, Sizes
      <4>2. Reached = 0 \/ (i > 0 /\ Reached = (i - 1) * L) \/ Reached = i * L
        BY <2>1, <3>1 DEF Reached
      <4> QED BY <3>2, <4>1, <4>2
    <3>4. 0 .. Reached - 1 \subseteq 0 .. Room - 1
      BY <3>2, <3>3
    <3>5. wrote \subseteq 0 .. Room - 1
      BY <2>1, <3>4
    <3> QED BY <2>3, <3>5 DEF Footprint, Room
  <2> QED BY <2>2, <2>3
<1> QED BY <1>1, <1>2, <1>3, PTL DEF Spec

-----------------------------------------------------------------------------
(* u52_div_exact_3: residues, sums and one digit, then a vector, then the  *)
(* loops.                                                                  *)

(* u52_d3_ax's largest count, 78 in the code, and a vector's, 624. *)
Most3 == (3 * D3Bits) \div 2
Heaviest == D3L * Most3

-----------------------------------------------------------------------------
(* Residues *)

Same3(x, y) == x % 3 = y % 3
InReach(below) == 2 * below < 8192           \* u52_d3_mod3 is exact for twice it

(* 2^k is 1 or 2 modulo 3, by the parity of k. *)
LEMMA TwoMod3 == \A k \in Nat : Power(2, k) \in Nat \ {0} /\ Power(2, k) % 3 = 1 + (k % 2)
<1> DEFINE T == {k \in Nat : Power(2, k) % 3 = 1 + (k % 2)}
<1>1. \A k \in Nat : Power(2, k) \in Nat /\ Power(2, k) > 0
  BY PowerPositive
<1>2. 0 \in T
  BY PowerSteps
<1>3. ASSUME NEW k \in Nat, k \in T PROVE k + 1 \in T
  <2> DEFINE p == Power(2, k)
  <2>1. p \in Nat /\ p % 3 = 1 + (k % 2) /\ Power(2, k + 1) = 2 * p
    BY <1>1, <1>3, PowerSteps
  <2> HIDE DEF p
  <2>2. (2 * p) % 3 = 1 + ((k + 1) % 2)
    BY <2>1
  <2> QED BY <2>1, <2>2
<1>4. \A k \in Nat : k \in T
  <2> HIDE DEF T
  <2>1. T \subseteq Nat
    BY DEF T
  <2> QED BY <1>2, <1>3, <2>1, ByInduction
<1> QED BY <1>1, <1>4

(* A number of base 1 is a sum. *)
LEMMA SumSteps ==
  ASSUME NEW k \in Nat, NEW f, \A j \in 0 .. k - 1 : f[j] \in Int
  PROVE  /\ Number(f, 0, 1) = 0
         /\ \A j \in 0 .. k : Number(f, j, 1) \in Int
         /\ \A j \in 0 .. k - 1 : Number(f, j + 1, 1) = Number(f, j, 1) + f[j]
<1> DEFINE T == {j \in Nat : Power(1, j) = 1}
<1>1. 0 \in T
  BY PowerSteps
<1>2. ASSUME NEW j \in Nat, j \in T PROVE j + 1 \in T
  <2>1. Power(1, j + 1) = 1 * Power(1, j) /\ Power(1, j) = 1
    BY <1>2, PowerSteps
  <2> QED BY <2>1
<1>3. \A j \in Nat : j \in T
  <2> HIDE DEF T
  <2>1. T \subseteq Nat
    BY DEF T
  <2> QED BY <1>1, <1>2, <2>1, ByInduction
<1>4. /\ Number(f, 0, 1) = 0
      /\ \A j \in 0 .. k : Number(f, j, 1) \in Int
      /\ \A j \in 0 .. k - 1 : Number(f, j + 1, 1) = Number(f, j, 1) + Power(1, j) * f[j]
  BY NumberSteps
<1> QED BY <1>3, <1>4

(* A vector has lanes, and a digit is 1 more than a multiple of 3. *)
LEMMA D3Sizes ==
  ASSUME D3Parameters
  PROVE  /\ D3L \in Nat \ {0} /\ D3B \in Nat /\ D3B > 3 /\ D3B % 3 = 1
         /\ D3Bits \in Nat /\ Most3 \in Nat
<1>1. D3L \in Nat \ {0} /\ D3B \in Nat \ {0} /\ D3B % 3 = 1
  BY TwoMod3 DEF D3Parameters, D3L, D3B
<1>2. D3B # 1
  <2>1. D3Bits - 1 \in Nat /\ (D3Bits - 1) + 1 = D3Bits
    BY DEF D3Parameters
  <2>2. Power(2, D3Bits) = 2 * Power(2, D3Bits - 1)
    BY <2>1, PowerSteps
  <2>3. Power(2, D3Bits - 1) \in Nat
    BY <2>1, TwoMod3
  <2> QED BY <2>2, <2>3 DEF D3B
<1> QED BY <1>1, <1>2 DEF D3Parameters, Most3

(* u52_d3_ax: the count of a digit's bits is the digit modulo 3. *)
LEMMA ResidueRight ==
  ASSUME D3Parameters, NEW x \in 0 .. D3B - 1
  PROVE  Residue(x) \in 0 .. Most3 /\ Same3(Residue(x), x)
<1> DEFINE K == D3Bits
           b == [k \in 0 .. K - 1 |-> (x \div Power(2, k)) % 2]
           f == Counted(x)
           X(k) == Number(b, k, 2)
           R(k) == Number(f, k, 1)
           T == {k \in Nat : k <= K => R(k) % 3 = X(k) % 3 /\ R(k) \in 0 .. (3 * k) \div 2 /\ X(k) \in Nat}
<1>1. K \in Nat /\ x \in Nat /\ Power(2, K) = D3B /\ D3B \in Nat
  BY D3Sizes DEF D3B
<1>2. \A k \in 0 .. K - 1 : b[k] \in {0, 1} /\ f[k] = b[k] * (1 + (k % 2))
  <2> SUFFICES ASSUME NEW k \in 0 .. K - 1
      PROVE b[k] \in {0, 1} /\ f[k] = b[k] * (1 + (k % 2))
    OBVIOUS
  <2> DEFINE y == x \div Power(2, k)
  <2>1. k \in Nat /\ Power(2, k) \in Nat \ {0} /\ x \in Int
    BY <1>1, TwoMod3
  <2>2. y \in Int
    BY <2>1, DivMod
  <2>3. b[k] = y % 2 /\ f[k] = IF y % 2 = 1 THEN 1 + (k % 2) ELSE 0
    BY DEF Counted, Bit
  <2> HIDE DEF y, b, f
  <2>4. y % 2 \in {0, 1}
    BY <2>2
  <2>5. CASE y % 2 = 0
    BY <2>1, <2>3, <2>5
  <2>6. CASE y % 2 = 1
    BY <2>1, <2>3, <2>6
  <2> QED BY <2>4, <2>5, <2>6
<1>3. /\ X(0) = 0 /\ \A k \in 0 .. K : X(k) \in Int
      /\ \A k \in 0 .. K - 1 : X(k + 1) = X(k) + Power(2, k) * b[k]
  <2>1. \A k \in 0 .. K - 1 : b[k] \in Int
    BY <1>2
  <2> HIDE DEF b
  <2>2. (2 \in Nat) /\ 2 > 0
    OBVIOUS
  <2> QED BY <1>1, <2>1, <2>2, NumberSteps
<1>4. /\ R(0) = 0 /\ \A k \in 0 .. K : R(k) \in Int
      /\ \A k \in 0 .. K - 1 : R(k + 1) = R(k) + f[k]
  <2>1. \A k \in 0 .. K - 1 : f[k] \in Int
    BY <1>1, <1>2
  <2> HIDE DEF f
  <2> QED BY <1>1, <2>1, SumSteps
<1> HIDE DEF b, f, X, R, K
<1>5. 0 \in T
  BY <1>3, <1>4
<1>6. ASSUME NEW k \in Nat, k \in T PROVE k + 1 \in T
  <2> SUFFICES ASSUME k + 1 <= K
      PROVE R(k + 1) % 3 = X(k + 1) % 3 /\ R(k + 1) \in 0 .. (3 * (k + 1)) \div 2 /\ X(k + 1) \in Nat
    OBVIOUS
  <2> DEFINE p == Power(2, k)  u == X(k)  w == R(k)
  <2>1. /\ k \in 0 .. K - 1 /\ p \in Nat /\ p % 3 = 1 + (k % 2)
        /\ u \in Nat /\ w \in 0 .. (3 * k) \div 2 /\ w % 3 = u % 3
    BY <1>1, <1>6, TwoMod3
  <2>2. X(k + 1) = u + p * b[k] /\ R(k + 1) = w + f[k]
    BY <1>3, <1>4, <2>1
  <2> HIDE DEF p, u, w
  <2>3. CASE b[k] = 0
    <3>1. X(k + 1) = u /\ R(k + 1) = w
      BY <1>2, <2>1, <2>2, <2>3
    <3> QED BY <2>1, <3>1
  <2>4. CASE b[k] = 1
    <3>1. X(k + 1) = u + p /\ R(k + 1) = w + 1 + (k % 2)
      BY <1>2, <2>1, <2>2, <2>4
    <3> QED BY <2>1, <3>1
  <2> QED BY <1>2, <2>1, <2>3, <2>4
<1>7. K \in T
  <2> HIDE DEF T
  <2>1. T \subseteq Nat
    BY DEF T
  <2> QED BY <1>1, <1>5, <1>6, <2>1, ByInduction
<1>8. X(K) = x
  <2>1. X(K) = x % Power(2, K)
    <3>1. (2 \in Nat \ {0}) /\ (x \in Int) /\ \A k \in 0 .. K - 1 : b[k] = (x \div Power(2, k)) % 2
      BY <1>1 DEF b
    <3> QED BY <1>1, <3>1, DigitsOfNumber DEF X
  <2> QED BY <1>1, <2>1
<1> QED BY <1>1, <1>7, <1>8 DEF R, f, K, Residue, Most3, Same3

-----------------------------------------------------------------------------
(* One digit *)

(* u52_d3_mod3 is the remainder, on 0 .. 8191. *)
LEMMA Mod3Right == ASSUME NEW s \in Nat, s < 8192 PROVE Mod3(s) = s % 3
<1> DEFINE a == s \div 3  r == s % 3
<1>1. a \in Nat /\ r \in 0 .. 2 /\ s = 3 * a + r
  OBVIOUS
<1> HIDE DEF a, r
<1>2. s * 2731 = 8192 * a + (a + 2731 * r) /\ a + 2731 * r \in 0 .. 8191
  BY <1>1
<1>3. (s * 2731) \div 8192 = a
  BY <1>1, <1>2
<1> QED BY <1>1, <1>3 DEF Mod3, r

(* A lane's quotient digit, and the borrow that residues below announce. *)
Third(x, below) == (((x - Mod3(2 * below)) % D3B) * Inverse3) % D3B
D3Owed(below) == (2 * below) % 3

RightDigit(x, below, res) ==
  /\ Third(x, below) \in 0 .. D3B - 1
  /\ x + D3B * D3Owed(below + res) = 3 * Third(x, below) + D3Owed(below)

(* u52_d3_quot: three times the quotient digit is the digit less the borrow   *)
(* into it, with the borrow into the next as its overflow.                    *)
LEMMA DigitRight ==
  ASSUME D3Parameters, NEW x \in 0 .. D3B - 1, NEW below \in Nat, InReach(below), NEW res \in Nat, Same3(res, x)
  PROVE  RightDigit(x, below, res)
<1> DEFINE q == (((x - Mod3(2 * below)) % D3B) * Inverse3) % D3B
           b == (2 * below) % 3
           next == (2 * (below + res)) % 3
           w == (x - b) % D3B
           o == IF x < b THEN 1 ELSE 0
           c == D3B \div 3
           z == w * (2 * c + 1)
           a == z \div D3B
           t == 2 * w - 3 * a
<1>1. D3B \in Nat \ {0} /\ D3B > 3 /\ c \in Nat /\ c > 0 /\ D3B = 3 * c + 1
  BY D3Sizes
<1>2. Inverse3 = 2 * c + 1
  BY <1>1 DEF Inverse3
<1>12. res % 3 = x % 3
  BY DEF Same3
<1>3. b \in 0 .. 2 /\ next \in 0 .. 2 /\ next = (b + 2 * x) % 3 /\ Mod3(2 * below) = b
  <2>1. 2 * below < 8192 /\ below \in Nat /\ x \in Nat
    BY <1>1 DEF InReach
  <2>2. Mod3(2 * below) = b
    <3> DEFINE s == 2 * below
    <3>1. s \in Nat /\ s < 8192
      BY <2>1
    <3> HIDE DEF s
    <3>2. Mod3(s) = s % 3
      BY <3>1, Mod3Right
    <3> QED BY <3>2 DEF s, b
  <2>3. b \in 0 .. 2 /\ next \in 0 .. 2 /\ next = (b + 2 * x) % 3
    BY <1>12, <2>1
  <2> QED BY <2>2, <2>3
<1>11. q = (((x - b) % D3B) * Inverse3) % D3B
  BY <1>3
<1> HIDE DEF b, next, c, q
<1>4. w \in 0 .. D3B - 1 /\ o \in {0, 1} /\ x - b = w - D3B * o
  <2>1. CASE x < b
    <3>1. x - b = (-1) * D3B + (x - b + D3B) /\ x - b + D3B \in 0 .. D3B - 1
      BY <1>1, <1>3, <2>1
    <3> DEFINE u == x - b  r == x - b + D3B
    <3>3. u \in Int /\ r \in 0 .. D3B - 1 /\ u = (-1) * D3B + r /\ D3B \in Nat \ {0}
      BY <1>1, <1>3, <3>1
    <3> HIDE DEF u, r
    <3>4. u % D3B = r
      BY <3>3, DivModUnique
    <3>2. w = x - b + D3B
      BY <3>4 DEF u, r
    <3> QED BY <1>1, <1>3, <2>1, <3>1, <3>2
  <2>2. CASE ~ (x < b)
    <3>1. x - b = 0 * D3B + (x - b) /\ x - b \in 0 .. D3B - 1
      BY <1>1, <1>3, <2>2
    <3> DEFINE u == x - b
    <3>3. u \in 0 .. D3B - 1 /\ u \in Int /\ u = 0 * D3B + u /\ D3B \in Nat \ {0}
      BY <1>1, <1>3, <3>1
    <3> HIDE DEF u
    <3>4. u % D3B = u
      BY <3>3, DivModUnique
    <3>2. w = x - b
      BY <3>4 DEF u
    <3> QED BY <1>1, <1>3, <2>2, <3>1, <3>2
  <2> QED BY <2>1, <2>2
<1>5. q = (w * (2 * c + 1)) % D3B
  BY <1>2, <1>11
<1> HIDE DEF w
<1>6. q \in 0 .. D3B - 1 /\ a \in Int /\ w * (2 * c + 1) = a * D3B + q
  <2>1. z \in Int /\ q = z % D3B
    BY <1>1, <1>4, <1>5
  <2> HIDE DEF z
  <2>3. D3B \in Nat \ {0}
    BY <1>1
  <2>4. z \div D3B \in Int /\ z % D3B \in 0 .. D3B - 1 /\ z = (z \div D3B) * D3B + (z % D3B)
    BY <2>1, <2>3, DivMod
  <2>2. q \in 0 .. D3B - 1 /\ a \in Int /\ z = a * D3B + q
    BY <2>1, <2>4
  <2> QED BY <2>2 DEF z
<1> HIDE DEF a
<1>7. t \in Int /\ 3 * q = w + D3B * t
  <2>1. 3 * (w * (2 * c + 1)) = w * (2 * D3B + 1)
    BY <1>1, <1>4
  <2>2. w * (2 * D3B + 1) = 2 * (D3B * w) + w /\ D3B * w \in Int
    BY <1>1, <1>4
  <2>3. D3B * t = 2 * (D3B * w) - 3 * (a * D3B)
    BY <1>1, <1>4, <1>6
  <2>4. a * D3B \in Int /\ q \in Int /\ t \in Int /\ w \in Int
    BY <1>1, <1>4, <1>6
  <2>5. 3 * (a * D3B + q) = 3 * (a * D3B) + 3 * q
    BY <2>4
  <2>6. 3 * (a * D3B) + 3 * q = 2 * (D3B * w) + w
    BY <1>6, <2>1, <2>2, <2>5
  <2> HIDE DEF t
  <2> QED BY <2>2, <2>3, <2>4, <2>6
<1> HIDE DEF t
<1>8. t \in {0, 1, 2}
  <2>1. D3B * t < 3 * D3B /\ -D3B < D3B * t
    <3>1. D3B * t \in Int
      BY <1>1, <1>7
    <3> QED BY <1>1, <1>4, <1>6, <1>7, <3>1
  <2>2. D3B * 3 = 3 * D3B /\ D3B * (-1) = -D3B
    BY <1>1
  <2>3. t < 3 /\ -1 < t
    <3>1. t * D3B < 3 * D3B /\ (-1) * D3B < t * D3B
      BY <1>1, <1>7, <2>1, <2>2
    <3> QED BY <1>1, <1>7, <3>1, CancelLt
  <2> QED BY <1>7, <2>3
<1>9. next = t + o
  BY <1>1, <1>3, <1>4, <1>6, <1>7, <1>8
<1>10. x + D3B * next = 3 * q + b
  BY <1>1, <1>3, <1>4, <1>6, <1>7, <1>8, <1>9
<1> QED BY <1>6, <1>10 DEF b, next, q, Third, D3Owed, RightDigit

-----------------------------------------------------------------------------
(* Sums over the lanes below *)

(* The shifts of u52_d3_prefix, as many as are done. *)
IsShifts(sums, p, m) ==
  sums = [d \in 0 .. m |->
            IF d = 0 THEN p
            ELSE [l \in D3Lane |-> sums[d - 1][l] + Shifted(sums[d - 1], Power(2, d - 1), l)]]

(* There are such sums, and Prefix is the last of them. *)
LEMMA ShiftsExist ==
  ASSUME NEW p, D3LogL \in Nat
  PROVE  \E sums : IsShifts(sums, p, D3LogL) /\ Prefix(p) = sums[D3LogL]
<1> DEFINE T == {m \in Nat : \E sums : IsShifts(sums, p, m)}
<1>1. 0 \in T
  <2> DEFINE sums == [d \in 0 .. 0 |-> p]
  <2>1. IsShifts(sums, p, 0)
    BY DEF IsShifts
  <2> QED BY <2>1
<1>2. ASSUME NEW m \in Nat, m \in T PROVE m + 1 \in T
  <2>1. PICK sums : IsShifts(sums, p, m)
    BY <1>2
  <2> DEFINE step(d) ==
            IF d = 0 THEN p
            ELSE [l \in D3Lane |-> sums[d - 1][l] + Shifted(sums[d - 1], Power(2, d - 1), l)]
         next == [d \in 0 .. m + 1 |-> step(d)]
  <2>2. \A d \in 0 .. m : next[d] = sums[d]
    <3>1. sums = [d \in 0 .. m |-> step(d)]
      BY <2>1 DEF IsShifts
    <3> HIDE DEF step
    <3> QED BY <3>1
  <2>3. \A d \in 0 .. m + 1 : d # 0 => d - 1 \in 0 .. m /\ next[d - 1] = sums[d - 1]
    <3> HIDE DEF next
    <3>1. ASSUME NEW d \in 0 .. m + 1, d # 0 PROVE d - 1 \in 0 .. m
      BY <3>1
    <3> QED BY <2>2, <3>1
  <2>4. next = [d \in 0 .. m + 1 |->
            IF d = 0 THEN p
            ELSE [l \in D3Lane |-> next[d - 1][l] + Shifted(next[d - 1], Power(2, d - 1), l)]]
    BY <2>3
  <2> HIDE DEF next
  <2>5. IsShifts(next, p, m + 1)
    BY <2>4 DEF IsShifts
  <2> QED BY <2>5
<1>3. D3LogL \in T
  <2> HIDE DEF T
  <2>1. T \subseteq Nat
    BY DEF T
  <2> QED BY <1>1, <1>2, <2>1, ByInduction
<1> DEFINE c == CHOOSE sums : IsShifts(sums, p, D3LogL)
<1>4. IsShifts(c, p, D3LogL)
  BY <1>3
<1>5. Prefix(p) = c[D3LogL]
  BY DEF Prefix, IsShifts
<1> QED BY <1>4, <1>5

(* After shifts by 1, 2, .. a lane has the sum of twice as many lanes each    *)
(* time, and in the end of all from lane 0 on.                               *)
LEMMA PrefixRight ==
  ASSUME D3Parameters, NEW p \in [D3Lane -> Int], NEW l \in D3Lane
  PROVE  Prefix(p)[l] = Number(p, l + 1, 1)
<1> DEFINE S(k) == Number(p, k, 1)
           From(s, k) == IF k + 1 >= s THEN S(k + 1 - s) ELSE 0
<1>1. D3LogL \in Nat /\ D3L \in Nat \ {0} /\ D3L = Power(2, D3LogL)
  BY D3Sizes DEF D3Parameters, D3L
<1>2. PICK sums : IsShifts(sums, p, D3LogL) /\ Prefix(p) = sums[D3LogL]
  BY <1>1, ShiftsExist
<1>3. /\ S(0) = 0 /\ \A k \in 0 .. D3L : S(k) \in Int
      /\ \A k \in 0 .. D3L - 1 : S(k + 1) = S(k) + p[k]
  <2>1. \A k \in 0 .. D3L - 1 : p[k] \in Int
    BY DEF D3Lane
  <2> QED BY <1>1, <2>1, SumSteps
<1> HIDE DEF S
<1> DEFINE D3Done == {d \in Nat : d <= D3LogL => \A k \in D3Lane : sums[d][k] = S(k + 1) - From(Power(2, d), k)}
<1>4. 0 \in D3Done
  <2> SUFFICES ASSUME NEW k \in D3Lane PROVE sums[0][k] = S(k + 1) - From(Power(2, 0), k)
    OBVIOUS
  <2>1. sums[0] = p /\ Power(2, 0) = 1 /\ k \in 0 .. D3L - 1
    BY <1>1, <1>2, PowerSteps DEF IsShifts, D3Lane
  <2>2. k + 1 >= 1 /\ k + 1 - 1 = k /\ S(k + 1) = S(k) + p[k] /\ S(k) \in Int /\ p[k] \in Int
    BY <1>1, <1>3, <2>1
  <2>3. From(1, k) = S(k)
    BY <2>2
  <2> HIDE DEF From
  <2> QED BY <2>1, <2>2, <2>3
<1>5. ASSUME NEW d \in Nat, d \in D3Done PROVE d + 1 \in D3Done
  <2> SUFFICES ASSUME d + 1 <= D3LogL, NEW k \in D3Lane
      PROVE sums[d + 1][k] = S(k + 1) - From(Power(2, d + 1), k)
    OBVIOUS
  <2> DEFINE s == Power(2, d)
  <2>1. s \in Nat \ {0} /\ Power(2, d + 1) = 2 * s /\ k \in 0 .. D3L - 1
    BY TwoMod3, PowerSteps DEF D3Lane
  <2>2. \A j \in D3Lane : sums[d][j] = S(j + 1) - From(s, j)
    BY <1>1, <1>5
  <2>3. sums[d + 1][k] = sums[d][k] + Shifted(sums[d], s, k)
    <3>1. d + 1 \in 0 .. D3LogL /\ d + 1 # 0 /\ (d + 1) - 1 = d
      BY <1>1
    <3>2. sums[d + 1] = [j \in D3Lane |-> sums[d][j] + Shifted(sums[d], Power(2, d), j)]
      BY <1>2, <3>1 DEF IsShifts
    <3> QED BY <3>2
  <2> HIDE DEF s
  <2>4. CASE k >= s
    <3>1. k - s \in D3Lane /\ k - s \in Nat
      BY <1>1, <2>1, <2>4 DEF D3Lane
    <3>2. sums[d][k] = S(k + 1) - S(k + 1 - s)
      BY <1>1, <2>1, <2>2, <2>4
    <3>3. Shifted(sums[d], s, k) = S(k - s + 1) - From(s, k - s)
      BY <2>2, <2>4, <3>1 DEF Shifted
    <3>4. k - s + 1 = k + 1 - s /\ (k - s) + 1 - s = k + 1 - 2 * s
      BY <1>1, <2>1
    <3>5. From(s, k - s) = From(2 * s, k)
      BY <1>1, <2>1, <3>4
    <3>6. S(k + 1) \in Int /\ S(k + 1 - s) \in Int /\ From(2 * s, k) \in Int
      <4>1. k + 1 \in 0 .. D3L /\ k + 1 - s \in 0 .. D3L
        BY <1>1, <2>1, <2>4
      <4>2. k + 1 >= 2 * s => k + 1 - 2 * s \in 0 .. D3L
        BY <1>1, <2>1, <2>4
      <4> QED BY <1>3, <4>1, <4>2
    <3> HIDE DEF From
    <3> QED BY <2>1, <2>3, <3>2, <3>3, <3>4, <3>5, <3>6
  <2>5. CASE ~(k >= s)
    <3>1. Shifted(sums[d], s, k) = 0
      BY <2>5 DEF Shifted
    <3>2. From(s, k) = 0
      <4>1. CASE k + 1 >= s
        <5>1. k + 1 - s = 0
          BY <1>1, <2>1, <2>5, <4>1
        <5> QED BY <1>3, <4>1, <5>1
      <4> QED BY <4>1
    <3>3. From(2 * s, k) = 0
      <4>1. CASE k + 1 >= 2 * s
        <5>1. k + 1 - 2 * s = 0
          BY <1>1, <2>1, <2>5, <4>1
        <5> QED BY <1>3, <4>1, <5>1
      <4> QED BY <4>1
    <3>4. S(k + 1) \in Int
      BY <1>1, <1>3, <2>1
    <3> HIDE DEF From
    <3>5. sums[d][k] = S(k + 1) - 0
      BY <2>2, <3>2
    <3> QED BY <2>1, <2>3, <3>1, <3>3, <3>4, <3>5
  <2> QED BY <2>4, <2>5
<1>6. D3LogL \in D3Done
  <2> HIDE DEF D3Done
  <2>1. D3Done \subseteq Nat
    BY DEF D3Done
  <2> QED BY <1>1, <1>4, <1>5, <2>1, ByInduction
<1>7. sums[D3LogL][l] = S(l + 1) - From(D3L, l)
  BY <1>1, <1>6
<1>8. From(D3L, l) = 0 /\ S(l + 1) \in Int
  <2>1. l \in 0 .. D3L - 1 /\ l + 1 \in 0 .. D3L
    BY <1>1 DEF D3Lane
  <2>2. CASE l + 1 >= D3L
    <3>1. l + 1 - D3L = 0
      BY <1>1, <2>1, <2>2
    <3> QED BY <1>3, <2>1, <2>2, <3>1
  <2> QED BY <1>3, <2>1, <2>2
<1> HIDE DEF From
<1> QED BY <1>2, <1>7, <1>8 DEF S

-----------------------------------------------------------------------------
(* One vector *)

(* Sums of residues stay small. *)
LEMMA SumBound ==
  ASSUME D3Parameters, NEW ax \in [D3Lane -> 0 .. Most3]
  PROVE  \A k \in 0 .. D3L : Number(ax, k, 1) \in 0 .. k * Most3
<1> DEFINE S(k) == Number(ax, k, 1)
           T == {k \in Nat : k <= D3L => S(k) \in 0 .. k * Most3}
<1>1. D3L \in Nat /\ Most3 \in Nat /\ \A k \in 0 .. D3L - 1 : ax[k] \in 0 .. Most3 /\ ax[k] \in Int
  BY D3Sizes DEF D3Lane
<1>2. S(0) = 0 /\ \A k \in 0 .. D3L - 1 : S(k + 1) = S(k) + ax[k]
  BY <1>1, SumSteps
<1> HIDE DEF S
<1>3. 0 \in T
  BY <1>1, <1>2
<1>4. ASSUME NEW k \in Nat, k \in T PROVE k + 1 \in T
  <2> SUFFICES ASSUME k + 1 <= D3L PROVE S(k + 1) \in 0 .. (k + 1) * Most3
    OBVIOUS
  <2> DEFINE u == k * Most3
  <2>1. u \in Nat /\ (k + 1) * Most3 = u + Most3
    BY <1>1
  <2>2. S(k) \in 0 .. u /\ S(k + 1) = S(k) + ax[k] /\ ax[k] \in 0 .. Most3
    BY <1>1, <1>2, <1>4
  <2> HIDE DEF u
  <2> QED BY <1>1, <2>1, <2>2
<1>5. \A k \in Nat : k \in T
  <2> HIDE DEF T
  <2>1. T \subseteq Nat
    BY DEF T
  <2> QED BY <1>3, <1>4, <2>1, ByInduction
<1> QED BY <1>5 DEF S

(* The residues of a vector's digits. *)
LEMMA AxRight ==
  ASSUME D3Parameters, NEW v \in [D3Lane -> 0 .. D3B - 1]
  PROVE  Ax(v) \in [D3Lane -> 0 .. Most3] /\ \A l \in D3Lane : Same3(Ax(v)[l], v[l])
<1>1. \A l \in D3Lane : Ax(v)[l] \in 0 .. Most3 /\ Same3(Ax(v)[l], v[l])
  <2> SUFFICES ASSUME NEW l \in D3Lane PROVE Ax(v)[l] \in 0 .. Most3 /\ Same3(Ax(v)[l], v[l])
    OBVIOUS
  <2>1. v[l] \in 0 .. D3B - 1 /\ Ax(v)[l] = Residue(v[l])
    BY DEF Ax
  <2> QED BY <2>1, ResidueRight
<1>2. Ax(v) = [l \in D3Lane |-> Ax(v)[l]]
  BY DEF Ax
<1> QED BY <1>1, <1>2

(* The lowest k lanes of a vector, for every k: the digits are three times    *)
(* the quotient's, less the borrow into lane k, plus the one into lane 0.     *)
Borrow(v, c, k) == D3Owed(c + Number(Ax(v), k, 1))
Divided(v, c) == Quot(v, [l \in D3Lane |-> Prefix(Ax(v))[l] + c], Ax(v))
LEMMA VectorRight ==
  ASSUME D3Parameters, NEW v \in [D3Lane -> 0 .. D3B - 1], NEW c \in Nat, InReach(c + Heaviest)
  PROVE  /\ Divided(v, c) \in [D3Lane -> 0 .. D3B - 1]
         /\ \A k \in 0 .. D3L :
              Number(v, k, D3B) + Power(D3B, k) * Borrow(v, c, k) = 3 * Number(Divided(v, c), k, D3B) + Borrow(v, c, 0)
<1> DEFINE ax == Ax(v)
           S(k) == Number(ax, k, 1)
           P == [l \in D3Lane |-> Prefix(ax)[l] + c]
           q == Divided(v, c)
           b(k) == Borrow(v, c, k)
<1>1. /\ D3L \in Nat \ {0} /\ Most3 \in Nat /\ D3B \in Nat /\ D3B > 3
      /\ ax \in [D3Lane -> 0 .. Most3] /\ \A l \in D3Lane : Same3(ax[l], v[l])
  BY D3Sizes, AxRight
<1>2. ax \in [D3Lane -> Int] /\ \A k \in 0 .. D3L - 1 : ax[k] \in Int
  BY <1>1 DEF D3Lane
<1> HIDE DEF ax
<1>3. /\ S(0) = 0 /\ \A k \in 0 .. D3L : S(k) \in Int
      /\ \A k \in 0 .. D3L - 1 : S(k + 1) = S(k) + ax[k]
  <2>1. D3L \in Nat
    BY <1>1
  <2> QED BY <1>2, <2>1, SumSteps
<1>4. Heaviest \in Nat /\ \A k \in 0 .. D3L : S(k) \in 0 .. Heaviest
  <2>3. Heaviest \in Nat
    BY <1>1 DEF Heaviest
  <2> SUFFICES ASSUME NEW k \in 0 .. D3L PROVE S(k) \in 0 .. Heaviest
    BY <2>3
  <2>1. S(k) \in 0 .. k * Most3
    BY <1>1, SumBound
  <2>2. k * Most3 <= Heaviest /\ k * Most3 \in Nat /\ Heaviest \in Nat
    BY <1>1, MulLe DEF Heaviest
  <2> HIDE DEF S
  <2> QED BY <2>1, <2>2
<1>5. \A l \in D3Lane : P[l] = S(l + 1) + c
  BY <1>2, PrefixRight
<1>6. \A k \in 0 .. D3L : b(k) = D3Owed(c + S(k))
  BY DEF Borrow, ax
<1>7. q = Quot(v, P, ax)
  BY DEF Divided, ax
<1> HIDE DEF S, P, b, q
<1>8. \A l \in D3Lane : q[l] \in 0 .. D3B - 1 /\ v[l] + D3B * b(l + 1) = 3 * q[l] + b(l)
  <2> SUFFICES ASSUME NEW l \in D3Lane
      PROVE q[l] \in 0 .. D3B - 1 /\ v[l] + D3B * b(l + 1) = 3 * q[l] + b(l)
    OBVIOUS
  <2> DEFINE below == c + S(l)  x == v[l]  res == ax[l]
  <2>1. l \in 0 .. D3L - 1 /\ l \in 0 .. D3L /\ l + 1 \in 0 .. D3L
    BY <1>1 DEF D3Lane
  <2>2. S(l) \in Nat /\ S(l) <= Heaviest /\ S(l + 1) = S(l) + res /\ Heaviest \in Nat
    BY <1>1, <1>3, <1>4, <2>1
  <2>3. x \in 0 .. D3B - 1 /\ res \in Nat /\ Same3(res, x)
    BY <1>1
  <2>4. below \in Nat /\ InReach(below)
    BY <2>2 DEF InReach
  <2>5. BelowLane(P, ax)[l] = below
    <3>1. BelowLane(P, ax)[l] = P[l] - ax[l]
      BY DEF BelowLane
    <3> QED BY <1>5, <2>2, <2>3, <3>1
  <2>6. q[l] = Third(x, below)
    BY <1>7, <2>5 DEF Quot, Third
  <2>7. b(l) = D3Owed(below)
    BY <1>6, <2>1
  <2>8. b(l + 1) = D3Owed(below + res)
    <3>1. c + S(l + 1) = below + res
      BY <2>2, <2>3
    <3>2. b(l + 1) = D3Owed(c + S(l + 1))
      BY <1>6, <2>1
    <3> HIDE DEF below, res
    <3> QED BY <3>1, <3>2
  <2> HIDE DEF below, x, res
  <2>9. RightDigit(x, below, res)
    BY <2>3, <2>4, DigitRight
  <2> QED BY <2>6, <2>7, <2>8, <2>9 DEF x, RightDigit
<1>9. q \in [D3Lane -> 0 .. D3B - 1]
  <2>1. q = [l \in D3Lane |-> q[l]]
    BY <1>7 DEF Quot
  <2> QED BY <1>8, <2>1
<1> DEFINE t == [l \in 0 .. D3L - 1 |-> 3 * q[l]]
           e == [k \in 0 .. D3L |-> b(k)]
<1>10. \A k \in 0 .. D3L : e[k] \in 0 .. 2 /\ e[k] = b(k)
  <2> SUFFICES ASSUME NEW k \in 0 .. D3L PROVE b(k) \in 0 .. 2
    OBVIOUS
  <2>1. S(k) \in Nat
    BY <1>1, <1>4
  <2> QED BY <1>6, <2>1 DEF D3Owed
<1>11. Exchanges(v, t, e, D3B, D3L)
  <2>1. \A l \in 0 .. D3L - 1 : v[l] \in Int /\ q[l] \in Int /\ t[l] = 3 * q[l]
    BY <1>1, <1>9 DEF D3Lane
  <2>2. \A l \in 0 .. D3L - 1 : v[l] + D3B * e[l + 1] = t[l] + e[l]
    <3> SUFFICES ASSUME NEW l \in 0 .. D3L - 1 PROVE v[l] + D3B * e[l + 1] = t[l] + e[l]
      OBVIOUS
    <3>1. l \in D3Lane /\ e[l + 1] = b(l + 1) /\ e[l] = b(l) /\ t[l] = 3 * q[l]
      BY <1>1 DEF D3Lane
    <3> HIDE DEF e, t
    <3> QED BY <1>8, <3>1
  <2>3. \A l \in 0 .. D3L : e[l] \in Int
    BY <1>10
  <2> HIDE DEF e, t
  <2>4. \A l \in 0 .. D3L - 1 : t[l] \in Int
    BY <2>1
  <2> QED BY <2>1, <2>2, <2>3, <2>4 DEF Exchanges
<1>12. ASSUME NEW k \in 0 .. D3L PROVE Number(v, k, D3B) + Power(D3B, k) * b(k) = 3 * Number(q, k, D3B) + b(0)
  <2>1. Exchanges(v, t, e, D3B, k) /\ k \in Nat
    <3> HIDE DEF e, t
    <3> QED BY <1>1, <1>11 DEF Exchanges
  <2>2. Number(v, k, D3B) + Power(D3B, k) * e[k] = Number(t, k, D3B) + e[0]
    <3> HIDE DEF e, t
    <3> QED BY <1>1, <2>1, Telescope
  <2>3. \A l \in 0 .. k - 1 : q[l] \in Int /\ t[l] = 3 * q[l]
    BY <1>1, <1>9 DEF D3Lane
  <2> HIDE DEF t, e
  <2>4. Number(q, k, D3B) \in Int
    <3>1. k \in 0 .. k /\ D3B \in Nat /\ D3B > 0
      BY <1>1, <2>1
    <3>2. \A l \in 0 .. k - 1 : q[l] \in Int
      BY <2>3
    <3> QED BY <2>1, <3>1, <3>2, NumberSteps
  <2>5. Number(t, k, D3B) = Number(q, k, D3B) + 2 * Number(q, k, D3B)
    <3>1. \A l \in 0 .. k - 1 : q[l] \in Int /\ q[l] \in Int /\ t[l] = q[l] + 2 * q[l]
      BY <2>3
    <3>2. (2 \in Int) /\ D3B \in Nat /\ D3B > 0
      BY <1>1
    <3> QED BY <2>1, <3>1, <3>2, NumberLinear
  <2>6. e[k] = b(k) /\ e[0] = b(0)
    BY <1>1, <1>10
  <2> QED BY <2>2, <2>4, <2>5, <2>6
<1> QED BY <1>9, <1>12 DEF q, b

-----------------------------------------------------------------------------
(* The loops *)

(* What a vector's last lane hands on, and what is owed below its lowest.     *)
LEMMA HandedOn ==
  ASSUME D3Parameters, NEW v \in [D3Lane -> 0 .. D3B - 1], cv \in Nat
  PROVE  /\ D3Last(v) \in Nat /\ D3Last(v) <= cv + Heaviest
         /\ Borrow(v, cv, D3L) = D3Owed(D3Last(v)) /\ Borrow(v, cv, 0) = D3Owed(cv)
         /\ \A k \in 0 .. D3L : Borrow(v, cv, k) \in 0 .. 2
<1>1. /\ D3L \in Nat \ {0} /\ Most3 \in Nat /\ Ax(v) \in [D3Lane -> 0 .. Most3]
      /\ Ax(v) \in [D3Lane -> Int]
  BY D3Sizes, AxRight
<1> DEFINE S(k) == Number(Ax(v), k, 1)
<1>2. \A l \in 0 .. D3L - 1 : Ax(v)[l] \in Int
  BY <1>1 DEF D3Lane
<1>3. S(0) = 0
  <2>1. D3L \in Nat
    BY <1>1
  <2> QED BY <1>2, <2>1, SumSteps
<1>4. \A k \in 0 .. D3L : S(k) \in 0 .. k * Most3
  BY <1>1, SumBound
<1>5. \A k \in 0 .. D3L : S(k) \in Nat
  <2> SUFFICES ASSUME NEW k \in 0 .. D3L PROVE S(k) \in Nat
    OBVIOUS
  <2>1. k * Most3 \in Nat
    BY <1>1
  <2> HIDE DEF S
  <2> QED BY <1>4, <2>1
<1>6. D3Last(v) = S(D3L) + cv
  <2>1. D3L - 1 \in D3Lane /\ (D3L - 1) + 1 = D3L
    BY <1>1 DEF D3Lane
  <2> QED BY <1>1, <2>1, PrefixRight DEF D3Last
<1>7. S(D3L) \in 0 .. Heaviest /\ Heaviest \in Nat
  BY <1>1, <1>4 DEF Heaviest
<1>8. \A k \in 0 .. D3L : Borrow(v, cv, k) = D3Owed(cv + S(k))
  BY DEF Borrow
<1> HIDE DEF S
<1>9. Borrow(v, cv, D3L) = D3Owed(D3Last(v)) /\ Borrow(v, cv, 0) = D3Owed(cv)
  <2>1. cv + S(D3L) = D3Last(v) /\ cv + S(0) = cv
    BY <1>3, <1>6, <1>7
  <2> QED BY <1>1, <1>8, <2>1
<1>10. \A k \in 0 .. D3L : Borrow(v, cv, k) \in 0 .. 2
  BY <1>5, <1>8 DEF D3Owed
<1> QED BY <1>6, <1>7, <1>9, <1>10

(* The vector in the loop: debts of whole vectors telescope, .. *)
LEMMA VectorDone ==
  ASSUME D3Parameters, NEW v \in [D3Lane -> 0 .. D3B - 1], cv \in Nat, InReach(cv + Heaviest),
         di \in Nat, ddebt = -(D3Owed(cv) * Power(D3B, di * D3L)), Divide(v, D3Lane)
  PROVE  ddebt' = -(D3Owed(D3Last(v)) * Power(D3B, (di + 1) * D3L))
<1> DEFINE q == Divided(v, cv)  p == Power(D3B, di * D3L)  w == Power(D3B, D3L)
           x == Number(v, D3L, D3B)  y == Number(q, D3L, D3B)  low == D3Owed(cv)  high == D3Owed(D3Last(v))
<1>1. D3L \in Nat \ {0} /\ D3B \in Nat \ {0} /\ D3B > 0 /\ D3B \in Int
  BY D3Sizes
<1>2. di * D3L \in Nat /\ (di + 1) * D3L = di * D3L + D3L
  BY <1>1
<1>3. p \in Nat /\ w \in Nat /\ Power(D3B, (di + 1) * D3L) = p * w
  <2> DEFINE m == di * D3L
  <2>1. m \in Nat /\ (di + 1) * D3L = m + D3L /\ D3L \in Nat
    BY <1>1, <1>2
  <2> HIDE DEF m
  <2>2. Power(D3B, m) \in Nat /\ Power(D3B, D3L) \in Nat /\ Power(D3B, m + D3L) = Power(D3B, m) * Power(D3B, D3L)
    BY <1>1, <2>1, PowerSum, PowerPositive
  <2> QED BY <2>1, <2>2 DEF m
<1>4. /\ q \in [D3Lane -> 0 .. D3B - 1] /\ x + w * Borrow(v, cv, D3L) = 3 * y + Borrow(v, cv, 0)
  <2>1. D3L \in 0 .. D3L
    BY <1>1
  <2> QED BY <2>1, VectorRight
<1>5. Borrow(v, cv, D3L) = high /\ Borrow(v, cv, 0) = low /\ high \in 0 .. 2 /\ low \in 0 .. 2
  <2>1. D3L \in 0 .. D3L /\ 0 \in 0 .. D3L
    BY <1>1
  <2>2. Borrow(v, cv, D3L) \in 0 .. 2 /\ Borrow(v, cv, 0) \in 0 .. 2
    BY <2>1, HandedOn
  <2> QED BY <2>2, HandedOn
<1>6. x \in Int /\ y \in Int
  <2>1. \A l \in 0 .. D3L - 1 : v[l] \in Int /\ q[l] \in Int
    BY <1>1, <1>4 DEF D3Lane
  <2>2. D3L \in Nat /\ D3L \in 0 .. D3L /\ D3B \in Nat /\ D3B > 0
    BY <1>1
  <2> HIDE DEF q
  <2>3. \A l \in 0 .. D3L - 1 : v[l] \in Int
    BY <2>1
  <2>4. \A l \in 0 .. D3L - 1 : q[l] \in Int
    BY <2>1
  <2> QED BY <2>2, <2>3, <2>4, NumberSteps
<1>7. Masked(q, D3Lane) = q
  BY <1>4 DEF Masked
<1>8. ddebt' = ddebt + p * (x - 3 * Number(Masked(q, D3Lane), D3L, D3B))
  BY DEF Divide, Divided
<1> HIDE DEF q, p, w, x, y, low, high
<1>9. ddebt' = -(low * p) + p * (low - w * high)
  <2>1. x - 3 * y = low - w * high
    BY <1>3, <1>4, <1>5, <1>6
  <2> QED BY <1>7, <1>8, <2>1 DEF p, y, low
<1>10. p * (low - w * high) = p * low - (p * w) * high
  BY <1>3, <1>5
<1>11. low * p = p * low /\ p * low \in Int /\ (p * w) * high = high * (p * w) /\ high * (p * w) \in Int
  BY <1>3, <1>5
<1>12. ddebt' = -(high * (p * w))
  BY <1>9, <1>10, <1>11
<1> QED BY <1>3, <1>12 DEF high

(* WholeVectors and a tail shorter than one, .. *)
LEMMA Shape3 ==
  ASSUME D3Parameters, dn \in Nat
  PROVE  D3Full \in Nat /\ D3Tail \in 0 .. D3L - 1 /\ dn = D3Full * D3L + D3Tail
<1>1. D3L \in Nat \ {0}
  BY D3Sizes
<1>2. dn \div D3L \in Int /\ dn % D3L \in 0 .. D3L - 1 /\ dn = (dn \div D3L) * D3L + (dn % D3L)
  BY <1>1, DivMod
<1>3. dn \div D3L >= 0
  BY <1>1
<1> QED BY <1>2, <1>3 DEF D3Full, D3Tail

(* .. and the masked tail completes them to all n limbs. *)
LEMMA TailDone ==
  ASSUME D3Parameters, NEW v \in [D3Lane -> 0 .. D3B - 1], cv \in Nat, InReach(cv + Heaviest),
         dn \in Nat, di = D3Full, ddebt = -(D3Owed(cv) * Power(D3B, di * D3L)),
         Divide(Masked(v, 0 .. D3Tail - 1), 0 .. D3Tail - 1)
  PROVE  \E k \in 0 .. 2 : ddebt' = -(k * Power(D3B, dn))
<1> DEFINE m == Masked(v, 0 .. D3Tail - 1)
           q == Divided(m, cv)  r == Masked(q, 0 .. D3Tail - 1)
           p == Power(D3B, di * D3L)  w == Power(D3B, D3Tail)
           x == Number(m, D3L, D3B)  y == Number(q, D3Tail, D3B)  low == D3Owed(cv)  high == Borrow(m, cv, D3Tail)
<1>1. /\ D3L \in Nat \ {0} /\ D3B \in Nat \ {0} /\ D3B > 0 /\ D3B \in Int
      /\ D3Tail \in 0 .. D3L - 1 /\ D3Full \in Nat /\ di \in Nat /\ dn = di * D3L + D3Tail
  <2>1. D3L \in Nat \ {0} /\ D3B \in Nat /\ D3B > 0
    BY D3Sizes
  <2> QED BY <2>1, Shape3
<1>2. di * D3L \in Nat /\ D3Tail \in Nat /\ D3Tail \in 0 .. D3L
  BY <1>1
<1>3. p \in Nat /\ w \in Nat /\ Power(D3B, dn) = p * w
  <2> DEFINE h == di * D3L
  <2>1. h \in Nat /\ dn = h + D3Tail /\ D3Tail \in Nat
    BY <1>1, <1>2
  <2> HIDE DEF h
  <2>2. Power(D3B, h) \in Nat /\ Power(D3B, D3Tail) \in Nat /\ Power(D3B, h + D3Tail) = Power(D3B, h) * Power(D3B, D3Tail)
    BY <1>1, <2>1, PowerSum, PowerPositive
  <2> QED BY <2>1, <2>2 DEF h
<1>4. /\ m \in [D3Lane -> 0 .. D3B - 1]
      /\ \A l \in D3Lane : l \in D3Tail .. D3L - 1 => m[l] = 0
  BY <1>1 DEF Masked, D3Lane
<1> HIDE DEF m
<1>5. /\ q \in [D3Lane -> 0 .. D3B - 1] /\ Number(m, D3Tail, D3B) + w * high = 3 * y + Borrow(m, cv, 0)
  BY <1>2, <1>4, VectorRight
<1>6. Borrow(m, cv, 0) = low /\ high \in 0 .. 2 /\ low \in 0 .. 2
  <2>1. 0 \in 0 .. D3L
    BY <1>1
  <2>2. Borrow(m, cv, 0) \in 0 .. 2 /\ Borrow(m, cv, D3Tail) \in 0 .. 2
    BY <1>2, <1>4, <2>1, HandedOn
  <2> QED BY <1>4, <2>2, HandedOn
<1>7. Number(m, D3L, D3B) = Number(m, D3Tail, D3B) /\ Number(m, D3Tail, D3B) \in Int
  <2>1. /\ \A j \in 0 .. D3L - 1 : m[j] \in Int
        /\ \A j \in D3Tail .. D3L - 1 : m[j] = 0
    BY <1>1, <1>4 DEF D3Lane
  <2>2. D3L \in Nat /\ D3B \in Nat
    BY <1>1
  <2> QED BY <1>1, <1>2, <2>1, <2>2, NumberPadded
<1> HIDE DEF q
<1>8. r \in [D3Lane -> Int] /\ \A l \in D3Lane : r[l] = IF l \in 0 .. D3Tail - 1 THEN q[l] ELSE 0
  <2>1. r = [l \in D3Lane |-> IF l \in 0 .. D3Tail - 1 THEN q[l] ELSE 0]
    BY <1>5 DEF Masked
  <2>2. \A l \in D3Lane : q[l] \in Int
    BY <1>1, <1>5
  <2> QED BY <2>1, <2>2
<1> HIDE DEF r
<1>9. Number(r, D3L, D3B) = Number(r, D3Tail, D3B) /\ Number(r, D3Tail, D3B) \in Int
  <2>1. /\ \A j \in 0 .. D3L - 1 : r[j] \in Int
        /\ \A j \in D3Tail .. D3L - 1 : r[j] = 0
    BY <1>1, <1>8 DEF D3Lane
  <2>2. D3L \in Nat /\ D3B \in Nat
    BY <1>1
  <2> QED BY <1>1, <1>2, <2>1, <2>2, NumberPadded
<1>10. Number(r, D3Tail, D3B) = y
  <2>1. \A l \in 0 .. D3Tail - 1 : r[l] \in Int /\ r[l] = q[l]
    BY <1>1, <1>8 DEF D3Lane
  <2>2. D3B \in Nat
    BY <1>1
  <2> QED BY <1>1, <1>2, <2>1, <2>2, NumberOfSame
<1>11. ddebt' = ddebt + p * (x - 3 * Number(r, D3L, D3B))
  BY DEF Divide, Divided, m, q, r
<1> HIDE DEF p, w, x, y, low, high
<1>12. ddebt' = -(low * p) + p * (low - w * high)
  <2>1. y \in Int /\ x = Number(m, D3Tail, D3B) /\ w * high \in Int
    BY <1>3, <1>6, <1>7, <1>9, <1>10 DEF x
  <2>2. x - 3 * y = low - w * high
    BY <1>5, <1>6, <1>7, <2>1
  <2>3. ddebt = -(low * p)
    BY DEF low, p
  <2>4. ddebt' = ddebt + p * (x - 3 * y)
    BY <1>9, <1>10, <1>11
  <2> QED BY <2>2, <2>3, <2>4
<1>13. p * (low - w * high) = p * low - (p * w) * high
  BY <1>3, <1>6
<1>14. low * p = p * low /\ p * low \in Int /\ (p * w) * high = high * (p * w) /\ high * (p * w) \in Int
  BY <1>3, <1>6
<1>15. ddebt' = -(high * (p * w))
  BY <1>12, <1>13, <1>14
<1> QED BY <1>3, <1>6, <1>15

-----------------------------------------------------------------------------
(* The invariant: whole blocks are announced, cv is a residue between blocks *)
(* and a sum of at most the block's vectors inside one, and the debt is what *)
(* cv says.                                                                  *)
Announced == inBlock > 0 => D3Full - di >= D3Unroll - inBlock
CarryBound == cv <= 2 + inBlock * Heaviest
D3IInv ==
  /\ dn \in D3Lengths /\ di \in 0 .. D3Full + 1 /\ inBlock \in 0 .. D3Unroll - 1 /\ cv \in Nat
  /\ Announced /\ CarryBound /\ QuotientOfPrefix

(* The parameters as the proofs of the loops use them. *)
LEMMA D3Facts ==
  ASSUME D3Parameters
  PROVE  /\ D3Unroll \in Nat \ {0} /\ D3Lengths \subseteq Nat /\ D3Digits \subseteq 0 .. D3B - 1
         /\ Heaviest \in Nat /\ D3Unroll * Heaviest \in Nat /\ 2 * (2 + D3Unroll * Heaviest) < 8192
<1>1. D3L \in Nat /\ Most3 \in Nat
  BY D3Sizes
<1>2. D3Unroll \in Nat \ {0} /\ 2 * (2 + D3Unroll * D3L * Most3) <= 8191 /\ D3Lengths \subseteq Nat /\ D3Digits \subseteq 0 .. D3B - 1
  BY DEF D3Parameters, Most3
<1>3. D3Unroll * Heaviest = D3Unroll * D3L * Most3 /\ Heaviest \in Nat /\ D3Unroll * Heaviest \in Nat
  BY <1>1, <1>2 DEF Heaviest
<1> QED BY <1>2, <1>3

(* A residue owes what its sum does. *)
LEMMA Mod3Owes ==
  ASSUME NEW s \in Nat, InReach(s)
  PROVE  Mod3(s) \in 0 .. 2 /\ D3Owed(Mod3(s)) = D3Owed(s)
<1>1. s < 8192
  BY DEF InReach
<1>2. Mod3(s) = s % 3
  BY <1>1, Mod3Right
<1> HIDE DEF InReach
<1> QED BY <1>2 DEF D3Owed

(* At no vector of a block does a sum leave u52_d3_mod3's reach. *)
LEMMA SumInReach ==
  ASSUME D3Parameters, D3IInv
  PROVE  /\ cv + Heaviest <= 2 + (inBlock + 1) * Heaviest /\ cv + Heaviest \in Nat
         /\ \A s \in Nat : s <= cv + Heaviest => InReach(s)
<1> DEFINE V == Heaviest  u == inBlock * V  w == D3Unroll * V
<1>1. V \in Nat /\ w \in Nat /\ 2 * (2 + w) < 8192 /\ D3Unroll \in Nat
  BY D3Facts
<1>2. inBlock \in 0 .. D3Unroll - 1 /\ cv \in Nat /\ cv <= 2 + u
  BY DEF D3IInv, CarryBound
<1>3. u \in Nat /\ (inBlock + 1) * V = u + V /\ (inBlock + 1) * V <= w
  <2>1. inBlock + 1 \in Int /\ inBlock + 1 <= D3Unroll /\ D3Unroll \in Int /\ V \in Nat
    BY <1>1, <1>2
  <2>2. (inBlock + 1) * V <= D3Unroll * V
    BY <2>1, MulLe
  <2> QED BY <1>1, <1>2, <2>2
<1> HIDE DEF V, u, w
<1>4. cv + V <= 2 + (inBlock + 1) * V /\ cv + V \in Nat /\ cv + V <= 2 + w
  BY <1>1, <1>2, <1>3
<1>5. \A s \in Nat : s <= cv + V => 2 * s < 8192
  BY <1>1, <1>4
<1> QED BY <1>4, <1>5 DEF V, InReach

(* Nothing is divided yet, and nothing owed. *)
LEMMA InitThird == D3Parameters /\ D3Init => D3IInv
<1> SUFFICES ASSUME D3Parameters, D3Init PROVE D3IInv
  OBVIOUS
<1>1. dn \in D3Lengths /\ dn \in Nat /\ di = 0 /\ inBlock = 0 /\ cv = 0 /\ ddebt = 0
  BY D3Facts DEF D3Init
<1>2. D3Full \in Nat /\ D3L \in Nat \ {0} /\ Heaviest \in Nat /\ D3Unroll \in Nat \ {0}
  BY <1>1, Shape3, D3Sizes, D3Facts
<1>3. di * D3L = 0 /\ di * D3L <= dn /\ inBlock * Heaviest = 0
  BY <1>1, <1>2
<1>4. (2 * cv) % 3 = 0
  BY <1>1
<1>5. Power(D3B, 0) = 1
  BY PowerSteps
<1>6. QuotientOfPrefix
  BY <1>1, <1>3, <1>4, <1>5 DEF QuotientOfPrefix
<1> QED BY <1>1, <1>2, <1>3, <1>6 DEF D3IInv, Announced, CarryBound

(* What a whole vector leaves, before it is decided what is handed on. *)
LEMMA AfterVector ==
  ASSUME D3Parameters, D3IInv, di < D3Full, NEW v \in [D3Lane -> D3Digits], Divide(v, D3Lane)
  PROVE  /\ v \in [D3Lane -> 0 .. D3B - 1]
         /\ dn' = dn /\ di' = di + 1 /\ di' \in 0 .. D3Full + 1 /\ D3Full' = D3Full
         /\ D3Last(v) \in Nat /\ D3Last(v) <= cv + Heaviest /\ InReach(D3Last(v))
         /\ ddebt' = -(D3Owed(D3Last(v)) * Power(D3B, (di + 1) * D3L)) /\ (di + 1) * D3L <= dn
<1>1. v \in [D3Lane -> 0 .. D3B - 1]
  BY D3Facts
<1>2. dn \in Nat /\ di \in Nat /\ cv \in Nat /\ di \in 0 .. D3Full + 1
  BY D3Facts DEF D3IInv
<1>3. D3Full \in Nat /\ D3Tail \in 0 .. D3L - 1 /\ dn = D3Full * D3L + D3Tail /\ D3L \in Nat \ {0}
  BY <1>2, Shape3, D3Sizes
<1>4. di * D3L <= dn /\ (di + 1) * D3L <= dn
  <2>1. di \in Int /\ di + 1 \in Int /\ di <= D3Full /\ di + 1 <= D3Full /\ D3Full \in Int /\ D3L \in Nat
    BY <1>2, <1>3
  <2>2. di * D3L <= D3Full * D3L /\ (di + 1) * D3L <= D3Full * D3L
    BY <2>1, MulLe
  <2>3. di * D3L \in Int /\ (di + 1) * D3L \in Int /\ D3Full * D3L \in Int
    BY <2>1
  <2> QED BY <1>2, <1>3, <2>2, <2>3
<1>5. ddebt = -(D3Owed(cv) * Power(D3B, di * D3L))
  BY <1>4 DEF D3IInv, QuotientOfPrefix, D3Owed
<1>6. cv + Heaviest \in Nat /\ \A s \in Nat : s <= cv + Heaviest => InReach(s)
  BY SumInReach
<1>7. InReach(cv + Heaviest)
  <2>1. Heaviest \in Nat
    BY D3Facts
  <2> QED BY <1>2, <1>6, <2>1
<1>8. ddebt' = -(D3Owed(D3Last(v)) * Power(D3B, (di + 1) * D3L))
  BY <1>1, <1>2, <1>5, <1>7, VectorDone
<1>9. D3Last(v) \in Nat /\ D3Last(v) <= cv + Heaviest
  BY <1>1, <1>2, HandedOn
<1>10. dn' = dn /\ di' = di + 1
  BY DEF Divide
<1>11. D3Full' = D3Full
  BY <1>10 DEF D3Full
<1>12. di' \in 0 .. D3Full + 1
  BY <1>2, <1>3, <1>10
<1> QED BY <1>1, <1>4, <1>6, <1>8, <1>9, <1>10, <1>11, <1>12

(* Then it suffices that what is handed on owes what the sum does. *)
LEMMA HandOver ==
  ASSUME D3Parameters, D3IInv, di < D3Full, NEW v \in [D3Lane -> D3Digits], Divide(v, D3Lane),
         cv' \in Nat, D3Owed(cv') = D3Owed(D3Last(v)),
         inBlock' \in 0 .. D3Unroll - 1, Announced', CarryBound'
  PROVE  D3IInv'
<1>1. /\ dn' = dn /\ di' = di + 1 /\ di' \in 0 .. D3Full + 1 /\ D3Full' = D3Full
      /\ ddebt' = -(D3Owed(D3Last(v)) * Power(D3B, (di + 1) * D3L)) /\ (di + 1) * D3L <= dn
  BY AfterVector
<1>2. QuotientOfPrefix'
  <2>1. di' * D3L <= dn' /\ ddebt' = -(D3Owed(cv') * Power(D3B, di' * D3L))
    BY <1>1
  <2> QED BY <2>1 DEF QuotientOfPrefix, D3Owed
<1> QED BY <1>1, <1>2 DEF D3IInv

(* In a block the sum is handed on as it is, and reduced at the block's end. *)
LEMMA UnrolledStep == ASSUME D3Parameters, D3IInv, Unrolled PROVE D3IInv'
<1>1. /\ di \in Nat /\ inBlock \in 0 .. D3Unroll - 1 /\ D3Unroll \in Nat \ {0} /\ Heaviest \in Nat
      /\ D3Full \in Nat /\ Announced
  BY D3Facts, Shape3 DEF D3IInv
<1>2. D3Full - di >= D3Unroll - inBlock
  BY <1>1 DEF Unrolled, Announced
<1>3. di < D3Full
  BY <1>1, <1>2
<1>4. PICK v \in [D3Lane -> D3Digits] :
        /\ Divide(v, D3Lane) /\ inBlock' = (inBlock + 1) % D3Unroll
        /\ cv' = IF inBlock' = 0 THEN Mod3(D3Last(v)) ELSE D3Last(v)
  BY DEF Unrolled
<1>5. /\ di' = di + 1 /\ D3Full' = D3Full
      /\ D3Last(v) \in Nat /\ D3Last(v) <= cv + Heaviest /\ InReach(D3Last(v))
  BY <1>3, <1>4, AfterVector
<1>6. cv + Heaviest <= 2 + (inBlock + 1) * Heaviest /\ cv + Heaviest \in Nat
  BY SumInReach
<1>7. CASE inBlock + 1 = D3Unroll
  <2>1. inBlock' = 0
    BY <1>1, <1>4, <1>7
  <2>2. Mod3(D3Last(v)) \in 0 .. 2 /\ D3Owed(Mod3(D3Last(v))) = D3Owed(D3Last(v))
    BY <1>5, Mod3Owes
  <2>3. cv' = Mod3(D3Last(v)) /\ cv' \in Nat /\ cv' <= 2 /\ D3Owed(cv') = D3Owed(D3Last(v))
    BY <1>4, <2>1, <2>2
  <2>4. inBlock' * Heaviest = 0
    BY <1>1, <2>1
  <2>5. CarryBound'
    <3>1. Heaviest' = Heaviest
      BY DEF Heaviest, D3L, Most3
    <3> QED BY <2>3, <2>4, <3>1 DEF CarryBound
  <2>6. Announced'
    BY <2>1 DEF Announced
  <2>7. inBlock' \in 0 .. D3Unroll - 1
    BY <1>1, <2>1
  <2> QED BY <1>3, <1>4, <2>3, <2>5, <2>6, <2>7, HandOver
<1>8. CASE inBlock + 1 # D3Unroll
  <2>1. inBlock' = inBlock + 1 /\ inBlock' # 0 /\ inBlock' \in 0 .. D3Unroll - 1
    <3>1. inBlock + 1 \in 0 .. D3Unroll - 1
      BY <1>1, <1>8
    <3>2. (inBlock + 1) % D3Unroll = inBlock + 1
      BY <1>1, <3>1
    <3> QED BY <1>1, <1>4, <3>1, <3>2
  <2>2. cv' = D3Last(v) /\ cv' \in Nat /\ D3Owed(cv') = D3Owed(D3Last(v))
    BY <1>4, <1>5, <2>1
  <2>3. CarryBound'
    <3>1. Heaviest' = Heaviest
      BY DEF Heaviest, D3L, Most3
    <3> DEFINE w == (inBlock + 1) * Heaviest
    <3>2. w \in Int
      BY <1>1
    <3>3. cv \in Nat
      BY DEF D3IInv
    <3> HIDE DEF w
    <3>4. cv' <= 2 + w
      BY <1>1, <1>5, <1>6, <2>2, <3>2, <3>3 DEF w
    <3> QED BY <2>1, <3>1, <3>4 DEF CarryBound, w
  <2>4. Announced'
    <3>1. D3Full' - di' >= D3Unroll - inBlock'
      BY <1>1, <1>2, <1>5, <2>1
    <3> QED BY <3>1 DEF Announced
  <2> QED BY <1>3, <1>4, <2>1, <2>2, <2>3, <2>4, HandOver
<1> QED BY <1>7, <1>8

(* After the blocks each vector's sum is reduced. *)
LEMMA SingleStep == ASSUME D3Parameters, D3IInv, Single PROVE D3IInv'
<1>1. di < D3Full /\ inBlock = 0 /\ inBlock' = 0
  BY DEF Single
<1>2. PICK v \in [D3Lane -> D3Digits] : Divide(v, D3Lane) /\ cv' = Mod3(D3Last(v))
  BY DEF Single
<1>3. D3Last(v) \in Nat /\ InReach(D3Last(v))
  BY <1>1, <1>2, AfterVector
<1>4. cv' \in Nat /\ cv' <= 2 /\ D3Owed(cv') = D3Owed(D3Last(v))
  BY <1>2, <1>3, Mod3Owes
<1>5. CarryBound'
  <2>1. Heaviest' = Heaviest /\ Heaviest \in Nat
    BY D3Facts DEF Heaviest, D3L, Most3
  <2>2. inBlock' * Heaviest = 0
    BY <1>1, <2>1
  <2> QED BY <1>4, <2>1, <2>2 DEF CarryBound
<1>6. Announced'
  BY <1>1 DEF Announced
<1>7. inBlock' \in 0 .. D3Unroll - 1
  BY <1>1, D3Facts
<1> QED BY <1>1, <1>2, <1>4, <1>5, <1>6, <1>7, HandOver

(* The tail owes at most two of the region's units. *)
LEMMA TailStep == ASSUME D3Parameters, D3IInv, TailVector PROVE D3IInv'
<1>1. di = D3Full /\ inBlock = 0 /\ inBlock' = 0 /\ cv' = cv
  BY DEF TailVector
<1>2. PICK v \in [D3Lane -> D3Digits] : Divide(Masked(v, 0 .. D3Tail - 1), 0 .. D3Tail - 1)
  BY DEF TailVector
<1>3. dn' = dn /\ di' = di + 1 /\ D3Full' = D3Full
  <2>1. dn' = dn /\ di' = di + 1
    BY <1>2 DEF Divide
  <2> QED BY <2>1 DEF D3Full
<1>4. /\ dn \in Nat /\ dn \in D3Lengths /\ di \in Nat /\ cv \in Nat /\ D3Full \in Nat /\ D3Tail \in 0 .. D3L - 1
      /\ dn = D3Full * D3L + D3Tail /\ D3L \in Nat \ {0} /\ v \in [D3Lane -> 0 .. D3B - 1]
  BY D3Facts, Shape3, D3Sizes DEF D3IInv
<1>5. di * D3L <= dn /\ ~((di + 1) * D3L <= dn)
  <2>1. di * D3L \in Int /\ (di + 1) * D3L = di * D3L + D3L /\ dn = di * D3L + D3Tail
    BY <1>1, <1>4
  <2> QED BY <1>4, <2>1
<1>6. ddebt = -(D3Owed(cv) * Power(D3B, di * D3L))
  BY <1>5 DEF D3IInv, QuotientOfPrefix, D3Owed
<1>7. InReach(cv + Heaviest)
  <2>1. cv + Heaviest \in Nat /\ \A s \in Nat : s <= cv + Heaviest => InReach(s)
    BY SumInReach
  <2>2. cv + Heaviest <= cv + Heaviest
    BY <2>1
  <2> QED BY <2>1, <2>2
<1>8. \E k \in 0 .. 2 : ddebt' = -(k * Power(D3B, dn))
  BY <1>1, <1>2, <1>4, <1>6, <1>7, TailDone
<1>9. QuotientOfPrefix'
  <2>1. ~(di' * D3L <= dn') /\ ddebt' \in {-(k * Power(D3B, dn')) : k \in 0 .. 2}
    BY <1>3, <1>5, <1>8
  <2> QED BY <2>1 DEF QuotientOfPrefix
<1>10. CarryBound' /\ Announced'
  <2>1. CarryBound'
    <3>1. Heaviest' = Heaviest
      BY DEF Heaviest, D3L, Most3
    <3> QED BY <1>1, <3>1 DEF CarryBound, D3IInv
  <2> QED BY <1>1, <2>1 DEF Announced
<1>11. di' \in 0 .. D3Full' + 1 /\ inBlock' \in 0 .. D3Unroll - 1
  BY <1>1, <1>3, <1>4 DEF D3IInv
<1> QED BY <1>1, <1>3, <1>4, <1>9, <1>10, <1>11 DEF D3IInv

(* Without a step nothing changes. *)
LEMMA StutterStep3 == ASSUME D3IInv, UNCHANGED d3Vars PROVE D3IInv'
BY DEF D3IInv, d3Vars, Announced, CarryBound, QuotientOfPrefix, D3Full, Heaviest, D3L, Most3, D3B

(* mpn_u52_divexact3 loses nothing: after every vector, what the quotient     *)
(* written so far lacks of a third of the dividend read is the borrow that cv *)
(* announces; at the end of a tail, a number of at most twice the region's    *)
(* unit - none, when 3 divides the dividend.                                  *)
THEOREM ThirdAlwaysExact ==
  ASSUME D3Parameters
  PROVE  D3Spec => []QuotientOfPrefix
<1>1. D3Init => D3IInv
  BY InitThird
<1>2. D3IInv /\ [D3Next]_d3Vars => D3IInv'
  <2> SUFFICES ASSUME D3IInv, [D3Next]_d3Vars PROVE D3IInv'
    OBVIOUS
  <2>1. CASE Unrolled
    BY <2>1, UnrolledStep
  <2>2. CASE Single
    BY <2>2, SingleStep
  <2>3. CASE TailVector
    BY <2>3, TailStep
  <2>4. CASE UNCHANGED d3Vars
    BY <2>4, StutterStep3
  <2> QED BY <2>1, <2>2, <2>3, <2>4 DEF D3Next
<1>3. D3IInv => QuotientOfPrefix
  BY DEF D3IInv
<1> QED BY <1>1, <1>2, <1>3, PTL DEF D3Spec

-----------------------------------------------------------------------------
(* Numbers: pieces, equal parts, and the order of two of them *)

(* Zeros on top change nothing. *)
ZeroFrom(f, k, nv) == \A j \in k .. nv - 1 : f[j] = 0
SameBelow(f, g, k) == \A j \in 0 .. k - 1 : f[j] = g[j]
LEMMA NumberOfLow ==
  ASSUME NEW base \in Nat, base > 0, NEW nv \in Nat, NEW k \in 0 .. nv, NEW f, NEW g,
         IntLimbs(f, nv), ZeroFrom(f, k, nv), SameBelow(f, g, k)
  PROVE  Number(f, nv, base) \in Int /\ Number(f, nv, base) = Number(g, k, base)
<1> DEFINE z == [j \in 0 .. nv - 1 |-> 0]
<1>0. /\ \A j \in 0 .. nv - 1 : f[j] \in Int
      /\ \A j \in k .. nv - 1 : f[j] = 0
      /\ \A j \in 0 .. k - 1 : f[j] = g[j]
  BY DEF IntLimbs, ZeroFrom, SameBelow
<1>1. \A j \in 0 .. nv - 1 : z[j] = f[j] + (-1) * f[j]
  BY <1>0
<1>2. \A j \in 0 .. nv - 1 : f[j] \in Int /\ f[j] \in Int /\ z[j] \in Int
  BY <1>0
<1>3. \A j \in k .. nv - 1 : f[j] = z[j]
  BY <1>0
<1> HIDE DEF z
<1>4. /\ Number(f, nv, base) \in Int /\ Number(z, nv, base) \in Int
      /\ Number(f, k, base) \in Int /\ Number(z, k, base) \in Int
      /\ Number(f, nv, base) - Number(z, nv, base) = Number(f, k, base) - Number(z, k, base)
  BY <1>2, <1>3, NumberAgree
<1>5. Number(z, nv, base) = Number(f, nv, base) + (-1) * Number(f, nv, base)
  BY <1>1, <1>2, NumberLinear
<1>6. Number(z, k, base) = Number(f, k, base) + (-1) * Number(f, k, base)
  <2>1. k \in Nat /\ \A j \in 0 .. k - 1 : f[j] \in Int /\ f[j] \in Int /\ z[j] = f[j] + (-1) * f[j]
    BY <1>0, <1>1
  <2> QED BY <2>1, NumberLinear
<1>7. Number(f, k, base) = Number(g, k, base)
  <2>1. k \in Nat /\ \A j \in 0 .. k - 1 : f[j] \in Int /\ f[j] = g[j]
    BY <1>0
  <2> QED BY <2>1, NumberOfSame
<1> QED BY <1>4, <1>5, <1>6, <1>7

-----------------------------------------------------------------------------
(* Comparing two vectors by the integers of their comparison masks *)

(* The top lane in which two vectors differ decides what Loses says. *)
Smaller(v, w) == {l \in Lane : v[l] < w[l]}
Larger(v, w) == {l \in Lane : v[l] > w[l]}
LEMMA LosesRight ==
  ASSUME NEW v, NEW w, DigitLanes(v), DigitLanes(w), v # w
  PROVE  \E m \in Lane : /\ v[m] # w[m] /\ \A l \in Lane : l > m => v[l] = w[l]
                         /\ Loses(Smaller(v, w), Larger(v, w)) <=> v[m] < w[m]
<1> DEFINE S == {l \in Lane : v[l] # w[l]}
<1>1. S # {}
  BY DEF DigitLanes
<1>2. PICK m \in S : \A k \in S : k <= m
  BY <1>1, LargestLane
<1>3. m \in Lane /\ v[m] # w[m] /\ \A l \in Lane : l > m => v[l] = w[l]
  <2>1. ASSUME NEW l \in Lane, l > m, v[l] # w[l] PROVE FALSE
    <3>1. l <= m /\ l \in Int /\ m \in Int
      BY <1>2, <2>1, Parameters
    <3> QED BY <2>1, <3>1
  <2> QED BY <1>2, <2>1
<1>4. \A l \in Lane : v[l] \in Int /\ w[l] \in Int
  BY DEF DigitLanes
<1>5. \A l \in Lane : l > m => l \notin Smaller(v, w) /\ l \notin Larger(v, w)
  BY <1>3, <1>4 DEF Smaller, Larger
<1>6. CASE v[m] < w[m]
  <2>1. m \in Smaller(v, w) /\ m \notin Larger(v, w)
    BY <1>3, <1>4, <1>6 DEF Smaller, Larger
  <2>2. /\ MaskInt(Larger(v, w)) \in Int /\ MaskInt(Smaller(v, w)) \in Int
        /\ MaskInt(Larger(v, w)) < MaskInt(Smaller(v, w))
    BY <1>3, <1>5, <2>1, MasksCompare
  <2> QED BY <1>3, <1>6, <2>2 DEF Loses
<1>7. CASE ~(v[m] < w[m])
  <2>1. m \in Larger(v, w) /\ m \notin Smaller(v, w)
    BY <1>3, <1>4, <1>7 DEF Smaller, Larger
  <2>2. /\ MaskInt(Larger(v, w)) \in Int /\ MaskInt(Smaller(v, w)) \in Int
        /\ MaskInt(Smaller(v, w)) < MaskInt(Larger(v, w))
    BY <1>3, <1>5, <2>1, MasksCompare
  <2> QED BY <1>3, <1>7, <2>2 DEF Loses
<1> QED BY <1>6, <1>7

-----------------------------------------------------------------------------
(* One vector of a sum or a difference *)

Direction(name) == IF name = "cmp_and_sub" THEN -1 ELSE 1
Rippled(k, a, b, v, s, in) ==
  /\ k[0] = in /\ \A l \in 0 .. L : k[l] \in {0, 1}
  /\ DigitLanes(v)
  /\ \A l \in Lane : v[l] + s * (B * k[l + 1]) = a[l] + s * (b[l] + k[l])

LEMMA BorrowVector ==
  ASSUME NEW a, NEW b, DigitLanes(a), DigitLanes(b), carry \in {0, 1}
  PROVE  \E k : Rippled(k, a, b, BorrowProp(a, b).vec, -1, carry) /\ BorrowProp(a, b).out = k[L]
<1> DEFINE s == [l \in Lane |-> a[l] - b[l]]  w == [l \in Lane |-> Word(a[l] - b[l])]
           v == BorrowProp(a, b).vec
<1>1. v = WithBorrow(w, BorrowRipple(w, carry)) /\ BorrowProp(a, b).out = BorrowRipple(w, carry).out
  BY DEF BorrowProp, WithBorrow, BorrowRipple
<1>2. s \in [Lane -> -(B - 1) .. B - 1] /\ w = [l \in Lane |-> Word(s[l])]
  <2>1. ASSUME NEW l \in Lane PROVE a[l] - b[l] \in -(B - 1) .. B - 1
    <3> DEFINE p == a[l]  q == b[l]
    <3>1. p \in 0 .. B - 1 /\ q \in 0 .. B - 1 /\ B \in Nat
      BY Parameters DEF DigitLanes
    <3> HIDE DEF p, q
    <3>2. p - q \in -(B - 1) .. B - 1
      BY <3>1
    <3> QED BY <3>2 DEF p, q
  <2> QED BY <2>1
<1>3. \A l \in Lane : s[l] = a[l] - b[l]
  OBVIOUS
<1>4. v = [l \in Lane |-> v[l]]
  BY <1>1 DEF WithBorrow
<1> HIDE DEF s, w, v
<1>5. PICK k : Borrowed(k, s, v, carry) /\ BorrowRipple(w, carry).out = k[L]
  BY <1>1, <1>2, BorrowsResolved
<1>6. ASSUME NEW l \in Lane
      PROVE  v[l] \in 0 .. B - 1 /\ v[l] + (-1) * (B * k[l + 1]) = a[l] + (-1) * (b[l] + k[l])
  <2> DEFINE p == a[l]  q == b[l]  d == v[l]  u == k[l]  t == B * k[l + 1]
  <2>1. d \in 0 .. B - 1 /\ d - t = p - q - u
    BY <1>3, <1>5 DEF Borrowed
  <2>2. p \in Int /\ q \in Int /\ u \in Int /\ t \in Int /\ d \in Int
    <3>1. l \in 0 .. L /\ l + 1 \in 0 .. L /\ B \in Nat
      BY Parameters
    <3> QED BY <1>5, <2>1, <3>1 DEF DigitLanes, Borrowed
  <2> HIDE DEF p, q, d, u, t
  <2>3. d + (-1) * t = p + (-1) * (q + u)
    BY <2>1, <2>2
  <2> QED BY <2>1, <2>3 DEF p, q, d, u, t
<1>7. Rippled(k, a, b, v, -1, carry)
  BY <1>4, <1>5, <1>6 DEF Rippled, Borrowed, DigitLanes
<1> QED BY <1>1, <1>5, <1>7 DEF v

LEMMA CarryVector ==
  ASSUME NEW a, NEW b, DigitLanes(a), DigitLanes(b), carry \in {0, 1}
  PROVE  \E k : Rippled(k, a, b, CarryProp(a, b).vec, 1, carry) /\ CarryProp(a, b).out = k[L]
<1> DEFINE t == [l \in Lane |-> a[l] + b[l]]  v == CarryProp(a, b).vec
<1>1. v = WithCarry(t, CarryRipple(t, carry)) /\ CarryProp(a, b).out = CarryRipple(t, carry).out
  BY DEF CarryProp, WithCarry, CarryRipple
<1>2. t \in [Lane -> 0 .. 2 * B - 2]
  <2>1. ASSUME NEW l \in Lane PROVE a[l] + b[l] \in 0 .. 2 * B - 2
    <3> DEFINE p == a[l]  q == b[l]
    <3>1. p \in 0 .. B - 1 /\ q \in 0 .. B - 1 /\ B \in Nat
      BY Parameters DEF DigitLanes
    <3> HIDE DEF p, q
    <3>2. p + q \in 0 .. 2 * B - 2
      BY <3>1
    <3> QED BY <3>2 DEF p, q
  <2> QED BY <2>1
<1>3. \A l \in Lane : t[l] = a[l] + b[l]
  OBVIOUS
<1>4. v = [l \in Lane |-> v[l]]
  BY <1>1 DEF WithCarry
<1> HIDE DEF t, v
<1>5. PICK k : Carried(k, t, v, carry) /\ CarryRipple(t, carry).out = k[L]
  BY <1>1, <1>2, CarriesResolved
<1>6. ASSUME NEW l \in Lane
      PROVE  v[l] \in 0 .. B - 1 /\ v[l] + 1 * (B * k[l + 1]) = a[l] + 1 * (b[l] + k[l])
  <2> DEFINE p == a[l]  q == b[l]  d == v[l]  u == k[l]  z == B * k[l + 1]
  <2>1. d \in 0 .. B - 1 /\ d + z = p + q + u
    BY <1>3, <1>5 DEF Carried
  <2>2. p \in Int /\ q \in Int /\ u \in Int /\ z \in Int /\ d \in Int
    <3>1. l \in 0 .. L /\ l + 1 \in 0 .. L /\ B \in Nat
      BY Parameters
    <3> QED BY <1>5, <2>1, <3>1 DEF DigitLanes, Carried
  <2> HIDE DEF p, q, d, u, z
  <2>3. d + 1 * z = p + 1 * (q + u)
    BY <2>1, <2>2
  <2> QED BY <2>1, <2>3 DEF p, q, d, u, z
<1>7. Rippled(k, a, b, v, 1, carry)
  BY <1>4, <1>5, <1>6 DEF Rippled, Carried, DigitLanes
<1> QED BY <1>1, <1>5, <1>7 DEF v

LEMMA RippledNumber ==
  ASSUME NEW k, NEW a, NEW b, NEW v, NEW s \in {1, -1}, NEW in \in {0, 1},
         DigitLanes(a), DigitLanes(b), Rippled(k, a, b, v, s, in), NEW nv \in 0 .. L
  PROVE  Number(v, nv, B) + s * (Power(B, nv) * k[nv]) = Number(a, nv, B) + s * Number(b, nv, B) + s * in
<1> DEFINE c == [l \in 0 .. L |-> s * k[l]]  g == [l \in Lane |-> a[l] + s * b[l]]
<1>1. /\ nv \in Nat /\ nv <= L /\ B \in Nat /\ B > 0 /\ Lane = 0 .. L - 1 /\ L \in Nat
      /\ \A l \in 0 .. nv - 1 : l \in Lane /\ l \in 0 .. L /\ l + 1 \in 0 .. L
      /\ \A l \in 0 .. nv : l \in 0 .. L
      /\ nv \in 0 .. L /\ 0 \in 0 .. L
  BY Parameters
<1>2. \A l \in Lane : a[l] \in Int /\ b[l] \in Int /\ v[l] \in Int
  BY DEF DigitLanes, Rippled
<1>3. \A l \in 0 .. L : k[l] \in {0, 1} /\ c[l] = s * k[l] /\ c[l] \in Int
  BY DEF Rippled
<1>4. \A l \in Lane : g[l] = a[l] + s * b[l] /\ g[l] \in Int
  <2>1. ASSUME NEW l \in Lane PROVE a[l] + s * b[l] \in Int
    BY <1>2
  <2> QED BY <2>1
<1> HIDE DEF c, g
<1>5. Exchanges(v, g, c, B, nv)
  <2>1. ASSUME NEW l \in 0 .. nv - 1 PROVE v[l] + B * c[l + 1] = g[l] + c[l]
    <3> DEFINE z == k[l + 1]  u == k[l]  p == a[l]  q == b[l]
    <3>1. /\ z \in {0, 1} /\ u \in {0, 1} /\ p \in Int /\ q \in Int /\ v[l] \in Int
          /\ c[l + 1] = s * z /\ c[l] = s * u /\ g[l] = p + s * q
          /\ v[l] + s * (B * z) = p + s * (q + u)
      BY <1>1, <1>2, <1>3, <1>4 DEF Rippled
    <3> HIDE DEF z, u, p, q
    <3>2. B * (s * z) = s * (B * z) /\ s * (q + u) = s * q + s * u
      BY <1>1, <3>1
    <3> QED BY <3>1, <3>2
  <2> QED BY <1>1, <1>2, <1>3, <1>4, <2>1 DEF Exchanges
<1>6. Number(v, nv, B) + Power(B, nv) * c[nv] = Number(g, nv, B) + c[0]
  BY <1>1, <1>5, Telescope
<1>7. Number(g, nv, B) = Number(a, nv, B) + s * Number(b, nv, B)
  <2>1. s \in Int /\ \A l \in 0 .. nv - 1 : a[l] \in Int /\ b[l] \in Int /\ g[l] = a[l] + s * b[l]
    BY <1>1, <1>2, <1>4
  <2> QED BY SMTT(40), <1>1, <2>1, NumberLinear
<1>8. c[0] = s * in /\ c[nv] = s * k[nv]
  BY <1>1, <1>3 DEF Rippled
<1>9. Power(B, nv) * (s * k[nv]) = s * (Power(B, nv) * k[nv])
  <2> DEFINE p == Power(B, nv)  z == k[nv]
  <2>1. p \in Nat /\ z \in {0, 1}
    BY <1>1, <1>3, PowerPositive
  <2> HIDE DEF p, z
  <2>2. p * (s * z) = s * (p * z)
    BY <2>1
  <2> QED BY <2>2 DEF p, z
<1> QED BY <1>6, <1>7, <1>8, <1>9

(* M is X + s Y on its lowest nv limbs, but for the carry c. *)
Balanced(M, X, Y, s, c, nv) ==
  Number(M, nv, B) + s * (Power(B, nv) * c) = Number(X, nv, B) + s * Number(Y, nv, B)

LEMMA LimbsSplit ==
  ASSUME NEW m \in Nat, NEW nv \in Nat, NEW M, IntLimbs(M, m + nv), NEW v, Piece(v, M, m, nv)
  PROVE  /\ Number(M, m, B) \in Int /\ Number(v, nv, B) \in Int
         /\ Number(M, m + nv, B) = Number(M, m, B) + Power(B, m) * Number(v, nv, B)
<1>1. B \in Nat /\ B > 0
  BY Parameters
<1> QED BY <1>1, NumberSplit

LEMMA BalanceExtends ==
  ASSUME NEW s \in {1, -1}, NEW m \in Nat, NEW nv \in Nat, NEW M, NEW X, NEW Y,
         IntLimbs(M, m + nv), IntLimbs(X, m + nv), IntLimbs(Y, m + nv),
         NEW c \in {0, 1}, NEW d \in {0, 1}, Balanced(M, X, Y, s, c, m),
         NEW v, NEW a, NEW b, Piece(v, M, m, nv), Piece(a, X, m, nv), Piece(b, Y, m, nv),
         Number(v, nv, B) + s * (Power(B, nv) * d) = Number(a, nv, B) + s * Number(b, nv, B) + s * c
  PROVE  Balanced(M, X, Y, s, d, m + nv)
<1> DEFINE N(f, k) == Number(f, k, B)  p == Power(B, m)  q == Power(B, nv)
           m0 == N(M, m)  m1 == N(v, nv)  x0 == N(X, m)  x1 == N(a, nv)  y0 == N(Y, m)  y1 == N(b, nv)
<1>1. B \in Nat /\ B > 0
  BY Parameters
<1>2. m0 \in Int /\ m1 \in Int /\ N(M, m + nv) = m0 + p * m1
  BY LimbsSplit
<1>3. x0 \in Int /\ x1 \in Int /\ N(X, m + nv) = x0 + p * x1
  BY LimbsSplit
<1>4. y0 \in Int /\ y1 \in Int /\ N(Y, m + nv) = y0 + p * y1
  BY LimbsSplit
<1>5. p \in Nat /\ q \in Nat /\ Power(B, m + nv) = p * q
  BY <1>1, PowerPositive, PowerSum
<1>6. m0 + s * (p * c) = x0 + s * y0 /\ m1 + s * (q * d) = x1 + s * y1 + s * c
  BY DEF Balanced
<1> HIDE DEF N, p, q, m0, m1, x0, x1, y0, y1
<1>7. p * (m1 + s * (q * d)) = p * (x1 + s * y1 + s * c)
  BY <1>6
<1> DEFINE qd == q * d
<1>8. qd \in Int /\ p * qd = (p * q) * d
  BY <1>5
<1> HIDE DEF qd
<1>9. /\ p * (m1 + s * qd) = p * m1 + s * (p * qd)
      /\ p * (x1 + s * y1 + s * c) = p * x1 + s * (p * y1) + s * (p * c)
      /\ p * m1 \in Int /\ p * qd \in Int /\ p * x1 \in Int /\ p * y1 \in Int /\ p * c \in Int
  BY <1>2, <1>3, <1>4, <1>5, <1>8
<1>10. m0 + p * m1 + s * (p * qd) = x0 + p * x1 + s * (y0 + p * y1)
  <2> DEFINE pm == p * m1  pq == p * qd  px == p * x1  py == p * y1  pc0 == p * c
  <2>1. /\ pm + s * pq = px + s * py + s * pc0
        /\ m0 + s * pc0 = x0 + s * y0
        /\ pm \in Int /\ pq \in Int /\ px \in Int /\ py \in Int /\ pc0 \in Int
    BY <1>6, <1>7, <1>9 DEF qd
  <2> HIDE DEF pm, pq, px, py, pc0
  <2>2. m0 + pm + s * pq = x0 + px + s * (y0 + py)
    BY <1>2, <1>3, <1>4, <2>1
  <2> QED BY <2>2 DEF pm, pq, px, py
<1>11. N(M, m + nv) + s * (Power(B, m + nv) * d) = N(X, m + nv) + s * N(Y, m + nv)
  BY <1>2, <1>3, <1>4, <1>5, <1>8, <1>10
<1> QED BY <1>11 DEF Balanced, N

-----------------------------------------------------------------------------
(* Limbs and the vectors they lie in *)

Size == Vectors * L
LimbsTo(nv, t) == nv * L + t + 1        \* limbs up to lane t of vector nv
DigitLimbs(f) == \A j \in Limbs : f[j] \in 0 .. B - 1

LEMMA AreaRoom ==
  /\ Vectors \in Nat /\ Vectors >= 1 /\ Size \in Nat /\ Limbs = 0 .. Size - 1
  /\ MaxLimbs \in Nat /\ MaxLimbs < Size
<1> DEFINE q == (MaxLimbs + L) \div L  r == (MaxLimbs + L) % L
<1>1. MaxLimbs \in Nat /\ L \in Nat /\ L > 0 /\ Vectors = q
  BY CarryOpsAssumption, Parameters DEF Vectors
<1>2. q \in Int /\ r \in 0 .. L - 1 /\ MaxLimbs + L = L * q + r
  BY <1>1
<1> HIDE DEF q, r
<1>3. q >= 1
  <2>1. SUFFICES ASSUME q <= 0 PROVE FALSE
    BY <1>2
  <2>2. L * q <= 0
    BY <1>1, <1>2, <2>1
  <2> QED BY <1>1, <1>2, <2>2
<1>4. L * q = q * L /\ L * q \in Int /\ L * q >= 0
  BY <1>1, <1>2, <1>3
<1>5. Size = q * L /\ Limbs = 0 .. q * L - 1
  BY <1>1 DEF Size, Limbs
<1> QED BY <1>1, <1>2, <1>3, <1>4, <1>5

(* Vector k of the limbs: k * L, ..., k * L + L - 1. *)
LEMMA VectorLimbs ==
  ASSUME NEW k \in Nat
  PROVE  /\ k * L \in Nat /\ (k + 1) * L = k * L + L
         /\ \A l \in Lane : /\ k * L + l \in Nat /\ k * L + l < (k + 1) * L
                            /\ (k * L + l) \div L = k /\ (k * L + l) % L = l
         /\ k < Vectors => (k + 1) * L <= Size /\ \A l \in Lane : k * L + l \in Limbs
<1>1. L \in Nat /\ L > 0 /\ Lane = 0 .. L - 1
  BY Parameters
<1>2. k * L \in Nat /\ (k + 1) * L = k * L + L
  BY <1>1
<1>3. ASSUME NEW l \in Lane
      PROVE  (k * L + l) \div L = k /\ (k * L + l) % L = l
  <2> DEFINE j == k * L + l
  <2>1. j \in Int /\ j = L * k + l /\ l \in 0 .. L - 1
    BY <1>1, <1>2
  <2> HIDE DEF j
  <2>2. j \div L = k /\ j % L = l
    BY <1>1, <2>1, Quotient
  <2> QED BY <2>2 DEF j
<1>4. ASSUME k < Vectors PROVE (k + 1) * L <= Size
  <2>1. Vectors \in Nat /\ k + 1 <= Vectors
    BY <1>4, AreaRoom
  <2>2. (k + 1) * L <= Vectors * L
    BY <1>1, <2>1
  <2> QED BY <2>2 DEF Size
<1>5. \A l \in Lane : k * L + l \in Nat /\ k * L + l < (k + 1) * L
  BY <1>1, <1>2
<1>6. ASSUME k < Vectors, NEW l \in Lane PROVE k * L + l \in Limbs
  <2> DEFINE j == k * L + l  u == (k + 1) * L
  <2>1. j \in Nat /\ j < u /\ u <= Size /\ u \in Int
    BY <1>1, <1>2, <1>4, <1>5, <1>6
  <2> HIDE DEF j, u
  <2>2. j \in Limbs
    BY <2>1, AreaRoom
  <2> QED BY <2>2 DEF j
<1> QED BY <1>2, <1>3, <1>4, <1>5, <1>6

LEMMA LimbParts ==
  ASSUME NEW j \in Nat
  PROVE  j \div L \in Nat /\ j % L \in Lane /\ j = (j \div L) * L + (j % L)
<1> DEFINE q == j \div L  r == j % L
<1>1. L \in Nat /\ L > 0 /\ Lane = 0 .. L - 1
  BY Parameters
<1>2. q \in Int /\ r \in 0 .. L - 1 /\ j = L * q + r
  BY <1>1
<1> HIDE DEF q, r
<1>3. q >= 0
  <2>1. SUFFICES ASSUME q <= -1 PROVE FALSE
    BY <1>2
  <2>2. L * q <= L * (-1) /\ L * (-1) = -L
    BY <1>1, <1>2, <2>1
  <2> QED BY <1>1, <1>2, <2>2
<1>4. L * q = q * L
  BY <1>1, <1>2
<1>5. q \in Nat /\ r \in Lane /\ j = q * L + r
  BY <1>1, <1>2, <1>3, <1>4
<1> QED BY <1>5 DEF q, r

(* Vectors in order: the limbs of a lower one come first. *)
LEMMA VectorsInOrder ==
  ASSUME NEW k \in Nat, NEW nv \in Nat, k < nv
  PROVE  (k + 1) * L <= nv * L
<1>1. L \in Nat /\ k + 1 <= nv
  BY Parameters
<1> QED BY <1>1

(* A limb of vector nv is one of its lanes. *)
LEMMA LimbOfVector ==
  ASSUME NEW nv \in Nat, NEW j \in Nat, nv * L <= j, j < (nv + 1) * L
  PROVE  \E l \in Lane : j = nv * L + l
<1>1. nv * L \in Nat /\ (nv + 1) * L = nv * L + L /\ L \in Nat /\ Lane = 0 .. L - 1
  BY VectorLimbs, Parameters
<1> DEFINE l == j - nv * L
<1>2. l \in Lane /\ j = nv * L + l
  BY <1>1
<1> QED BY <1>2

LEMMA TopOf ==
  ASSUME NEW s \in 1 .. MaxLimbs
  PROVE  /\ (s - 1) \div L \in 0 .. Vectors - 1 /\ (s - 1) % L \in Lane
         /\ LimbsTo((s - 1) \div L, (s - 1) % L) = s
<1> DEFINE j == s - 1  q == j \div L  r == j % L
<1>1. j \in Nat /\ j < Size /\ j + 1 = s
  BY AreaRoom
<1>2. q \in Nat /\ r \in Lane /\ j = q * L + r
  <2> HIDE DEF j
  <2> QED BY <1>1, LimbParts
<1> HIDE DEF j, q, r
<1>3. q < Vectors
  <2>1. SUFFICES ASSUME Vectors <= q PROVE FALSE
    BY <1>2, AreaRoom
  <2>2. L \in Nat /\ Vectors \in Nat /\ r \in Nat
    BY <1>2, AreaRoom, Parameters
  <2>3. Vectors * L <= q * L
    BY <1>2, <2>1, <2>2
  <2>4. q * L \in Nat /\ Size = Vectors * L /\ Size \in Nat
    BY <1>2, <2>2, AreaRoom DEF Size
  <2> QED BY <1>1, <1>2, <2>2, <2>3, <2>4
<1>4. q * L + r + 1 = s
  BY <1>1, <1>2
<1>5. q \in 0 .. Vectors - 1 /\ r \in Lane /\ LimbsTo(q, r) = s
  BY <1>2, <1>3, <1>4, AreaRoom DEF LimbsTo
<1> QED BY <1>5 DEF j, q, r

LEMMA CountBounds ==
  ASSUME NEW nv \in 0 .. Vectors - 1, NEW t \in Lane
  PROVE  /\ LimbsTo(nv, t) \in Nat /\ nv * L < LimbsTo(nv, t) /\ LimbsTo(nv, t) <= (nv + 1) * L
         /\ LimbsTo(nv, t) <= Size /\ nv * L \in Nat /\ LimbsTo(nv, t) = nv * L + (t + 1)
         /\ t = L - 1 => LimbsTo(nv, t) = (nv + 1) * L
<1>1. nv \in Nat /\ nv < Vectors /\ L \in Nat /\ t \in Nat /\ t < L
  BY AreaRoom, Parameters
<1>2. nv * L \in Nat /\ (nv + 1) * L = nv * L + L /\ (nv + 1) * L <= Size /\ Size \in Nat
  BY <1>1, VectorLimbs, AreaRoom
<1> QED BY <1>1, <1>2 DEF LimbsTo

-----------------------------------------------------------------------------
(* An operand, its vectors, and the result *)

(* An operand without what lies past it. *)
Full(f, k) == [j \in Limbs |-> IF j < k THEN f[j] ELSE 0]
VectorOf(f, k) == [l \in Lane |-> f[k * L + l]]
TopEmpty(f, nv, t) == \A j \in Limbs : LimbsTo(nv, t) <= j /\ j < (nv + 1) * L => f[j] = 0
SameFrom(f, g, k) == \A j \in Limbs : k <= j => f[j] = g[j]

LEMMA FullDigits ==
  ASSUME NEW f, DigitLimbs(f), NEW k \in Nat, k <= MaxLimbs
  PROVE  /\ DigitLimbs(Full(f, k)) /\ IntLimbs(Full(f, k), Size)
         /\ Number(Full(f, k), Size, B) = Number(f, k, B)
         /\ Number(Full(f, k), Size, B) \in Int
         /\ \A nv \in k .. Size : Number(Full(f, k), nv, B) = Number(f, k, B)
<1> DEFINE g == Full(f, k)
<1>1. \A j \in Limbs : g[j] = IF j < k THEN f[j] ELSE 0
  BY DEF Full
<1> HIDE DEF g
<1>2. B \in Nat /\ B > 0 /\ Size \in Nat /\ Limbs = 0 .. Size - 1 /\ k \in 0 .. Size
  BY AreaRoom, Parameters
<1>3. \A j \in 0 .. Size - 1 : g[j] \in 0 .. B - 1 /\ g[j] \in Int
  BY <1>1, <1>2 DEF DigitLimbs
<1>4. ASSUME NEW nv \in k .. Size
      PROVE  Number(g, nv, B) = Number(f, k, B) /\ Number(g, nv, B) \in Int
  <2>1. nv \in Nat /\ k \in 0 .. nv /\ IntLimbs(g, nv)
    BY <1>2, <1>3 DEF IntLimbs
  <2>2. ZeroFrom(g, k, nv) /\ SameBelow(g, f, k)
    BY <1>1, <1>2 DEF ZeroFrom, SameBelow
  <2> QED BY <1>2, <2>1, <2>2, NumberOfLow
<1>5. Size \in k .. Size
  BY <1>2
<1> QED BY <1>2, <1>3, <1>4, <1>5 DEF g, DigitLimbs, IntLimbs

LEMMA VectorDigits ==
  ASSUME NEW f, DigitLimbs(f), NEW k \in 0 .. Vectors - 1
  PROVE  DigitLanes(VectorOf(f, k)) /\ \A l \in Lane : VectorOf(f, k)[l] = f[k * L + l]
<1>1. k \in Nat /\ k < Vectors
  BY AreaRoom
<1>2. \A l \in Lane : k * L + l \in Limbs
  BY <1>1, VectorLimbs
<1> QED BY <1>2 DEF VectorOf, DigitLanes, DigitLimbs

LEMMA DigitsAreInts ==
  ASSUME NEW f, DigitLimbs(f), NEW nv \in Nat, nv <= Size
  PROVE  IntLimbs(f, nv)
BY AreaRoom DEF DigitLimbs, IntLimbs

-----------------------------------------------------------------------------
(* The inductive invariant *)

X == Full(before[big], size[big])
Y == Full(before[small], size[small])

CarryShape ==
  /\ op \in {"cmp_and_sub", "add_carry"} /\ target \in Arrays /\ extra \in BOOLEAN
  /\ op = "cmp_and_sub" => extra = FALSE
  /\ size["a"] \in 1 .. MaxLimbs /\ size["b"] \in 1 .. MaxLimbs
  /\ \/ big = "a" /\ small = "b" /\ sig = FALSE
     \/ big = "b" /\ small = "a" /\ sig = TRUE
  /\ na \in 0 .. Vectors - 1 /\ nb \in 0 .. na /\ at \in Lane /\ bt \in Lane
  /\ vi \in Nat /\ carry \in {0, 1}
  /\ mem \in [Arrays -> [Limbs -> 0 .. B - 1]] /\ before \in [Arrays -> [Limbs -> 0 .. B - 1]]

(* The vectors below na and nb, cut at at and bt, hold all that is left to see. *)
Aligned ==
  /\ LimbsTo(na, at) <= size[big] /\ LimbsTo(nb, bt) <= size[small]
  /\ TopEmpty(X, na, at) /\ TopEmpty(Y, nb, bt)
  /\ nb < na => LimbsTo(nb, bt) = size[small]

(* While the operands are compared, all that lies above is equal. *)
Scanning ==
  pc \in {"above", "compare"} =>
    /\ op = "cmp_and_sub" /\ vi = 0 /\ carry = 0 /\ ret = 0 /\ mem = before
    /\ Aligned
    /\ SameFrom(X, Y, (na + 1) * L)
    /\ pc = "compare" => na = nb

(* The larger operand has been found. *)
Ready ==
  /\ SameFrom(X, Y, LimbsTo(na, at))
  /\ op = "cmp_and_sub" => Number(Y, Size, B) < Number(X, Size, B)
  /\ op = "add_carry" =>
       LimbsTo(na, at) = size[big] /\ LimbsTo(nb, bt) = size[small] /\ size[big] = Longer

(* From limb k on, and outside the target, nothing has been written. *)
Kept(k) ==
  \A name \in Arrays : \A j \in Limbs :
    name # target \/ k <= j => mem[name][j] = before[name][j]

Combining ==
  pc = "combine" =>
    /\ vi <= na /\ Aligned /\ Ready /\ Kept(vi * L)
    /\ Balanced(mem[target], X, Y, Direction(op), carry, vi * L)

Spilling ==
  pc = "spill" =>
    /\ op = "add_carry" /\ extra = TRUE /\ at = L - 1 /\ vi = na + 1
    /\ LimbsTo(na, at) = size[big] /\ size[big] = Longer /\ ret = Longer + 1
    /\ Number(mem[target], vi * L, B) + Power(B, vi * L) * carry = A + D

CarryInv ==
  /\ CarryShape /\ Scanning /\ Combining /\ Spilling
  /\ pc \in {"above", "compare", "combine", "spill", "done"}
  /\ pc \in {"spill", "done"} => OnlyResultWritten
  /\ RightWhenDone

-----------------------------------------------------------------------------
(* Stores and loads of one vector *)

ArrayTypes == mem \in [Arrays -> [Limbs -> 0 .. B - 1]]

LEMMA StoreRight ==
  ASSUME NEW k \in Nat, NEW v, DigitLanes(v), NEW t \in Lane, ArrayTypes, target \in Arrays,
         Store(k, v, UpTo(t))
  PROVE  /\ ArrayTypes'
         /\ \A name \in Arrays : name # target => mem'[name] = mem[name]
         /\ \A l \in 0 .. t : k * L + l \in Limbs => mem'[target][k * L + l] = v[l]
         /\ \A j \in Limbs : j < k * L \/ k * L + t + 1 <= j => mem'[target][j] = mem[target][j]
<1> DEFINE new == [j \in Limbs |-> IF j \div L = k /\ (j % L) \in UpTo(t) THEN v[j % L]
                                   ELSE mem[target][j]]
<1>1. mem' = [mem EXCEPT ![target] = new]
  BY DEF Store
<1>2. L \in Nat /\ L > 0 /\ Lane = 0 .. L - 1 /\ t \in Nat /\ t < L
  BY Parameters
<1>3. \A j \in Limbs : j \in Nat
  BY DEF Limbs
<1>4. \A l \in 0 .. t : l \in Lane
  BY <1>2
<1>5. new \in [Limbs -> 0 .. B - 1]
  <2>1. ASSUME NEW j \in Limbs PROVE new[j] \in 0 .. B - 1
    BY <1>4 DEF UpTo, DigitLanes, ArrayTypes
  <2> QED BY <2>1
<1>6. mem'[target] = new /\ \A name \in Arrays : name # target => mem'[name] = mem[name]
  BY <1>1 DEF ArrayTypes
<1>7. ArrayTypes'
  <2> HIDE DEF new
  <2>1. mem' \in [Arrays -> [Limbs -> 0 .. B - 1]]
    BY <1>1, <1>5 DEF ArrayTypes
  <2>2. Arrays' = Arrays /\ Limbs' = Limbs
    BY DEF Arrays, Limbs, Vectors
  <2> QED BY <2>1, <2>2 DEF ArrayTypes
<1>8. ASSUME NEW l \in 0 .. t, k * L + l \in Limbs PROVE new[k * L + l] = v[l]
  <2>1. (k * L + l) \div L = k /\ (k * L + l) % L = l
    BY <1>4, VectorLimbs
  <2> QED BY <1>8, <2>1 DEF UpTo
<1>9. ASSUME NEW j \in Limbs, j < k * L \/ k * L + t + 1 <= j PROVE new[j] = mem[target][j]
  <2> DEFINE q == j \div L  r == j % L
  <2>1. q \in Nat /\ r \in Nat /\ j = q * L + r /\ j \in Nat
    BY SMTT(40), <1>2, <1>3, LimbParts
  <2> SUFFICES ~(q = k /\ r \in UpTo(t))
    OBVIOUS
  <2> HIDE DEF q, r
  <2>2. SUFFICES ASSUME q = k, r <= t PROVE FALSE
    BY <2>1 DEF UpTo
  <2>3. k * L \in Nat
    BY <1>2
  <2> QED BY <1>2, <1>9, <2>1, <2>2, <2>3
<1> QED BY <1>6, <1>7, <1>8, <1>9

(* The masked load of a vector that is still as it was passed in. *)
LEMMA LoadRight ==
  ASSUME NEW name, NEW nv \in 0 .. Vectors - 1, NEW t \in Lane, NEW s \in Nat, LimbsTo(nv, t) <= s,
         TopEmpty(Full(before[name], s), nv, t),
         \A j \in Limbs : nv * L <= j => mem[name][j] = before[name][j]
  PROVE  LoadVector(name, nv, UpTo(t)) = VectorOf(Full(before[name], s), nv)
<1> DEFINE F == Full(before[name], s)
<1>1. \A j \in Limbs : F[j] = IF j < s THEN before[name][j] ELSE 0
  BY DEF Full
<1>2. TopEmpty(F, nv, t)
  OBVIOUS
<1> HIDE DEF F
<1>3. nv \in Nat /\ nv < Vectors /\ L \in Nat /\ Lane = 0 .. L - 1 /\ t \in Nat
  BY AreaRoom, Parameters
<1>4. ASSUME NEW l \in Lane PROVE LoadVector(name, nv, UpTo(t))[l] = F[nv * L + l]
  <2> DEFINE j == nv * L + l
  <2>1. j \in Limbs /\ j \in Nat /\ j < (nv + 1) * L /\ nv * L \in Nat
    BY <1>3, VectorLimbs
  <2>2. nv * L <= j /\ LimbsTo(nv, t) = nv * L + t + 1 /\ LimbsTo(nv, t) \in Nat /\ l \in Nat
    BY SMTT(40), <1>3, <2>1 DEF LimbsTo
  <2>3. CASE l <= t
    <3>1. j < s
      BY SMTT(60), <1>3, <2>1, <2>2, <2>3
    <3>2. LoadVector(name, nv, UpTo(t))[l] = mem[name][j]
      BY <2>2, <2>3 DEF LoadVector, UpTo
    <3> QED BY <1>1, <2>1, <2>2, <3>1, <3>2
  <2>4. CASE ~(l <= t)
    <3>1. LimbsTo(nv, t) <= j
      BY <1>3, <2>1, <2>2, <2>4
    <3>2. F[j] = 0
      BY <1>2, <2>1, <3>1 DEF TopEmpty
    <3>3. LoadVector(name, nv, UpTo(t))[l] = 0
      BY <2>2, <2>4 DEF LoadVector, UpTo
    <3> QED BY <3>2, <3>3
  <2> QED BY <2>3, <2>4
<1>5. LoadVector(name, nv, UpTo(t)) = VectorOf(F, nv)
  BY <1>4 DEF LoadVector, VectorOf
<1> QED BY <1>5 DEF F

(* A whole vector below the operand's length. *)
LEMMA LoadWhole ==
  ASSUME NEW name, NEW nv \in 0 .. Vectors - 1, NEW s \in Nat, (nv + 1) * L <= s,
         \A j \in Limbs : nv * L <= j => mem[name][j] = before[name][j]
  PROVE  LoadVector(name, nv, Lane) = VectorOf(Full(before[name], s), nv)
<1> DEFINE t == L - 1
<1>1. t \in Lane /\ UpTo(t) = Lane /\ t = L - 1
  BY Parameters DEF UpTo
<1> HIDE DEF t
<1>2. LimbsTo(nv, t) = (nv + 1) * L
  BY <1>1, CountBounds
<1>3. TopEmpty(Full(before[name], s), nv, t)
  <2>1. nv * L \in Nat /\ (nv + 1) * L \in Int
    BY AreaRoom, Parameters
  <2> QED BY <1>2, <2>1 DEF TopEmpty, Limbs
<1> QED BY <1>1, <1>2, <1>3, LoadRight

(* Above the operand. *)
LEMMA VectorPast ==
  ASSUME NEW f, NEW s \in Nat, NEW nv \in 0 .. Vectors - 1, s <= nv * L
  PROVE  VectorOf(Full(f, s), nv) = Zero
<1>1. nv \in Nat /\ nv < Vectors /\ L \in Nat /\ Lane = 0 .. L - 1
  BY AreaRoom, Parameters
<1>2. ASSUME NEW l \in Lane PROVE VectorOf(Full(f, s), nv)[l] = 0
  <2> DEFINE j == nv * L + l
  <2>1. j \in Limbs /\ nv * L \in Nat
    BY <1>1, VectorLimbs
  <2>2. ~(j < s)
    BY <1>1, <2>1
  <2> QED BY <2>1, <2>2 DEF Full, VectorOf
<1> QED BY <1>2 DEF VectorOf, Zero

(* The top differing lane of a vector above which all is equal. *)
LEMMA Decided ==
  ASSUME NEW f, NEW g, DigitLimbs(f), DigitLimbs(g), NEW nv \in 0 .. Vectors - 1, NEW m \in Lane,
         SameFrom(f, g, (nv + 1) * L), f[nv * L + m] < g[nv * L + m],
         \A l \in Lane : l > m => f[nv * L + l] = g[nv * L + l],
         NEW t \in Lane, TopEmpty(g, nv, t)
  PROVE  Number(f, Size, B) < Number(g, Size, B) /\ SameFrom(f, g, LimbsTo(nv, t))
<1> DEFINE p == nv * L + m
<1>1. nv \in Nat /\ nv < Vectors /\ L \in Nat /\ Lane = 0 .. L - 1 /\ m \in Nat /\ t \in Nat
  BY AreaRoom, Parameters
<1>2. p \in Limbs /\ nv * L \in Nat /\ p < (nv + 1) * L /\ p = nv * L + m
  BY <1>1, VectorLimbs
<1>3. f[p] < g[p] /\ f[p] \in 0 .. B - 1 /\ g[p] \in 0 .. B - 1
  BY <1>2 DEF DigitLimbs
<1> HIDE DEF p
<1>4. Size \in Nat /\ Limbs = 0 .. Size - 1
  BY AreaRoom
<1>5. ASSUME NEW j \in Limbs, p < j PROVE f[j] = g[j]
  <2>1. CASE (nv + 1) * L <= j
    BY <2>1 DEF SameFrom
  <2>2. CASE j < (nv + 1) * L
    <3>1. j \in Nat /\ nv * L <= j
      BY <1>1, <1>2, <1>4, <1>5
    <3>2. PICK l \in Lane : j = nv * L + l
      BY <1>1, <2>2, <3>1, LimbOfVector
    <3>3. l > m
      BY <1>1, <1>2, <1>5, <3>2
    <3> QED BY <3>2, <3>3
  <2>3. (nv + 1) * L \in Int /\ j \in Int
    BY <1>1, <1>4
  <2> QED BY <2>1, <2>2, <2>3
<1>6. Number(f, Size, B) < Number(g, Size, B)
  <2> DEFINE z == Size
  <2>1. /\ z \in Nat /\ p \in 0 .. z - 1 /\ B \in Nat /\ B > 0
        /\ \A j \in 0 .. z - 1 : f[j] \in 0 .. B - 1 /\ g[j] \in 0 .. B - 1
        /\ \A j \in p + 1 .. z - 1 : f[j] = g[j]
    BY <1>2, <1>4, <1>5, Parameters DEF DigitLimbs
  <2> HIDE DEF z
  <2>2. Number(f, z, B) < Number(g, z, B)
    BY <1>3, <2>1, TopDecides
  <2> QED BY <2>2 DEF z
<1>7. p < LimbsTo(nv, t)
  <2>1. SUFFICES ASSUME LimbsTo(nv, t) <= p PROVE FALSE
    BY <1>1, <1>2, <1>4, CountBounds
  <2>2. g[p] = 0
    BY <1>2, <2>1 DEF TopEmpty
  <2> QED BY <1>3, <2>2, Parameters
<1>8. SameFrom(f, g, LimbsTo(nv, t))
  <2>1. ASSUME NEW j \in Limbs, LimbsTo(nv, t) <= j PROVE p < j
    BY <1>2, <1>4, <1>7, <2>1, CountBounds
  <2> QED BY <1>5, <2>1 DEF SameFrom
<1> QED BY <1>6, <1>8

-----------------------------------------------------------------------------
(* The operands of the invariant *)

LEMMA ShapeFacts ==
  ASSUME CarryShape
  PROVE  /\ size[big] \in 1 .. MaxLimbs /\ size[small] \in 1 .. MaxLimbs
         /\ size[big] \in Nat /\ size[small] \in Nat /\ size[big] < Size /\ size[small] < Size
         /\ big \in Arrays /\ small \in Arrays
         /\ DigitLimbs(before[big]) /\ DigitLimbs(before[small])
         /\ DigitLimbs(mem[big]) /\ DigitLimbs(mem[small]) /\ DigitLimbs(mem[target])
         /\ na \in Nat /\ nb \in Nat /\ na < Vectors /\ nb <= na
<1>1. big \in Arrays /\ small \in Arrays /\ target \in Arrays
  BY DEF CarryShape, Arrays
<1>2. size[big] \in 1 .. MaxLimbs /\ size[small] \in 1 .. MaxLimbs
  BY DEF CarryShape
<1>3. \A name \in Arrays : DigitLimbs(mem[name]) /\ DigitLimbs(before[name])
  BY DEF CarryShape, DigitLimbs
<1>4. na \in 0 .. Vectors - 1 /\ nb \in 0 .. na
  BY DEF CarryShape
<1>5. na \in Nat /\ nb \in Nat /\ na < Vectors /\ nb <= na
  BY <1>4, AreaRoom
<1>6. size[big] \in Nat /\ size[small] \in Nat /\ size[big] < Size /\ size[small] < Size
  BY <1>2, AreaRoom
<1> QED BY <1>1, <1>2, <1>3, <1>5, <1>6

LEMMA VectorNumber ==
  ASSUME CarryShape, Combining, pc = "combine"
  PROVE  vi \in 0 .. Vectors - 1 /\ vi <= na /\ vi \in Nat /\ vi < Vectors
<1>1. vi <= na /\ vi \in Nat
  BY DEF Combining, CarryShape
<1> QED BY <1>1, ShapeFacts, AreaRoom

LEMMA OperandDigits ==
  ASSUME CarryShape
  PROVE  /\ DigitLimbs(X) /\ DigitLimbs(Y) /\ IntLimbs(X, Size) /\ IntLimbs(Y, Size)
         /\ \A nv \in size[big] .. Size : Number(X, nv, B) = Number(before[big], size[big], B)
         /\ \A nv \in size[small] .. Size : Number(Y, nv, B) = Number(before[small], size[small], B)
         /\ Number(X, Size, B) = Number(before[big], size[big], B) /\ Number(X, Size, B) \in Int
         /\ Number(Y, Size, B) = Number(before[small], size[small], B) /\ Number(Y, Size, B) \in Int
<1>1. size[big] \in Nat /\ size[big] <= MaxLimbs /\ size[small] \in Nat /\ size[small] <= MaxLimbs
  BY ShapeFacts
<1>2. DigitLimbs(before[big]) /\ DigitLimbs(before[small])
  BY ShapeFacts
<1> QED BY <1>1, <1>2, FullDigits DEF X, Y

(* The loads of a step are the vectors of the operands. *)
LEMMA LoadedX ==
  ASSUME CarryShape, Combining, pc = "combine"
  PROVE  LoadVector(big, vi, IF vi = na THEN UpTo(at) ELSE Lane) = VectorOf(X, vi)
<1>1. vi \in 0 .. Vectors - 1 /\ vi <= na /\ vi \in Nat /\ na \in Nat /\ big \in Arrays /\ size[big] \in Nat
  BY ShapeFacts, VectorNumber
<1>2. LimbsTo(na, at) <= size[big] /\ TopEmpty(X, na, at) /\ at \in Lane /\ na \in 0 .. Vectors - 1
  BY DEF Combining, Aligned, CarryShape
<1>3. \A j \in Limbs : vi * L <= j => mem[big][j] = before[big][j]
  BY <1>1 DEF Combining, Kept
<1>4. CASE vi = na
  <2>1. LoadVector(big, na, UpTo(at)) = VectorOf(X, na)
    BY <1>1, <1>2, <1>3, <1>4, LoadRight DEF X
  <2> QED BY <1>4, <2>1
<1>5. CASE vi # na
  <2>1. (vi + 1) * L <= na * L /\ na * L \in Nat /\ na * L < LimbsTo(na, at) /\ (vi + 1) * L \in Int
        /\ LimbsTo(na, at) \in Nat
    <3>1. (vi + 1) * L <= na * L
      BY <1>1, <1>5, VectorsInOrder
    <3>2. na * L \in Nat /\ na * L < LimbsTo(na, at) /\ LimbsTo(na, at) \in Nat
      BY <1>2, CountBounds
    <3> QED BY <1>1, <3>1, <3>2, Parameters
  <2>2. (vi + 1) * L <= size[big]
    BY <1>1, <1>2, <2>1
  <2>3. LoadVector(big, vi, Lane) = VectorOf(X, vi)
    BY <1>1, <1>3, <2>2, LoadWhole DEF X
  <2> QED BY <1>5, <2>3
<1> QED BY <1>4, <1>5

LEMMA LoadedY ==
  ASSUME CarryShape, Combining, pc = "combine"
  PROVE  (IF vi > nb THEN Zero ELSE LoadVector(small, vi, IF vi = nb THEN UpTo(bt) ELSE Lane)) = VectorOf(Y, vi)
<1>1. vi \in 0 .. Vectors - 1 /\ vi <= na /\ vi \in Nat /\ na \in Nat /\ small \in Arrays /\ size[small] \in Nat
      /\ nb \in Nat /\ nb <= na
  BY ShapeFacts, VectorNumber
<1>2. LimbsTo(nb, bt) <= size[small] /\ TopEmpty(Y, nb, bt) /\ bt \in Lane /\ nb \in 0 .. Vectors - 1
      /\ (nb < na => LimbsTo(nb, bt) = size[small])
  BY <1>1, ShapeFacts, AreaRoom DEF Combining, Aligned, CarryShape
<1>3. \A j \in Limbs : vi * L <= j => mem[small][j] = before[small][j]
  BY <1>1 DEF Combining, Kept
<1>4. CASE vi = nb
  <2>1. LoadVector(small, nb, UpTo(bt)) = VectorOf(Y, nb)
    BY <1>1, <1>2, <1>3, <1>4, LoadRight DEF Y
  <2> QED BY <1>1, <1>4, <2>1
<1>5. CASE vi < nb
  <2>1. (vi + 1) * L <= nb * L /\ nb * L \in Nat /\ nb * L < LimbsTo(nb, bt) /\ (vi + 1) * L \in Int
        /\ LimbsTo(nb, bt) \in Nat
    <3>1. (vi + 1) * L <= nb * L
      BY <1>1, <1>5, VectorsInOrder
    <3>2. nb * L \in Nat /\ nb * L < LimbsTo(nb, bt) /\ LimbsTo(nb, bt) \in Nat
      BY <1>2, CountBounds
    <3> QED BY <1>1, <3>1, <3>2, Parameters
  <2>2. (vi + 1) * L <= size[small]
    BY <1>1, <1>2, <2>1
  <2>3. LoadVector(small, vi, Lane) = VectorOf(Y, vi)
    BY <1>1, <1>3, <2>2, LoadWhole DEF Y
  <2> QED BY <1>1, <1>5, <2>3
<1>6. CASE nb < vi
  <2>1. size[small] <= vi * L
    <3>1. (nb + 1) * L <= vi * L
      BY <1>1, <1>6, VectorsInOrder
    <3>2. LimbsTo(nb, bt) <= (nb + 1) * L /\ LimbsTo(nb, bt) = size[small]
      BY <1>1, <1>2, <1>6, CountBounds
    <3>3. (nb + 1) * L \in Int /\ vi * L \in Int
      BY <1>1, Parameters
    <3> QED BY <1>1, <3>1, <3>2, <3>3
  <2>2. VectorOf(Y, vi) = Zero
    BY <1>1, <2>1, VectorPast DEF Y
  <2> QED BY <1>1, <1>6, <2>2
<1> QED BY <1>1, <1>4, <1>5, <1>6

(* What one vector adds to the balance, up to lane nv of those stored. *)
LEMMA VectorAdds ==
  ASSUME CarryShape, Combining, pc = "combine", NEW v, NEW t \in Lane, Store(vi, v, UpTo(t)), NEW k,
         Rippled(k, VectorOf(X, vi), VectorOf(Y, vi), v, Direction(op), carry),
         NEW nv \in 0 .. L, nv <= t + 1
  PROVE  Balanced(mem'[target], X, Y, Direction(op), k[nv], vi * L + nv)
<1> DEFINE M == mem[target]  N == mem'[target]  s == Direction(op)  m == vi * L  a == VectorOf(X, vi)
           b == VectorOf(Y, vi)
<1>1. /\ vi \in 0 .. Vectors - 1 /\ vi \in Nat /\ vi < Vectors /\ target \in Arrays /\ ArrayTypes
      /\ carry \in {0, 1} /\ s \in {1, -1} /\ nv \in Nat /\ t \in Nat /\ L \in Nat
  <2>1. target \in Arrays /\ ArrayTypes /\ carry \in {0, 1}
    BY DEF CarryShape, ArrayTypes
  <2>2. s \in {1, -1}
    BY DEF Direction
  <2>3. nv \in Nat /\ t \in Nat /\ L \in Nat
    BY Parameters
  <2> QED BY <2>1, <2>2, <2>3, VectorNumber
<1>2. Balanced(M, X, Y, s, carry, m)
  BY DEF Combining
<1>3. /\ k[nv] \in {0, 1} /\ k[0] = carry /\ DigitLanes(v)
  BY DEF Rippled
<1>4. DigitLimbs(X) /\ DigitLimbs(Y) /\ DigitLimbs(M)
  BY OperandDigits, ShapeFacts
<1>5. /\ DigitLanes(a) /\ DigitLanes(b)
      /\ \A l \in Lane : a[l] = X[m + l] /\ b[l] = Y[m + l]
  BY <1>1, <1>4, VectorDigits
<1>6. /\ ArrayTypes'
      /\ \A l \in 0 .. t : m + l \in Limbs => N[m + l] = v[l]
      /\ \A j \in Limbs : j < m => N[j] = M[j]
  BY <1>1, <1>3, StoreRight
<1>7. DigitLimbs(N)
  <2>1. mem' \in [Arrays -> [Limbs -> 0 .. B - 1]]
    BY <1>6 DEF ArrayTypes, Arrays, Limbs, Vectors
  <2> QED BY <1>1, <2>1 DEF DigitLimbs
<1>8. m \in Nat /\ m + nv <= Size /\ m <= Size /\ \A l \in Lane : m + l \in Limbs
  <2>1. m \in Nat /\ m + L = (vi + 1) * L /\ (vi + 1) * L <= Size /\ \A l \in Lane : m + l \in Limbs
    BY <1>1, VectorLimbs
  <2> HIDE DEF m
  <2> QED BY <1>1, <2>1, AreaRoom
<1>9. \A l \in 0 .. nv - 1 : l \in Lane /\ l \in 0 .. t
  BY <1>1, Parameters
<1> HIDE DEF M, N, s, m, a, b
<1>10. Number(v, nv, B) + s * (Power(B, nv) * k[nv]) = Number(a, nv, B) + s * Number(b, nv, B) + s * carry
  BY <1>1, <1>5, RippledNumber DEF a, b, s
<1>11. Piece(v, N, m, nv) /\ Piece(a, X, m, nv) /\ Piece(b, Y, m, nv)
  BY <1>5, <1>6, <1>8, <1>9 DEF Piece
<1>12. IntLimbs(N, m + nv) /\ IntLimbs(X, m + nv) /\ IntLimbs(Y, m + nv)
  <2> DEFINE z == m + nv
  <2>1. z \in Nat /\ z <= Size
    BY <1>1, <1>8
  <2> HIDE DEF z
  <2>2. IntLimbs(N, z) /\ IntLimbs(X, z) /\ IntLimbs(Y, z)
    BY <1>4, <1>7, <2>1, DigitsAreInts
  <2> QED BY <2>2 DEF z
<1>13. Balanced(N, X, Y, s, carry, m)
  <2>1. \A j \in 0 .. m - 1 : j \in Limbs
    BY <1>8, AreaRoom
  <2>2. \A j \in 0 .. m - 1 : N[j] \in Int /\ N[j] = M[j]
    BY <1>6, <1>7, <1>8, <2>1, Parameters DEF DigitLimbs
  <2>3. Number(N, m, B) = Number(M, m, B)
    BY <1>8, <2>2, NumberOfSame, Parameters
  <2> QED BY <1>2, <2>3 DEF Balanced
<1>14. Balanced(N, X, Y, s, k[nv], m + nv)
  BY <1>1, <1>3, <1>8, <1>10, <1>11, <1>12, <1>13, BalanceExtends
<1> QED BY <1>14 DEF N, s, m

-----------------------------------------------------------------------------
(* The steps *)

LEMMA TopsInOrder ==
  ASSUME NEW s \in 1 .. MaxLimbs, NEW t \in 1 .. MaxLimbs, t <= s
  PROVE  (t - 1) \div L <= (s - 1) \div L
<1> DEFINE p == (s - 1) \div L  u == (s - 1) % L  q == (t - 1) \div L  v == (t - 1) % L
<1>1. p \in 0 .. Vectors - 1 /\ u \in Lane /\ LimbsTo(p, u) = s
  BY TopOf
<1>2. q \in 0 .. Vectors - 1 /\ v \in Lane /\ LimbsTo(q, v) = t
  BY TopOf
<1> HIDE DEF p, u, q, v
<1>3. p \in Nat /\ q \in Nat
  BY <1>1, <1>2, AreaRoom
<1>4. SUFFICES ASSUME p < q PROVE FALSE
  BY <1>3 DEF p, q
<1>5. (p + 1) * L <= q * L
  BY <1>3, <1>4, VectorsInOrder
<1>6. s <= (p + 1) * L
  BY <1>1, CountBounds
<1>7. q * L < t
  BY <1>2, CountBounds
<1>8. (p + 1) * L \in Int /\ q * L \in Int
  BY <1>3, Parameters
<1> QED BY <1>5, <1>6, <1>7, <1>8

LEMMA TopEmptyAt ==
  ASSUME NEW f, NEW s \in Nat, NEW nv, NEW t, LimbsTo(nv, t) = s
  PROVE  TopEmpty(Full(f, s), nv, t)
<1>1. ASSUME NEW j \in Limbs, s <= j PROVE Full(f, s)[j] = 0
  <2>1. j \in Int
    BY AreaRoom
  <2> QED BY <1>1, <2>1 DEF Full
<1> QED BY <1>1 DEF TopEmpty

LEMMA BothEmptyFrom ==
  ASSUME NEW f, NEW g, NEW s \in Nat, NEW t \in Nat, NEW k \in Nat, s <= k, t <= k
  PROVE  SameFrom(Full(f, s), Full(g, t), k)
<1>1. ASSUME NEW j \in Limbs, k <= j PROVE Full(f, s)[j] = Full(g, t)[j]
  <2>1. j \in Int /\ ~(j < s) /\ ~(j < t)
    BY <1>1, AreaRoom
  <2> QED BY <2>1 DEF Full
<1> QED BY <1>1 DEF SameFrom

LEMMA NumberEmpty ==
  ASSUME NEW f
  PROVE  Number(f, 0, B) = 0
<1> DEFINE z == 0
<1>1. z \in Nat /\ (\A l \in 0 .. z - 1 : f[l] \in Int) /\ B \in Nat /\ B > 0 /\ z = 0
  BY Parameters
<1> HIDE DEF z
<1>2. Number(f, 0, B) = 0
  BY <1>1, NumberSteps
<1> QED BY <1>2

LEMMA InitTypes ==
  ASSUME CarryInit
  PROVE  /\ mem \in [Arrays -> [Limbs -> 0 .. B - 1]]
         /\ op \in {"cmp_and_sub", "add_carry"} /\ target \in Arrays /\ extra \in BOOLEAN
         /\ op = "cmp_and_sub" => extra = FALSE
         /\ size["a"] \in 1 .. MaxLimbs /\ size["b"] \in 1 .. MaxLimbs
         /\ before = mem
<1>1. ASSUME NEW k \in 1 .. MaxLimbs, NEW v \in Numbers(k) PROVE v \in [Limbs -> 0 .. B - 1]
  <2>1. PICK w \in [0 .. k - 1 -> Digits] : v = [j \in Limbs |-> IF j < k THEN w[j] ELSE Foreign]
    BY DEF Numbers
  <2>2. ASSUME NEW j \in Limbs PROVE (IF j < k THEN w[j] ELSE Foreign) \in 0 .. B - 1
    <3>1. j \in Nat /\ Foreign \in 0 .. B - 1
      BY AreaRoom, Parameters DEF Foreign, MASK52
    <3>2. CASE j < k
      <4>1. w[j] \in Digits
        BY <3>1, <3>2
      <4> QED BY <3>2, <4>1, CarryOpsAssumption
    <3> QED BY <3>1, <3>2
  <2> QED BY <2>1, <2>2
<1>2. size["a"] \in 1 .. MaxLimbs /\ size["b"] \in 1 .. MaxLimbs
  BY DEF CarryInit
<1>3. PICK va \in Numbers(size["a"]), vb \in Numbers(size["b"]) :
        mem = [a |-> va, b |-> vb, r |-> [j \in Limbs |-> Foreign]]
  BY DEF CarryInit
<1>4. va \in [Limbs -> 0 .. B - 1] /\ vb \in [Limbs -> 0 .. B - 1]
  BY <1>1, <1>2
<1>5. [j \in Limbs |-> Foreign] \in [Limbs -> 0 .. B - 1]
  BY Parameters DEF Foreign, MASK52
<1>6. mem \in [Arrays -> [Limbs -> 0 .. B - 1]]
  <2> DEFINE S == [Limbs -> 0 .. B - 1]  w == [j \in Limbs |-> Foreign]
  <2>1. va \in S /\ vb \in S /\ w \in S /\ mem = [a |-> va, b |-> vb, r |-> w]
    BY <1>3, <1>4, <1>5
  <2> HIDE DEF S, w
  <2>2. mem \in [{"a", "b", "r"} -> S]
    BY <2>1
  <2> QED BY <2>2 DEF S, Arrays
<1> QED BY <1>2, <1>6 DEF CarryInit

LEMMA InitGood == CarryInit => CarryInv
<1> SUFFICES ASSUME CarryInit PROVE CarryInv
  OBVIOUS
<1>1. /\ mem \in [Arrays -> [Limbs -> 0 .. B - 1]] /\ before = mem
      /\ op \in {"cmp_and_sub", "add_carry"} /\ target \in Arrays /\ extra \in BOOLEAN
      /\ op = "cmp_and_sub" => extra = FALSE
      /\ size["a"] \in 1 .. MaxLimbs /\ size["b"] \in 1 .. MaxLimbs
  BY InitTypes
<1>2. /\ \/ big = "a" /\ small = "b" /\ sig = FALSE
         \/ big = "b" /\ small = "a" /\ sig = TRUE
      /\ size[small] <= size[big] /\ size[big] = Longer
      /\ size[big] \in 1 .. MaxLimbs /\ size[small] \in 1 .. MaxLimbs
  <2>0. /\ big = IF size["a"] < size["b"] THEN "b" ELSE "a"
        /\ small = IF size["a"] < size["b"] THEN "a" ELSE "b"
        /\ sig = (size["a"] < size["b"])
    BY DEF CarryInit
  <2> DEFINE sa == size["a"]  sb == size["b"]
  <2>1. CASE sa < sb
    <3>1. big = "b" /\ small = "a" /\ sig = TRUE /\ Longer = sb
      BY <2>0, <2>1 DEF Longer
    <3> QED BY <1>1, <2>1, <3>1
  <2>2. CASE ~(sa < sb)
    <3>1. (sa < sb) = FALSE
      BY <2>2
    <3>2. sig = FALSE
      BY <2>0, <3>1
    <3>3. big = "a" /\ small = "b" /\ Longer = sa
      BY <2>0, <2>2 DEF Longer
    <3> QED BY <1>1, <2>2, <3>2, <3>3
  <2> QED BY <2>1, <2>2
<1>3. /\ na = (size[big] - 1) \div L /\ at = (size[big] - 1) % L
      /\ nb = (size[small] - 1) \div L /\ bt = (size[small] - 1) % L
      /\ pc = IF op = "cmp_and_sub" THEN "above" ELSE "combine"
      /\ vi = 0 /\ carry = 0 /\ ret = 0
  BY DEF CarryInit
<1>4. /\ na \in 0 .. Vectors - 1 /\ at \in Lane /\ LimbsTo(na, at) = size[big]
      /\ nb \in 0 .. Vectors - 1 /\ bt \in Lane /\ LimbsTo(nb, bt) = size[small]
      /\ nb <= na
  BY <1>2, <1>3, TopOf, TopsInOrder
<1>5. CarryShape
  <2>1. nb \in 0 .. na
    BY <1>4, AreaRoom
  <2>2. vi \in Nat /\ carry \in {0, 1}
    BY <1>3
  <2> QED BY <1>1, <1>2, <1>4, <2>1, <2>2 DEF CarryShape
<1>6. Aligned
  <2>1. size[big] \in Nat /\ size[small] \in Nat
    BY <1>2
  <2>2. TopEmpty(X, na, at) /\ TopEmpty(Y, nb, bt)
    BY <1>4, <2>1, TopEmptyAt DEF X, Y
  <2> QED BY <1>4, <2>1, <2>2 DEF Aligned
<1>7. SameFrom(X, Y, LimbsTo(na, at)) /\ SameFrom(X, Y, (na + 1) * L)
  <2>1. size[big] \in Nat /\ size[small] \in Nat /\ size[small] <= size[big]
    BY <1>2
  <2>2. size[big] <= (na + 1) * L /\ (na + 1) * L \in Nat
    BY <1>4, <2>1, CountBounds, Parameters, AreaRoom
  <2>3. SameFrom(X, Y, size[big])
    BY <2>1, BothEmptyFrom DEF X, Y
  <2>4. SameFrom(X, Y, (na + 1) * L)
    <3> DEFINE k == (na + 1) * L
    <3>1. k \in Nat /\ size[big] <= k /\ size[small] <= k
      BY <2>1, <2>2
    <3> HIDE DEF k
    <3>2. SameFrom(X, Y, k)
      BY <2>1, <3>1, BothEmptyFrom DEF X, Y
    <3> QED BY <3>2 DEF k
  <2> QED BY <1>4, <2>3, <2>4
<1>8. Scanning
  BY <1>1, <1>3, <1>6, <1>7 DEF Scanning
<1>9. Combining
  <2> SUFFICES ASSUME pc = "combine"
               PROVE  /\ vi <= na /\ Aligned /\ Ready /\ Kept(vi * L)
                      /\ Balanced(mem[target], X, Y, Direction(op), carry, vi * L)
    BY DEF Combining
  <2>1. op = "add_carry"
    BY <1>1, <1>3
  <2>2. Ready
    BY <1>2, <1>4, <1>7, <2>1 DEF Ready
  <2>3. vi * L = 0 /\ vi <= na
    BY <1>3, <1>4, Parameters, AreaRoom
  <2>4. Kept(vi * L)
    BY <1>1 DEF Kept
  <2>5. Balanced(mem[target], X, Y, Direction(op), carry, 0)
    <3> DEFINE p == Power(B, 0)
    <3>1. p \in Nat
      BY PowerPositive, Parameters
    <3> HIDE DEF p
    <3>2. Direction(op) = 1 /\ 0 + 1 * (p * 0) = 0 + 1 * 0
      BY <2>1, <3>1 DEF Direction
    <3> QED BY <1>3, <3>2, NumberEmpty DEF Balanced, p
  <2> QED BY <1>6, <2>2, <2>3, <2>4, <2>5
<1>10. Spilling /\ RightWhenDone /\ pc \in {"above", "combine"}
  BY <1>1, <1>3 DEF Spilling, RightWhenDone
<1> QED BY <1>5, <1>8, <1>9, <1>10 DEF CarryInv

LEMMA NothingYet ==
  ASSUME NEW M, NEW U, NEW V, NEW s \in {1, -1}
  PROVE  Balanced(M, U, V, s, 0, 0)
<1> DEFINE p == Power(B, 0)
<1>1. p \in Nat
  BY PowerPositive, Parameters
<1> HIDE DEF p
<1>2. 0 + s * (p * 0) = 0 + s * 0
  BY <1>1
<1> QED BY <1>2, NumberEmpty DEF Balanced, p

(* The vectors compared are those of the operands. *)
LEMMA ScanLoads ==
  ASSUME CarryShape, Scanning, pc \in {"above", "compare"}
  PROVE  /\ LoadVector(big, na, UpTo(at)) = VectorOf(X, na)
         /\ LoadVector(small, nb, UpTo(bt)) = VectorOf(Y, nb)
<1>1. /\ mem = before /\ LimbsTo(na, at) <= size[big] /\ LimbsTo(nb, bt) <= size[small]
      /\ TopEmpty(X, na, at) /\ TopEmpty(Y, nb, bt)
  BY DEF Scanning, Aligned
<1>2. /\ na \in 0 .. Vectors - 1 /\ nb \in 0 .. Vectors - 1 /\ at \in Lane /\ bt \in Lane
      /\ size[big] \in Nat /\ size[small] \in Nat
  BY SMTT(40), ShapeFacts, AreaRoom DEF CarryShape
<1>3. LoadVector(big, na, UpTo(at)) = VectorOf(X, na)
  BY <1>1, <1>2, LoadRight DEF X
<1>4. LoadVector(small, nb, UpTo(bt)) = VectorOf(Y, nb)
  BY <1>1, <1>2, LoadRight DEF Y
<1> QED BY <1>3, <1>4

(* One more vector that is equal in both. *)
LEMMA SameOneLower ==
  ASSUME NEW f, NEW g, NEW nv \in 0 .. Vectors - 1, SameFrom(f, g, (nv + 1) * L),
         \A l \in Lane : f[nv * L + l] = g[nv * L + l]
  PROVE  SameFrom(f, g, nv * L)
<1>1. nv \in Nat /\ L \in Nat
  BY AreaRoom, Parameters
<1>2. ASSUME NEW j \in Limbs, nv * L <= j PROVE f[j] = g[j]
  <2>1. CASE (nv + 1) * L <= j
    BY <2>1 DEF SameFrom
  <2>2. CASE j < (nv + 1) * L
    <3>1. j \in Nat
      BY AreaRoom
    <3>2. PICK l \in Lane : j = nv * L + l
      BY <1>1, <1>2, <2>2, <3>1, LimbOfVector
    <3> QED BY <3>2
  <2>3. (nv + 1) * L \in Int /\ j \in Int
    BY <1>1, AreaRoom
  <2> QED BY <2>1, <2>2, <2>3
<1> QED BY <1>2 DEF SameFrom

LEMMA SmallerVectorEmpty ==
  ASSUME CarryShape, Aligned, nb < na
  PROVE  VectorOf(Y, na) = Zero /\ \A l \in Lane : Y[na * L + l] = 0
<1>1. /\ na \in 0 .. Vectors - 1 /\ nb \in 0 .. Vectors - 1 /\ bt \in Lane /\ na \in Nat /\ nb \in Nat
      /\ size[small] \in Nat /\ LimbsTo(nb, bt) = size[small]
  BY ShapeFacts, AreaRoom DEF CarryShape, Aligned
<1>2. size[small] <= na * L
  <2>1. (nb + 1) * L <= na * L
    BY <1>1, VectorsInOrder
  <2>2. size[small] <= (nb + 1) * L
    BY <1>1, CountBounds
  <2>3. (nb + 1) * L \in Int /\ na * L \in Int
    BY <1>1, Parameters
  <2> QED BY <1>1, <2>1, <2>2, <2>3
<1>3. VectorOf(Y, na) = Zero
  BY <1>1, <1>2, VectorPast DEF Y
<1>4. ASSUME NEW l \in Lane PROVE Y[na * L + l] = 0
  <2>1. VectorOf(Y, na)[l] = Y[na * L + l]
    BY DEF VectorOf
  <2> QED BY <1>3, <2>1 DEF Zero
<1> QED BY <1>3, <1>4

LEMMA LowerTop ==
  ASSUME NEW f, NEW s \in Nat, NEW nv \in 0 .. Vectors - 1, nv * L <= s, nv > 0
  PROVE  /\ L - 1 \in Lane /\ nv - 1 \in 0 .. Vectors - 1
         /\ LimbsTo(nv - 1, L - 1) <= s /\ TopEmpty(f, nv - 1, L - 1)
<1> DEFINE m == nv - 1  t == L - 1
<1>1. m \in 0 .. Vectors - 1 /\ t \in Lane /\ t = L - 1 /\ m + 1 = nv
  BY AreaRoom, Parameters
<1> HIDE DEF m, t
<1>2. LimbsTo(m, t) = (m + 1) * L /\ (m + 1) * L = nv * L
  BY <1>1, CountBounds
<1>3. TopEmpty(f, m, t)
  <2>1. (m + 1) * L \in Int
    BY <1>1, AreaRoom, Parameters
  <2> QED BY <1>2, <2>1 DEF TopEmpty, Limbs
<1> QED BY <1>1, <1>2, <1>3 DEF m, t

LEMMA ScanAboveGood ==
  ASSUME CarryInv, ScanAbove
  PROVE  CarryInv'
<1> USE DEF ScanAbove
<1>0. CarryShape /\ Scanning /\ pc = "above" /\ Aligned /\ op = "cmp_and_sub" /\ vi = 0 /\ carry = 0
      /\ ret = 0 /\ mem = before /\ SameFrom(X, Y, (na + 1) * L)
  BY DEF CarryInv, Scanning
<1>1. UNCHANGED <<op, mem, target, size, extra, big, small, nb, bt, sig, vi, carry, ret, before>>
  OBVIOUS
<1>2. X' = X /\ Y' = Y
  BY <1>1 DEF X, Y, Full, Limbs, Vectors
<1>3. na \in Nat /\ nb \in Nat /\ nb <= na /\ na \in 0 .. Vectors - 1 /\ nb \in 0 .. Vectors - 1
      /\ size[big] \in Nat /\ size[small] \in Nat /\ at \in Lane /\ bt \in Lane
  BY <1>0, ShapeFacts, AreaRoom DEF CarryShape
<1>4. CASE na = nb
  <2>1. pc' = "compare" /\ na' = na /\ at' = at
    BY <1>4
  <2>2. CarryShape'
    BY <1>0, <1>1, <2>1 DEF CarryShape, Lane, Limbs, Arrays, Vectors
  <2>3. Aligned'
    BY <1>0, <1>1, <1>2, <2>1 DEF Aligned, LimbsTo, TopEmpty, Limbs, Vectors
  <2>4. Scanning'
    BY <1>0, <1>1, <1>2, <1>4, <2>1, <2>3 DEF Scanning, SameFrom, Limbs, Vectors
  <2> QED BY <2>1, <2>2, <2>4 DEF CarryInv, Combining, Spilling, RightWhenDone
<1>5. CASE na # nb /\ LoadVector(big, na, UpTo(at)) = Zero
  <2>1. pc' = "above" /\ na' = na - 1 /\ at' = L - 1
    BY <1>0, <1>5
  <2>2. nb < na /\ na > 0 /\ na' \in 0 .. Vectors - 1 /\ nb \in 0 .. na'
    <3> HIDE DEF ScanAbove
    <3> QED BY <1>3, <1>5, <2>1, AreaRoom
  <2>3. /\ na * L <= size[big]
    <3>1. na * L < LimbsTo(na, at) /\ LimbsTo(na, at) <= size[big] /\ na * L \in Nat /\ LimbsTo(na, at) \in Nat
      BY <1>0, <1>3, CountBounds DEF Aligned
    <3> QED BY <1>3, <3>1
  <2>4. L - 1 \in Lane /\ LimbsTo(na', at') <= size[big] /\ TopEmpty(X, na', at')
    BY <1>3, <2>1, <2>2, <2>3, LowerTop
  <2>5. CarryShape'
    BY <1>0, <1>1, <2>1, <2>2, <2>4 DEF CarryShape, Lane, Limbs, Arrays, Vectors
  <2>6. Aligned'
    <3>1. LimbsTo(nb, bt) = size[small] /\ TopEmpty(Y, nb, bt) /\ LimbsTo(nb, bt) <= size[small]
      BY <1>0, <2>2 DEF Aligned
    <3> QED BY <1>1, <1>2, <2>4, <3>1 DEF Aligned, LimbsTo, TopEmpty, Limbs, Vectors
  <2>7. SameFrom(X, Y, na * L)
    <3>1. VectorOf(X, na) = Zero /\ VectorOf(Y, na) = Zero
      BY <1>0, <1>5, <2>2, ScanLoads, SmallerVectorEmpty
    <3>2. ASSUME NEW l \in Lane PROVE X[na * L + l] = Y[na * L + l]
      <4>1. VectorOf(X, na)[l] = X[na * L + l] /\ VectorOf(Y, na)[l] = Y[na * L + l]
        BY DEF VectorOf
      <4> QED BY <3>1, <4>1
    <3> QED BY <1>0, <1>3, <3>2, SameOneLower
  <2>8. Scanning'
    <3>1. (na' + 1) * L = na * L
      BY <1>3, <2>1
    <3> QED BY <1>0, <1>1, <1>2, <2>1, <2>6, <2>7, <3>1 DEF Scanning, SameFrom, Limbs, Vectors
  <2> QED BY <2>1, <2>5, <2>8 DEF CarryInv, Combining, Spilling, RightWhenDone
<1>6. CASE na # nb /\ LoadVector(big, na, UpTo(at)) # Zero
  <2>1. pc' = "combine" /\ na' = na /\ at' = at
    BY <1>6
  <2>2. CarryShape'
    BY <1>0, <1>1, <2>1 DEF CarryShape, Lane, Limbs, Arrays, Vectors
  <2>3. Aligned'
    BY <1>0, <1>1, <1>2, <2>1 DEF Aligned, LimbsTo, TopEmpty, Limbs, Vectors
  <2>4. nb < na /\ DigitLimbs(X) /\ DigitLimbs(Y)
    BY <1>0, <1>3, <1>6, OperandDigits
  <2>5. Number(Y, Size, B) < Number(X, Size, B) /\ SameFrom(Y, X, LimbsTo(na, at))
    <3> DEFINE S == {l \in Lane : X[na * L + l] # 0}
    <3>1. S # {}
      <4>1. VectorOf(X, na) # Zero
        BY <1>0, <1>6, ScanLoads
      <4> QED BY <4>1 DEF VectorOf, Zero
    <3>2. PICK m \in S : \A l \in S : l <= m
      <4>1. S \subseteq Lane
        OBVIOUS
      <4> HIDE DEF S
      <4> QED BY <3>1, <4>1, LargestLane
    <3>3. m \in Lane /\ X[na * L + m] # 0
      OBVIOUS
    <3>4. \A l \in Lane : Y[na * L + l] = 0
      BY <1>0, <2>4, SmallerVectorEmpty
    <3>5. Y[na * L + m] < X[na * L + m]
      <4>1. na * L + m \in Limbs
        <5>1. na < Vectors
          BY <1>0, ShapeFacts
        <5> HIDE DEF ScanAbove
        <5> QED BY <1>3, <3>3, <5>1, VectorLimbs
      <4>2. X[na * L + m] \in 0 .. B - 1
        BY <2>4, <4>1 DEF DigitLimbs
      <4> QED BY <3>3, <3>4, <4>2
    <3>6. ASSUME NEW l \in Lane, l > m PROVE Y[na * L + l] = X[na * L + l]
      <4>1. l \notin S
        <5>1. l \in Int /\ m \in Int
          BY <3>3, Parameters
        <5> QED BY <3>2, <3>6, <5>1
      <4> QED BY <3>4, <4>1
    <3>7. SameFrom(Y, X, (na + 1) * L)
      BY <1>0 DEF SameFrom
    <3>8. TopEmpty(X, na, at)
      BY <1>0 DEF Aligned
    <3> HIDE DEF S
    <3> QED BY <1>3, <2>4, <3>3, <3>5, <3>6, <3>7, <3>8, Decided
  <2>6. Ready'
    <3>1. SameFrom(X, Y, LimbsTo(na, at))
      BY <2>5 DEF SameFrom
    <3> QED BY <1>0, <1>1, <1>2, <2>1, <2>5, <3>1
           DEF Ready, SameFrom, Limbs, Vectors, LimbsTo, Size
  <2>7. Kept(vi * L)'
    BY <1>0, <1>1 DEF Kept, Arrays, Limbs, Vectors
  <2>8. vi * L = 0 /\ vi <= na
    BY <1>0, <1>3, Parameters
  <2>9. Balanced(mem[target], X, Y, Direction(op), carry, vi * L)
    <3>1. Direction(op) \in {1, -1}
      BY DEF Direction
    <3>2. Balanced(mem[target], X, Y, Direction(op), 0, 0)
      BY <3>1, NothingYet
    <3> QED BY <1>0, <2>8, <3>2
  <2>10. Combining'
    BY <1>1, <1>2, <2>1, <2>3, <2>6, <2>7, <2>8, <2>9 DEF Combining, Balanced, Direction
  <2> QED BY <2>1, <2>2, <2>10 DEF CarryInv, Scanning, Spilling, RightWhenDone
<1> QED BY <1>4, <1>5, <1>6

LEMMA CompareGood ==
  ASSUME CarryInv, Compare
  PROVE  CarryInv'
<1> DEFINE ax == LoadVector(big, na, UpTo(at))  bx == LoadVector(small, nb, UpTo(bt))
           lt == {l \in Lane : ax[l] < bx[l]}  gt == {l \in Lane : ax[l] > bx[l]}
<1>0. CarryShape /\ Scanning /\ pc = "compare" /\ Aligned /\ op = "cmp_and_sub" /\ vi = 0 /\ carry = 0
      /\ ret = 0 /\ mem = before /\ SameFrom(X, Y, (na + 1) * L) /\ na = nb
  BY DEF CarryInv, Scanning, Compare
<1>1. UNCHANGED <<op, mem, target, size, extra, vi, carry, ret, before>>
  BY DEF Compare
<1>2. na \in Nat /\ nb \in Nat /\ na \in 0 .. Vectors - 1 /\ na < Vectors /\ nb \in 0 .. Vectors - 1
      /\ size[big] \in Nat /\ size[small] \in Nat /\ at \in Lane /\ bt \in Lane
  BY <1>0, ShapeFacts, AreaRoom DEF CarryShape
<1>3. DigitLimbs(X) /\ DigitLimbs(Y)
  BY <1>0, OperandDigits
<1>4. ax = VectorOf(X, na) /\ bx = VectorOf(Y, na)
  BY <1>0, ScanLoads
<1>5. /\ DigitLanes(ax) /\ DigitLanes(bx)
      /\ \A l \in Lane : ax[l] = X[na * L + l] /\ bx[l] = Y[na * L + l]
  BY <1>2, <1>3, <1>4, VectorDigits
<1>6. lt = Smaller(ax, bx) /\ gt = Larger(ax, bx)
  BY DEF Smaller, Larger
<1>7. \/ /\ ax # bx /\ Loses(lt, gt)
         /\ big' = small /\ small' = big /\ at' = bt /\ bt' = at /\ sig' = ~sig /\ na' = na /\ nb' = nb
         /\ pc' = "combine"
      \/ /\ ax # bx /\ ~Loses(lt, gt)
         /\ big' = big /\ small' = small /\ at' = at /\ bt' = bt /\ sig' = sig /\ na' = na /\ nb' = nb
         /\ pc' = "combine"
      \/ /\ ax = bx /\ big' = big /\ small' = small /\ sig' = sig
         /\ \/ na = 0 /\ pc' = "done" /\ na' = na /\ nb' = nb /\ at' = at /\ bt' = bt
            \/ na # 0 /\ pc' = "compare" /\ na' = na - 1 /\ nb' = nb - 1 /\ at' = L - 1 /\ bt' = L - 1
  BY DEF Compare
<1> HIDE DEF ax, bx, lt, gt
<1>8. vi * L = 0 /\ vi <= na
  BY <1>0, <1>2, Parameters
<1>9. Kept(vi * L)'
  BY <1>0, <1>1 DEF Kept, Arrays, Limbs, Vectors
<1>10. CASE /\ ax # bx /\ Loses(lt, gt)
            /\ big' = small /\ small' = big /\ at' = bt /\ bt' = at /\ sig' = ~sig /\ na' = na /\ nb' = nb
            /\ pc' = "combine"
  <2>1. X' = Y /\ Y' = X
    BY <1>1, <1>10 DEF X, Y, Full, Limbs, Vectors
  <2>2. CarryShape'
    <3>1. \/ big' = "a" /\ small' = "b" /\ sig' = FALSE
          \/ big' = "b" /\ small' = "a" /\ sig' = TRUE
      BY <1>0, <1>10 DEF CarryShape
    <3> QED BY <1>0, <1>1, <1>10, <3>1 DEF CarryShape, Lane, Limbs, Arrays, Vectors
  <2>3. Aligned'
    BY <1>0, <1>1, <1>2, <1>10, <2>1 DEF Aligned, LimbsTo, TopEmpty, Limbs, Vectors
  <2>4. Number(X, Size, B) < Number(Y, Size, B) /\ SameFrom(X, Y, LimbsTo(na, bt))
    <3>1. PICK m \in Lane : ax[m] < bx[m] /\ \A l \in Lane : l > m => ax[l] = bx[l]
      BY <1>5, <1>6, <1>10, LosesRight
    <3>2. TopEmpty(Y, na, bt)
      BY <1>0 DEF Aligned
    <3>3. X[na * L + m] < Y[na * L + m] /\ \A l \in Lane : l > m => X[na * L + l] = Y[na * L + l]
      BY <1>5, <3>1
    <3> QED BY <1>0, <1>2, <1>3, <3>2, <3>3, Decided
  <2>5. Ready'
    <3>1. SameFrom(Y, X, LimbsTo(na, bt))
      BY <2>4 DEF SameFrom
    <3> QED BY <1>0, <1>1, <1>10, <2>1, <2>4, <3>1
           DEF Ready, SameFrom, Limbs, Vectors, LimbsTo, Size
  <2>6. Balanced(mem[target], Y, X, Direction(op), carry, vi * L)
    <3>1. Direction(op) \in {1, -1}
      BY DEF Direction
    <3>2. Balanced(mem[target], Y, X, Direction(op), 0, 0)
      BY <3>1, NothingYet
    <3> QED BY <1>0, <1>8, <3>2
  <2>7. Combining'
    BY <1>1, <1>8, <1>9, <1>10, <2>1, <2>3, <2>5, <2>6 DEF Combining, Balanced, Direction
  <2> QED BY <1>10, <2>2, <2>7 DEF CarryInv, Scanning, Spilling, RightWhenDone
<1>11. CASE /\ ax # bx /\ ~Loses(lt, gt)
            /\ big' = big /\ small' = small /\ at' = at /\ bt' = bt /\ sig' = sig /\ na' = na /\ nb' = nb
            /\ pc' = "combine"
  <2>1. X' = X /\ Y' = Y
    BY <1>1, <1>11 DEF X, Y, Full, Limbs, Vectors
  <2>2. CarryShape'
    BY <1>0, <1>1, <1>11 DEF CarryShape, Lane, Limbs, Arrays, Vectors
  <2>3. Aligned'
    BY <1>0, <1>1, <1>11, <2>1 DEF Aligned, LimbsTo, TopEmpty, Limbs, Vectors
  <2>4. Number(Y, Size, B) < Number(X, Size, B) /\ SameFrom(Y, X, LimbsTo(na, at))
    <3>1. PICK m \in Lane : /\ ax[m] # bx[m] /\ ~(ax[m] < bx[m])
                            /\ \A l \in Lane : l > m => ax[l] = bx[l]
      BY <1>5, <1>6, <1>11, LosesRight
    <3>2. TopEmpty(X, na, at) /\ SameFrom(Y, X, (na + 1) * L)
      BY <1>0 DEF Aligned, SameFrom
    <3>3. bx[m] < ax[m]
      <4>1. ax[m] \in 0 .. B - 1 /\ bx[m] \in 0 .. B - 1
        BY <1>5 DEF DigitLanes
      <4> QED BY <3>1, <4>1
    <3>4. Y[na * L + m] < X[na * L + m] /\ \A l \in Lane : l > m => Y[na * L + l] = X[na * L + l]
      BY <1>5, <3>1, <3>3
    <3> QED BY <1>2, <1>3, <3>2, <3>4, Decided
  <2>5. Ready'
    <3>1. SameFrom(X, Y, LimbsTo(na, at))
      BY <2>4 DEF SameFrom
    <3> QED BY <1>0, <1>1, <1>11, <2>1, <2>4, <3>1
           DEF Ready, SameFrom, Limbs, Vectors, LimbsTo, Size
  <2>6. Balanced(mem[target], X, Y, Direction(op), carry, vi * L)
    <3>1. Direction(op) \in {1, -1}
      BY DEF Direction
    <3>2. Balanced(mem[target], X, Y, Direction(op), 0, 0)
      BY <3>1, NothingYet
    <3> QED BY <1>0, <1>8, <3>2
  <2>7. Combining'
    BY <1>1, <1>8, <1>9, <1>11, <2>1, <2>3, <2>5, <2>6 DEF Combining, Balanced, Direction
  <2> QED BY <1>11, <2>2, <2>7 DEF CarryInv, Scanning, Spilling, RightWhenDone
<1>12. CASE ax = bx /\ big' = big /\ small' = small /\ sig' = sig
  <2>1. X' = X /\ Y' = Y
    BY <1>1, <1>12 DEF X, Y, Full, Limbs, Vectors
  <2>2. SameFrom(X, Y, na * L)
    BY <1>0, <1>2, <1>5, <1>12, SameOneLower
  <2>3. CASE na = 0 /\ pc' = "done" /\ na' = na /\ nb' = nb /\ at' = at /\ bt' = bt
    <3>1. CarryShape'
      BY <1>0, <1>1, <1>12, <2>3 DEF CarryShape, Lane, Limbs, Arrays, Vectors
    <3>2. OnlyResultWritten'
      BY <1>0, <1>1 DEF OnlyResultWritten, Arrays, Limbs, Vectors
    <3>3. Number(X, Size, B) = Number(Y, Size, B)
      <4> DEFINE z == Size
      <4>1. na * L = 0
        BY <2>3, Parameters
      <4>2. /\ z \in Nat /\ \A j \in 0 .. z - 1 : X[j] \in Int /\ X[j] = Y[j]
        <5>1. Limbs = 0 .. z - 1 /\ z \in Nat /\ \A j \in 0 .. z - 1 : X[j] \in Int
          BY <1>0, OperandDigits, AreaRoom DEF IntLimbs
        <5> QED BY <2>2, <4>1, <5>1 DEF SameFrom
      <4> HIDE DEF z
      <4>3. Number(X, z, B) = Number(Y, z, B)
        BY <4>2, NumberOfSame, Parameters
      <4> QED BY <4>3 DEF z
    <3>4. A = D /\ A \in Int
      <4>1. Number(before[big], size[big], B) = Number(before[small], size[small], B)
            /\ Number(before[big], size[big], B) \in Int
        BY <1>0, <3>3, OperandDigits
      <4>2. (big = "a" /\ small = "b") \/ (big = "b" /\ small = "a")
        BY <1>0 DEF CarryShape
      <4> QED BY <4>1, <4>2 DEF A, D
    <3>5. ret = 0
      BY <1>0
    <3>6. RightWhenDone'
      <4>1. A' = A /\ D' = D /\ ret' = 0 /\ op' = "cmp_and_sub"
        BY <1>0, <1>1, <3>5 DEF A, D
      <4>2. Abs(0) = 0 /\ A - D = 0 /\ ~(A > D) /\ ~(A < D)
        BY <3>4 DEF Abs
      <4>3. Result' = 0
        BY <4>1, <4>2, NumberEmpty DEF Result
      <4> QED BY <4>1, <4>2, <4>3 DEF RightWhenDone, Abs
    <3> QED BY <2>3, <3>1, <3>2, <3>6 DEF CarryInv, Scanning, Combining, Spilling
  <2>4. CASE na # 0 /\ pc' = "compare" /\ na' = na - 1 /\ nb' = nb - 1 /\ at' = L - 1 /\ bt' = L - 1
    <3>1. na > 0 /\ nb = na /\ na' = nb' /\ (na' + 1) * L = na * L
      BY <1>0, <1>2, <2>4
    <3>2. na * L <= size[big] /\ nb * L <= size[small]
      <4>1. /\ na * L < LimbsTo(na, at) /\ LimbsTo(na, at) <= size[big]
            /\ nb * L < LimbsTo(nb, bt) /\ LimbsTo(nb, bt) <= size[small]
            /\ na * L \in Nat /\ LimbsTo(na, at) \in Nat /\ nb * L \in Nat /\ LimbsTo(nb, bt) \in Nat
        BY <1>0, <1>2, CountBounds DEF Aligned
      <4> QED BY <1>2, <4>1
    <3>3. L - 1 \in Lane /\ LimbsTo(na', at') <= size[big] /\ TopEmpty(X, na', at')
      BY <1>2, <2>4, <3>1, <3>2, LowerTop
    <3>4. LimbsTo(nb', bt') <= size[small] /\ TopEmpty(Y, nb', bt')
      BY <1>2, <2>4, <3>1, <3>2, LowerTop
    <3>5. CarryShape'
      <4>1. na' \in 0 .. Vectors - 1 /\ nb' \in 0 .. na'
        BY <1>2, <2>4, <3>1, AreaRoom
      <4> QED BY <1>0, <1>1, <1>12, <2>4, <3>3, <4>1 DEF CarryShape, Lane, Limbs, Arrays, Vectors
    <3>6. Aligned'
      BY <1>1, <1>2, <1>12, <2>1, <2>4, <3>1, <3>3, <3>4 DEF Aligned, LimbsTo, TopEmpty, Limbs, Vectors
    <3>7. Scanning'
      BY <1>0, <1>1, <2>1, <2>2, <2>4, <3>1, <3>6 DEF Scanning, SameFrom, Limbs, Vectors
    <3> QED BY <2>4, <3>5, <3>7 DEF CarryInv, Combining, Spilling, RightWhenDone
  <2> QED BY <1>7, <1>12, <2>3, <2>4
<1> QED BY <1>7, <1>10, <1>11, <1>12

(* A positive difference leaves no borrow. *)
LEMMA DifferenceFits ==
  ASSUME NEW M, NEW U, NEW V, DigitLimbs(M), DigitLimbs(U), DigitLimbs(V), NEW nv \in 0 .. Size,
         NEW c \in {0, 1}, SameFrom(U, V, nv), Number(V, Size, B) < Number(U, Size, B),
         Balanced(M, U, V, -1, c, nv)
  PROVE  Number(M, nv, B) = Number(U, Size, B) - Number(V, Size, B)
<1> DEFINE N(f, k) == Number(f, k, B)  z == Size  p == Power(B, nv)
<1>1. z \in Nat /\ Limbs = 0 .. z - 1 /\ nv \in 0 .. z /\ B \in Nat /\ B > 0
  BY AreaRoom, Parameters
<1>2. N(V, z) < N(U, z)
  OBVIOUS
<1>3. N(M, nv) + (-1) * (p * c) = N(U, nv) + (-1) * N(V, nv)
  BY DEF Balanced
<1> HIDE DEF z
<1>4. /\ \A j \in 0 .. z - 1 : U[j] \in Int /\ V[j] \in Int
      /\ \A j \in nv .. z - 1 : U[j] = V[j]
  BY <1>1 DEF DigitLimbs, SameFrom
<1>5. /\ N(U, z) \in Int /\ N(V, z) \in Int /\ N(U, nv) \in Int /\ N(V, nv) \in Int
      /\ N(U, z) - N(V, z) = N(U, nv) - N(V, nv)
  <2> HIDE DEF N
  <2>1. B \in Nat /\ B > 0 /\ z \in Nat /\ nv \in 0 .. z
    BY <1>1
  <2>2. /\ Number(U, z, B) \in Int /\ Number(V, z, B) \in Int
        /\ Number(U, nv, B) \in Int /\ Number(V, nv, B) \in Int
        /\ Number(U, z, B) - Number(V, z, B) = Number(U, nv, B) - Number(V, nv, B)
    BY <1>4, <2>1, NumberAgree
  <2> QED BY <2>2 DEF N
<1>6. N(M, nv) \in 0 .. p - 1 /\ p \in Nat
  <2>1. nv \in Nat /\ \A l \in 0 .. nv - 1 : M[l] \in 0 .. B - 1
    BY <1>1 DEF DigitLimbs
  <2> QED BY <1>1, <2>1, NumberBounds, PowerPositive
<1> HIDE DEF N, p
<1>7. c = 0
  <2>1. SUFFICES ASSUME c = 1 PROVE FALSE
    OBVIOUS
  <2> QED BY <1>2, <1>3, <1>5, <1>6, <2>1
<1>8. N(M, nv) = N(U, z) - N(V, z)
  BY <1>3, <1>5, <1>6, <1>7
<1> QED BY <1>8 DEF N, z

(* A sum over both operands is their sum, but for the carry out of it. *)
LEMMA SumOfBoth ==
  ASSUME CarryShape, NEW M, DigitLimbs(M), NEW nv \in Nat, nv <= Size, size[big] <= nv, size[small] <= nv,
         NEW c \in {0, 1}, Balanced(M, X, Y, 1, c, nv)
  PROVE  /\ Number(M, nv, B) + Power(B, nv) * c = A + D /\ A \in Int /\ D \in Int
         /\ Number(M, nv, B) \in 0 .. Power(B, nv) - 1 /\ Power(B, nv) \in Nat /\ Power(B, nv) > 0
<1> DEFINE p == Power(B, nv)  s == Number(M, nv, B)
<1>1. size[big] \in Nat /\ size[small] \in Nat /\ Size \in Nat
  BY ShapeFacts, AreaRoom
<1>2. nv \in size[big] .. Size /\ nv \in size[small] .. Size
  BY <1>1
<1>3. /\ Number(X, nv, B) = Number(before[big], size[big], B)
      /\ Number(Y, nv, B) = Number(before[small], size[small], B)
      /\ Number(before[big], size[big], B) \in Int /\ Number(before[small], size[small], B) \in Int
  BY <1>2, OperandDigits
<1>4. p \in Nat /\ p > 0 /\ s \in 0 .. p - 1
  <2>1. \A l \in 0 .. nv - 1 : M[l] \in 0 .. B - 1
    BY <1>1, AreaRoom DEF DigitLimbs
  <2>2. B \in Nat /\ B > 0
    BY Parameters
  <2> QED BY <2>1, <2>2, NumberBounds, PowerPositive
<1>5. s + 1 * (p * c) = Number(X, nv, B) + 1 * Number(Y, nv, B)
  BY DEF Balanced
<1> HIDE DEF p, s
<1>6. A + D = Number(before[big], size[big], B) + Number(before[small], size[small], B) /\ A \in Int /\ D \in Int
  <2>1. (big = "a" /\ small = "b") \/ (big = "b" /\ small = "a")
    BY DEF CarryShape
  <2> QED BY <1>3, <2>1 DEF A, D
<1>7. s + p * c = A + D
  BY <1>3, <1>4, <1>5, <1>6
<1> QED BY <1>4, <1>6, <1>7 DEF p, s

(* Above the operands the top lane takes the carry, and nothing leaves it. *)
LEMMA CarryStays ==
  ASSUME NEW k, NEW a, NEW b, NEW v, NEW in, Rippled(k, a, b, v, 1, in), NEW l \in Lane,
         a[l] = 0, b[l] = 0
  PROVE  k[l + 1] = 0
<1> DEFINE u == k[l]  w == k[l + 1]  d == v[l]
<1>1. l \in 0 .. L /\ l + 1 \in 0 .. L /\ B \in Nat /\ B > 1
  BY Parameters
<1>2. u \in {0, 1} /\ w \in {0, 1} /\ d \in 0 .. B - 1 /\ d + 1 * (B * w) = 0 + 1 * (0 + u)
  BY <1>1 DEF Rippled, DigitLanes
<1> HIDE DEF u, w, d
<1>3. w # 1
  BY <1>1, <1>2
<1> QED BY <1>2, <1>3 DEF w

(* The last lane that Combine stores, and how far the arrays have changed then. *)
TopLane == IF vi < na THEN L - 1 ELSE IF extra /\ at # L - 1 THEN at + 1 ELSE at
WrittenTo(m) ==
  \A name \in Arrays : \A j \in Limbs :
    name # target \/ m <= j => mem'[name][j] = before[name][j]

LEMMA CombineFacts ==
  ASSUME CarryInv, Combine
  PROVE  /\ TopLane \in Lane /\ ArrayTypes' /\ carry' \in {0, 1} /\ DigitLimbs(mem'[target])
         /\ WrittenTo(vi * L + TopLane + 1)
         /\ \E v, k : /\ Store(vi, v, UpTo(TopLane))
                      /\ Rippled(k, VectorOf(X, vi), VectorOf(Y, vi), v, Direction(op), carry)
                      /\ carry' = k[L]
<1> DEFINE ax == LoadVector(big, vi, IF vi = na THEN UpTo(at) ELSE Lane)
           bx == IF vi > nb THEN Zero ELSE LoadVector(small, vi, IF vi = nb THEN UpTo(bt) ELSE Lane)
           done == IF op = "cmp_and_sub" THEN BorrowProp(ax, bx) ELSE CarryProp(ax, bx)
           t == TopLane  v == done.vec  m == vi * L
<1>1. CarryShape /\ Combining /\ pc = "combine" /\ carry \in {0, 1} /\ target \in Arrays /\ ArrayTypes
      /\ at \in Lane /\ op \in {"cmp_and_sub", "add_carry"}
  BY DEF CarryInv, Combine, CarryShape, ArrayTypes
<1>2. vi \in Nat /\ vi <= na /\ vi \in 0 .. Vectors - 1
  BY <1>1, VectorNumber
<1>3. ax = VectorOf(X, vi) /\ bx = VectorOf(Y, vi)
  BY <1>1, LoadedX, LoadedY
<1>4. DigitLanes(VectorOf(X, vi)) /\ DigitLanes(VectorOf(Y, vi))
  BY <1>1, <1>2, OperandDigits, VectorDigits
<1>5. t \in Lane
  BY <1>1, Parameters DEF TopLane
<1>6. Store(vi, v, UpTo(t))
  <2>1. Store(vi, v, IF vi < na THEN Lane
                    ELSE IF extra /\ at # L - 1 THEN UpTo(at + 1) ELSE UpTo(at))
    BY DEF Combine
  <2>2. Lane = UpTo(L - 1)
    BY DEF UpTo, Lane
  <2> QED BY <2>1, <2>2 DEF TopLane
<1>7. carry' = done.out
  BY DEF Combine
<1> HIDE DEF ax, bx
<1>8. PICK k : Rippled(k, VectorOf(X, vi), VectorOf(Y, vi), v, Direction(op), carry) /\ carry' = k[L]
  <2>1. CASE op = "cmp_and_sub"
    <3>1. PICK k : Rippled(k, ax, bx, BorrowProp(ax, bx).vec, -1, carry) /\ BorrowProp(ax, bx).out = k[L]
      BY <1>1, <1>3, <1>4, BorrowVector
    <3>2. done = BorrowProp(ax, bx) /\ Direction(op) = -1
      BY <2>1 DEF Direction
    <3>3. Rippled(k, VectorOf(X, vi), VectorOf(Y, vi), v, Direction(op), carry) /\ carry' = k[L]
      BY <1>3, <1>7, <3>1, <3>2
    <3> QED BY <3>3
  <2>2. CASE op = "add_carry"
    <3>1. PICK k : Rippled(k, ax, bx, CarryProp(ax, bx).vec, 1, carry) /\ CarryProp(ax, bx).out = k[L]
      BY <1>1, <1>3, <1>4, CarryVector
    <3>2. done = CarryProp(ax, bx) /\ Direction(op) = 1
      BY <2>2 DEF Direction
    <3>3. Rippled(k, VectorOf(X, vi), VectorOf(Y, vi), v, Direction(op), carry) /\ carry' = k[L]
      BY <1>3, <1>7, <3>1, <3>2
    <3> QED BY <3>3
  <2> QED BY <1>1, <2>1, <2>2
<1> HIDE DEF done, t, v
<1>9. DigitLanes(v) /\ k[L] \in {0, 1}
  BY <1>8, Parameters DEF Rippled
<1>10. /\ ArrayTypes'
       /\ \A name \in Arrays : name # target => mem'[name] = mem[name]
       /\ \A j \in Limbs : j < m \/ m + t + 1 <= j => mem'[target][j] = mem[target][j]
  BY <1>1, <1>2, <1>5, <1>6, <1>9, StoreRight
<1>11. DigitLimbs(mem'[target])
  <2>1. mem' \in [Arrays -> [Limbs -> 0 .. B - 1]]
    BY <1>10 DEF ArrayTypes, Arrays, Limbs, Vectors
  <2> QED BY <1>1, <2>1 DEF DigitLimbs
<1>12. m \in Nat /\ t \in Nat
  BY <1>2, <1>5, Parameters
<1> HIDE DEF m
<1>13. ASSUME NEW name \in Arrays, NEW j \in Limbs, name # target \/ m + t + 1 <= j
       PROVE  mem'[name][j] = before[name][j]
  <2>1. Kept(m)
    BY <1>1 DEF Combining, m
  <2>2. CASE name # target
    BY <1>10, <2>1, <2>2 DEF Kept
  <2>3. CASE name = target
    <3>1. j \in Nat /\ m + t + 1 <= j
      BY <1>13, <2>3, AreaRoom
    <3>2. m <= j
      BY <1>12, <3>1
    <3> QED BY <1>10, <2>1, <2>3, <3>1, <3>2 DEF Kept
  <2> QED BY <2>2, <2>3
<1>14. WrittenTo(vi * L + TopLane + 1)
  BY <1>13 DEF WrittenTo, m, t
<1> QED BY <1>5, <1>6, <1>8, <1>9, <1>10, <1>11, <1>14 DEF t

LEMMA CombineFrame ==
  ASSUME CarryInv, Combine
  PROVE  /\ UNCHANGED <<op, target, size, extra, big, small, na, nb, at, bt, sig, before>>
         /\ X' = X /\ Y' = Y /\ A' = A /\ D' = D /\ Longer' = Longer
         /\ CarryShape' /\ vi' = vi + 1
<1>1. UNCHANGED <<op, target, size, extra, big, small, na, nb, at, bt, sig, before>> /\ vi' = vi + 1
  BY DEF Combine
<1>2. ArrayTypes' /\ carry' \in {0, 1}
  BY CombineFacts
<1>3. CarryShape /\ vi' \in Nat
  BY <1>1 DEF CarryInv, CarryShape
<1>4. mem' \in [Arrays -> [Limbs -> 0 .. B - 1]]
  BY <1>2 DEF ArrayTypes, Arrays, Limbs, Vectors
<1>5. CarryShape'
  BY <1>1, <1>2, <1>3, <1>4 DEF CarryShape, Lane, Limbs, Arrays, Vectors
<1> QED BY <1>1, <1>5 DEF X, Y, Full, Limbs, Vectors, A, D, Longer

LEMMA CombineOn ==
  ASSUME CarryInv, Combine, vi < na
  PROVE  CarryInv'
<1> DEFINE m == vi * L  s == Direction(op)
<1>1. CarryShape /\ Combining /\ pc = "combine" /\ pc' = "combine"
  BY DEF CarryInv, Combine
<1>2. /\ UNCHANGED <<op, target, size, extra, big, small, na, nb, at, bt, sig, before>>
      /\ X' = X /\ Y' = Y /\ CarryShape' /\ vi' = vi + 1
  BY CombineFrame
<1>3. TopLane = L - 1 /\ L \in Nat /\ L \in 0 .. L /\ L - 1 \in Lane /\ vi \in Nat /\ na \in Nat
      /\ m \in Nat /\ (vi + 1) * L = m + L
  <2>1. vi \in Nat /\ na \in Nat
    BY <1>1, VectorNumber, ShapeFacts
  <2> QED BY <2>1, VectorLimbs, Parameters DEF TopLane
<1> HIDE DEF m
<1>4. PICK v, k : /\ Store(vi, v, UpTo(L - 1)) /\ carry' = k[L]
                  /\ Rippled(k, VectorOf(X, vi), VectorOf(Y, vi), v, s, carry)
  BY <1>3, CombineFacts
<1>5. WrittenTo((vi + 1) * L)
  <2>1. WrittenTo(vi * L + TopLane + 1)
    BY CombineFacts
  <2>2. vi * L + TopLane + 1 = (vi + 1) * L
    BY <1>3 DEF m
  <2> QED BY <2>1, <2>2
<1>6. Balanced(mem'[target], X, Y, s, k[L], m + L)
  <2> DEFINE t == L - 1  nv == L
  <2>1. t \in Lane /\ nv \in 0 .. L /\ nv <= t + 1 /\ Store(vi, v, UpTo(t))
    BY <1>3, <1>4
  <2> HIDE DEF t, nv
  <2>2. Balanced(mem'[target], X, Y, s, k[nv], vi * L + nv)
    BY <1>1, <1>4, <2>1, VectorAdds
  <2> QED BY <2>2 DEF nv, m
<1>7. Aligned' /\ Ready'
  BY <1>1, <1>2 DEF Combining, Aligned, Ready, LimbsTo, TopEmpty, SameFrom, Limbs, Vectors, Size, Longer
<1>8. Kept(vi * L)'
  BY <1>2, <1>5 DEF Kept, WrittenTo, Arrays, Limbs, Vectors
<1>9. Balanced(mem[target], X, Y, Direction(op), carry, vi * L)'
  BY <1>2, <1>3, <1>4, <1>6 DEF Balanced, Direction
<1>10. Combining'
  BY <1>2, <1>3, <1>7, <1>8, <1>9 DEF Combining
<1> QED BY <1>1, <1>2, <1>10 DEF CarryInv, Scanning, Spilling, RightWhenDone

(* The last vector: how much of the result is then in place. *)
LEMMA LastVector ==
  ASSUME CarryInv, Combine, vi = na
  PROVE  /\ CarryShape /\ Aligned /\ Ready /\ pc = "combine" /\ na \in Nat
         /\ LimbsTo(na, at) = na * L + (at + 1) /\ LimbsTo(na, at) \in Nat /\ LimbsTo(na, at) > 0
         /\ LimbsTo(na, at) <= Size /\ na * L \in Nat
         /\ \E k : /\ \A l \in 0 .. L : k[l] \in {0, 1}
                   /\ carry' = k[L]
                   /\ \A l \in Lane : X[na * L + l] = 0 /\ Y[na * L + l] = 0 /\ op # "cmp_and_sub"
                                        => k[l + 1] = 0
                   /\ \A nv \in 0 .. L : nv <= TopLane + 1 =>
                        Balanced(mem'[target], X, Y, Direction(op), k[nv], na * L + nv)
<1>1. CarryShape /\ Combining /\ pc = "combine" /\ Aligned /\ Ready
  BY DEF CarryInv, Combine, Combining
<1>2. na \in Nat /\ na \in 0 .. Vectors - 1 /\ at \in Lane
  BY <1>1, ShapeFacts DEF CarryShape
<1>3. /\ LimbsTo(na, at) = na * L + (at + 1) /\ LimbsTo(na, at) \in Nat /\ LimbsTo(na, at) > 0
      /\ LimbsTo(na, at) <= Size /\ na * L \in Nat
  BY <1>2, CountBounds
<1>4. TopLane \in Lane
  BY CombineFacts
<1>5. PICK v, k : /\ Store(vi, v, UpTo(TopLane)) /\ carry' = k[L]
                  /\ Rippled(k, VectorOf(X, vi), VectorOf(Y, vi), v, Direction(op), carry)
  BY CombineFacts
<1>6. \A l \in 0 .. L : k[l] \in {0, 1}
  BY <1>5 DEF Rippled
<1>7. ASSUME NEW l \in Lane, X[na * L + l] = 0, Y[na * L + l] = 0, op # "cmp_and_sub"
      PROVE  k[l + 1] = 0
  <2>1. VectorOf(X, vi)[l] = 0 /\ VectorOf(Y, vi)[l] = 0
    BY <1>7 DEF VectorOf
  <2>2. Direction(op) = 1
    BY <1>7 DEF Direction
  <2> QED BY <1>5, <2>1, <2>2, CarryStays
<1>8. ASSUME NEW nv \in 0 .. L, nv <= TopLane + 1
      PROVE  Balanced(mem'[target], X, Y, Direction(op), k[nv], na * L + nv)
  BY <1>1, <1>4, <1>5, <1>8, VectorAdds
<1> QED BY <1>1, <1>2, <1>3, <1>5, <1>6, <1>7, <1>8

LEMMA LastWrites ==
  ASSUME CarryInv, Combine, vi = na
  PROVE  OnlyResultWritten'
<1>1. WrittenTo(na * L + TopLane + 1) /\ TopLane \in Lane /\ UNCHANGED <<target, extra, na, at, before>>
  BY CombineFacts, CombineFrame
<1>2. na * L \in Nat /\ at \in Nat /\ TopLane <= at + (IF extra THEN 1 ELSE 0) /\ TopLane \in Nat
  <2>1. at \in Lane /\ na \in Nat
    BY ShapeFacts DEF CarryInv, CarryShape
  <2>2. na \in Int /\ ~(vi < na)
    BY <2>1
  <2> QED BY <1>1, <2>1, <2>2, Parameters DEF TopLane
<1>3. ASSUME NEW name \in Arrays, NEW j \in Limbs, mem'[name][j] # before[name][j]
      PROVE  name = target /\ j <= na * L + at + (IF extra THEN 1 ELSE 0)
  <2>1. name = target /\ ~(na * L + TopLane + 1 <= j)
    BY <1>1, <1>3 DEF WrittenTo
  <2>2. j \in Nat
    BY AreaRoom
  <2> QED BY <1>2, <2>1, <2>2
<1> QED BY <1>1, <1>3 DEF OnlyResultWritten, Arrays, Limbs, Vectors

LEMMA CombineDifference ==
  ASSUME CarryInv, Combine, vi = na, op = "cmp_and_sub"
  PROVE  CarryInv'
<1> DEFINE C == LimbsTo(na, at)
<1>1. /\ CarryShape /\ Ready /\ na \in Nat /\ C = na * L + (at + 1) /\ C \in Nat /\ C > 0 /\ C <= Size
      /\ na * L \in Nat
  BY LastVector
<1>2. PICK k : /\ \A l \in 0 .. L : k[l] \in {0, 1}
               /\ \A nv \in 0 .. L : nv <= TopLane + 1 =>
                    Balanced(mem'[target], X, Y, Direction(op), k[nv], na * L + nv)
  BY LastVector
<1>3. extra = FALSE /\ at \in Lane /\ ~(vi < na)
  BY <1>1 DEF CarryShape
<1>4. TopLane = at /\ at + 1 \in 0 .. L
  BY <1>3, Parameters DEF TopLane
<1>5. pc' = "done" /\ ret' = IF sig THEN -C ELSE C
  BY <1>3 DEF Combine, LimbsTo
<1>6. Balanced(mem'[target], X, Y, -1, k[at + 1], C)
  <2>1. Balanced(mem'[target], X, Y, Direction(op), k[at + 1], na * L + (at + 1))
    <3> DEFINE nv == at + 1
    <3>1. nv \in 0 .. L /\ nv <= TopLane + 1
      BY <1>3, <1>4, Parameters
    <3> HIDE DEF nv
    <3>2. Balanced(mem'[target], X, Y, Direction(op), k[nv], na * L + nv)
      BY <1>2, <3>1
    <3> QED BY <3>2 DEF nv
  <2> QED BY <1>1, <2>1 DEF Direction
<1>7. Number(mem'[target], C, B) = Number(X, Size, B) - Number(Y, Size, B)
  <2> DEFINE c == k[at + 1]
  <2>1. c \in {0, 1} /\ Balanced(mem'[target], X, Y, -1, c, C) /\ C \in 0 .. Size
    BY <1>1, <1>2, <1>4, <1>6, AreaRoom
  <2>2. DigitLimbs(mem'[target]) /\ DigitLimbs(X) /\ DigitLimbs(Y)
    BY <1>1, CombineFacts, OperandDigits
  <2>3. SameFrom(X, Y, C) /\ Number(Y, Size, B) < Number(X, Size, B)
    BY <1>1 DEF Ready
  <2> HIDE DEF c, C
  <2> QED BY <2>1, <2>2, <2>3, DifferenceFits
<1>8. /\ UNCHANGED <<op, target, size, extra, big, small, na, nb, at, bt, sig, before>>
      /\ A' = A /\ D' = D /\ CarryShape'
  BY CombineFrame
<1> HIDE DEF C
<1>9. RightWhenDone'
  <2> DEFINE nx == Number(before[big], size[big], B)  ny == Number(before[small], size[small], B)
             R == Number(mem'[target], C, B)
  <2>1. nx \in Int /\ ny \in Int /\ ny < nx /\ R = nx - ny
    <3>1. /\ Number(X, Size, B) = nx /\ nx \in Int
          /\ Number(Y, Size, B) = ny /\ ny \in Int
      BY <1>1, OperandDigits
    <3>2. Number(Y, Size, B) < Number(X, Size, B)
      BY <1>1 DEF Ready
    <3> QED BY <1>7, <3>1, <3>2
  <2>2. \/ A = nx /\ D = ny /\ sig = FALSE
        \/ A = ny /\ D = nx /\ sig = TRUE
    BY <1>1 DEF CarryShape, A, D
  <2> HIDE DEF nx, ny
  <2>3. Abs(ret') = C
    BY <1>1, <1>5, <2>2 DEF Abs
  <2>4. Result' = R
    BY <1>8, <2>3 DEF Result, Abs
  <2> HIDE DEF R
  <2>5. R = Abs(A - D) /\ (ret' > 0 <=> A > D) /\ (ret' < 0 <=> A < D)
    <3>1. CASE A = nx /\ D = ny /\ sig = FALSE
      <4>1. A - D = R /\ A > D /\ ~(A < D) /\ Abs(R) = R
        BY <2>1, <3>1 DEF Abs
      <4>2. ret' = C
        BY <1>5, <3>1
      <4> QED BY <1>1, <4>1, <4>2
    <3>2. CASE A = ny /\ D = nx /\ sig = TRUE
      <4>1. A - D = -R /\ A < D /\ ~(A > D) /\ Abs(-R) = R
        BY <2>1, <3>2 DEF Abs
      <4>2. ret' = -C
        BY <1>5, <3>2
      <4> QED BY <1>1, <4>1, <4>2
    <3> QED BY <2>2, <3>1, <3>2
  <2>6. Abs(A - D)' = Abs(A - D)
    BY <1>8 DEF Abs
  <2> QED BY <1>8, <2>4, <2>5, <2>6 DEF RightWhenDone
<1>10. OnlyResultWritten'
  BY LastWrites
<1> QED BY <1>5, <1>8, <1>9, <1>10 DEF CarryInv, Scanning, Combining, Spilling

(* What the sum's cases share. *)
LEMMA SumFrame ==
  ASSUME CarryInv, Combine, vi = na, op = "add_carry"
  PROVE  /\ UNCHANGED <<op, target, size, extra, big, small, na, nb, at, bt, sig, before>>
         /\ A' = A /\ D' = D /\ Longer' = Longer /\ CarryShape' /\ vi' = na + 1
         /\ LimbsTo(na, at) = size[big] /\ size[big] = Longer /\ size[small] <= size[big]
         /\ size[big] \in Nat /\ size[small] \in Nat /\ at \in Lane /\ na \in 0 .. Vectors - 1
         /\ X[LimbsTo(na, at)] = 0 /\ Y[LimbsTo(na, at)] = 0 /\ Direction(op) = 1 /\ ~(vi < na)
         /\ DigitLimbs(mem'[target]) /\ ArrayTypes'
<1>1. CarryShape /\ Ready /\ Aligned
  BY LastVector
<1>2. LimbsTo(na, at) = size[big] /\ size[big] = Longer
  BY <1>1 DEF Ready
<1>3. size[big] \in Nat /\ size[small] \in Nat /\ size[big] < Size /\ at \in Lane /\ na \in Nat
      /\ na \in 0 .. Vectors - 1
  BY <1>1, ShapeFacts DEF CarryShape
<1>4. size[small] <= size[big]
  <2> DEFINE sa == size["a"]  sb == size["b"]
  <2>1. sa \in Nat /\ sb \in Nat /\ Longer = (IF sa < sb THEN sb ELSE sa)
    BY <1>1 DEF CarryShape, Longer
  <2>2. (size[big] = sa /\ size[small] = sb) \/ (size[big] = sb /\ size[small] = sa)
    BY <1>1 DEF CarryShape
  <2> HIDE DEF sa, sb
  <2> QED BY <1>2, <2>1, <2>2
<1>5. X[LimbsTo(na, at)] = 0 /\ Y[LimbsTo(na, at)] = 0
  <2> DEFINE j == LimbsTo(na, at)
  <2>1. j \in Limbs /\ ~(j < size[big]) /\ ~(j < size[small])
    BY <1>2, <1>3, <1>4, AreaRoom
  <2> HIDE DEF j
  <2>2. X[j] = 0 /\ Y[j] = 0
    BY <2>1 DEF X, Y, Full
  <2> QED BY <2>2 DEF j
<1>6. Direction(op) = 1 /\ ~(vi < na) /\ vi' = na + 1
  BY <1>3, CombineFrame DEF Direction
<1> QED BY <1>2, <1>3, <1>4, <1>5, <1>6, CombineFrame, CombineFacts

(* Where a sum ends, and what it returns. *)
LEMMA SumEnds ==
  ASSUME Combine, ~(vi < na), op = "add_carry"
  PROVE  /\ pc' = IF extra /\ ~(extra /\ at # L - 1) THEN "spill" ELSE "done"
         /\ ret' = IF extra THEN LimbsTo(na, at) + 1 ELSE LimbsTo(na, at)
<1> DEFINE top == na * L + at + 1
<1>1. /\ pc' = IF extra /\ ~(extra /\ at # L - 1) THEN "spill" ELSE "done"
      /\ ret' = IF op = "cmp_and_sub" THEN IF sig THEN -top ELSE top
                ELSE IF extra THEN top + 1 ELSE top
  BY DEF Combine
<1>2. LimbsTo(na, at) = top
  BY DEF LimbsTo
<1> HIDE DEF top
<1>3. ret' = IF extra THEN top + 1 ELSE top
  BY <1>1
<1> QED BY <1>1, <1>2, <1>3

LEMMA CombineSum ==
  ASSUME CarryInv, Combine, vi = na, op = "add_carry", extra = FALSE
  PROVE  CarryInv'
<1> DEFINE C == LimbsTo(na, at)
<1>1. /\ CarryShape /\ na \in Nat /\ C = na * L + (at + 1) /\ C \in Nat /\ C > 0 /\ C <= Size
      /\ na * L \in Nat
  BY LastVector
<1>2. PICK k : /\ \A l \in 0 .. L : k[l] \in {0, 1}
               /\ \A nv \in 0 .. L : nv <= TopLane + 1 =>
                    Balanced(mem'[target], X, Y, Direction(op), k[nv], na * L + nv)
  BY LastVector
<1>3. /\ UNCHANGED <<op, target, size, extra, big, small, na, nb, at, bt, sig, before>>
      /\ A' = A /\ D' = D /\ Longer' = Longer /\ CarryShape'
      /\ C = size[big] /\ C = Longer /\ size[small] <= C /\ at \in Lane /\ Direction(op) = 1 /\ ~(vi < na)
      /\ DigitLimbs(mem'[target])
  BY SumFrame
<1>4. TopLane = at /\ at + 1 \in 0 .. L
  BY <1>3, Parameters DEF TopLane
<1>5. pc' = "done" /\ ret' = C
  BY <1>3, SumEnds
<1>6. k[at + 1] \in {0, 1} /\ Balanced(mem'[target], X, Y, 1, k[at + 1], C)
  <2> DEFINE nv == at + 1
  <2>1. nv \in 0 .. L /\ nv <= TopLane + 1 /\ C = na * L + nv
    BY <1>1, <1>3, <1>4, Parameters
  <2> HIDE DEF nv
  <2>2. k[nv] \in {0, 1} /\ Balanced(mem'[target], X, Y, Direction(op), k[nv], na * L + nv)
    BY <1>2, <2>1
  <2>3. k[nv] \in {0, 1} /\ Balanced(mem'[target], X, Y, 1, k[nv], C)
    BY <1>3, <2>1, <2>2
  <2> QED BY <2>3 DEF nv
<1> HIDE DEF C
<1>7. Number(mem'[target], C, B) = (A + D) % Power(B, C)
  <2> DEFINE c == k[at + 1]  p == Power(B, C)  r == Number(mem'[target], C, B)  z == A + D
  <2>1. c \in {0, 1} /\ Balanced(mem'[target], X, Y, 1, c, C)
    BY <1>6
  <2>2. size[big] <= C
    BY <1>1, <1>3
  <2> HIDE DEF c
  <2>3. r + p * c = z /\ A \in Int /\ D \in Int /\ r \in 0 .. p - 1 /\ p \in Nat /\ p > 0
    BY <1>1, <1>3, <2>1, <2>2, SumOfBoth
  <2>4. z \in Int
    BY <2>3
  <2> HIDE DEF p, r, z
  <2>5. c \in Int /\ z = p * c + r
    BY <2>1, <2>3, <2>4
  <2>6. z % p = r
    BY <2>3, <2>4, <2>5, Quotient
  <2> QED BY <2>6 DEF p, r, z
<1>8. RightWhenDone'
  <2>1. Abs(ret') = C
    BY <1>1, <1>5 DEF Abs
  <2>2. Result' = Number(mem'[target], C, B)
    BY <1>3, <2>1 DEF Result, Abs
  <2>3. op' # "cmp_and_sub" /\ extra' = FALSE /\ ret' = Longer'
    BY <1>3, <1>5
  <2> QED BY <1>3, <1>7, <2>2, <2>3 DEF RightWhenDone
<1>9. OnlyResultWritten'
  BY LastWrites
<1> QED BY <1>3, <1>5, <1>8, <1>9 DEF CarryInv, Scanning, Combining, Spilling

LEMMA CombineWidened ==
  ASSUME CarryInv, Combine, vi = na, op = "add_carry", extra = TRUE, at # L - 1
  PROVE  CarryInv'
<1> DEFINE C == LimbsTo(na, at)
<1>1. /\ CarryShape /\ na \in Nat /\ C = na * L + (at + 1) /\ C \in Nat /\ C > 0 /\ C <= Size
      /\ na * L \in Nat
  BY LastVector
<1>2. PICK k : /\ \A l \in Lane : X[na * L + l] = 0 /\ Y[na * L + l] = 0 /\ op # "cmp_and_sub"
                                    => k[l + 1] = 0
               /\ \A nv \in 0 .. L : nv <= TopLane + 1 =>
                    Balanced(mem'[target], X, Y, Direction(op), k[nv], na * L + nv)
  BY LastVector
<1>3. /\ UNCHANGED <<op, target, size, extra, big, small, na, nb, at, bt, sig, before>>
      /\ A' = A /\ D' = D /\ Longer' = Longer /\ CarryShape'
      /\ C = size[big] /\ C = Longer /\ size[small] <= C /\ at \in Lane /\ Direction(op) = 1 /\ ~(vi < na)
      /\ DigitLimbs(mem'[target]) /\ X[C] = 0 /\ Y[C] = 0 /\ size[big] \in Nat /\ size[small] \in Nat
  BY SumFrame
<1>4. TopLane = at + 1 /\ at + 1 \in Lane /\ at + 2 \in 0 .. L
  BY <1>3, Parameters DEF TopLane
<1>5. pc' = "done" /\ ret' = C + 1
  BY <1>3, SumEnds
<1>6. Balanced(mem'[target], X, Y, 1, 0, C + 1)
  <2> DEFINE l == at + 1  nv == at + 2
  <2>1. nv \in 0 .. L /\ nv <= TopLane + 1 /\ l \in Lane /\ l + 1 = nv /\ C = na * L + l
        /\ C + 1 = na * L + nv
    BY <1>1, <1>3, <1>4, Parameters
  <2> HIDE DEF l, nv, C
  <2>2. k[nv] = 0
    BY <1>2, <1>3, <2>1
  <2>3. Balanced(mem'[target], X, Y, Direction(op), k[nv], na * L + nv)
    BY <1>2, <2>1
  <2> QED BY <1>3, <2>1, <2>2, <2>3
<1>7. C + 1 <= Size
  <2>1. na < Vectors /\ size[big] < Size /\ Size \in Nat
    BY <1>1, ShapeFacts, AreaRoom
  <2> QED BY <1>1, <1>3, <2>1
<1> HIDE DEF C
<1>8. Number(mem'[target], C + 1, B) = A + D
  <2> DEFINE w == C + 1  p == Power(B, w)  r == Number(mem'[target], w, B)  c == 0
  <2>1. w \in Nat /\ w <= Size /\ size[big] <= w /\ size[small] <= w
    BY <1>1, <1>3, <1>7
  <2>2. c \in {0, 1} /\ Balanced(mem'[target], X, Y, 1, c, w) /\ c = 0
    BY <1>6
  <2> HIDE DEF w, c
  <2>3. r + p * c = A + D /\ r \in 0 .. p - 1 /\ p \in Nat
    BY <1>1, <1>3, <2>1, <2>2, SumOfBoth
  <2> HIDE DEF p, r
  <2>4. r = A + D
    BY <2>2, <2>3
  <2> QED BY <2>4 DEF r, w
<1>9. RightWhenDone'
  <2>1. Abs(ret') = C + 1
    BY <1>1, <1>5 DEF Abs
  <2>2. Result' = Number(mem'[target], C + 1, B)
    BY <1>3, <2>1 DEF Result, Abs
  <2>3. op' # "cmp_and_sub" /\ extra' = TRUE /\ ret' = Longer' + 1
    BY <1>3, <1>5
  <2> QED BY <1>3, <1>8, <2>2, <2>3 DEF RightWhenDone
<1>10. OnlyResultWritten'
  BY LastWrites
<1> QED BY <1>3, <1>5, <1>9, <1>10 DEF CarryInv, Scanning, Combining, Spilling

LEMMA CombineFull ==
  ASSUME CarryInv, Combine, vi = na, op = "add_carry", extra = TRUE, at = L - 1
  PROVE  CarryInv'
<1> DEFINE C == LimbsTo(na, at)
<1>1. /\ CarryShape /\ na \in Nat /\ C = na * L + (at + 1) /\ C \in Nat /\ C > 0 /\ C <= Size
      /\ na * L \in Nat
  BY LastVector
<1>2. PICK k : /\ \A l \in 0 .. L : k[l] \in {0, 1}
               /\ carry' = k[L]
               /\ \A nv \in 0 .. L : nv <= TopLane + 1 =>
                    Balanced(mem'[target], X, Y, Direction(op), k[nv], na * L + nv)
  BY LastVector
<1>3. /\ UNCHANGED <<op, target, size, extra, big, small, na, nb, at, bt, sig, before>>
      /\ A' = A /\ D' = D /\ Longer' = Longer /\ CarryShape' /\ vi' = na + 1
      /\ C = size[big] /\ C = Longer /\ size[small] <= C /\ at \in Lane /\ Direction(op) = 1 /\ ~(vi < na)
      /\ DigitLimbs(mem'[target])
  BY SumFrame
<1>4. TopLane = L - 1 /\ L \in 0 .. L /\ L \in Nat
  BY <1>3, Parameters DEF TopLane
<1>5. pc' = "spill" /\ ret' = C + 1
  BY <1>3, SumEnds
<1>6. C = (na + 1) * L
  BY <1>1, <1>4
<1>7. Balanced(mem'[target], X, Y, 1, carry', C) /\ carry' \in {0, 1}
  <2> DEFINE nv == L
  <2>1. nv \in 0 .. L /\ nv <= TopLane + 1 /\ C = na * L + nv /\ nv = L
    BY <1>1, <1>4
  <2> HIDE DEF nv, C
  <2>2. k[nv] \in {0, 1} /\ Balanced(mem'[target], X, Y, Direction(op), k[nv], na * L + nv)
    BY <1>2, <2>1
  <2> QED BY <1>2, <1>3, <2>1, <2>2
<1> HIDE DEF C
<1>8. Number(mem'[target], C, B) + Power(B, C) * carry' = A + D
  <2> DEFINE c == carry'
  <2>1. c \in {0, 1} /\ Balanced(mem'[target], X, Y, 1, c, C)
    BY <1>7
  <2>2. size[big] <= C
    BY <1>1, <1>3
  <2> HIDE DEF c
  <2>3. Number(mem'[target], C, B) + Power(B, C) * c = A + D
    BY <1>1, <1>3, <2>1, <2>2, SumOfBoth
  <2> QED BY <2>3 DEF c
<1>9. Spilling'
  BY <1>3, <1>5, <1>6, <1>8 DEF Spilling, LimbsTo, C
<1>10. OnlyResultWritten'
  BY LastWrites
<1> QED BY <1>3, <1>5, <1>9, <1>10 DEF CarryInv, Scanning, Combining, RightWhenDone

LEMMA CombineGood ==
  ASSUME CarryInv, Combine
  PROVE  CarryInv'
<1>1. vi <= na /\ vi \in Nat /\ na \in Nat
  <2>1. CarryShape /\ Combining /\ pc = "combine"
    BY DEF CarryInv, Combine
  <2> QED BY <2>1, VectorNumber, ShapeFacts
<1>2. (op = "cmp_and_sub" \/ op = "add_carry") /\ (extra = TRUE \/ extra = FALSE)
  BY DEF CarryInv, CarryShape
<1>3. CASE vi < na
  BY <1>3, CombineOn
<1>4. CASE vi = na /\ op = "cmp_and_sub"
  BY <1>4, CombineDifference
<1>5. CASE vi = na /\ op = "add_carry" /\ extra = FALSE
  BY <1>5, CombineSum
<1>6. CASE vi = na /\ op = "add_carry" /\ extra = TRUE /\ at # L - 1
  BY <1>6, CombineWidened
<1>7. CASE vi = na /\ op = "add_carry" /\ extra = TRUE /\ at = L - 1
  BY <1>7, CombineFull
<1>8. vi < na \/ vi = na
  BY <1>1
<1> QED BY <1>2, <1>3, <1>4, <1>5, <1>6, <1>7, <1>8

(* The carry limb of a full top vector is one more digit of the sum. *)
LEMMA SpillGood ==
  ASSUME CarryInv, Spill
  PROVE  CarryInv'
<1> DEFINE C == Longer  w == [Zero EXCEPT ![0] = carry % 2]
<1>1. CarryShape /\ Spilling /\ pc = "spill" /\ OnlyResultWritten
  BY DEF CarryInv, Spill
<1>2. /\ op = "add_carry" /\ extra = TRUE /\ at = L - 1 /\ vi = na + 1
      /\ LimbsTo(na, at) = size[big] /\ size[big] = C /\ ret = C + 1
      /\ Number(mem[target], vi * L, B) + Power(B, vi * L) * carry = A + D
  BY <1>1 DEF Spilling
<1>3. /\ na \in Nat /\ na \in 0 .. Vectors - 1 /\ at \in Lane /\ vi \in Nat /\ C \in Nat /\ C < Size
      /\ carry \in {0, 1} /\ target \in Arrays /\ ArrayTypes
  BY <1>1, <1>2, ShapeFacts DEF CarryShape, ArrayTypes
<1>4. vi * L = C /\ na * L \in Nat /\ vi * L = na * L + at + 1
  BY <1>2, <1>3, CountBounds, VectorLimbs, Parameters
<1>5. /\ pc' = "done"
      /\ UNCHANGED <<op, target, size, extra, big, small, na, nb, at, bt, sig, vi, carry, ret, before>>
      /\ Store(vi, w, {0})
  BY DEF Spill
<1>6. w[0] = carry /\ DigitLanes(w) /\ 0 \in Lane
  <2>1. carry % 2 = carry
    BY <1>3
  <2>2. 0 \in Lane /\ 0 \in 0 .. B - 1 /\ 1 \in 0 .. B - 1
    BY Parameters
  <2> QED BY <1>3, <2>1, <2>2 DEF Zero, DigitLanes
<1> HIDE DEF C, w
<1>7. /\ ArrayTypes'
      /\ \A name \in Arrays : name # target => mem'[name] = mem[name]
      /\ mem'[target][C] = carry
      /\ \A j \in Limbs : j < C \/ C + 1 <= j => mem'[target][j] = mem[target][j]
  <2> DEFINE t == 0
  <2>1. t \in Lane /\ t = 0 /\ Store(vi, w, UpTo(t)) /\ UpTo(t) = {0}
    <3>1. UpTo(0) = {0}
      BY DEF UpTo
    <3> QED BY <1>5, <1>6, <3>1
  <2> HIDE DEF t
  <2>2. /\ ArrayTypes'
        /\ \A name \in Arrays : name # target => mem'[name] = mem[name]
        /\ \A l \in 0 .. t : vi * L + l \in Limbs => mem'[target][vi * L + l] = w[l]
        /\ \A j \in Limbs : j < vi * L \/ vi * L + t + 1 <= j => mem'[target][j] = mem[target][j]
    BY <1>3, <1>6, <2>1, StoreRight
  <2>3. vi * L + 0 = C /\ C \in Limbs /\ vi * L + 0 + 1 = C + 1
    BY <1>3, <1>4, AreaRoom
  <2> QED BY <1>4, <1>6, <2>1, <2>2, <2>3
<1>8. mem' \in [Arrays -> [Limbs -> 0 .. B - 1]]
  BY <1>7 DEF ArrayTypes, Arrays, Limbs, Vectors
<1>9. CarryShape'
  BY <1>1, <1>5, <1>8 DEF CarryShape, Lane, Limbs, Arrays, Vectors
<1>10. A' = A /\ D' = D /\ Longer' = Longer
  BY <1>5 DEF A, D, Longer
<1>11. Number(mem'[target], C + 1, B) = A + D
  <2> DEFINE M == mem[target]  N == mem'[target]
  <2>1. DigitLimbs(M) /\ DigitLimbs(N)
    <3>1. M \in [Limbs -> 0 .. B - 1] /\ N \in [Limbs -> 0 .. B - 1]
      BY <1>3, <1>8 DEF ArrayTypes
    <3> QED BY <3>1 DEF DigitLimbs
  <2>2. N[C] = carry /\ \A j \in Limbs : j < C => N[j] = M[j]
    BY <1>7
  <2>3. Number(M, C, B) + Power(B, C) * carry = A + D
    BY <1>2, <1>4
  <2> HIDE DEF M, N
  <2>4. \A j \in 0 .. C : j \in Limbs /\ N[j] \in Int /\ M[j] \in Int
    BY <1>3, <2>1, AreaRoom, Parameters DEF DigitLimbs
  <2>5. \A j \in 0 .. C - 1 : N[j] = M[j] /\ N[j] \in Int
    BY <1>3, <2>2, <2>4
  <2>6. B \in Nat /\ B > 0
    BY Parameters
  <2>7. Number(N, C, B) = Number(M, C, B)
    BY <1>3, <2>5, <2>6, NumberOfSame
  <2>8. Number(N, C + 1, B) = Number(N, C, B) + Power(B, C) * N[C]
    <3> DEFINE z == C + 1
    <3>1. z \in Nat /\ C \in 0 .. z - 1 /\ \A j \in 0 .. z - 1 : N[j] \in Int
      BY <1>3, <2>4
    <3> HIDE DEF z
    <3>2. Number(N, C + 1, B) = Number(N, C, B) + Power(B, C) * N[C]
      BY <2>6, <3>1, NumberSteps
    <3> QED BY <3>2
  <2>9. Number(N, C + 1, B) = A + D
    BY <2>2, <2>3, <2>7, <2>8
  <2> QED BY <2>9 DEF N
<1>12. RightWhenDone'
  <2>1. Abs(ret') = C + 1
    BY <1>2, <1>3, <1>5 DEF Abs
  <2>2. Result' = Number(mem'[target], C + 1, B)
    BY <1>5, <2>1 DEF Result, Abs
  <2>3. op' # "cmp_and_sub" /\ extra' = TRUE /\ ret' = Longer' + 1
    BY <1>2, <1>5, <1>10 DEF C
  <2> QED BY <1>10, <1>11, <2>2, <2>3 DEF RightWhenDone
<1>13. OnlyResultWritten'
  <2>1. ASSUME NEW name \in Arrays, NEW j \in Limbs, mem'[name][j] # before[name][j]
        PROVE  name = target /\ j <= na * L + at + 1
    <3>1. CASE mem[name][j] # before[name][j]
      BY <1>1, <1>2, <3>1 DEF OnlyResultWritten
    <3>2. CASE mem[name][j] = before[name][j]
      <4>1. name = target /\ ~(j < C) /\ ~(C + 1 <= j)
        BY <1>7, <2>1, <3>2
      <4>2. j \in Nat
        BY AreaRoom
      <4> QED BY <1>3, <1>4, <4>1, <4>2
    <3> QED BY <3>1, <3>2
  <2> QED BY <1>2, <1>5, <2>1 DEF OnlyResultWritten, Arrays, Limbs, Vectors
<1> QED BY <1>5, <1>9, <1>12, <1>13 DEF CarryInv, Scanning, Combining, Spilling

LEMMA StutterGood ==
  ASSUME CarryInv, UNCHANGED carryVars
  PROVE  CarryInv'
<1>1. UNCHANGED <<op, mem, target, size, extra, pc, big, small, na, nb, at, bt, sig, vi, carry, ret, before>>
  BY DEF carryVars
<1>2. X' = X /\ Y' = Y /\ A' = A /\ D' = D /\ Longer' = Longer /\ Result' = Result
  BY <1>1 DEF X, Y, Full, Limbs, Vectors, A, D, Longer, Result, Abs
<1>3. CarryShape'
  BY <1>1 DEF CarryInv, CarryShape, Lane, Limbs, Arrays, Vectors
<1>4. Aligned' <=> Aligned
  BY <1>1, <1>2 DEF Aligned, LimbsTo, TopEmpty, Limbs, Vectors
<1>5. Scanning'
  BY <1>1, <1>2, <1>4 DEF CarryInv, Scanning, SameFrom, Limbs, Vectors
<1>6. Ready' <=> Ready
  BY <1>1, <1>2 DEF Ready, LimbsTo, SameFrom, Limbs, Vectors, Size
<1>7. Kept(vi * L)' <=> Kept(vi * L)
  BY <1>1 DEF Kept, Limbs, Arrays, Vectors
<1>8. Balanced(mem[target], X, Y, Direction(op), carry, vi * L)'
        <=> Balanced(mem[target], X, Y, Direction(op), carry, vi * L)
  BY <1>1, <1>2 DEF Balanced, Direction
<1>9. Combining'
  BY <1>1, <1>4, <1>6, <1>7, <1>8 DEF CarryInv, Combining
<1>10. Spilling'
  BY <1>1, <1>2 DEF CarryInv, Spilling, LimbsTo
<1>11. OnlyResultWritten' <=> OnlyResultWritten
  BY <1>1 DEF OnlyResultWritten, Arrays, Limbs, Vectors
<1>12. RightWhenDone'
  BY <1>1, <1>2 DEF CarryInv, RightWhenDone, Abs
<1> QED BY <1>1, <1>3, <1>5, <1>9, <1>10, <1>11, <1>12 DEF CarryInv

LEMMA InvariantHolds == CarrySpec => []CarryInv
<1>1. CarryInv /\ [CarryNext]_carryVars => CarryInv'
  <2> SUFFICES ASSUME CarryInv, [CarryNext]_carryVars PROVE CarryInv'
    OBVIOUS
  <2>1. CASE ScanAbove
    BY <2>1, ScanAboveGood
  <2>2. CASE Compare
    BY <2>2, CompareGood
  <2>3. CASE Combine
    BY <2>3, CombineGood
  <2>4. CASE Spill
    BY <2>4, SpillGood
  <2>5. CASE UNCHANGED carryVars
    BY <2>5, StutterGood
  <2> QED BY <2>1, <2>2, <2>3, <2>4, <2>5 DEF CarryNext
<1> QED BY <1>1, InitGood, PTL DEF CarrySpec

(* At no moment has a limb outside the result changed: the limbs past it, and *)
(* an operand that is not overwritten, are intact.                           *)
LEMMA NothingElse == CarryInv => OnlyResultWritten
<1> SUFFICES ASSUME CarryInv PROVE OnlyResultWritten
  OBVIOUS
<1>1. CASE pc \in {"spill", "done"}
  BY <1>1 DEF CarryInv
<1>2. CASE pc \in {"above", "compare"}
  BY <1>2 DEF CarryInv, Scanning, OnlyResultWritten
<1>3. CASE pc = "combine"
  <2>1. CarryShape /\ Combining /\ Kept(vi * L)
    BY <1>3 DEF CarryInv, Combining
  <2>2. vi * L \in Nat /\ vi * L <= na * L /\ na * L \in Nat /\ at \in Nat
    <3>1. vi \in Nat /\ na \in Nat /\ vi <= na /\ at \in Lane /\ L \in Nat
      BY <1>3, <2>1, VectorNumber, ShapeFacts, Parameters DEF CarryShape
    <3>2. vi * L \in Nat /\ na * L \in Nat /\ vi * L <= na * L
      BY <3>1
    <3> QED BY <3>1, <3>2, Parameters
  <2>3. ASSUME NEW name \in Arrays, NEW j \in Limbs, mem[name][j] # before[name][j]
        PROVE  name = target /\ j <= na * L + at + (IF extra THEN 1 ELSE 0)
    <3>1. name = target /\ ~(vi * L <= j) /\ j \in Nat
      BY <2>1, <2>3, AreaRoom DEF Kept
    <3> QED BY <2>2, <3>1
  <2> QED BY <2>3 DEF OnlyResultWritten
<1> QED BY <1>1, <1>2, <1>3 DEF CarryInv

(* u52_cmp_and_sub and u52_add_carry return |a - b| with its sign, and a + b, *)
(* for operands of every length and content and vectors of every size, and   *)
(* they never write a limb outside what they return.                         *)
THEOREM CarryAlwaysRight == CarrySpec => []CarryResultRight
<1>1. CarryInv => CarryResultRight
  BY NothingElse DEF CarryInv, CarryResultRight
<1> QED BY <1>1, InvariantHolds, PTL
=============================================================================
