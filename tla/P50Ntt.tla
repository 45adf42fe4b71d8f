------------------------------- MODULE P50Ntt -------------------------------
(***************************************************************************)
(* include/p50.h.  First the truncated transform for one prime pp: forward *)
(* (p50_fwd_rec), and the traversal that transforms, convolves with the    *)
(* other spectrum and inverts (p50_fused_rec).  Then the plan, and the way *)
(* from limbs to residues and back.                                        *)
(*                                                                         *)
(* An array is a sequence of words, Lanes to a vector; a node is a window  *)
(* of m vectors from vector off on.  A recursive function stands for the   *)
(* list of passes it makes; a pass rewrites [b |-> the array, s |-> the    *)
(* spectrum of the other operand].  pp = [p, J, inv2, w, winv] is the      *)
(* code's p50_prime, its tables hold pairs [c, rec].                       *)
(***************************************************************************)
EXTENDS Integers, Sequences, SequencesExt

CONSTANTS
  Bits,      \* 52, the width of a product's operands
  Lanes      \* P50_W

Word == 2 ^ Bits
Low(x) == x % Word
High(x) == x \div Word
The(S) == CHOOSE x \in S : TRUE          \* of a singleton: its member, computed once
Eager(f) == f \o <<>>                    \* a function on 1 .. n as a tuple, computed now
lg(m) == CHOOSE k \in 0 .. 30 : 2 ^ k = m

-----------------------------------------------------------------------------
(* Words.  madd52 takes the low Bits of its operands.                        *)

p50_cc_of(c, p) == [c |-> c, rec |-> (c * Word) \div p]
(* a * c mod p in [0, 2p) for any a < Word *)
p50_b52(a, t, pp) == Low(Low(Low(a) * t.c) + Low(High(Low(a) * t.rec) * (Word - pp.p)))
p50_sh2(x, pp) == IF x >= 2 * pp.p THEN x - 2 * pp.p ELSE x
p50_shp(x, pp) == IF x >= pp.p THEN x - pp.p ELSE x
p50_redc(lo, hi, pp) ==
  LET m == Low(Low(lo) * pp.J)
  IN  hi + High(lo) + High(m * pp.p) + (IF Low(lo) # 0 THEN 1 ELSE 0)

-----------------------------------------------------------------------------
(* The passes a call makes.  j is the node's number in its level.            *)

Pass(op, off, m, j, z) == [op |-> op, off |-> off, m |-> m, j |-> j, z |-> z]

(* k levels down from (up to) a node; z counts the nodes of a level *)
Levels(off, m, j, k) ==
  [i \in 1 .. k |-> Pass("level", off, m \div 2 ^ (i - 1), j * 2 ^ (i - 1), 2 ^ (i - 1))]
InverseLevels(off, m, j, k) ==
  [i \in 1 .. k |-> Pass("inverse", off, m \div 2 ^ (k - i), j * 2 ^ (k - i), 2 ^ (k - i))]

p50_fwd8(off, m, j) == Levels(off, m, j, 3)
p50_inv8(off, m, j) == InverseLevels(off, m, j, 3)
p50_fwd16r(off, j) == Levels(off, 16, j, 4)
p50_inv16r(off, j) == InverseLevels(off, 16, j, 4)
p50_fwd32r(off, j) == Levels(off, 32, j, 1) \o p50_fwd16r(off, 2 * j) \o p50_fwd16r(off + 16, 2 * j + 1)
p50_inv32r(off, j) == p50_inv16r(off, 2 * j) \o p50_inv16r(off + 16, 2 * j + 1) \o InverseLevels(off, 32, j, 1)

p50_leaf_ls(m) == CASE lg(m) % 3 = 0 -> 8 [] lg(m) % 3 = 1 -> 16 [] OTHER -> 32
ForwardLeaf(off, m, j) ==
  CASE m = 8 -> p50_fwd8(off, 8, j) [] m = 16 -> p50_fwd16r(off, j) [] m = 32 -> p50_fwd32r(off, j)
InverseLeaf(off, m, j) ==
  CASE m = 8 -> p50_inv8(off, 8, j) [] m = 16 -> p50_inv16r(off, j) [] m = 32 -> p50_inv32r(off, j)
(* p50_fused8l, p50_fused16l, p50_fused32l *)
FusedLeaf(off, m, j) ==
  ForwardLeaf(off, m, j) \o <<Pass("conv", off, m, j, m)>> \o InverseLeaf(off, m, j)

(* A walk over the leaf blocks of a full subtree: a moth of size s is due     *)
(* before the first block of its node (largest s first) going down, after    *)
(* its last (smallest first) going up.                                       *)
Moths(m) == [i \in 1 .. (lg(m) - lg(p50_leaf_ls(m))) \div 3 |-> m \div 8 ^ (i - 1)]
Begun(off, m, j, b) ==
  LET ls == p50_leaf_ls(m)
      due == SelectSeq(Moths(m), LAMBDA s : b % (s \div ls) = 0)
  IN  FlattenSeq([i \in DOMAIN due |->
        p50_fwd8(off + b * ls, due[i], j * (m \div due[i]) + ((b * ls) \div due[i]))])
Ended(off, m, j, b) ==
  LET ls == p50_leaf_ls(m)
      end == (b + 1) * ls
      due == Reverse(SelectSeq(Moths(m), LAMBDA s : (b + 1) % (s \div ls) = 0))
  IN  FlattenSeq([i \in DOMAIN due |->
        p50_inv8((off + end) - due[i], due[i], j * (m \div due[i]) + ((end - due[i]) \div due[i]))])

p50_fwd_full(off, m, j) ==
  LET ls == p50_leaf_ls(m)
      nb == m \div ls
  IN  CASE m <= 4 -> Levels(off, m, j, lg(m))
        [] m \in {8, 16, 32} -> ForwardLeaf(off, m, j)
        [] OTHER -> FlattenSeq([b \in 1 .. nb |->
             Begun(off, m, j, b - 1) \o ForwardLeaf(off + (b - 1) * ls, ls, (j * nb + b) - 1)])
RECURSIVE p50_fused_full(_, _, _)
p50_fused_full(off, m, j) ==
  LET ls == p50_leaf_ls(m)
      nb == m \div ls
      h == m \div 2
  IN  CASE m = 1 -> <<Pass("conv", off, 1, j, 1)>>
        [] m \in {2, 4} -> Levels(off, m, j, 1) \o p50_fused_full(off, h, 2 * j)
                           \o p50_fused_full(off + h, h, 2 * j + 1) \o InverseLevels(off, m, j, 1)
        [] m \in {8, 16, 32} -> FusedLeaf(off, m, j)
        [] OTHER -> FlattenSeq([b \in 1 .. nb |->
             Begun(off, m, j, b - 1) \o FusedLeaf(off + (b - 1) * ls, ls, (j * nb + b) - 1)
             \o Ended(off, m, j, b - 1)])

(* The truncation spine: the first z vectors of a node's output. *)
RECURSIVE p50_fwd_rec(_, _, _, _)
p50_fwd_rec(off, m, j, z) ==
  LET h == m \div 2
  IN  CASE m = 1 -> <<>>
        [] m > 1 /\ z = m -> p50_fwd_full(off, m, j)
        [] m > 1 /\ z <= h -> <<Pass("low_level", off, m, j, z)>> \o p50_fwd_rec(off, h, 2 * j, z)
        [] OTHER -> Levels(off, m, j, 1) \o p50_fwd_rec(off, h, 2 * j, h)
                    \o p50_fwd_rec(off + h, h, 2 * j + 1, z - h)

(* With tails: from vector z on, s is dead and holds what the node's outputs *)
(* do not determine.                                                         *)
RECURSIVE p50_fused_sb(_, _, _, _)
p50_fused_sb(off, m, j, z) ==
  LET h == m \div 2
      here(op) == <<Pass(op, off, m, j, z)>>
  IN  CASE z = 0 -> <<>>
        [] z = m -> p50_fused_full(off, m, j)
        [] 0 < z /\ z <= h -> here("low_level") \o here("child_tails") \o p50_fused_sb(off, h, 2 * j, z)
                              \o here("low_combine")
        [] OTHER -> Levels(off, m, j, 1) \o p50_fused_full(off, h, 2 * j) \o here("right_tails")
                    \o p50_fused_sb(off + h, h, 2 * j + 1, z - h) \o here("short_inverse")
(* At the top there are no tails, until the first turn to the right makes some. *)
RECURSIVE p50_fused_rec(_, _, _, _)
p50_fused_rec(off, m, j, z) ==
  LET h == m \div 2
      here(op) == <<Pass(op, off, m, j, z)>>
  IN  CASE z = 0 -> <<>>
        [] z = m -> p50_fused_full(off, m, j)
        [] 0 < z /\ z <= h -> here("low_level") \o p50_fused_rec(off, h, 2 * j, z) \o here("low_double")
        [] OTHER -> Levels(off, m, j, 1) \o p50_fused_full(off, h, 2 * j) \o here("seed_tails")
                    \o p50_fused_sb(off + h, h, 2 * j + 1, z - h) \o here("short_inverse")

-----------------------------------------------------------------------------
(* The passes.  Word k of an array is in vector vec(p, k) of the node.        *)

vec(p, k) == ((k - 1) \div Lanes) - p.off
half(p) == (p.m \div 2) * Lanes
twiddle(p, pp) == pp.w[2 * p.j + 1]
(* x with the words that new defines replaced *)
Rewritten(x, new) == Eager([k \in DOMAIN x |-> IF k \in DOMAIN new THEN new[k] ELSE x[k]])
Words(p, from, upto) == (p.off + from) * Lanes + 1 .. (p.off + upto) * Lanes

(* P50_BFR and P50_IBFR over the p.z nodes of a level *)
Lower(p, k) == vec(p, k) % p.m < p.m \div 2
Level(x, p, pp) ==
  LET t(k) == pp.w[2 * (p.j + (vec(p, k) \div p.m)) + 1]
  IN  Rewritten(x, [k \in Words(p, 0, p.z * p.m) |->
        IF Lower(p, k) THEN p50_sh2(x[k], pp) + p50_b52(x[k + half(p)], t(k), pp)
        ELSE p50_sh2(x[k - half(p)], pp) + (2 * pp.p - p50_b52(x[k], t(k), pp))])
InverseLevel(x, p, pp) ==
  LET t(k) == pp.winv[2 * (p.j + (vec(p, k) \div p.m)) + 1]
  IN  Rewritten(x, [k \in Words(p, 0, p.z * p.m) |->
        IF Lower(p, k) THEN p50_sh2(x[k], pp) + p50_sh2(x[k + half(p)], pp)
        ELSE p50_b52((p50_sh2(x[k - half(p)], pp) - p50_sh2(x[k], pp)) + 2 * pp.p, t(k), pp)])
LowLevel(x, p, pp) ==
  Rewritten(x, [k \in Words(p, 0, p.m \div 2) |->
    p50_sh2(x[k], pp) + p50_b52(x[k + half(p)], twiddle(p, pp), pp)])

(* a * b mod (x^Lanes - ww), times Word^-1; aw = ww * a *)
Column(a, aw, b, l, pp) ==
  LET product(i) == (IF l <= i THEN aw[(l + Lanes) - i] ELSE a[l - i]) * b[i + 1]
      lo[i \in 0 .. Lanes] == IF i = 0 THEN 0 ELSE lo[i - 1] + Low(product(i - 1))
      hi[i \in 0 .. Lanes] == IF i = 0 THEN 0 ELSE hi[i - 1] + High(product(i - 1))
  IN  p50_redc(lo[Lanes], hi[Lanes], pp)
Convolved(a, ww, b, pp) ==
  The({Eager([l \in 1 .. Lanes |-> p50_sh2(Column(a, aw, b, l, pp), pp)]) :
         aw \in {Eager([l \in 1 .. Lanes |-> p50_shp(p50_b52(a[l], ww, pp), pp)])}})
p50_conv8(fa, fb, ww, pp) ==
  The({Convolved(a, ww, b, pp) : a \in {Eager([l \in 1 .. Lanes |-> p50_shp(p50_sh2(fa[l], pp), pp)])},
                                 b \in {Eager([l \in 1 .. Lanes |-> p50_sh2(fb[l], pp)])}})
Conv(x, y, p, pp) ==
  LET at(v) == (p.off + v) * Lanes
      cut(f, v) == SubSeq(f, at(v) + 1, at(v + 1))
      all[v \in 0 .. p.m] ==
        IF v = 0 THEN SubSeq(x, 1, at(0))
        ELSE all[v - 1] \o p50_conv8(cut(x, v - 1), cut(y, v - 1), pp.w[p.m * p.j + v], pp)
  IN  all[p.m] \o SubSeq(x, at(p.m) + 1, Len(x))

(* p50_fused_sb: the tails of a lower child, and what they owe its result *)
Tail_(s, p, k, pp) == p50_b52(s[k + half(p)], twiddle(p, pp), pp)
ChildTails(s, p, pp) ==
  Rewritten(s, [k \in Words(p, p.z, p.m \div 2) |->
    p50_b52(p50_sh2(s[k], pp) + Tail_(s, p, k, pp), pp.inv2, pp)])
Twice(x, k, pp) == LET a == p50_sh2(x[k], pp) IN a + a
LowDouble(x, p, pp) == Rewritten(x, [k \in Words(p, 0, p.z) |-> Twice(x, k, pp)])
LowCombine(x, s, p, pp) ==
  Rewritten(x, [k \in Words(p, 0, p.z) |->
    p50_sh2(Twice(x, k, pp), pp) + (2 * pp.p - Tail_(s, p, k, pp))])

(* the lower child's vectors that the upper one will not meet *)
Beyond(p) == Words(p, p.z - (p.m \div 2), p.m \div 2)
Above(p) == Words(p, p.z, p.m)
RightTail(x, s, p, k, pp) == p50_sh2(x[k], pp) + (2 * pp.p - Tail_(s, p, k, pp))
RightTails_out(x, s, p, pp) ==
  Rewritten(x, [k \in Beyond(p) |-> p50_sh2(x[k], pp) + p50_sh2(RightTail(x, s, p, k, pp), pp)])
RightTails_side(x, s, p, pp) ==
  Rewritten(s, [k \in Above(p) |-> RightTail(x, s, p, k - half(p), pp)])
SeedTails_out(x, p, pp) == Rewritten(x, [k \in Beyond(p) |-> Twice(x, k, pp)])
SeedTails_side(x, s, p, pp) == Rewritten(s, [k \in Above(p) |-> p50_sh2(x[k - half(p)], pp)])
ShortInverse(x, p, pp) ==
  LET t == pp.winv[2 * p.j + 1]
      zr == p.z - (p.m \div 2)
  IN  Rewritten(x, [k \in Words(p, 0, zr) \cup Words(p, p.m \div 2, p.z) |->
        IF Lower(p, k) THEN p50_sh2(x[k], pp) + p50_sh2(x[k + half(p)], pp)
        ELSE p50_b52((p50_sh2(x[k - half(p)], pp) - p50_sh2(x[k], pp)) + 2 * pp.p, t, pp)])

-----------------------------------------------------------------------------
(* y = [b, s] after pass p; squaring convolves b with itself *)
Passed(y, p, sq, pp) ==
  CASE p.op = "level" -> [y EXCEPT !.b = Level(@, p, pp)]
    [] p.op = "inverse" -> [y EXCEPT !.b = InverseLevel(@, p, pp)]
    [] p.op = "low_level" -> [y EXCEPT !.b = LowLevel(@, p, pp)]
    [] p.op = "conv" -> [y EXCEPT !.b = Conv(@, IF sq THEN y.b ELSE y.s, p, pp)]
    [] p.op = "child_tails" -> [y EXCEPT !.s = ChildTails(@, p, pp)]
    [] p.op = "low_combine" -> [y EXCEPT !.b = LowCombine(@, y.s, p, pp)]
    [] p.op = "low_double" -> [y EXCEPT !.b = LowDouble(@, p, pp)]
    [] p.op = "right_tails" -> [b |-> RightTails_out(y.b, y.s, p, pp), s |-> RightTails_side(y.b, y.s, p, pp)]
    [] p.op = "seed_tails" -> [b |-> SeedTails_out(y.b, p, pp), s |-> SeedTails_side(y.b, y.s, p, pp)]
    [] p.op = "short_inverse" -> [y EXCEPT !.b = ShortInverse(@, p, pp)]
Passes(y, program, sq, pp) ==
  LET run[i \in 0 .. Len(program)] ==
        IF i = 0 THEN y ELSE The({Passed(x, program[i], sq, pp) : x \in {run[i - 1]}})
  IN  run[Len(program)]
Forward(x, M, tv, pp) ==
  The({Passes([b |-> x, s |-> <<>>], program, FALSE, pp) : program \in {p50_fwd_rec(0, M, 0, tv)}}).b
Fused(x, s, M, tv, sq, pp) ==
  The({Passes([b |-> x, s |-> s], program, sq, pp) : program \in {p50_fused_rec(0, M, 0, tv)}})

-----------------------------------------------------------------------------
(* Between limbs and residues: the plan (p50_plan_init, p50_plan_ensure,     *)
(* p50_tio_build), the extraction of T-bit trunks modulo each prime          *)
(* (p50_input), and the way back (p50_output): Garner's mixed radix digits,  *)
(* the coefficient in words, three streams of trunks, their carries eight    *)
(* lanes at a time, and the funnel into limbs.  A limb has LimbBits (64), a  *)
(* word Bits (52); the shift counts of the code (12, T - 40, 92 - T,         *)
(* 2 T - 156 ..) are written in terms of the two.                            *)

CONSTANTS
  LimbBits,     \* 64
  Primes,       \* P50_PR, four of them, ascending
  TrunkBits,    \* the T of each rung, ascending: 80, 84, 88
  BaseLg        \* P50_BASE_LG: entries the root tables are first allocated for

ASSUME P50Assumption ==
  /\ Bits \in Nat \ {0} /\ Lanes \in Nat \ {0} /\ LimbBits \in Nat /\ BaseLg \in Nat
  /\ Len(Primes) = 4 /\ \A i \in 1 .. 4 : 4 * Primes[i] < Word
  /\ \A i \in 1 .. 3 : Primes[i] < Primes[i + 1]
  /\ \A i \in DOMAIN TrunkBits : LET T == TrunkBits[i] IN
       T > LimbBits /\ 2 * T >= 3 * Bits /\ T + LimbBits <= 3 * Bits

Limb == 2 ^ LimbBits
Unset == -1
Stale == Limb - 3                        \* what unwritten memory happens to hold
lshift(x, s) == IF s >= LimbBits THEN 0 ELSE (x % 2 ^ (LimbBits - s)) * 2 ^ s
(* _mm512_shrdv_epi64: the low limb of (b, a) >> s, s modulo the limb's width *)
shrdv(a, b, s) == LET r == s % LimbBits IN (a \div 2 ^ r) + ((b % 2 ^ r) * 2 ^ (LimbBits - r))

-----------------------------------------------------------------------------
(* The plan *)

Power(b, n, p) ==
  LET pw[e \in 0 .. n] ==
        IF e = 0 THEN 1
        ELSE LET r == pw[e \div 2] IN (((r * r) % p) * (IF e % 2 = 1 THEN b ELSE 1)) % p
  IN  pw[n]
p50_invm(a, p) == Power(a % p, p - 2, p)

(* the least multiple of step that makes n * by a multiple of unit *)
Least(step, by, unit) ==
  CHOOSE n \in {step * i : i \in 1 .. unit} :
    (n * by) % unit = 0 /\ \A i \in 1 .. unit : step * i < n => (step * i * by) % unit # 0
p50_tio_build(T) ==
  LET bt == Least(Lanes, T, LimbBits)
      bl == (bt * T) \div LimbBits
      ol == Least(bl, 1, Lanes)
      lw == T - Bits
      vbase(v) == (T * Lanes * v) \div LimbBits
      piece(v, l, at) == LET bp == T * (Lanes * v + l) + at
                         IN  [idx |-> (bp \div LimbBits) - vbase(v), sh |-> bp % LimbBits]
      obase(v) == (LimbBits * Lanes * v) \div T
      out(v, l) == LET bit == LimbBits * (Lanes * v + l)
                       u == bit \div T
                       s == bit - T * u
                   IN  [idx |-> u - obase(v), sh |-> s, lsh |-> T - s, swp |-> s >= LimbBits]
  IN  [T |-> T, LW |-> lw, BT |-> bt, BL |-> bl, nv |-> bt \div Lanes,
       vbase |-> Eager([v \in 1 .. bt \div Lanes |-> vbase(v - 1)]),
       lo |-> Eager([v \in 1 .. bt \div Lanes |-> Eager([l \in 1 .. Lanes |-> piece(v - 1, l - 1, 0)])]),
       hi |-> Eager([v \in 1 .. bt \div Lanes |-> Eager([l \in 1 .. Lanes |-> piece(v - 1, l - 1, lw)])]),
       OL |-> ol, OT |-> (ol * LimbBits) \div T, onv |-> ol \div Lanes,
       obase |-> Eager([v \in 1 .. ol \div Lanes |-> obase(v - 1)]),
       out |-> Eager([v \in 1 .. ol \div Lanes |-> Eager([l \in 1 .. Lanes |-> out(v - 1, l - 1)])]),
       C |-> Eager([q \in 1 .. 4 |-> (2 ^ T) % Primes[q]]),
       \* (p0 p1 / 2^T) (p2 p3 / 2^T), an underestimate of the products that fit
       capt |-> ((Primes[1] * Primes[2]) \div 2 ^ T) * ((Primes[3] * Primes[4]) \div 2 ^ T)]

FreshTable(first) == Eager([k \in 1 .. 2 ^ BaseLg |-> IF k = 1 THEN first ELSE [c |-> Unset, rec |-> Unset]])
FreshPrime(p) ==
  [p |-> p, J |-> CHOOSE J \in 0 .. Word - 1 : (J * p) % Word = Word - 1,
   inv2 |-> p50_cc_of((p + 1) \div 2, p),
   w |-> FreshTable(p50_cc_of(1, p)), winv |-> FreshTable(p50_cc_of(1, p))]
(* ppm: the products of the primes before; w: the same in words (w1, w2, w3) *)
Before(i, p) == LET pp[k \in 0 .. i - 1] == IF k = 0 THEN 1 ELSE (pp[k - 1] * (Primes[k] % p)) % p IN pp
WordsOf(x, by) ==                           \* the words of x * by, x given in words
  LET carry[i \in 0 .. Len(x)] == IF i = 0 THEN 0 ELSE High(x[i] * by + carry[i - 1])
  IN  Eager([i \in 1 .. Len(x) + 1 |-> IF i > Len(x) THEN carry[i - 1] ELSE Low(x[i] * by + carry[i - 1])])
p50_plan_init ==
  [init |-> TRUE, lg |-> 0, alg |-> BaseLg,
   pr |-> Eager([q \in 1 .. 4 |-> FreshPrime(Primes[q])]),
   tio |-> Eager([i \in DOMAIN TrunkBits |-> p50_tio_build(TrunkBits[i])]),
   ppm |-> Eager([i \in 1 .. 4 |-> Eager([k \in 1 .. i |->
             p50_cc_of(Before(i, Primes[i])[k - 1], Primes[i])])]),
   inv |-> Eager([i \in 1 .. 4 |->
             p50_cc_of(p50_invm(Before(i, Primes[i])[i - 1], Primes[i]), Primes[i])]),
   w |-> <<<<1>>, <<Primes[1]>>, WordsOf(<<Primes[1]>>, Primes[2]),
           WordsOf(WordsOf(<<Primes[1]>>, Primes[2]), Primes[3])>>]
NoPlan == [init |-> FALSE, lg |-> 0, alg |-> 0]

PrimeFactors(n) == {f \in 2 .. n : n % f = 0 /\ \A g \in 2 .. f - 1 : f % g # 0}
p50_primitive_root(p) ==
  LET factors == PrimeFactors(p - 1)
      generates(g) == \A f \in factors : Power(g, (p - 1) \div f, p) # 1
  IN  CHOOSE g \in 2 .. p - 1 : generates(g) /\ \A i \in 2 .. g - 1 : ~generates(i)

(* The tables only grow: a larger buffer takes over the entries there are,   *)
(* and level t appends zeta_t times the 2^(t-1) entries before it.           *)
Grown(table, keep, size) ==
  Eager([k \in 1 .. size |-> IF k <= keep THEN table[k] ELSE [c |-> Unset, rec |-> Unset]])
Appended(table, zeta, blk, p) ==
  Eager([k \in DOMAIN table |->
    IF k \in blk + 1 .. 2 * blk THEN p50_cc_of((zeta * table[k - blk].c) % p, p) ELSE table[k]])
Raised(table, from, upto, p, inverse) ==
  LET zeta(t) == LET z == Power(p50_primitive_root(p), (p - 1) \div 2 ^ t, p)
                 IN  IF inverse THEN p50_invm(z, p) ELSE z
      grow[t \in from .. upto] ==
        IF t = from THEN table
        ELSE The({Appended(x, z, 2 ^ (t - 1), p) : x \in {grow[t - 1]}, z \in {zeta(t)}})
  IN  grow[upto]
p50_plan_ensure(pl, to) ==
  LET roomy(pp) == [pp EXCEPT !.w = Grown(@, 2 ^ pl.lg, 2 ^ to), !.winv = Grown(@, 2 ^ pl.lg, 2 ^ to)]
      raised(pp) == [pp EXCEPT !.w = Raised(@, pl.lg, to, pp.p, FALSE),
                               !.winv = Raised(@, pl.lg, to, pp.p, TRUE)]
  IN  IF to <= pl.lg THEN pl
      ELSE [pl EXCEPT !.lg = to, !.alg = IF to > @ THEN to ELSE @,
                      !.pr = Eager([q \in 1 .. 4 |->
                        raised(IF to > pl.alg THEN roomy(pl.pr[q]) ELSE pl.pr[q])])]

-----------------------------------------------------------------------------
(* p50_input *)

(* Lane l of block vector v: a trunk as hi * 2^LW + lo, each from two        *)
(* neighbouring limbs of the window of 2 Lanes limbs.                        *)
Funnel(a, base, piece) ==
  shrdv(a[base + piece.idx + 1], a[base + ((piece.idx + 1) % (2 * Lanes)) + 1], piece.sh)
Residue(lo, hi, C, pp) ==                \* hi * C / Word, then lo on top
  p50_shp(p50_shp(p50_redc(Low(hi * C), High(hi * C), pp) + lo, pp), pp)
BlockTrunk(a, t, tp, q, pp) ==
  LET v == ((t % tp.BT) \div Lanes) + 1
      l == (t % Lanes) + 1
      base == (((t - (t % tp.BT)) * tp.T) \div LimbBits) + tp.vbase[v]
  IN  Residue(Funnel(a, base, tp.lo[v][l]) % 2 ^ tp.LW, Low(Funnel(a, base, tp.hi[v][l])), tp.C[q], pp)
(* the ragged tail, from a copy padded with zeros *)
TailTrunk(a, t, tp, q) ==
  LET limb(i) == IF i < Len(a) THEN a[i + 1] ELSE 0
      from(bp) == shrdv(limb(bp \div LimbBits), limb((bp \div LimbBits) + 1), bp % LimbBits)
      p == Primes[q]
  IN  (Low(from(t * tp.T + tp.LW)) * 2 ^ tp.LW + (from(t * tp.T) % 2 ^ tp.LW)) % p
(* Full blocks, as long as the last load of the block stays in the operand. *)
FullBlocks(nlimb, nat, tp) ==
  LET fits(b) == (b + 1) * tp.BT <= nat /\ b * tp.BL + tp.BL + 2 * Lanes <= nlimb
  IN  CHOOSE b \in 0 .. nat : ~fits(b) /\ \A i \in 0 .. b - 1 : fits(i)
p50_input(a, nat, size, tp, pl) ==
  LET t0 == FullBlocks(Len(a), nat, tp) * tp.BT
      trunk(k, q) == IF k >= nat THEN 0
                     ELSE IF k < t0 THEN BlockTrunk(a, k, tp, q, pl.pr[q]) ELSE TailTrunk(a, k, tp, q)
  IN  Eager([q \in 1 .. 4 |-> Eager([k \in 1 .. size |-> trunk(k - 1, q)])])

-----------------------------------------------------------------------------
(* p50_output *)

(* The mixed radix digits of the coefficient with residues r. *)
Garner(r, pl) ==
  LET pr == pl.pr
      \* sum of the digits before, times their weights, modulo prime i
      acc(d, i) == LET sum[k \in 1 .. i - 1] ==
                         IF k = 1 THEN d[1]
                         ELSE p50_sh2(sum[k - 1] + p50_b52(d[k], pl.ppm[i][k], pr[i]), pr[i])
                   IN  sum[i - 1]
      digit(d, i) == p50_shp(p50_b52((r[i] + 2 * pr[i].p) - acc(d, i), pl.inv[i], pr[i]), pr[i])
      digits[i \in 1 .. 4] == IF i = 1 THEN <<p50_shp(r[1], pr[1])>>
                              ELSE The({Append(d, digit(d, i)) : d \in {digits[i - 1]}})
  IN  digits[4]

(* the coefficient in four words, normalized *)
Composed(d, pl) ==
  LET low(i, n) == IF n \in 1 .. Len(pl.w[i]) THEN Low(d[i] * pl.w[i][n]) ELSE 0
      high(i, n) == IF n \in 1 .. Len(pl.w[i]) THEN High(d[i] * pl.w[i][n]) ELSE 0
      column(n) == low(1, n) + low(2, n) + low(3, n) + low(4, n)
                   + high(2, n - 1) + high(3, n - 1) + high(4, n - 1)
      c1 == column(2) + High(column(1))
      c2 == column(3) + High(c1)
      c3 == column(4) + High(c2)
  IN  <<Low(column(1)), Low(c1), Low(c2), c3>>
(* its trunks: two of T bits, as a limb and the T - LimbBits bits above, and the rest *)
Trunks(c, T) ==
  LET top == 2 ^ (T - LimbBits)
  IN  [b0l |-> (c[1] + lshift(c[2], Bits)) % Limb,
       b0h |-> (c[2] \div 2 ^ (LimbBits - Bits)) % top,
       b1l |-> ((c[2] \div 2 ^ (T - Bits)) + lshift(c[3], 2 * Bits - T)) % Limb,
       b1h |-> ((c[3] \div 2 ^ ((T + LimbBits) - 2 * Bits)) + lshift(c[4], (3 * Bits - LimbBits) - T)) % top,
       b2 |-> c[4] \div 2 ^ (2 * T - 3 * Bits)]

(* One vector of trunks (lo, hi) plus another, with the carries of all lanes *)
(* from one integer addition: lanes with hi at LIM make one, full lanes pass *)
(* one on.                                                                   *)
Mask(on) == LET bits[l \in 0 .. Lanes] == IF l = 0 THEN 0 ELSE bits[l - 1] + (IF on[l] THEN 2 ^ (l - 1) ELSE 0)
            IN  bits[Lanes]
Bit(x, l) == (x \div 2 ^ (l - 1)) % 2 = 1
FullLow(s, l) == s.lo[l] = Limb - 1
Full(s, l, LIM) == FullLow(s, l) /\ s.hi[l] = LIM - 1
CarriesOf(s, cin, LIM) ==
  Mask([l \in 1 .. Lanes |-> Full(s, l, LIM)]) + 2 * Mask([l \in 1 .. Lanes |-> s.hi[l] >= LIM]) + cin
Carried_unwrapped(s, cn, LIM) ==        \* a carry that fills the lane is not taken off it
  LET cy(l) == Bit(cn, l) # Full(s, l, LIM)
  IN  [lo |-> Eager([l \in 1 .. Lanes |-> IF cy(l) THEN (s.lo[l] + 1) % Limb ELSE s.lo[l]]),
       hi |-> Eager([l \in 1 .. Lanes |->
                s.hi[l] + (IF cy(l) /\ FullLow(s, l) THEN 1 ELSE 0) - (IF s.hi[l] >= LIM THEN LIM ELSE 0)]),
       cin |-> (cn \div 2 ^ Lanes) % 2]
Carried(s, cn, LIM) ==
  LET cy(l) == Bit(cn, l) # Full(s, l, LIM)
      out(l) == s.hi[l] >= LIM \/ (cy(l) /\ Full(s, l, LIM))
  IN  [lo |-> Eager([l \in 1 .. Lanes |-> IF cy(l) THEN (s.lo[l] + 1) % Limb ELSE s.lo[l]]),
       hi |-> Eager([l \in 1 .. Lanes |->
                s.hi[l] + (IF cy(l) /\ FullLow(s, l) THEN 1 ELSE 0) - (IF out(l) THEN LIM ELSE 0)]),
       cin |-> (cn \div 2 ^ Lanes) % 2]
p50_chainT(x, a, cin, LIM) ==
  The({Carried(s, CarriesOf(s, cin, LIM), LIM) :
         s \in {[lo |-> Eager([l \in 1 .. Lanes |-> (x.lo[l] + a.lo[l]) % Limb]),
                 hi |-> Eager([l \in 1 .. Lanes |-> x.hi[l] + a.hi[l] + ((x.lo[l] + a.lo[l]) \div Limb)])]}})

(* Streams b1 and b2 arrive one and two trunks later; each addition has its  *)
(* own carry from vector to vector.                                          *)
Delayed(b, field, j, d) == [l \in 1 .. Lanes |-> IF (j + l) - d < 1 THEN 0 ELSE b[(j + l) - d][field]]
AddedOne(b, j, cin, LIM) ==
  p50_chainT([lo |-> Delayed(b, "b0l", j, 0), hi |-> Delayed(b, "b0h", j, 0)],
             [lo |-> Delayed(b, "b1l", j, 1), hi |-> Delayed(b, "b1h", j, 1)], cin, LIM)
AddedTwo(y, b, j, cin, LIM) ==
  p50_chainT(y, [lo |-> Delayed(b, "b2", j, 2), hi |-> [l \in 1 .. Lanes |-> 0]], cin, LIM)
CarriedTrunks(b, ntr, LIM) ==
  LET extended(x, y, z) == [lo |-> x.lo \o z.lo, hi |-> x.hi \o z.hi, cA |-> y.cin, cB |-> z.cin]
      run[n \in 0 .. ntr \div Lanes] ==
        IF n = 0 THEN [lo |-> <<>>, hi |-> <<>>, cA |-> 0, cB |-> 0]
        ELSE The({The({The({extended(x, y, z) : z \in {AddedTwo(y, b, (n - 1) * Lanes, x.cB, LIM)}}) :
                         y \in {AddedOne(b, (n - 1) * Lanes, x.cA, LIM)}}) :
                    x \in {run[n - 1]}})
  IN  run[ntr \div Lanes]

(* Trunks into limbs, a superblock of OL limbs from OT trunks at a time. *)
Regrouped(t, ntr, tp) ==
  LET lo(i) == IF i <= ntr THEN t.lo[i] ELSE Stale
      hi(i) == IF i <= ntr THEN t.hi[i] ELSE Stale
      limb(k) ==
        LET tb == ((k - (k % tp.OL)) * LimbBits) \div tp.T
            ov == ((k % tp.OL) \div Lanes) + 1
            o == tp.out[ov][(k % Lanes) + 1]
            u == tb + tp.obase[ov] + o.idx + 1
        IN  (shrdv(IF o.swp THEN hi(u) ELSE lo(u), IF o.swp THEN 0 ELSE hi(u), o.sh) + lshift(lo(u + 1), o.lsh)) % Limb
      nl == (ntr * tp.T) \div LimbBits
  IN  Eager([k \in 1 .. nl |-> limb(k - 1)])

p50_output(r, ntr, tp, pl) ==
  The({The({Regrouped(t, ntr, tp) : t \in {CarriedTrunks(b, ntr, 2 ^ (tp.T - LimbBits))}}) :
         b \in {Eager([k \in 1 .. ntr |->
                  The({The({Trunks(c, tp.T) : c \in {Composed(d, pl)}}) :
                         d \in {Garner(<<r[1][k], r[2][k], r[3][k], r[4][k]>>, pl)}})])}})
=============================================================================
