------------------------------- MODULE PqFft -------------------------------
(***************************************************************************)
(* The passes of the PQ FFT of include/fft16.h as functions on arrays.     *)
(*                                                                         *)
(* An array is the sequence of its complex numbers in storage order: tile  *)
(* T, lane l is number 8 T + l (the sequence starts at 1).  A pass over    *)
(* all tiles treats every lane alike; where it does not (leaves, pointwise *)
(* products, PFA merges) the lane is explicit.  The forward transform has  *)
(* root e^(+2 pi i / N), natural input and bit-reversed output, which the  *)
(* leaves leave in "pi" order: in a group of 8 tiles, tile q lane t holds  *)
(* canonical position 8 t + q.                                             *)
(*                                                                         *)
(* Arithmetic is exact, in place of doubles: re and im are integers modulo *)
(* a prime Q with -1 no square, so that pairs <<re, im>> form a field in   *)
(* which conjugation negates im, and the Ord = Q + 1 numbers of norm 1 are *)
(* the powers of one root of unity.  What the code gets wrong by rounding  *)
(* is therefore outside; what it gets wrong by using another root, sign,   *)
(* conjugate or position is inside.                                        *)
(***************************************************************************)
EXTENDS Integers, Sequences, SequencesExt, FiniteSets

CONSTANTS
  Q,          \* the prime
  Circle,     \* the powers of the root of unity of order Q + 1, from 1 on
  TwcMinLg,   \* F16_TWC_MIN_LG: tables of this length and more are compact
  Tiers,      \* F16_TIERS, descending; the last is F16_BLOCK
  DB          \* a digit is below DB: 2^16

-----------------------------------------------------------------------------
(* Complex numbers: what one of the eight lanes of an fcv goes through *)

Ord == Len(Circle)

f_add(a, b) == <<(a[1] + b[1]) % Q, (a[2] + b[2]) % Q>>
f_sub(a, b) == <<(a[1] - b[1]) % Q, (a[2] - b[2]) % Q>>
f_mul(a, w) == <<(a[1] * w[1] - a[2] * w[2]) % Q, (a[1] * w[2] + a[2] * w[1]) % Q>>
f_mulc(a, w) == <<(a[2] * w[2] + a[1] * w[1]) % Q, (a[2] * w[1] - a[1] * w[2]) % Q>>
f_j(a) == <<(-a[2]) % Q, a[1]>>
f_mj(a) == <<a[2], (-a[1]) % Q>>
scaled(a, c) == <<(a[1] * c) % Q, (a[2] * c) % Q>>

(* f16_root: e^(2 pi i k / n) *)
root(k, n) == Circle[(((k % n) * Ord) \div n) + 1]
C8 == root(1, 8)[1]                                   \* F16_C8 = cos(pi/4)

(* multiplication by e^(2 pi i t / 8), t = 1 and 3, and by its conjugate *)
f_rot81(a) == <<(C8 * ((a[1] - a[2]) % Q)) % Q, (C8 * ((a[1] + a[2]) % Q)) % Q>>
f_rot83(a) == <<(-(C8 * ((a[1] + a[2]) % Q))) % Q, (C8 * ((a[1] - a[2]) % Q)) % Q>>
f_irot81(a) == <<(C8 * ((a[1] + a[2]) % Q)) % Q, (C8 * ((a[2] - a[1]) % Q)) % Q>>
f_irot83(a) == <<(C8 * ((a[2] - a[1]) % Q)) % Q, (-(C8 * ((a[1] + a[2]) % Q))) % Q>>

(* the member of a singleton: The({f(x) : x \in {e}}) computes e once *)
The(S) == CHOOSE x \in S : TRUE

(* a real number's inverse, and the integer a value stands for *)
inverse(x) == CHOOSE y \in 1 .. Q - 1 : (x * y) % Q = 1
half(x) == (x * ((Q + 1) \div 2)) % Q
Centred(x) == IF x > Q \div 2 THEN x - Q ELSE x

(* Circle is the cycle of norm-1 numbers, i a quarter of the way round. *)
CircleRight ==
  /\ Ord = Q + 1 /\ Q % 4 = 3 /\ Q < 32768              \* products fit TLC's integers
  /\ Circle[1] = <<1, 0>> /\ Circle[(Ord \div 4) + 1] = <<0, 1>>
  /\ \A e \in 1 .. Ord : f_mul(Circle[e], Circle[2]) = Circle[(e % Ord) + 1]

-----------------------------------------------------------------------------
(* Arrays *)

Lane == 0 .. 7
lg(n) == CHOOSE k \in 0 .. 31 : 2 ^ k = n               \* __builtin_ctz of a power of 2
Once(s) == s \o <<>>                        \* s, its elements computed once
Part(d, first, n) == SubSeq(d, first + 1, first + n)

(* f16_bitrev: the lowest `bits` bits of x, reversed. *)
bitrev(x, bits) ==
  LET rev[k \in 0 .. bits] == IF k = 0 THEN 0 ELSE 2 * rev[k - 1] + ((x \div 2 ^ (k - 1)) % 2)
  IN  rev[bits]

-----------------------------------------------------------------------------
(* Stage shapes: the leaf, and the lengths of the radix-8 passes before it. *)

Shape(leafLg, count, len) ==
  [leaf |-> 2 ^ leafLg, len |-> [i \in 1 .. count |-> len \div 8 ^ (i - 1)]]
f16_shape_of(n) ==
  LET leafLg == 5 + ((lg(n) - 7) % 3)
  IN  Shape(leafLg, (lg(n) - 2 - leafLg) \div 3, n \div 4)
f16_shape_of_full(m) ==
  LET leafLg == 5 + ((lg(m) - 5) % 3)
  IN  Shape(leafLg, (lg(m) - leafLg) \div 3, m)

-----------------------------------------------------------------------------
(* Twiddle tables: the entry of number j.  A compact entry holds what the    *)
(* kernel cannot derive.                                                     *)

Compact(len) == lg(len) >= TwcMinLg
f16_build_tw22(len, j) ==
  IF Compact(len) THEN <<root(j, len)>> ELSE <<root(j, len), root(2 * j, len)>>
f16_tw22_get(len, j) ==
  LET t == f16_build_tw22(len, j)
  IN  IF Compact(len) THEN <<t[1], f_mul(t[1], t[1])>> ELSE t
f16_build_tw8(len, j) ==
  IF Compact(len) THEN <<root(j, len), root(2 * j, len)>>
  ELSE <<root(j, len), f_rot81(root(j, len)), root(2 * j, len), root(4 * j, len)>>
f16_tw8_get_first_squared(len, j) ==  \* W4 squared from W1, not from W2
  LET t == f16_build_tw8(len, j)
  IN  IF Compact(len) THEN <<t[1], f_rot81(t[1]), t[2], f_mul(t[1], t[1])>> ELSE t
f16_tw8_get(len, j) ==
  LET t == f16_build_tw8(len, j)
  IN  IF Compact(len) THEN <<t[1], f_rot81(t[1]), t[2], f_mul(t[2], t[2])>> ELSE t
(* wt5, wt7: e^(-2 pi i b (l % M) / M) for lane l *)
pfa_wt(M, b, l) == root(-(b * (l % M)), M)

-----------------------------------------------------------------------------
(* Butterflies *)

(* radix 2^2: two levels, twiddles w1 and w2 = w1^2 *)
r22(a, w) ==
  LET b0 == f_add(a[1], a[3])
      b2 == f_mul(f_sub(a[1], a[3]), w[1])
      b1 == f_add(a[2], a[4])
      b3 == f_mul(f_sub(a[2], a[4]), f_j(w[1]))
  IN  <<f_add(b0, b1), f_mul(f_sub(b0, b1), w[2]), f_add(b2, b3), f_mul(f_sub(b2, b3), w[2])>>
ir22(y, w) ==
  LET s1 == f_mulc(y[2], w[2])
      s3 == f_mulc(y[4], w[2])
      s == f_mulc(f_add(y[3], s3), w[1])
      t == f_mulc(f_sub(y[3], s3), f_j(w[1]))
      b0 == f_add(y[1], s1)
      b1 == f_sub(y[1], s1)
  IN  <<f_add(b0, s), f_add(b1, t), f_sub(b0, s), f_sub(b1, t)>>

(* radix 2^3: twiddles W1, W1 e^(2 pi i / 8), W2, W4 *)
r8(a, w) ==
  LET e == [k \in 1 .. 4 |-> f_add(a[k], a[k + 4])]
      o == <<f_mul(f_sub(a[1], a[5]), w[1]), f_mul(f_sub(a[2], a[6]), w[2]),
             f_j(f_mul(f_sub(a[3], a[7]), w[1])), f_j(f_mul(f_sub(a[4], a[8]), w[2]))>>
  IN  r22(Once(e), <<w[3], w[4]>>) \o r22(o, <<w[3], w[4]>>)
SumsThenDifferences(e, o) == [k \in 1 .. 8 |-> IF k <= 4 THEN f_add(e[k], o[k]) ELSE f_sub(e[k - 4], o[k - 4])]
Unturned(h, w) == <<f_mulc(h[1], w[1]), f_mulc(h[2], w[2]), f_mulc(f_mj(h[3]), w[1]), f_mulc(f_mj(h[4]), w[2])>>
ir8(y, w) ==
  SumsThenDifferences(ir22(SubSeq(y, 1, 4), <<w[3], w[4]>>),
                      Unturned(ir22(SubSeq(y, 5, 8), <<w[3], w[4]>>), w))

(* f_dft8: an 8-point transform across eight vectors *)
f_dft8(v) ==
  LET e0 == f_add(v[1], v[5])   o0 == f_sub(v[1], v[5])
      e1 == f_add(v[2], v[6])   o1 == f_rot81(f_sub(v[2], v[6]))
      e2 == f_add(v[3], v[7])   o2 == f_j(f_sub(v[3], v[7]))
      e3 == f_add(v[4], v[8])   o3 == f_rot83(f_sub(v[4], v[8]))
      ee0 == f_add(e0, e2)      eo0 == f_sub(e0, e2)
      ee1 == f_add(e1, e3)      eo1 == f_j(f_sub(e1, e3))
      oe0 == f_add(o0, o2)      oo0 == f_sub(o0, o2)
      oe1 == f_add(o1, o3)      oo1 == f_j(f_sub(o1, o3))
  IN  <<f_add(ee0, ee1), f_sub(ee0, ee1), f_add(eo0, eo1), f_sub(eo0, eo1),
        f_add(oe0, oe1), f_sub(oe0, oe1), f_add(oo0, oo1), f_sub(oo0, oo1)>>
f_idft8(v) ==
  LET ee0 == f_add(v[1], v[2])  ee1 == f_sub(v[1], v[2])
      eo0 == f_add(v[3], v[4])  eo1 == f_mj(f_sub(v[3], v[4]))
      oe0 == f_add(v[5], v[6])  oe1 == f_sub(v[5], v[6])
      oo0 == f_add(v[7], v[8])  oo1 == f_mj(f_sub(v[7], v[8]))
      e0 == f_add(ee0, eo0)     e2 == f_sub(ee0, eo0)
      e1 == f_add(ee1, eo1)     e3 == f_sub(ee1, eo1)
      o0 == f_add(oe0, oo0)     o2 == f_mj(f_sub(oe0, oo0))
      o1 == f_irot81(f_add(oe1, oo1))
      o3 == f_irot83(f_sub(oe1, oo1))
  IN  <<f_add(e0, o0), f_add(e1, o1), f_add(e2, o2), f_add(e3, o3),
        f_sub(e0, o0), f_sub(e1, o1), f_sub(e2, o2), f_sub(e3, o3)>>

(* The radix-M butterflies of the prime-factor sizes, e^- convention:        *)
(* <<R, I>> stands for the pair of outputs R - i I and R + i I.              *)
MinusPlus(inv, R, I) ==
  IF inv THEN <<f_add(R, f_j(I)), f_add(R, f_mj(I))>> ELSE <<f_add(R, f_mj(I)), f_add(R, f_j(I))>>
f16_pfa3(x, inv) ==
  LET s == f_add(x[2], x[3])
      d == f_sub(x[2], x[3])
      u == f_add(x[1], scaled(s, root(1, 3)[1]))
      y == MinusPlus(inv, u, scaled(d, root(1, 3)[2]))
  IN  <<f_add(x[1], s), y[1], y[2]>>
f16_pfa5_core(x, inv) ==
  LET c(k) == root(k, 5)[1]
      sn(k) == root(k, 5)[2]
      u14 == f_add(x[2], x[5])  v14 == f_sub(x[2], x[5])
      u25 == f_add(x[3], x[4])  v25 == f_sub(x[3], x[4])
      us == f_add(u14, u25)
      m1 == scaled(us, half(c(1) + c(2)))                        \* CP = -1/4
      m2 == scaled(f_sub(u14, u25), half(c(1) - c(2)))           \* CM
      m3 == scaled(f_sub(v14, v25), sn(1))                       \* S1
      m4 == scaled(v25, (sn(1) + sn(2)) % Q)                     \* S1p
      m5 == scaled(v14, (sn(2) - sn(1)) % Q)                     \* S2m
      mid == f_add(x[1], m1)
      y14 == MinusPlus(inv, f_add(mid, m2), f_add(m3, m4))
      y23 == MinusPlus(inv, f_sub(mid, m2), f_add(m3, m5))
  IN  <<f_add(x[1], us), y14[1], y23[1], y23[2], y14[2]>>
f16_pfa7_core(x, inv) ==
  LET c(k) == root(k, 7)[1]
      sn(k) == root(k, 7)[2]
      u(k) == f_add(x[k + 1], x[8 - k])
      v(k) == f_sub(x[k + 1], x[8 - k])
      Row(z, a, b, d) == f_add(f_add(scaled(u(1), c(a)), scaled(u(2), c(b))),
                               f_add(scaled(u(3), c(d)), z))
      y1 == MinusPlus(inv, Row(x[1], 1, 2, 3),
                      f_add(scaled(v(1), sn(1)), f_add(scaled(v(2), sn(2)), scaled(v(3), sn(3)))))
      y2 == MinusPlus(inv, Row(x[1], 2, 3, 1),
                      f_sub(scaled(v(1), sn(2)), f_add(scaled(v(2), sn(3)), scaled(v(3), sn(1)))))
      y3 == MinusPlus(inv, Row(x[1], 3, 1, 2),
                      f_add(scaled(v(1), sn(3)), f_sub(scaled(v(3), sn(2)), scaled(v(2), sn(1)))))
  IN  <<f_add(f_add(x[1], u(1)), f_add(u(2), u(3))), y1[1], y2[1], y3[1], y3[2], y2[2], y1[2]>>
f16_pfa_bfly(x, M, inv) ==
  CASE M = 3 -> f16_pfa3(x, inv)
    [] M = 5 -> f16_pfa5_core(x, inv)
    [] OTHER -> f16_pfa7_core(x, inv)

-----------------------------------------------------------------------------
(* Passes.  A radix-r pass takes columns of r numbers a row apart.           *)

Column(d, r, j) == Once([e \in 1 .. r |-> d[(e - 1) * (Len(d) \div r) + j]])
Rows(cols, r) ==
  LET l == Len(cols)
  IN  Once([p \in 1 .. l * r |-> cols[((p - 1) % l) + 1][((p - 1) \div l) + 1]])

f16_mem_r22(d) ==
  LET n == Len(d)
  IN  Rows(Once([j \in 1 .. n \div 4 |-> r22(Column(d, 4, j), f16_tw22_get(n, j - 1))]), 4)
f16_mem_ir22(d) ==
  LET n == Len(d)
  IN  Rows(Once([j \in 1 .. n \div 4 |-> ir22(Column(d, 4, j), f16_tw22_get(n, j - 1))]), 4)

(* A pass at length len runs over every block of that length. *)
f16_r8_stage(d, len) ==
  LET Block(b) == Rows(Once([j \in 1 .. len \div 8 |-> r8(Column(b, 8, j), f16_tw8_get(len, j - 1))]), 8)
  IN  FlattenSeq([b \in 1 .. Len(d) \div len |-> Block(Part(d, (b - 1) * len, len))])
f16_ir8_stage(d, len) ==
  LET Block(b) == Rows(Once([j \in 1 .. len \div 8 |-> ir8(Column(b, 8, j), f16_tw8_get(len, j - 1))]), 8)
  IN  FlattenSeq([b \in 1 .. Len(d) \div len |-> Block(Part(d, (b - 1) * len, len))])

-----------------------------------------------------------------------------
(* Leaves: the constants of f16_leaf_init, then a transpose of the 8 x 8     *)
(* group and an 8-point transform per lane.                                  *)

leaf_r22(d) ==
  LET n == Len(d)
  IN  Rows(Once([j \in 1 .. n \div 4 |-> r22(Column(d, 4, j), <<root(j - 1, n), root(2 * (j - 1), n)>>)]), 4)
leaf_ir22(d) ==
  LET n == Len(d)
  IN  Rows(Once([j \in 1 .. n \div 4 |-> ir22(Column(d, 4, j), <<root(j - 1, n), root(2 * (j - 1), n)>>)]), 4)
l64w(l) == <<root(l, 64), f_rot81(root(l, 64)), root(2 * l, 64), root(4 * l, 64)>>

(* f_tr8cv: tile t lane q becomes tile q lane t. *)
TransposeDft8(m) == Rows(Once([t \in 1 .. 8 |-> f_dft8(Part(m, 8 * (t - 1), 8))]), 8)
Idft8Transpose(d) == FlattenSeq([t \in 1 .. 8 |-> f_idft8(Column(d, 8, t))])

f16_body64(d) == TransposeDft8(Rows(Once([l \in 1 .. 8 |-> r8(Column(d, 8, l), l64w(l - 1))]), 8))
f16_ibody64(d) ==
  LET m == Idft8Transpose(d)
  IN  Rows(Once([l \in 1 .. 8 |-> ir8(Column(m, 8, l), l64w(l - 1))]), 8)
BothHalves(d) == <<Part(d, 0, Len(d) \div 2), Part(d, Len(d) \div 2, Len(d) \div 2)>>
EachR22(parts) == FlattenSeq([k \in 1 .. 2 |-> leaf_r22(parts[k])])
EachIr22(parts) == FlattenSeq([k \in 1 .. 2 |-> leaf_ir22(parts[k])])
f16_leaf32x2_one(d) == TransposeDft8(EachR22(BothHalves(d)))
f16_ileaf32x2_one(d) == EachIr22(BothHalves(Idft8Transpose(d)))
f16_leaf128(d) ==
  LET parts == BothHalves(leaf_r22(d)) IN FlattenSeq([k \in 1 .. 2 |-> f16_leaf32x2_one(parts[k])])
f16_ileaf128(d) ==
  LET parts == BothHalves(d) IN leaf_ir22(FlattenSeq([k \in 1 .. 2 |-> f16_ileaf32x2_one(parts[k])]))

LeafSpan(leaf) == IF leaf = 128 THEN 128 ELSE 64
f16_leaf_run(d, leaf) ==
  LET One(g) == IF leaf = 64 THEN f16_body64(g) ELSE IF leaf = 32 THEN f16_leaf32x2_one(g) ELSE f16_leaf128(g)
      w == LeafSpan(leaf)
  IN  FlattenSeq([g \in 1 .. Len(d) \div w |-> One(Part(d, (g - 1) * w, w))])
f16_ileaf_run(d, leaf) ==
  LET One(g) == IF leaf = 64 THEN f16_ibody64(g) ELSE IF leaf = 32 THEN f16_ileaf32x2_one(g) ELSE f16_ileaf128(g)
      w == LeafSpan(leaf)
  IN  FlattenSeq([g \in 1 .. Len(d) \div w |-> One(Part(d, (g - 1) * w, w))])

-----------------------------------------------------------------------------
(* Drivers: passes too long for a cache tier sweep the whole span, the rest  *)
(* goes chunk by chunk.                                                      *)

R8Passes(d, sh, lo, hi) ==
  LET run[k \in lo - 1 .. hi] ==
        IF k < lo THEN d ELSE The({f16_r8_stage(x, sh.len[k]) : x \in {run[k - 1]}})
  IN  run[hi]
IR8Passes(d, sh, lo, hi) ==                       \* descending
  LET run[k \in lo .. hi + 1] ==
        IF k > hi THEN d ELSE The({f16_ir8_stage(x, sh.len[k]) : x \in {run[k + 1]}})
  IN  run[lo]
TierFor(span, tier) ==
  LET fits == {t \in tier .. Len(Tiers) : Tiers[t] < span}
  IN  IF fits = {} THEN Len(Tiers) + 1 ELSE CHOOSE t \in fits : \A u \in fits : t <= u
LongerThan(sh, s, chunk) == s - 1 + Cardinality({k \in s .. Len(sh.len) : sh.len[k] > chunk})

RECURSIVE f16_fwd_rec(_, _, _, _)
f16_fwd_rec(d, sh, s, tier0) ==
  LET tier == TierFor(Len(d), tier0)
      chunk == Tiers[tier]
      s1 == LongerThan(sh, s, chunk)
      swept == R8Passes(d, sh, s, s1)
  IN  IF tier > Len(Tiers) THEN f16_leaf_run(R8Passes(d, sh, s, Len(sh.len)), sh.leaf)
      ELSE FlattenSeq([b \in 1 .. Len(d) \div chunk |->
                         f16_fwd_rec(Part(swept, (b - 1) * chunk, chunk), sh, s1 + 1, tier + 1)])
RECURSIVE f16_inv_rec(_, _, _, _)
f16_inv_rec(d, sh, s, tier0) ==
  LET tier == TierFor(Len(d), tier0)
      chunk == Tiers[tier]
      s1 == LongerThan(sh, s, chunk)
  IN  IF tier > Len(Tiers) THEN IR8Passes(d, sh, s, Len(sh.len))
      ELSE IR8Passes(FlattenSeq([b \in 1 .. Len(d) \div chunk |->
                                   f16_inv_rec(Part(d, (b - 1) * chunk, chunk), sh, s1 + 1, tier + 1)]),
                     sh, s, s1)

f16_fwd_core(d) == f16_fwd_rec(d, f16_shape_of(Len(d)), 1, 1)
f16_fwd_core_full(d) == f16_fwd_rec(d, f16_shape_of_full(Len(d)), 1, 1)
f16_inv_r8_only(d) == f16_inv_rec(d, f16_shape_of(Len(d)), 1, 1)
f16_inv_r8_only_full(d) == f16_inv_rec(d, f16_shape_of_full(Len(d)), 1, 1)
(* Leaves and passes by blocks of the first pass that fits F16_BLOCK. *)
f16_inv_leaves_r8_blocks_only(d) ==  \* passes longer than a block are left out
  LET sh == f16_shape_of(Len(d))
      s == LongerThan(sh, 1, Tiers[Len(Tiers)])
      chunk == IF s < Len(sh.len) THEN sh.len[s + 1] ELSE LeafSpan(sh.leaf)
      Block(b) == IR8Passes(f16_ileaf_run(b, sh.leaf), sh, s + 1, Len(sh.len))
  IN  FlattenSeq([b \in 1 .. Len(d) \div chunk |-> Block(Part(d, (b - 1) * chunk, chunk))])
f16_inv_leaves_r8(d) ==
  LET sh == f16_shape_of(Len(d))
      s == LongerThan(sh, 1, Tiers[Len(Tiers)])
      chunk == IF s < Len(sh.len) THEN sh.len[s + 1] ELSE LeafSpan(sh.leaf)
      Block(b) == IR8Passes(f16_ileaf_run(b, sh.leaf), sh, s + 1, Len(sh.len))
  IN  IR8Passes(FlattenSeq([b \in 1 .. Len(d) \div chunk |-> Block(Part(d, (b - 1) * chunk, chunk))]),
                sh, 1, s)

-----------------------------------------------------------------------------
(* Operands: a number is a sequence of limbs of four digits below DB.        *)
(* Point p of the transform holds digits 2 p and 2 p + 1; limbs from cnt on  *)
(* are masked off.  cen = 0: plain digits; 1: centring rides the load; 2:    *)
(* the stream was xor-centred when it was staged.                            *)

LB == DB ^ 4
Flip(x, k) == LET d == (x \div DB ^ k) % DB IN (((d + DB \div 2) % DB) - d) * DB ^ k
Xored(limb) == limb + Flip(limb, 0) + Flip(limb, 1) + Flip(limb, 2) + Flip(limb, 3)
f16_raw(src, cnt, i, cen) ==
  IF i >= cnt THEN 0 ELSE IF cen = 1 THEN Xored(src[i + 1]) ELSE src[i + 1]
f16_dec(raw, k, cen) ==
  LET d == (raw \div DB ^ k) % DB
  IN  IF cen = 0 THEN d ELSE (IF d >= DB \div 2 THEN d - DB ELSE d) % Q
point(src, cnt, p, cen) ==
  LET raw == f16_raw(src, cnt, p \div 2, cen)
  IN  <<f16_dec(raw, 2 * (p % 2), cen), f16_dec(raw, 2 * (p % 2) + 1, cen)>>

f16_input_stage(src, cnt, n, cen) == f16_mem_r22(Once([p \in 1 .. n |-> point(src, cnt, p - 1, cen)]))

(* Prime-factor sizes M n: stripe b holds points b n .. b n + n - 1; lane l  *)
(* of a tile whose first point has residue r modulo M has residue r + l.     *)
f16_kmasks(M, d) == {l \in Lane : l % M = d}
Residue(M, n, b, T) == (b * n + 8 * T) % M

(* Merge form: the input of residue a is gathered from the stripes. *)
f16_pfa_input_impl(src, cnt, n, M, cen) ==
  LET x(a, T, l) ==
        LET b == CHOOSE b \in 0 .. M - 1 : l \in f16_kmasks(M, (a + M - Residue(M, n, b, T)) % M)
        IN  point(src, cnt, b * n + 8 * T + l, cen)
      y == Once([j \in 1 .. n |-> f16_pfa_bfly(Once([a \in 1 .. M |-> x(a - 1, (j - 1) \div 8, (j - 1) % 8)]), M, FALSE)])
  IN  Rows(y, M)

(* Twiddle form: stripe pointers stand in slots by residue, rotated from one *)
(* pair of tiles to the next, and every lane is fixed up after the butterfly. *)
Slots(n, M) == [rho \in 0 .. M - 1 |-> CHOOSE b \in 0 .. M - 1 : (b * n) % M = rho]
Rotated(M, i, u, rho) == (rho - (16 % M) * i - (8 % M) * u) % M
f16_pfa_input_tw(src, cnt, n, M, cen) ==
  LET x(rho, T, l) ==
        point(src, cnt, Slots(n, M)[Rotated(M, T \div 2, T % 2, rho)] * n + 8 * T + l, cen)
      y == Once([j \in 1 .. n |-> f16_pfa_bfly(Once([a \in 1 .. M |-> x(a - 1, (j - 1) \div 8, (j - 1) % 8)]), M, FALSE)])
  IN  Rows(Once([j \in 1 .. n |-> Once([b \in 1 .. M |-> f_mul(y[j][b], pfa_wt(M, b - 1, (j - 1) % 8))])]), M)

(* The top radix-2 level of the branches fused in; its twiddles are read from *)
(* a table of a quarter, rewound and turned by i half way.                    *)
TopTwiddle(n, j) ==
  LET w == f16_tw22_get(n, j % (n \div 4))[1] IN IF j >= n \div 4 THEN f_j(w) ELSE w
TopLevel(d, n) ==
  LET h == n \div 2
      top(at, j) == IF j <= h THEN f_add(d[at], d[at + h])
                    ELSE f_mul(f_sub(d[at - h], d[at]), TopTwiddle(n, j - h - 1))
  IN  Once([p \in 1 .. 3 * n |-> top(p, ((p - 1) % n) + 1)])
f16_pfa3x2_input(src, cnt, n, cen) == TopLevel(f16_pfa_input_impl(src, cnt, n, 3, cen), n)

-----------------------------------------------------------------------------
(* The PQ pointwise product: the spectra belong to digits packed in pairs,   *)
(* and position p is multiplied together with its mirror.                    *)

P8 == <<0, 1, 3, 2, 7, 6, 5, 4>>

(* z = x y sc - (x - conj xn)(y - conj yn) w sc / 4, and its mirror.         *)
f16_pq_pair(x, xn, y, yn, w, sc) ==
  LET dp == <<(x[1] - xn[1]) % Q, (x[2] + xn[2]) % Q>>
      dq == <<(y[1] - yn[1]) % Q, (y[2] + yn[2]) % Q>>
      c == scaled(f_mul(f_mul(dp, dq), w), half(half(sc)))
      l == scaled(f_mul(x, y), sc)
      r == scaled(f_mul(xn, yn), sc)
  IN  <<f_sub(l, c), <<(r[1] - c[1]) % Q, (r[2] + c[2]) % Q>>>>

(* The g-table of a plan built for branch size pqn: quarter position k.       *)
pq_table(pqn, k) == root(bitrev(k, lg(pqn) - 2), pqn)
f16_pq_w(g, q) ==
  CASE q % 4 = 0 -> <<(1 + g[1]) % Q, g[2]>>
    [] q % 4 = 1 -> <<(1 - g[1]) % Q, (-g[2]) % Q>>
    [] q % 4 = 2 -> <<(1 - g[2]) % Q, g[1]>>
    [] OTHER     -> <<(1 + g[2]) % Q, (-g[1]) % Q>>
(* Group g64, slot q, lane t; rot = omega_M^b turns it for a branch pair.    *)
f16_pq_gsel_rot(pqn, g64, q, t, rot) == f_mul(pq_table(pqn, 16 * g64 + 2 * t + q \div 4), rot)
f16_pq_head_w(pqn, p, rot) == f16_pq_w(f_mul(pq_table(pqn, p \div 4), rot), p)
omega(M, b) == root(-b, M)                             \* F16_W3, F16_W5, F16_W7
conj(w) == <<w[1], (-w[2]) % Q>>

At(d, g, q, l) == d[64 * g + 8 * q + l + 1]
WithGroup(d, g, vals) == [i \in 1 .. Len(d) |-> IF (i - 1) \div 64 = g THEN vals[((i - 1) % 64) + 1] ELSE d[i]]
Cells == 1 .. 64                                       \* of a group: 8 q + l + 1

(* Group gl of L against group gr of R, oL and oR the other operand's:       *)
(* slot q against the reversed slot 7 - q.                                   *)
f16_pw_groups_cross(L, R, oL, oR, gl, gr, pqn, rot, sc) ==
  LET pair == Once([c \in Cells |->
        LET q == (c - 1) \div 8   l == (c - 1) % 8
        IN  f16_pq_pair(At(L, gl, q, l), At(R, gr, 7 - q, 7 - l), At(oL, gl, q, l), At(oR, gr, 7 - q, 7 - l),
                        f16_pq_w(f16_pq_gsel_rot(pqn, gl, q, l, rot), q), sc)])
  IN  [l |-> Once([c \in Cells |-> pair[c][1]]), r |-> Once([c \in Cells |-> pair[65 - c][2]])]
f16_pw_groups(A, B, gl, gr, pqn, sc) ==
  LET v == f16_pw_groups_cross(A, A, B, B, gl, gr, pqn, <<1, 0>>, sc)
  IN  IF gl = gr THEN WithGroup(A, gl, [c \in Cells |-> IF c <= 32 THEN v.l[c] ELSE v.r[c]])
      ELSE WithGroup(Once(WithGroup(A, gl, v.l)), gr, v.r)

(* Group 0: the first lane holds positions 0 .. 7, evaluated one by one;     *)
(* the other lanes mirror slot q on 7 - q and lane l on P8[l].               *)
HeadPair(L, R, oL, oR, q, l, pqn, rot, sc) ==
  f16_pq_pair(At(L, 0, q, l), At(R, 0, 7 - q, P8[l + 1]), At(oL, 0, q, l), At(oR, 0, 7 - q, P8[l + 1]),
              f16_pq_w(f16_pq_gsel_rot(pqn, 0, q, l, rot), q), sc)
HeadLane(L, R, oL, oR, q, pqn, rot, sc) ==
  f16_pq_pair(At(L, 0, q, 0), At(R, 0, P8[q + 1], 0), At(oL, 0, q, 0), At(oR, 0, P8[q + 1], 0),
              f16_pq_head_w(pqn, q, rot), sc)[1]
f16_pw_head(A, B, pqn, sc) ==
  LET v(c) == LET q == (c - 1) \div 8   l == (c - 1) % 8
              IN  IF l = 0 THEN HeadLane(A, A, B, B, q, pqn, <<1, 0>>, sc)
                  ELSE IF q < 4 THEN HeadPair(A, A, B, B, q, l, pqn, <<1, 0>>, sc)[1]
                  ELSE HeadPair(A, A, B, B, 7 - q, P8[l + 1], pqn, <<1, 0>>, sc)[2]
  IN  WithGroup(A, 0, Once([c \in Cells |-> v(c)]))
f16_pw_head_cross(L, R, oL, oR, pqn, rot, sc) ==
  LET vl(q, l) == IF l = 0 THEN HeadLane(L, R, oL, oR, q, pqn, rot, sc)
                  ELSE HeadPair(L, R, oL, oR, q, l, pqn, rot, sc)[1]
      vr(q, l) == IF l = 0 THEN HeadLane(R, L, oR, oL, q, pqn, conj(rot), sc)
                  ELSE HeadPair(L, R, oL, oR, 7 - q, P8[l + 1], pqn, rot, sc)[2]
  IN  [l |-> Once([c \in Cells |-> vl((c - 1) \div 8, (c - 1) % 8)]),
       r |-> Once([c \in Cells |-> vr((c - 1) \div 8, (c - 1) % 8)])]

(* The order of the fused pass: pairs of groups, and the inverse leaves of    *)
(* what is complete by then (a 128-point leaf covers two groups).             *)
Step(gl, gr, leaves) == [gl |-> gl, gr |-> gr, leaves |-> leaves]
PairLeaves(leaf, base, gl, gr) ==
  CASE leaf # 128 -> <<gl, gr>>
    [] leaf = 128 /\ base = 128 -> <<gl \div 2>>
    [] leaf = 128 /\ base # 128 /\ gl % 2 = 1 -> <<(gl - 1) \div 2, gr \div 2>>
    [] OTHER -> <<>>
BaseOf(gl) == CHOOSE base \in {128 * 2 ^ k : k \in 0 .. 20} : base \div 64 <= gl /\ gl < base \div 32
f16_pointwise_mul_ileaves(n, leaf) ==
  LET lower == SelectSeq([i \in 1 .. n \div 64 |-> i - 1],
                         LAMBDA gl : gl >= 2 /\ gl < (3 * BaseOf(gl)) \div 128)
      Of(gl) == LET gr == 3 * (BaseOf(gl) \div 64) - 1 - gl
                IN  Step(gl, gr, PairLeaves(leaf, BaseOf(gl), gl, gr))
  IN  <<Step(0, 0, <<>>), Step(1, 1, IF leaf = 128 THEN <<0>> ELSE <<0, 1>>)>>
        \o [i \in 1 .. Len(lower) |-> Of(lower[i])]
(* Between two branches every group of L is a left one. *)
f16_pointwise_cross_ileaves(n, leaf) ==
  LET Of(gl) == LET gr == 3 * (BaseOf(gl) \div 64) - 1 - gl
                IN  [gl |-> gl, gr |-> gr,
                     l |-> IF leaf # 128 THEN <<gl>> ELSE IF gl % 2 = 1 THEN <<(gl - 1) \div 2>> ELSE <<>>,
                     r |-> IF leaf # 128 THEN <<gr>> ELSE IF gl % 2 = 1 THEN <<gr \div 2>> ELSE <<>>]
      first == IF leaf = 128 THEN <<0>> ELSE <<0, 1>>
  IN  <<[gl |-> 0, gr |-> 0, l |-> <<>>, r |-> <<>>], [gl |-> 1, gr |-> 1, l |-> first, r |-> first]>>
        \o [i \in 1 .. (n \div 64) - 2 |-> Of(i + 1)]
f16_ileaf_group(A, g, leaf) ==
  LET w == LeafSpan(leaf)
  IN  Part(A, 0, g * w) \o f16_ileaf_run(Part(A, g * w, w), leaf) \o Part(A, (g + 1) * w, Len(A) - (g + 1) * w)

-----------------------------------------------------------------------------
(* The output side of the prime-factor sizes: the M branches go through the  *)
(* inverse butterfly position by position; region b of the natural order     *)
(* takes the output of its residue.                                          *)

Branches(d, n, M, j) == Once([b \in 1 .. M |-> d[(b - 1) * n + j]])
Merged(y, n, M) ==
  LET o(b, T, l) == LET r == CHOOSE r \in 0 .. M - 1 : l \in f16_kmasks(M, (r + M - Residue(M, n, b, T)) % M)
                    IN  y[8 * T + l + 1][r + 1]
  IN  Once([p \in 1 .. M * n |-> o((p - 1) \div n, ((p - 1) % n) \div 8, (p - 1) % 8)])
f16_pfa_natural(d, n, M) ==
  Merged(Once([j \in 1 .. n |-> f16_pfa_bfly(Branches(d, n, M, j), M, TRUE)]), n, M)
f16_pfa_emit_tw(d, n, M) ==
  LET Fixed(x, l) == Once([b \in 1 .. M |-> f_mulc(x[b], pfa_wt(M, b - 1, l))])
      y == Once([j \in 1 .. n |-> f16_pfa_bfly(Fixed(Branches(d, n, M, j), (j - 1) % 8), M, TRUE)])
      o(b, T, l) == LET r == CHOOSE r \in 0 .. M - 1 : Slots(n, M)[Rotated(M, T \div 2, T % 2, r)] = b
                    IN  y[8 * T + l + 1][r + 1]
  IN  Once([p \in 1 .. M * n |-> o((p - 1) \div n, ((p - 1) % n) \div 8, (p - 1) % 8)])
(* Region b's carry chain rotates with its slot and ends in slot (b + 1) n.   *)
f16_pfa_emit_rot(n, M, b) == Slots(n, M)[((((b + 1) * n) % M) - n) % M]
f16_pfa3x2_emit(d, n) ==
  LET h == n \div 2
      Untop(b) == LET e(j) == d[b * n + j]
                      o(j) == f_mulc(d[b * n + h + j], TopTwiddle(n, j - 1))
                  IN  [j \in 1 .. n |-> IF j <= h THEN f_add(e(j), o(j)) ELSE f_sub(e(j - h), o(j - h))]
  IN  f16_pfa_natural(FlattenSeq(<<Untop(0), Untop(1), Untop(2)>>), n, 3)
=============================================================================
