----------------------------- MODULE Pq16Passes -----------------------------
(***************************************************************************)
(* The passes of include/pq16.h, the second implementation of the PQ FFT.  *)
(* It is built around one quad butterfly on different twiddle sets, reads  *)
(* its twiddles from tables laid out row by row as the kernels walk them,  *)
(* and decodes whole vectors of eight limbs.  Where the header's code is   *)
(* that of fft16.h under another name (the radix-3, 5 and 7 butterflies,   *)
(* the pairing of positions, the pointer rotation) the definition is       *)
(* PqFft's.                                                                *)
(***************************************************************************)
EXTENDS PqFft

-----------------------------------------------------------------------------
(* Quad butterflies: every pass is one of these on some twiddles. *)

q_bf4(v, w1, w2) ==
  LET b0 == f_add(v[1], v[3])   b2 == f_mul(f_sub(v[1], v[3]), w1)
      b1 == f_add(v[2], v[4])   b3 == f_mul(f_sub(v[2], v[4]), f_j(w1))
  IN  <<f_add(b0, b1), f_mul(f_sub(b0, b1), w2), f_add(b2, b3), f_mul(f_sub(b2, b3), w2)>>
q_ibf4(v, w1, w2) ==
  LET s1 == f_mulc(v[2], w2)    b0 == f_add(v[1], s1)   b1 == f_sub(v[1], s1)
      s3 == f_mulc(v[4], w2)    b2 == f_add(v[3], s3)   b3 == f_sub(v[3], s3)
      t0 == f_mulc(b2, w1)      t1 == f_mulc(b3, f_j(w1))
  IN  <<f_add(b0, t0), f_add(b1, t1), f_sub(b0, t0), f_sub(b1, t1)>>
(* W = <<W1, W1o, W2, W4>>; the even half comes out in v[0..3]. *)
q_bf8(v, W) ==
  LET e == Once([k \in 1 .. 4 |-> f_add(v[k], v[k + 4])])
      x == [k \in 1 .. 4 |-> f_mul(f_sub(v[k], v[k + 4]), W[1 + ((k - 1) % 2)])]
  IN  q_bf4(e, W[3], W[4]) \o q_bf4(<<x[1], x[2], f_j(x[3]), f_j(x[4])>>, W[3], W[4])
q_ibf8(v, W) ==
  SumsThenDifferences(q_ibf4(SubSeq(v, 1, 4), W[3], W[4]), Unturned(q_ibf4(SubSeq(v, 5, 8), W[3], W[4]), W))

(* q_tr8cv: an 8 x 8 transpose; q_dft8 and q_idft8 work on columns. *)
q_tr8cv(v) == Once([c \in 1 .. 64 |-> v[8 * ((c - 1) % 8) + ((c - 1) \div 8) + 1]])
q_dft8(v) == f_dft8(v)
q_idft8(v) ==
  LET ee0 == f_add(v[1], v[2])  ee1 == f_sub(v[1], v[2])
      eo0 == f_add(v[3], v[4])  t == f_mj(f_sub(v[3], v[4]))
      oe0 == f_add(v[5], v[6])  oe1 == f_sub(v[5], v[6])
      oo0 == f_add(v[7], v[8])  u == f_mj(f_sub(v[7], v[8]))
      e == <<f_add(ee0, eo0), f_add(ee1, t), f_sub(ee0, eo0), f_sub(ee1, t)>>
      o == <<f_add(oe0, oo0), f_irot81(f_add(oe1, u)), f_mj(f_sub(oe0, oo0)), f_irot83(f_sub(oe1, u))>>
  IN  SumsThenDifferences(e, o)

-----------------------------------------------------------------------------
(* Tables: rows of twiddle vectors, eight numbers each. *)

pq16_shape_of(n) == Shape(5 + ((lg(n) - 7) % 3), (lg(n) - 2 - (5 + ((lg(n) - 7) % 3))) \div 3, n \div 4)
pq16_bitrev(x, bits) == bitrev(x, bits)
pq16_twcv(j, scale, len) == [l \in Lane |-> root((j + l) * scale, len)]
pq16_twcv8(j, scale, len) == [l \in Lane |-> f_rot81(root((j + l) * scale, len))]
pq16_twc(len) == lg(len) >= TwcMinLg

pq16_build_tw22(len, row) ==
  IF pq16_twc(len) THEN <<pq16_twcv(16 * row, 1, len), pq16_twcv(16 * row + 8, 1, len)>>
  ELSE <<pq16_twcv(16 * row, 1, len), pq16_twcv(16 * row, 2, len),
         pq16_twcv(16 * row + 8, 1, len), pq16_twcv(16 * row + 8, 2, len)>>
pq16_build_tw8(len, row) ==
  IF pq16_twc(len) THEN <<pq16_twcv(8 * row, 1, len), pq16_twcv(8 * row, 2, len)>>
  ELSE <<pq16_twcv(8 * row, 1, len), pq16_twcv8(8 * row, 1, len),
         pq16_twcv(8 * row, 2, len), pq16_twcv(8 * row, 4, len)>>
(* Point j lies in row j \div 16, sub-tile (j \div 8) % 2, lane j % 8. *)
pq16_tw22_get(len, j) ==
  LET row == pq16_build_tw22(len, j \div 16)
      u == (j \div 8) % 2
      l == j % 8
  IN  IF pq16_twc(len) THEN <<row[u + 1][l], f_mul(row[u + 1][l], row[u + 1][l])>>
      ELSE <<row[2 * u + 1][l], row[2 * u + 2][l]>>
pq16_tw8_get(len, j) ==
  LET row == pq16_build_tw8(len, j \div 8)
      l == j % 8
  IN  IF pq16_twc(len) THEN <<row[1][l], f_rot81(row[1][l]), row[2][l], f_mul(row[2][l], row[2][l])>>
      ELSE <<row[1][l], row[2][l], row[3][l], row[4][l]>>
(* l32w, l64w, l128w (a row per tile t) and the wtM of pq16_leaf_init.        *)
pq16_leaf_init ==
  [l32w |-> <<pq16_twcv(0, 1, 32), pq16_twcv(0, 2, 32)>>,
   l64w |-> <<pq16_twcv(0, 1, 64), pq16_twcv8(0, 1, 64), pq16_twcv(0, 2, 64), pq16_twcv(0, 4, 64)>>,
   l128w |-> [t \in 0 .. 3 |-> <<pq16_twcv(8 * t, 1, 128), pq16_twcv(8 * t, 2, 128)>>],
   wt |-> [M \in {5, 7} |-> [b \in 0 .. 6 |-> [l \in Lane |-> root(-(b * (l % M)), M)]]]]

-----------------------------------------------------------------------------
(* Operands: eight limbs of a stream from `at` on, then 16 points of it. *)

q_raw8(src, cnt, at) == [k \in Lane |-> IF at + k < cnt THEN src[at + k + 1] ELSE 0]
q_dec1(raw, digit) == (raw[digit \div 4] \div DB ^ (digit % 4)) % DB
q_dec1c(raw, digit) ==
  LET d == q_dec1(raw, digit) IN (IF d >= DB \div 2 THEN d - DB ELSE d) % Q
q_dec2(raw, u, l, cen) ==
  LET digit == 16 * u + 2 * l
  IN  IF cen THEN <<q_dec1c(raw, digit), q_dec1c(raw, digit + 1)>>
      ELSE <<q_dec1(raw, digit), q_dec1(raw, digit + 1)>>
q_point(src, cnt, p, cen) == q_dec2(q_raw8(src, cnt, 8 * (p \div 16)), (p \div 8) % 2, p % 8, cen)

Quads(n, F(_)) == Rows(Once([j \in 1 .. n \div 4 |-> F(j - 1)]), 4)
pq16_input_stage(src, cnt, n, cen) ==
  LET Quad(j) == LET w == pq16_tw22_get(n, j)
                 IN  q_bf4(Once([q \in 1 .. 4 |-> q_point(src, cnt, (q - 1) * (n \div 4) + j, cen)]), w[1], w[2])
  IN  Quads(n, Quad)
pq16_mem_r22(d) ==
  LET Quad(j) == LET w == pq16_tw22_get(Len(d), j) IN q_bf4(Column(d, 4, j + 1), w[1], w[2])
  IN  Quads(Len(d), Quad)
pq16_mem_ir22(d) ==
  LET Quad(j) == LET w == pq16_tw22_get(Len(d), j) IN q_ibf4(Column(d, 4, j + 1), w[1], w[2])
  IN  Quads(Len(d), Quad)

-----------------------------------------------------------------------------
(* Prime-factor input *)

q_pfa_bfly(x, M, inv) == f16_pfa_bfly(x, M, inv)
q_kmasks(M, d) == {l \in Lane : l % M = d}
q_lane_merge(y, M, ph, l) == y[1 + CHOOSE j \in 0 .. M - 1 : l \in q_kmasks(M, (j + M - ph) % M)]

q_pfa_input_merge(src, cnt, n, M, cen) ==
  LET ru(b, j) == (b * n + 8 * (j \div 8)) % M
      x(a, j) == LET b == CHOOSE b \in 0 .. M - 1 : j % 8 \in q_kmasks(M, (a + M - ru(b, j)) % M)
                 IN  q_point(src, cnt, b * n + j, cen)
  IN  Rows(Once([j \in 1 .. n |-> q_pfa_bfly(Once([a \in 1 .. M |-> x(a - 1, j - 1)]), M, FALSE)]), M)
q_pfa_input_tw(src, cnt, n, M, cen) ==
  LET x(rho, j) == q_point(src, cnt, Slots(n, M)[Rotated(M, j \div 16, (j \div 8) % 2, rho)] * n + j, cen)
      y(j) == q_pfa_bfly(Once([a \in 1 .. M |-> x(a - 1, j)]), M, FALSE)
      Fixed(v, l) == Once([b \in 1 .. M |-> f_mul(v[b], pq16_leaf_init.wt[M][b - 1][l])])
  IN  Rows(Once([j \in 1 .. n |-> Fixed(y(j - 1), (j - 1) % 8)]), M)
q_pfa_input(src, cnt, n, M, cen) ==
  IF M = 3 THEN q_pfa_input_merge(src, cnt, n, 3, cen) ELSE q_pfa_input_tw(src, cnt, n, M, cen)

-----------------------------------------------------------------------------
(* Radix-8 passes and leaves *)

Blocks(d, len, F(_)) == FlattenSeq([b \in 1 .. Len(d) \div len |-> F(Part(d, (b - 1) * len, len))])
pq16_r8_stage(d, len) ==
  LET Block(b) == Rows(Once([j \in 1 .. len \div 8 |-> q_bf8(Column(b, 8, j), pq16_tw8_get(len, j - 1))]), 8)
  IN  Blocks(d, len, Block)
pq16_ir8_stage(d, len) ==
  LET Block(b) == Rows(Once([j \in 1 .. len \div 8 |-> q_ibf8(Column(b, 8, j), pq16_tw8_get(len, j - 1))]), 8)
  IN  Blocks(d, len, Block)

Lane4(tab, l) == <<tab[1][l], tab[2][l], tab[3][l], tab[4][l]>>
Dft8Columns(v) == Rows(Once([l \in 1 .. 8 |-> q_dft8(Column(v, 8, l))]), 8)
Idft8Columns(v) == Rows(Once([l \in 1 .. 8 |-> q_idft8(Column(v, 8, l))]), 8)
q_body64(v) ==
  Dft8Columns(q_tr8cv(Rows(Once([l \in 1 .. 8 |-> q_bf8(Column(v, 8, l), Lane4(pq16_leaf_init.l64w, l - 1))]), 8)))
q_ibody64(v) ==
  LET t == q_tr8cv(Idft8Columns(v))
  IN  Rows(Once([l \in 1 .. 8 |-> q_ibf8(Column(t, 8, l), Lane4(pq16_leaf_init.l64w, l - 1))]), 8)

(* four tiles at len 32, with the vectors W1, W2 *)
Quads32(t) ==
  LET Quad(v) == Rows(Once([l \in 1 .. 8 |-> q_bf4(Column(v, 4, l), pq16_leaf_init.l32w[1][l - 1], pq16_leaf_init.l32w[2][l - 1])]), 4)
  IN  FlattenSeq([k \in 1 .. 2 |-> Quad(t[k])])
Iquads32(t) ==
  LET Quad(v) == Rows(Once([l \in 1 .. 8 |-> q_ibf4(Column(v, 4, l), pq16_leaf_init.l32w[1][l - 1], pq16_leaf_init.l32w[2][l - 1])]), 4)
  IN  FlattenSeq([k \in 1 .. 2 |-> Quad(t[k])])
pq16_leaf32x2_one(v) == Dft8Columns(q_tr8cv(Quads32(BothHalves(v))))
pq16_ileaf32x2_one(v) == Iquads32(BothHalves(q_tr8cv(Idft8Columns(v))))
pq16_leaf128_run(v) ==
  LET W(j) == pq16_leaf_init.l128w[j \div 8]
      m == BothHalves(Rows(Once([j \in 1 .. 32 |-> q_bf4(Column(v, 4, j), W(j - 1)[1][(j - 1) % 8], W(j - 1)[2][(j - 1) % 8])]), 4))
  IN  FlattenSeq([k \in 1 .. 2 |-> pq16_leaf32x2_one(m[k])])
pq16_ileaf128_run(v) ==
  LET W(j) == pq16_leaf_init.l128w[j \div 8]
      m == FlattenSeq([k \in 1 .. 2 |-> pq16_ileaf32x2_one(BothHalves(v)[k])])
  IN  Rows(Once([j \in 1 .. 32 |-> q_ibf4(Column(m, 4, j), W(j - 1)[1][(j - 1) % 8], W(j - 1)[2][(j - 1) % 8])]), 4)
pq16_leaf_run(d, leaf) ==
  LET One(v) == CASE leaf = 64 -> q_body64(v) [] leaf = 32 -> pq16_leaf32x2_one(v) [] OTHER -> pq16_leaf128_run(v)
  IN  Blocks(d, LeafSpan(leaf), One)
pq16_ileaf_run(d, leaf) ==
  LET One(v) == CASE leaf = 64 -> q_ibody64(v) [] leaf = 32 -> pq16_ileaf32x2_one(v) [] OTHER -> pq16_ileaf128_run(v)
  IN  Blocks(d, LeafSpan(leaf), One)

(* the radix-8 passes s .. e of a span, downwards and upwards *)
Swept(d, sh, s, e) ==
  LET run[k \in s - 1 .. e] == IF k < s THEN d ELSE The({pq16_r8_stage(x, sh.len[k]) : x \in {run[k - 1]}})
  IN  run[e]
Unswept(d, sh, s, e) ==
  LET run[k \in s .. e + 1] == IF k > e THEN d ELSE The({pq16_ir8_stage(x, sh.len[k]) : x \in {run[k + 1]}})
  IN  run[s]
RECURSIVE pq16_fwd_rec(_, _, _, _)
pq16_fwd_rec(d, sh, s, tier0) ==
  LET tier == TierFor(Len(d), tier0)
      s1 == LongerThan(sh, s, Tiers[tier])
      Chunk(c) == pq16_fwd_rec(c, sh, s1 + 1, tier + 1)
  IN  IF tier > Len(Tiers) THEN pq16_leaf_run(Swept(d, sh, s, Len(sh.len)), sh.leaf)
      ELSE Blocks(Swept(d, sh, s, s1), Tiers[tier], Chunk)
RECURSIVE pq16_inv_rec(_, _, _, _)
pq16_inv_rec(d, sh, s, tier0) ==
  LET tier == TierFor(Len(d), tier0)
      s1 == LongerThan(sh, s, Tiers[tier])
      Chunk(c) == pq16_inv_rec(c, sh, s1 + 1, tier + 1)
  IN  IF tier > Len(Tiers) THEN Unswept(d, sh, s, Len(sh.len))
      ELSE Unswept(Blocks(d, Tiers[tier], Chunk), sh, s, s1)
pq16_fwd_core(d) == pq16_fwd_rec(d, pq16_shape_of(Len(d)), 1, 1)
pq16_inv_r8_only(d) == pq16_inv_rec(d, pq16_shape_of(Len(d)), 1, 1)
pq16_fwd(src, cnt, n, cen) == pq16_fwd_core(pq16_input_stage(src, cnt, n, cen))
pq16_pfa_fwd(src, cnt, n, M, cen) ==
  LET Of(b) == pq16_fwd_core(pq16_mem_r22(b)) IN Blocks(q_pfa_input(src, cnt, n, M, cen), n, Of)

-----------------------------------------------------------------------------
(* Pointwise products.  x, y a position of the two operands, xn, yn its      *)
(* mirror; a branch pair gives the mirror another branch.                    *)

q_pq_pair(x, xn, y, yn, w, sc) == f16_pq_pair(x, xn, y, yn, w, sc)
q_pq_eval(x, xn, y, yn, w, sc) ==
  LET dp == <<(x[1] - xn[1]) % Q, (x[2] + xn[2]) % Q>>
      dq == <<(y[1] - yn[1]) % Q, (y[2] + yn[2]) % Q>>
  IN  f_sub(scaled(f_mul(x, y), sc), scaled(f_mul(f_mul(dp, dq), w), half(half(sc))))
q_pq_w(g, q) == f16_pq_w(g, q)
(* group g holds the table's entries 16 g .. 16 g + 15, lane t of slot q      *)
(* needs 2 t + (q >> 2)                                                       *)
q_pq_gsel(pqn, g, q, t) == root(pq16_bitrev(16 * g + 2 * t + q \div 4, lg(pqn) - 2), pqn)
q_pq_gsel_rot(pqn, g, q, t, w3) == f_mul(q_pq_gsel(pqn, g, q, t), w3)
(* positions 0 .. 7: components swapped (k8(0xCC)), then signs               *)
q_pq_head_w(pqn, p, w3) ==
  LET g == f_mul(root(pq16_bitrev(p \div 4, lg(pqn) - 2), pqn), w3)
      re == IF p % 4 >= 2 THEN g[2] ELSE g[1]
      im == IF p % 4 >= 2 THEN g[1] ELSE g[2]
  IN  <<(1 + (IF p % 4 \in {1, 2} THEN -re ELSE re)) % Q, (IF p % 2 = 1 THEN -im ELSE im) % Q>>

(* The two arrays after a pair of slots: L (gl, q) with R (gr, 7 - q).        *)
q_pw_groups_cross(L, R, oL, oR, gl, gr, pqn, w3, sc) ==
  LET z == Once([c \in Cells |->
             LET q == (c - 1) \div 8   l == (c - 1) % 8
             IN  q_pq_pair(At(L, gl, q, l), At(R, gr, 7 - q, 7 - l), At(oL, gl, q, l), At(oR, gr, 7 - q, 7 - l),
                           q_pq_w(q_pq_gsel_rot(pqn, gl, q, l, w3), q), sc)])
  IN  [l |-> Once([c \in Cells |-> z[c][1]]), r |-> Once([c \in Cells |-> z[65 - c][2]])]
(* A group with itself: slots 0 .. 3 only, their mirrors are the others. *)
q_pw_groups(A, B, gl, gr, pqn, sc) ==
  LET v == q_pw_groups_cross(A, A, B, B, gl, gr, pqn, <<1, 0>>, sc)
      inner == [c \in Cells |-> IF c <= 32 THEN v.l[c] ELSE v.r[c]]
  IN  IF gl = gr THEN WithGroup(A, gl, inner) ELSE WithGroup(Once(WithGroup(A, gl, v.l)), gr, v.r)
(* Group 0: lane 0 holds positions 0 .. 7 one by one; the other lanes pair    *)
(* slot q with 7 - q and lane l with P8[l].                                   *)
HeadSlots(L, R, oL, oR, q, l, pqn, w3, sc) ==
  q_pq_pair(At(L, 0, q, l), At(R, 0, 7 - q, P8[l + 1]), At(oL, 0, q, l), At(oR, 0, 7 - q, P8[l + 1]),
            q_pq_w(q_pq_gsel_rot(pqn, 0, q, l, w3), q), sc)
HeadColumn(L, R, oL, oR, q, pqn, w3, sc) ==
  q_pq_eval(At(L, 0, q, 0), At(R, 0, P8[q + 1], 0), At(oL, 0, q, 0), At(oR, 0, P8[q + 1], 0),
            q_pq_head_w(pqn, q, w3), sc)
q_pw_head(A, B, pqn, sc) ==
  LET v(q, l) == IF l = 0 THEN HeadColumn(A, A, B, B, q, pqn, <<1, 0>>, sc)
                 ELSE IF q < 4 THEN HeadSlots(A, A, B, B, q, l, pqn, <<1, 0>>, sc)[1]
                 ELSE HeadSlots(A, A, B, B, 7 - q, P8[l + 1], pqn, <<1, 0>>, sc)[2]
  IN  WithGroup(A, 0, Once([c \in Cells |-> v((c - 1) \div 8, (c - 1) % 8)]))
q_pw_head_cross(L, R, oL, oR, pqn, w3, sc) ==
  LET vl(q, l) == IF l = 0 THEN HeadColumn(L, R, oL, oR, q, pqn, w3, sc)
                  ELSE HeadSlots(L, R, oL, oR, q, l, pqn, w3, sc)[1]
      vr(q, l) == IF l = 0 THEN HeadColumn(R, L, oR, oL, q, pqn, conj(w3), sc)
                  ELSE HeadSlots(L, R, oL, oR, 7 - q, P8[l + 1], pqn, w3, sc)[2]
  IN  [l |-> Once([c \in Cells |-> vl((c - 1) \div 8, (c - 1) % 8)]),
       r |-> Once([c \in Cells |-> vr((c - 1) \div 8, (c - 1) % 8)])]
q_ileaf_group(A, g, leaf) ==
  LET w == LeafSpan(leaf)
      at == IF leaf = 128 THEN 128 * (g \div 2) ELSE 64 * g
  IN  Part(A, 0, at) \o pq16_ileaf_run(Part(A, at, w), leaf) \o Part(A, at + w, Len(A) - at - w)

(* The order of the fused passes, base by base: the pairs of groups, and the  *)
(* groups whose inverse leaves follow (one group stands for a 128 block).     *)
Bases(n) == [k \in 1 .. lg(n) - 7 |-> 2 ^ (k - 1)]             \* base / 128
pq16_pointwise_ileaves(n, leaf) ==
  LET Step2(g0, gl) == LET gr == 3 * g0 - 1 - gl
                       IN  [gl |-> gl, gr |-> gr,
                            leaves |-> CASE leaf # 128 -> <<gl, gr>>
                                         [] leaf = 128 /\ g0 = 2 -> <<gl>>
                                         [] leaf = 128 /\ g0 # 2 /\ gl % 2 = 1 -> <<gl - 1, gr>>
                                         [] OTHER -> <<>>]
      OfBase(h) == [i \in 1 .. h |-> Step2(2 * h, 2 * h + i - 1)]
  IN  <<[gl |-> 0, gr |-> 0, leaves |-> <<>>],
        [gl |-> 1, gr |-> 1, leaves |-> IF leaf = 128 THEN <<0>> ELSE <<0, 1>>]>>
        \o FlattenSeq([k \in DOMAIN Bases(n) |-> OfBase(Bases(n)[k])])
pq16_pointwise_cross_ileaves(n, leaf) ==
  LET both == IF leaf = 128 THEN <<0>> ELSE <<0, 1>>
      Step2(g0, gl) == LET gr == 3 * g0 - 1 - gl
                       IN  [gl |-> gl, gr |-> gr,
                            l |-> CASE leaf # 128 -> <<gl>> [] leaf = 128 /\ gl % 2 = 1 -> <<gl - 1>> [] OTHER -> <<>>,
                            r |-> CASE leaf # 128 -> <<gr>> [] leaf = 128 /\ gl % 2 = 1 -> <<gr>> [] OTHER -> <<>>]
      OfBase(h) == [i \in 1 .. 2 * h |-> Step2(2 * h, 2 * h + i - 1)]
  IN  <<[gl |-> 0, gr |-> 0, l |-> <<>>, r |-> <<>>], [gl |-> 1, gr |-> 1, l |-> both, r |-> both]>>
        \o FlattenSeq([k \in DOMAIN Bases(n) |-> OfBase(Bases(n)[k])])

-----------------------------------------------------------------------------
(* Prime-factor output, in digit order.  Region b's tile at point j takes     *)
(* the outputs of residue (b n + j) mod M, lane by lane.                      *)

Regions(n, M, o(_, _)) == Once([p \in 1 .. M * n |-> o((p - 1) \div n, (p - 1) % n)])
Bflies(d, n, M) == Once([j \in 1 .. n |-> q_pfa_bfly(Branches(d, n, M, j), M, TRUE)])
q_pfa_emit_merge(d, n, M) ==
  LET y == Bflies(d, n, M)
      o(b, j) == q_lane_merge(y[j + 1], M, (((b * n) % M) + 16 * (j \div 16) + 8 * ((j \div 8) % 2)) % M, j % 8)
  IN  Regions(n, M, o)
q_pfa_natural_impl(d, n, M) ==
  LET y == Bflies(d, n, M)
      o(b, j) == q_lane_merge(y[j + 1], M, (((b * n) % M) + 8 * (j \div 8)) % M, j % 8)
  IN  Regions(n, M, o)
q_pfa_emit_tw(d, n, M) ==
  LET Fixed(x, l) == Once([b \in 1 .. M |-> f_mulc(x[b], pq16_leaf_init.wt[M][b - 1][l])])
      y == Once([j \in 1 .. n |-> q_pfa_bfly(Fixed(Branches(d, n, M, j), (j - 1) % 8), M, TRUE)])
      (* rg after i rotations by 16 mod M, read at j or j - 8 mod M *)
      slot(i, u, r) == Slots(n, M)[Rotated(M, i, u, r)]
      o(b, j) == y[j + 1][1 + CHOOSE r \in 0 .. M - 1 : slot(j \div 16, (j \div 8) % 2, r) = b]
  IN  Regions(n, M, o)
=============================================================================
