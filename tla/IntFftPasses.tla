---------------------------- MODULE IntFftPasses ----------------------------
(***************************************************************************)
(* The passes of reference/int_fft.hpp, the older right-angle FFT: the     *)
(* same transform as PqFft on tiles of four complex numbers, in radix 4    *)
(* with 8- or 16-point tails, its prime-factor stages turned by slot       *)
(* instead of by lane masks, and its operands read through codecs of       *)
(* several digit widths.                                                   *)
(*                                                                         *)
(* An array is the sequence of its complex numbers; tile t is its numbers  *)
(* 4 t + 1 .. 4 t + 4.  tn is the size the plan's tables were built for.   *)
(***************************************************************************)
EXTENDS PqFft

CONSTANTS
  Block,       \* points of a cascade's leaf, a power of 4: 256
  IterMin,     \* INT_FFT_ITER_CASCADE_MIN_COMPLEX: 2^16
  CachePairs   \* input_cache_pairs: 64

Tile(d, t) == SubSeq(d, 4 * t + 1, 4 * t + 4)
Evenly(parts, w) ==                  \* parts of length w one after the other
  Once([p \in 1 .. w * Len(parts) |-> parts[((p - 1) \div w) + 1][((p - 1) % w) + 1]])
Each(d, w, Op(_)) ==
  LET y == Once([b \in 1 .. Len(d) \div w |-> Op(Part(d, (b - 1) * w, w))]) IN Evenly(y, w)
Blocks(d, w) == [b \in 1 .. Len(d) \div w |-> Part(d, (b - 1) * w, w)]

-----------------------------------------------------------------------------
(* Operands.  A codec cuts a number into digits: four to a limb (u16, wide,  *)
(* centered) or `bits` wide across limbs (fixed); tile k of the operand is   *)
(* its digits 8 k .. 8 k + 7 in pairs.                                       *)

WordBits == 4 * lg(DB)
load_u16_pair(src, pair) == Once([l \in 1 .. 4 |-> point(src, Len(src), pair + l - 1, 0)])
load_u16_centered_pair(src, pair) == Once([l \in 1 .. 4 |-> point(src, Len(src), pair + l - 1, 1)])

(* FixedBitStream: groups of four digits, zeros behind the operand. *)
GroupBits(bits) == 4 * bits
next_limb(src, i) == IF i < Len(src) THEN src[i + 1] ELSE 0
take(st, src, bits) ==
  LET g == GroupBits(bits)
      need == g - st.fill
      x == next_limb(src, st.limb)
  IN  IF st.fill < g
        THEN [limb |-> st.limb + 1, fill |-> WordBits - need, stream |-> x \div 2 ^ need,
              out |-> Append(st.out, st.stream + (x % 2 ^ need) * 2 ^ st.fill)]
        ELSE [limb |-> st.limb, fill |-> st.fill - g, stream |-> st.stream \div 2 ^ g,
              out |-> Append(st.out, st.stream % 2 ^ g)]
RECURSIVE Taken(_, _, _, _)
Taken(st, src, bits, k) ==
  IF k = 0 THEN st.out ELSE The({Taken(s, src, bits, k - 1) : s \in {take(st, src, bits)}})

CacheTiles == CachePairs \div 4
PairOf(g, k, bits) == LET p == (g \div 2 ^ (2 * bits * k)) % 2 ^ (2 * bits) IN <<p % 2 ^ bits, p \div 2 ^ bits>>
store_cache_tile_fixed(g0, g1, bits) == <<PairOf(g0, 0, bits), PairOf(g0, 1, bits), PairOf(g1, 0, bits), PairOf(g1, 1, bits)>>
refill_input_cache_fixed(src, bits, limb) ==
  LET g == Taken([limb |-> limb, fill |-> 0, stream |-> 0, out |-> <<>>], src, bits, 2 * CacheTiles)
  IN  Once([t \in 1 .. CacheTiles |-> store_cache_tile_fixed(g[2 * t - 1], g[2 * t], bits)])
(* Whole tiles at once, from a window of two limbs: anything may stand       *)
(* behind the operand.                                                       *)
Behind(src, i) == IF i < Len(src) THEN src[i + 1] ELSE LB - 1
unpack_trunk_tile_aosov(src, bits, at) ==
  LET digit(o) == (((Behind(src, o \div WordBits) \div 2 ^ (o % WordBits))
                      + (Behind(src, (o \div WordBits) + 1) % 2 ^ bits) * 2 ^ (WordBits - (o % WordBits))) % 2 ^ bits)
  IN  [l \in 1 .. 4 |-> <<digit(at + 2 * (l - 1) * bits), digit(at + (2 * l - 1) * bits)>>]
refill_input_cache_simd(src, bits, limb) ==
  Once([t \in 1 .. CacheTiles |-> unpack_trunk_tile_aosov(src, bits, limb * WordBits + 8 * bits * (t - 1))])
SimdLimbs(bits) == ((CacheTiles - 1) * 8 * bits + 2 * WordBits + WordBits - 1) \div WordBits

(* max_pair and input_cache of a codec, one line for each input stream. *)
NewCache == [max_pair |-> [tag \in 0 .. 7 |-> 0], lines |-> [tag \in 0 .. 7 |-> <<>>]]
reset_input_cache_kept(cache) == cache
reset_input_cache(cache) == [cache EXCEPT !.max_pair = [tag \in 0 .. 7 |-> 0]]
refill_input_cache(cache, src, bits, tag, pair) ==
  LET base == pair - (pair % CachePairs)
      limb == (base * 2 * bits) \div WordBits
  IN  [max_pair |-> [cache.max_pair EXCEPT ![tag] = base + CachePairs],
       lines |-> [cache.lines EXCEPT ![tag] =
                    IF limb + SimdLimbs(bits) <= Len(src) THEN refill_input_cache_simd(src, bits, limb)
                    ELSE refill_input_cache_fixed(src, bits, limb)]]

(* The tiles at a sequence of encoded pair indexes (twice the index, with    *)
(* the number of the input stream in the low 3 bits), in the order read.     *)
TagOf(e) == e % 8
PairIndex(e) == 4 * (e \div 8)
LoadedTile(cache, src, bits, e) ==
  LET tag == TagOf(e)
      pair == PairIndex(e)
  IN  The({[tiles |-> <<c.lines[tag][((pair % CachePairs) \div 4) + 1]>>, cache |-> c] :
             c \in {IF pair + 4 > cache.max_pair[tag] THEN refill_input_cache(cache, src, bits, tag, pair) ELSE cache}})
RECURSIVE CachedTiles(_, _, _, _)
CachedTiles(cache, src, bits, es) ==        \* by halves
  LET h == Len(es) \div 2
      Then(low) == The({[tiles |-> low.tiles \o high.tiles, cache |-> high.cache] :
                          high \in {CachedTiles(low.cache, src, bits, SubSeq(es, h + 1, Len(es)))}})
  IN  IF h = 0 THEN LoadedTile(cache, src, bits, es[1])
      ELSE The({Then(low) : low \in {CachedTiles(cache, src, bits, SubSeq(es, 1, h))}})
load_pair4_encoded(io, src, es) ==
  CASE io.kind = "fixed" -> CachedTiles(io.cache, src, io.bits, es)
    [] io.kind = "centered" ->
         [tiles |-> Once([i \in 1 .. Len(es) |-> load_u16_centered_pair(src, PairIndex(es[i]))]), cache |-> io.cache]
    [] OTHER ->
         [tiles |-> Once([i \in 1 .. Len(es) |-> load_u16_pair(src, PairIndex(es[i]))]), cache |-> io.cache]

-----------------------------------------------------------------------------
(* Tables: plan.tw and plan.pq_omega_br of a plan built for size tn.         *)

stage_tw(tn, len, j) ==
  LET r1 == j * (tn \div len) IN <<root(r1, tn), root(2 * r1, tn)>>

(* Tails: a 4-point transform inside each tile, after a radix-2 or radix-4   *)
(* butterfly for blocks of 8 or 16 points.                                   *)
Unit == <<1, 0>>
fwd_pair(x) == r22(x, <<Unit, Unit>>)
inv_pair(y) == ir22(y, <<Unit, Unit>>)
fwd_pair4(d) == Each(d, 4, fwd_pair)
inv_pair4(d) == Each(d, 4, inv_pair)
fwd_tail8(d) ==
  fwd_pair4(Once([p \in 1 .. 8 |-> IF p <= 4 THEN f_add(d[p], d[p + 4])
                                   ELSE f_mul(f_sub(d[p - 4], d[p]), root(p - 5, 8))]))
inv_tail8(d) ==
  LET v == inv_pair4(d)
      t(l) == f_mulc(v[l + 4], root(l - 1, 8))
  IN  Once([p \in 1 .. 8 |-> IF p <= 4 THEN f_add(v[p], t(p)) ELSE f_sub(v[p - 4], t(p - 4))])
Butterflies(d, tn) ==
  LET len == Len(d)
  IN  Rows(Once([j \in 1 .. len \div 4 |-> r22(Column(d, 4, j), stage_tw(tn, len, j - 1))]), 4)
InverseButterflies(d, tn) ==
  LET len == Len(d)
  IN  Rows(Once([j \in 1 .. len \div 4 |-> ir22(Column(d, 4, j), stage_tw(tn, len, j - 1))]), 4)
fwd_tail16(d, tn) == fwd_pair4(Butterflies(d, tn))
inv_tail16(d, tn) == InverseButterflies(inv_pair4(d), tn)
tail_block_complex(n) == IF n >= 16 /\ lg(n) % 2 = 0 THEN 16 ELSE IF n >= 8 THEN 8 ELSE 4
fwd_tail_range(d, tn) ==
  LET blk == tail_block_complex(Len(d))
  IN  CASE blk = 16 -> Each(d, 16, LAMBDA x : fwd_tail16(x, tn))
        [] blk = 8  -> Each(d, 8, fwd_tail8)
        [] OTHER    -> fwd_pair4(d)
inv_tail_range(d, tn) ==
  LET blk == tail_block_complex(Len(d))
  IN  CASE blk = 16 -> Each(d, 16, LAMBDA x : inv_tail16(x, tn))
        [] blk = 8  -> Each(d, 8, inv_tail8)
        [] OTHER    -> inv_pair4(d)
fwd_range(d, len, tn) == Each(d, len, LAMBDA x : Butterflies(x, tn))
inv_range(d, len, tn) == Each(d, len, LAMBDA x : InverseButterflies(x, tn))

-----------------------------------------------------------------------------
(* Cascades: the radix-4 stages from length `from` down, and back up.        *)

cascade_block_complex(n) == LET blk == Block * 2 ^ (lg(n) % 2) IN IF blk < n THEN blk ELSE n
cascade_tail_complex(n) == 16 \div 2 ^ (lg(n) % 2)
stage_lg_at_or_below_any(k, limit) == IF k > limit THEN limit ELSE k
stage_lg_at_or_below(k, limit) ==
  LET low == IF k > limit THEN limit ELSE k IN IF (low + limit) % 2 = 1 THEN low - 1 ELSE low
TrailingZeros(x) == CHOOSE k \in 0 .. 30 : x % 2 ^ k = 0 /\ x % 2 ^ (k + 1) # 0

RECURSIVE StagesDown(_, _, _, _)             \* lengths len, len / 4, ... above floor
StagesDown(d, len, floor, tn) ==
  IF len <= floor THEN d ELSE The({StagesDown(x, len \div 4, floor, tn) : x \in {fwd_range(d, len, tn)}})
RECURSIVE StagesUp(_, _, _, _)               \* lengths len, 4 len, ... up to top
StagesUp(d, len, top, tn) ==
  IF len > top THEN d ELSE The({StagesUp(x, 4 * len, top, tn) : x \in {inv_range(d, len, tn)}})
RECURSIVE LeafLength(_, _)
LeafLength(len, blk) == IF len > blk THEN LeafLength(len \div 4, blk) ELSE len

fwd_cascade_leaf(d, cur, tail, tn) == fwd_tail_range(StagesDown(d, cur, tail, tn), tn)
inv_cascade_leaf(d, cur, tail, tn) == StagesUp(inv_tail_range(d, tn), 4 * tail, cur, tn)

fwd_cascade_stage_major(d, from, tn) ==
  LET n == Len(d)
      blk == cascade_block_complex(n)
      leaf == LeafLength(from, blk)
      tail == cascade_tail_complex(n)
  IN  Each(StagesDown(d, from, blk, tn), blk, LAMBDA x : fwd_cascade_leaf(x, leaf, tail, tn))
inv_cascade_stage_major(d, from, tn) ==
  LET n == Len(d)
      blk == cascade_block_complex(n)
      leaf == LeafLength(from, blk)
      tail == cascade_tail_complex(n)
  IN  StagesUp(Each(d, blk, LAMBDA x : inv_cascade_leaf(x, leaf, tail, tn)), 4 * leaf, from, tn)

(* Depth first: before the leaf at `base` the stages whose blocks begin      *)
(* there, largest first; after it the stages whose blocks end there.         *)
OnSpan(d, at, len, Op(_)) ==
  SubSeq(d, 1, at) \o Op(Part(d, at, len)) \o SubSeq(d, at + len + 1, Len(d))
RECURSIVE Beginning(_, _, _, _, _)
Beginning(d, base, k, leafLg, tn) ==
  IF k <= leafLg THEN d
  ELSE The({Beginning(x, base, k - 2, leafLg, tn) :
              x \in {OnSpan(d, base, 2 ^ k, LAMBDA y : Butterflies(y, tn))}})
RECURSIVE Ending(_, _, _, _, _)
Ending(d, end, k, top, tn) ==
  IF k > top THEN d
  ELSE The({Ending(x, end, k + 2, top, tn) :
              x \in {OnSpan(d, end - 2 ^ k, 2 ^ k, LAMBDA y : InverseButterflies(y, tn))}})
RECURSIVE FwdLeaves(_, _, _, _)
FwdLeaves(d, base, from, tn) ==
  LET n == Len(d)
      blk == cascade_block_complex(n)
      leaf == LeafLength(from, blk)
      top == IF base = 0 THEN lg(from) ELSE stage_lg_at_or_below(TrailingZeros(base), lg(from))
      begun == Beginning(d, base, top, lg(leaf), tn)
  IN  IF base >= n THEN d
      ELSE The({FwdLeaves(x, base + blk, from, tn) :
                  x \in {OnSpan(begun, base, blk, LAMBDA y : fwd_cascade_leaf(y, leaf, cascade_tail_complex(n), tn))}})
RECURSIVE InvLeaves(_, _, _, _)
InvLeaves(d, base, from, tn) ==
  LET n == Len(d)
      blk == cascade_block_complex(n)
      leaf == LeafLength(from, blk)
      end == base + blk
      done == OnSpan(d, base, blk, LAMBDA y : inv_cascade_leaf(y, leaf, cascade_tail_complex(n), tn))
  IN  IF base >= n THEN d
      ELSE The({InvLeaves(x, end, from, tn) :
                  x \in {Ending(done, end, lg(leaf) + 2, stage_lg_at_or_below(TrailingZeros(end), lg(from)), tn)}})
fwd_cascade_iter(d, from, tn) == FwdLeaves(d, 0, from, tn)
inv_cascade_iter(d, from, tn) == InvLeaves(d, 0, from, tn)

use_iter_cascade(M, from) == M = 1 /\ from >= IterMin
fwd_cascade(d, M, from, tn) ==
  IF use_iter_cascade(M, from) THEN fwd_cascade_iter(d, from, tn) ELSE fwd_cascade_stage_major(d, from, tn)
inv_cascade(d, M, from, tn) ==
  IF use_iter_cascade(M, from) THEN inv_cascade_iter(d, from, tn) ELSE inv_cascade_stage_major(d, from, tn)

-----------------------------------------------------------------------------
(* Prime-factor sizes M n: stripe m of the natural order starts at m n.      *)
(* Slot a of the heads holds the stripe whose first point has residue a;     *)
(* four points further on every residue has moved by 4 modulo M.             *)

rot_idx(i, M, k) == ((i - 1 + k * ((-4) % M)) % M) + 1     \* what slot i took after k turns
Turns(q, M, by, k) ==          \* the slots of k tiles, one after the other
  Once([x \in 1 .. M * k |->
    LET t == (x - 1) \div M IN q[rot_idx(((x - 1) % M) + 1, M, t)] + t * by])
Heads(M, n) ==
  [a \in 1 .. M |-> LET m == CHOOSE m \in 0 .. M - 1 : (m * (n % M)) % M = a - 1 IN 2 * m * n + m]
pfa_shuffle_fwd(s, M) ==
  [a \in 1 .. M |-> [l \in 1 .. 4 |-> s[((a - l) % M) + 1][l]]]
pfa_shuffle_inv(y, M) ==
  [p \in 1 .. M |-> [l \in 1 .. 4 |-> y[((p + l - 2) % M) + 1][l]]]
pfa3_butterfly(x, inv) == f16_pfa3(x, inv)
pfa5_butterfly(x, inv) == f16_pfa5_core(x, inv)
pfa7_butterfly(x, inv) == f16_pfa7_core(x, inv)
pfa_butterfly(x, M, inv) ==
  CASE M = 3 -> pfa3_butterfly(x, inv) [] M = 5 -> pfa5_butterfly(x, inv) [] OTHER -> pfa7_butterfly(x, inv)
(* four lanes of M tiles through the butterfly *)
LanesThrough(x, M, inv) ==
  LET y == Once([l \in 1 .. 4 |-> pfa_butterfly(Once([a \in 1 .. M |-> x[a][l]]), M, inv)])
  IN  Once([b \in 1 .. M |-> Once([l \in 1 .. 4 |-> y[l][b]])])
fwd_pfa_unpack(io, src, n, M) ==
  LET got == load_pair4_encoded(io, src, Turns(Once(Heads(M, n)), M, 8, n \div 4))
      tiles == Once([t \in 1 .. n \div 4 |->
                 LanesThrough(pfa_shuffle_fwd(Part(got.tiles, M * (t - 1), M), M), M, FALSE)])
  IN  [data |-> Evenly(Once([b \in 1 .. M |-> Evenly([t \in 1 .. n \div 4 |-> tiles[t][b]], 4)]), n), cache |-> got.cache]

(* Outputs: <<tile of the natural order, four numbers>>, in emission order.  *)
Slots0(M, n) ==
  [p \in 1 .. M |-> LET b == CHOOSE b \in 0 .. M - 1 : (b * (n % M)) % M = p - 1 IN (n \div 4) * b]
inv_pfa_butterfly_emit(d, n, M) ==
  LET slots == Turns(Once(Slots0(M, n)), M, 1, n \div 4)
      out == Once([t \in 1 .. n \div 4 |->
               pfa_shuffle_inv(LanesThrough(Once([b \in 1 .. M |-> Tile(d, (n \div 4) * (b - 1) + t - 1)]), M, TRUE), M)])
  IN  Once([k \in 1 .. Len(slots) |-> <<slots[k], out[((k - 1) \div M) + 1][((k - 1) % M) + 1]>>])
inv_final_range_emit(d, tn) ==
  LET x == InverseButterflies(d, tn) IN Once([t \in 1 .. Len(d) \div 4 |-> <<t - 1, Tile(x, t - 1)>>])

-----------------------------------------------------------------------------
(* The dispatchers. *)

unpack_fwd(io, src, n, tn) ==
  LET l == n \div 4
      es == [i \in 1 .. l |-> LET j == 4 * ((i - 1) \div 4)  k == (i - 1) % 4 IN 2 * (j + k * l) + k]
      got == load_pair4_encoded(io, src, Once(es))
      natural == Once([p \in 1 .. n |-> LET k == (p - 1) \div l  j == (p - 1) % l
                                        IN  got.tiles[4 * (j \div 4) + k + 1][(j % 4) + 1]])
  IN  [data |-> Butterflies(natural, tn), cache |-> got.cache]
fwd(io0, src, n, M, tn) ==
  LET io == [io0 EXCEPT !.cache = reset_input_cache(io0.cache)]
      pfa == fwd_pfa_unpack(io, src, n, M)
      few == load_pair4_encoded(io, src, [t \in 1 .. n \div 4 |-> 8 * (t - 1)])
      first == unpack_fwd(io, src, n, tn)
  IN  CASE M # 1 -> [data |-> Each(pfa.data, n, LAMBDA x : fwd_cascade(x, M, n, tn)), cache |-> pfa.cache]
        [] M = 1 /\ n < 32 -> [data |-> fwd_tail_range(Evenly(few.tiles, 4), tn), cache |-> few.cache]
        [] OTHER -> [data |-> fwd_cascade(first.data, 1, n \div 4, tn), cache |-> first.cache]

(* inv and the last pass of inv_recover_pow2 and inv_recover_pfa *)
inv_emit(d, n, M, tn) ==
  CASE M # 1 -> inv_pfa_butterfly_emit(Each(d, n, LAMBDA x : inv_cascade(x, M, n, tn)), n, M)
    [] M = 1 /\ n < 32 ->
         LET x == inv_tail_range(d, tn) IN Once([t \in 1 .. n \div 4 |-> <<t - 1, Tile(x, t - 1)>>])
    [] OTHER -> inv_final_range_emit(inv_cascade(d, 1, n \div 4, tn), tn)

-----------------------------------------------------------------------------
(* The pointwise product: position p with its mirror, inside a branch or     *)
(* between branches b and M - b.  Squares use the same formulas with y = x.  *)

Mirror(p) ==
  IF p < 8 THEN P8[p + 1]
  ELSE LET base == CHOOSE b \in {8 * 2 ^ k : k \in 0 .. 20} : b <= p /\ p < 2 * b IN 3 * base - 1 - p
Lower(p) == p < 8 \/ (p < Mirror(p))
pq_twiddle(tn, p, rot) == f16_pq_w(f_mul(pq_table(tn, p \div 4), rot), p)
pq_eval4_pair(L, R, oL, oR, p, tn, rot, sc) ==      \* position p of L with its mirror in R
  f16_pq_pair(L[p + 1], R[Mirror(p) + 1], oL[p + 1], oR[Mirror(p) + 1], pq_twiddle(tn, p, rot), sc)
pq_mul_self_scan(A, B, tn, sc) ==
  Once([i \in 1 .. Len(A) |->
          LET p == i - 1
          IN  IF Lower(p) THEN pq_eval4_pair(A, A, B, B, p, tn, Unit, sc)[1]
              ELSE pq_eval4_pair(A, A, B, B, Mirror(p), tn, Unit, sc)[2]])
pq_mul_cross_scan(L, R, oL, oR, tn, sc, rot) ==
  LET pair == Once([i \in 1 .. Len(L) |-> pq_eval4_pair(L, R, oL, oR, i - 1, tn, rot, sc)])
  IN  [l |-> Once([i \in 1 .. Len(L) |-> pair[i][1]]),
       r |-> Once([i \in 1 .. Len(L) |->
                     IF Len(L) >= 8 THEN pair[Mirror(i - 1) + 1][2]
                     ELSE pq_eval4_pair(R, L, oR, oL, i - 1, tn, conj(rot), sc)[1]])]
RECURSIVE CrossScans(_, _, _, _, _, _)
CrossScans(A, B, M, tn, sc, b) ==          \* A, B: the branches
  IF b > M \div 2 THEN A
  ELSE The({CrossScans([A EXCEPT ![b + 1] = v.l, ![M - b + 1] = v.r], B, M, tn, sc, b + 1) :
              v \in {pq_mul_cross_scan(A[b + 1], A[M - b + 1], B[b + 1], B[M - b + 1], tn, sc, omega(M, b))}})
pointwise_mul(da, db, n, M, tn) ==
  LET sc == inverse((n * M) % Q)
      A == Blocks(da, n)
      B == Blocks(db, n)
  IN  Evenly(CrossScans(<<pq_mul_self_scan(A[1], B[1], tn, sc)>> \o SubSeq(A, 2, M), B, M, tn, sc, 1), n)
pointwise_sqr(d, n, M, tn) == pointwise_mul(d, d, n, M, tn)
=============================================================================
